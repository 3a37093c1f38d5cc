---------------------------- MODULE MCReminders ----------------------------
\* Reminders from January to June, for TLC.
EXTENDS Reminders, TLC

MCMonthLengths == <<31, 28, 31, 30, 31, 30>>

On(m, d) == [month |-> m, day |-> d]

Fresh(due, reminder, freq) ==
    [due |-> due, reminder |-> reminder, freq |-> freq, status |-> "pending",
     payments |-> << >>]

\* A bill due at the end of months of every length, one whose alert comes after the
\* due date, and a single one.
MCStarts ==
    {Fresh(On(1, 31), On(1, 28), "Monthly"),
     Fresh(On(1, 31), On(2, 28), "Quarterly"),
     Fresh(On(1, 31), On(1, 28), "One-time")}

Sent(due, reminder, freq, status) ==
    [due |-> due, reminder |-> reminder, freq |-> freq, status |-> status]

\* Pay; move a bill; make it a monthly one and pay; make it a single one, unpaid.
MCBodies ==
    {Sent(None, None, None, "paid"),
     Sent(On(2, 28), On(2, 25), None, None),
     Sent(None, None, "Monthly", "paid"),
     Sent(None, None, "One-time", "pending")}

MCPaid == {Sent(None, None, None, "paid")}

Symmetry == Permutations(Requests)
============================================================================
