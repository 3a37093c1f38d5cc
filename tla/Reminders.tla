----------------------------- MODULE Reminders -----------------------------
(***************************************************************************)
(* A bill reminder (RemindersService,                                      *)
(* src/src/modules/reminders/reminders.service.ts).  Marking a recurring   *)
(* bill paid records the payment and rolls the bill on to its next due     *)
(* date; undoing the payment takes it back.                                *)
(*                                                                         *)
(* update and undoPayment read the document, change their copy and save    *)
(* its modified paths.  A payment is sent as a push to the array, which    *)
(* succeeds whatever the array holds by then; an undo as the whole array,  *)
(* which is conditional on the document's __v.  Both increment __v: copies *)
(* read before are then "stale".                                           *)
(*                                                                         *)
(* The calendar is a sequence of month lengths.  Titles, categories,       *)
(* amounts, notes and paidAt are left out.                                 *)
(***************************************************************************)
EXTENDS Undefined, Integers, Sequences, FiniteSets

CONSTANTS
    MonthLengths,  \* of the months of the calendar
    Starts,        \* bills as created
    Bodies,        \* bodies of updates; absent fields are None
    Requests,      \* requests that can be in flight at the same time
    MaxPayments    \* bound on the payments of a bill

Months == 1..Len(MonthLengths)

Date == [month : Months, day : 1..31]

Exists(d) == d.day <= MonthLengths[d.month]

Frequencies == {"Monthly", "Quarterly", "Yearly", "One-time"}

Payment == [due : Date, reminder : Date]

Bill == [due : Date, reminder : Date, freq : Frequencies,
         status : {"pending", "paid"}, payments : Seq(Payment)]

Body == [due : Date \cup {None}, reminder : Date \cup {None},
         freq : Frequencies \cup {None}, status : {"pending", "paid", None}]

\* A bill is created pending and unpaid.
ASSUME RemindersAssumption ==
    /\ MonthLengths \in Seq(1..31) /\ MaxPayments \in Nat
    /\ None \notin Bill \cup Date \cup Frequencies \cup {"pending", "paid"}
    /\ \A b \in Starts : /\ b \in Bill /\ Exists(b.due) /\ Exists(b.reminder)
                         /\ b.status = "pending" /\ b.payments = << >>
    /\ \A body \in Bodies : /\ body \in Body
                            /\ body.due # None => Exists(body.due)
                            /\ body.reminder # None => Exists(body.reminder)

VARIABLES
    bill,      \* the document, None if there is none
    req,       \* what each request is about to save
    start      \* history: the document as created, None once another field was edited
               \* or two requests overlapped

reminderVars == <<bill, req, start>>

\* The modified paths, and what is sent of the payments: the one to push, or all there
\* are left.
Request == [op : {"idle", "keep", "push", "pop"}, set : Body,
            payments : Seq(Payment), stale : BOOLEAN]

RemindersTypeOK ==
    /\ bill \in Bill \cup {None}
    /\ bill # None => Exists(bill.due) /\ Exists(bill.reminder)
    /\ req \in [Requests -> Request]
    /\ start \in Bill \cup {None}

----------------------------------------------------------------------------
\* The calendar.
PERIOD_MONTHS == [Monthly |-> 1, Quarterly |-> 3, Yearly |-> 12]

DaysBefore[m \in Months] == IF m = 1 THEN 0 ELSE DaysBefore[m - 1] + MonthLengths[m - 1]

DayNumber(d) == DaysBefore[d.month] + d.day

DaysBetween(from, to) == DayNumber(to) - DayNumber(from)

AddDays(d, n) ==
    LET number == DayNumber(d) + n
        m == CHOOSE m \in Months : number - DaysBefore[m] \in 1..MonthLengths[m]
    IN [month |-> m, day |-> number - DaysBefore[m]]

Smaller(x, y) == IF x < y THEN x ELSE y

\* Mutant: a date built from its parts without regard to the length of the month.
AddMonthsUnclamped(d, n, anchorDay) == [month |-> d.month + n, day |-> anchorDay]

AddMonths(d, n, anchorDay) ==
    [month |-> d.month + n, day |-> Smaller(anchorDay, MonthLengths[d.month + n])]

----------------------------------------------------------------------------
Nothing == [due |-> None, reminder |-> None, freq |-> None, status |-> None]

NoRequest == [op |-> "idle", set |-> Nothing, payments |-> << >>, stale |-> FALSE]

RemindersInit ==
    /\ bill = None
    /\ req = [r \in Requests |-> NoRequest]
    /\ start = None

InFlight == {r \in Requests : req[r] # NoRequest}

\* A new bill is another document: it appears here once no request is about the last one.
Create ==
    \E b \in Starts :
        /\ bill = None
        /\ InFlight = {}
        /\ bill' = b
        /\ start' = b
        /\ UNCHANGED req

Remove ==
    /\ bill # None
    /\ bill' = None
    /\ start' = None
    /\ UNCHANGED req

Or(value, old) == IF value = None THEN old ELSE value

\* Mutant: the day the bill is due now.
AnchorDayCurrent(b) == b.due.day

\* The day of the first due date on record.
AnchorDay(b) == IF b.payments = << >> THEN b.due.day ELSE b.payments[1].due.day

Lead(b) == LET days == DaysBetween(b.reminder, b.due) IN IF days < 0 THEN 0 ELSE days

\* rollForward.
Rolled(b) ==
    LET next == AddMonths(b.due, PERIOD_MONTHS[b.freq], AnchorDay(b)) IN
    [b EXCEPT !.payments = Append(b.payments, [due |-> b.due, reminder |-> b.reminder]),
              !.due = next,
              !.reminder = AddDays(next, -Lead(b)),
              !.status = "pending"]

Edited(b, body) ==
    [b EXCEPT !.due = Or(body.due, b.due), !.reminder = Or(body.reminder, b.reminder),
              !.freq = Or(body.freq, b.freq)]

\* Whether an update pays a recurring bill.
Pays(b, body) ==
    /\ body.status = "paid"
    /\ b.status # "paid"
    /\ b.freq # "One-time"

Updated(b, body) ==
    LET edited == Edited(b, body) IN
    IF Pays(edited, body) THEN Rolled(edited)
    ELSE IF body.status # None /\ body.status # b.status
    THEN [edited EXCEPT !.status = body.status]
    ELSE edited

\* Bound: the payments, and the end of the calendar.
WithinBounds(b) ==
    /\ Len(b.payments) < MaxPayments
    /\ b.due.month + PERIOD_MONTHS[b.freq] < Len(MonthLengths)

Modified(new, old) == IF new # old THEN new ELSE None

\* A request has changed its copy of the document into new.
Begin(r, op, new, payments) ==
    /\ req[r] = NoRequest
    /\ req' = [req EXCEPT ![r] =
                  [op |-> op, payments |-> payments, stale |-> FALSE,
                   set |-> [due      |-> Modified(new.due, bill.due),
                            reminder |-> Modified(new.reminder, bill.reminder),
                            freq     |-> Modified(new.freq, bill.freq),
                            status   |-> Modified(new.status, bill.status)]]]
    /\ UNCHANGED bill

\* update up to its save.
UpdateRead(r) ==
    /\ bill # None
    /\ \E body \in Bodies :
        LET edited == Edited(bill, body)
            pays == Pays(edited, body)
            new == Updated(bill, body)
        IN
        /\ pays => WithinBounds(edited)
        /\ IF pays THEN Begin(r, "push", new, <<new.payments[Len(new.payments)]>>)
                   ELSE Begin(r, "keep", new, << >>)
        /\ start' = IF InFlight = {} /\ edited = bill THEN start ELSE None

Undone(b) ==
    LET n == Len(b.payments) IN
    IF b.status = "paid" THEN [b EXCEPT !.status = "pending"]
    ELSE [b EXCEPT !.payments = SubSeq(b.payments, 1, n - 1),
                   !.due = b.payments[n].due,
                   !.reminder = b.payments[n].reminder]

\* undoPayment up to its save.
UndoRead(r) ==
    /\ bill # None
    /\ bill.status = "paid" \/ bill.payments # << >>
    /\ IF bill.status = "paid" THEN Begin(r, "keep", Undone(bill), << >>)
                               ELSE Begin(r, "pop", Undone(bill), Undone(bill).payments)
    /\ start' = IF InFlight = {} THEN start ELSE None

\* Mutant: the array is saved whatever has become of it.
ConflictNever(q) == FALSE

Conflict(q) == q.op = "pop" /\ q.stale

\* The payments once the save of a request has arrived.
SavedPayments(q) ==
    CASE q.op = "push" -> bill.payments \o q.payments
      [] q.op = "pop" -> q.payments
      [] q.op = "keep" -> bill.payments

\* The document once the modified paths are written.
Saved(q) ==
    [due |-> Or(q.set.due, bill.due), reminder |-> Or(q.set.reminder, bill.reminder),
     freq |-> Or(q.set.freq, bill.freq), status |-> Or(q.set.status, bill.status),
     payments |-> SavedPayments(q)]

\* The save; it throws on a missing document or a version conflict.
Save(r) ==
    LET q == req[r] IN
    /\ q # NoRequest
    /\ \/ /\ bill # None
          /\ ~Conflict(q)
          /\ bill' = Saved(q)
          /\ req' = [p \in Requests |->
                        IF p = r THEN NoRequest
                        ELSE IF p \in InFlight /\ q.op \in {"push", "pop"}
                        THEN [req[p] EXCEPT !.stale = TRUE]
                        ELSE req[p]]
       \/ /\ bill = None \/ Conflict(q)
          /\ req' = [req EXCEPT ![r] = NoRequest]
          /\ UNCHANGED bill
    /\ UNCHANGED start

\* A database call throws or the instance is stopped.
Fails(r) ==
    /\ req[r] # NoRequest
    /\ req' = [req EXCEPT ![r] = NoRequest]
    /\ UNCHANGED <<bill, start>>

RemindersNext ==
    \/ Create
    \/ Remove
    \/ \E r \in Requests : UpdateRead(r) \/ UndoRead(r) \/ Save(r) \/ Fails(r)

RemindersSpec == RemindersInit /\ [][RemindersNext]_reminderVars

----------------------------------------------------------------------------
\* The n-th period of a bill never edited, counted from its creation.
DueAfter(n) ==
    AddMonths(start.due, n * PERIOD_MONTHS[start.freq], start.due.day)

ReminderAfter(n) == IF n = 0 THEN start.reminder ELSE AddDays(DueAfter(n), -Lead(start))

\* A bill that is only paid and undone, one request at a time, is where its payments
\* take it: after any number of both in any order its due date is that many periods
\* from the first one, at the first one's day or the end of a shorter month (the 31st
\* does not drift), with the same lead, and each period left behind has one record.
OnSchedule ==
    start # None =>
        /\ bill.freq = start.freq
        /\ bill.freq = "One-time" => [bill EXCEPT !.status = "pending"] = start
        /\ bill.freq # "One-time" =>
            LET n == Len(bill.payments) IN
            /\ bill.status = "pending"
            /\ bill.due = DueAfter(n)
            /\ bill.reminder = ReminderAfter(n)
            /\ \A i \in 1..n : bill.payments[i] = [due |-> DueAfter(i - 1),
                                                   reminder |-> ReminderAfter(i - 1)]

\* Whatever requests overlap, a payment once recorded is lost only by an undo that has
\* seen it: the list grows at its end by one or loses its last payment.
PaymentsKept ==
    [][bill # None /\ bill' # None =>
        LET n == Len(bill.payments) IN
        \/ bill'.payments = bill.payments
        \/ Len(bill'.payments) = n + 1 /\ SubSeq(bill'.payments, 1, n) = bill.payments
        \/ n > 0 /\ bill'.payments = SubSeq(bill.payments, 1, n - 1)]_reminderVars
============================================================================
