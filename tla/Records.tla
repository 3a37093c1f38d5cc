------------------------------ MODULE Records ------------------------------
(***************************************************************************)
(* A user's khata entries, planner tasks and subscriptions (KhataService,  *)
(* TasksService, SubscriptionsService under src/src/modules/).  Each is a  *)
(* document of its own.  Some operations read the document and write what  *)
(* they made of it in a second awaited call, naming the fields they change *)
(* and checking no version; a write to a document that is gone fails.      *)
(*                                                                         *)
(* Subscriptions are those of one category: only these are compared with   *)
(* each other.  Names, notes, phones, icons and dates are left out; the    *)
(* entries are of one person.                                              *)
(***************************************************************************)
EXTENDS Undefined, Integers, FiniteSetsExt

CONSTANTS
    Calls,       \* requests; each is made once and names what it creates
    Old,         \* ids of documents that may be there from before
    Amounts      \* of subscriptions, in paise

VARIABLES
    khata,       \* status of each entry, "none" if there is no such entry
    tasks,
    subs,
    call,        \* what each request has read and is about to write
    mixed        \* history: subscriptions whose last update overlapped another

recordVars == <<khata, tasks, subs, call, mixed>>

Ids == Calls \cup Old

Cycles == {"Monthly", "Yearly"}

Task == [status : {"todo", "done"}, completed : BOOLEAN]

NewTask == [status |-> "todo", completed |-> FALSE]

Sub == [amount : Amounts, cycle : Cycles, annual : Nat]

\* What a request has read and computed.  A saved sub names the amount and the cycle of the
\* body, None if absent; alone: no other update of the subscription has overlapped it.
Call ==
    [op : {"ended"}]
    \cup [op : {"toggle"}, id : Ids, status : {"pending", "settled"}]
    \cup [op : {"task"}, id : Ids, status : {"todo", "done"}, completes : BOOLEAN]
    \cup [op : {"sub"}, id : Ids, amount : Amounts \cup {None}, cycle : Cycles \cup {None},
          annual : Nat, alone : BOOLEAN]

ASSUME RecordsAssumption ==
    /\ IsFiniteSet(Ids)
    /\ Amounts \subseteq Nat
    /\ None \notin Task \cup Sub \cup Call \cup Cycles

MONTHS_PER_YEAR == 12

\* A rupee every month, in paise a year: amounts are paise.
MonthlyRupee == 100 * MONTHS_PER_YEAR

AnnualCost(amount, cycle) == IF cycle = "Monthly" THEN amount * MONTHS_PER_YEAR ELSE amount

\* What there may be from before: entries, and subscriptions that fit.
RecordInit ==
    /\ khata \in [Ids -> {"none", "pending", "settled"}]
    /\ tasks = [i \in Ids |-> None]
    /\ subs \in [Ids -> {None} \cup {[amount |-> a, cycle |-> cy, annual |-> AnnualCost(a, cy)] :
                                      a \in Amounts, cy \in Cycles}]
    /\ \A c \in Calls : khata[c] = "none" /\ subs[c] = None
    /\ call = [c \in Calls |-> None]
    /\ mixed = {}

Fresh(c) == call[c] = None

At(c, op) == call[c] # None /\ call[c].op = op

Ends(c) == call' = [call EXCEPT ![c] = [op |-> "ended"]]

----------------------------------------------------------------------------
\* Khata.
ToggleRead(c, e) ==
    /\ Fresh(c) /\ khata[e] # "none"
    /\ call' = [call EXCEPT ![c] = [op |-> "toggle", id |-> e, status |->
                    IF khata[e] = "pending" THEN "settled" ELSE "pending"]]
    /\ UNCHANGED <<khata, tasks, subs, mixed>>

\* Mutant: the save inserts the document if it is gone.
ToggleSaveInserts(c) ==
    /\ At(c, "toggle")
    /\ khata' = [khata EXCEPT ![call[c].id] = call[c].status]
    /\ Ends(c)
    /\ UNCHANGED <<tasks, subs, mixed>>

ToggleSave(c) ==
    /\ At(c, "toggle")
    /\ khata' = [khata EXCEPT ![call[c].id] = IF @ = "none" THEN @ ELSE call[c].status]
    /\ Ends(c)
    /\ UNCHANGED <<tasks, subs, mixed>>

SettleAllForPerson(c) ==
    /\ Fresh(c)
    /\ khata' = [e \in Ids |-> IF khata[e] = "none" THEN "none" ELSE "settled"]
    /\ Ends(c)
    /\ UNCHANGED <<tasks, subs, mixed>>

CreateEntry(c) ==
    /\ Fresh(c)
    /\ khata' = [khata EXCEPT ![c] = "pending"]
    /\ Ends(c)
    /\ UNCHANGED <<tasks, subs, mixed>>

RemoveEntry(c, e) ==
    /\ Fresh(c) /\ khata[e] # "none"
    /\ khata' = [khata EXCEPT ![e] = "none"]
    /\ Ends(c)
    /\ UNCHANGED <<tasks, subs, mixed>>

----------------------------------------------------------------------------
\* Tasks.
CreateTask(c) ==
    /\ Fresh(c)
    /\ tasks' = [tasks EXCEPT ![c] = NewTask]
    /\ Ends(c)
    /\ UNCHANGED <<khata, subs, mixed>>

\* Whether the task is completed by the update is decided by the status read; reopening
\* names completedAt with no value, which is not sent.
TaskRead(c, t, status) ==
    /\ Fresh(c) /\ tasks[t] # None
    /\ call' = [call EXCEPT ![c] = [op |-> "task", id |-> t, status |-> status,
                    completes |-> status = "done" /\ tasks[t].status = "todo"]]
    /\ UNCHANGED <<khata, tasks, subs, mixed>>

TaskSave(c) ==
    /\ At(c, "task")
    /\ tasks' = IF tasks[call[c].id] = None THEN tasks
                ELSE [tasks EXCEPT ![call[c].id].status = call[c].status,
                                   ![call[c].id].completed = @ \/ call[c].completes]
    /\ Ends(c)
    /\ UNCHANGED <<khata, subs, mixed>>

RemoveTask(c, t) ==
    /\ Fresh(c) /\ tasks[t] # None
    /\ tasks' = [tasks EXCEPT ![t] = None]
    /\ Ends(c)
    /\ UNCHANGED <<khata, subs, mixed>>

----------------------------------------------------------------------------
\* Subscriptions.
CreateSub(c, amount, cycle) ==
    /\ Fresh(c)
    /\ subs' = [subs EXCEPT ![c] = [amount |-> amount, cycle |-> cycle,
                                    annual |-> AnnualCost(amount, cycle)]]
    /\ Ends(c)
    /\ UNCHANGED <<khata, tasks, mixed>>

\* Mutant: an update without an amount leaves the annual cost alone.
NewAnnualIfAmount(old, amount, cycle) ==
    IF amount = None THEN old.annual
    ELSE AnnualCost(amount, IF cycle = None THEN old.cycle ELSE cycle)

NewAnnual(old, amount, cycle) ==
    AnnualCost(IF amount = None THEN old.amount ELSE amount,
               IF cycle = None THEN old.cycle ELSE cycle)

\* The body's amount and cycle, each None if absent.
SubRead(c, s, amount, cycle) ==
    LET others == {d \in Calls : At(d, "sub") /\ call[d].id = s}
    IN /\ Fresh(c) /\ subs[s] # None
       /\ call' = [d \in Calls |->
             IF d = c THEN [op |-> "sub", id |-> s, amount |-> amount, cycle |-> cycle,
                            annual |-> NewAnnual(subs[s], amount, cycle),
                            alone |-> others = {}]
             ELSE IF d \in others THEN [call[d] EXCEPT !.alone = FALSE] ELSE call[d]]
       /\ UNCHANGED <<khata, tasks, subs, mixed>>

SubSave(c) ==
    LET body == call[c]
        s    == body.id
        old  == subs[s]
    IN /\ At(c, "sub")
       /\ subs' = IF old = None THEN subs ELSE [subs EXCEPT ![s] =
                     [amount |-> IF body.amount = None THEN old.amount ELSE body.amount,
                      cycle  |-> IF body.cycle = None THEN old.cycle ELSE body.cycle,
                      annual |-> body.annual]]
       /\ mixed' = IF body.alone THEN mixed \ {s} ELSE mixed \cup {s}
       /\ Ends(c)
       /\ UNCHANGED <<khata, tasks>>

RemoveSub(c, s) ==
    /\ Fresh(c) /\ subs[s] # None
    /\ subs' = [subs EXCEPT ![s] = None]
    /\ Ends(c)
    /\ UNCHANGED <<khata, tasks, mixed>>

\* withComputedRedundancy: every one except the cheapest, by the amount as charged.  Of
\* equal ones the first in the order of the list, which differs between callers.
Active == {s \in Ids : subs[s] # None}

Cheapest == {s \in Active : \A r \in Active : subs[s].amount <= subs[r].amount}

Redundant(kept) == IF Cardinality(Active) < 2 THEN {} ELSE Active \ {kept}

\* What the assistant says a year without them saves.
RedundantSavings(kept) ==
    MapThenSumSet(LAMBDA s : IF subs[s].cycle = "Yearly" THEN subs[s].amount
                             ELSE subs[s].amount * MONTHS_PER_YEAR, Redundant(kept))

\* The savings page: their monthly equivalents, as a year of them, rounded to whole rupees
\* a month (Math.round: a half goes up), and a year of that.
RedundantYearly(kept) ==
    MapThenSumSet(LAMBDA s : IF subs[s].cycle = "Yearly" THEN subs[s].annual
                             ELSE subs[s].amount * MONTHS_PER_YEAR, Redundant(kept))

AvoidedExpenses(kept) == (RedundantYearly(kept) + MonthlyRupee \div 2) \div MonthlyRupee

PotentialSavings(kept) == AvoidedExpenses(kept) * MonthlyRupee

----------------------------------------------------------------------------
RecordNext ==
    \/ \E c \in Calls, i \in Ids :
          \/ ToggleRead(c, i) \/ RemoveEntry(c, i) \/ RemoveTask(c, i) \/ RemoveSub(c, i)
          \/ \E status \in {"todo", "done"} : TaskRead(c, i, status)
          \/ \E a \in Amounts \cup {None}, cy \in Cycles \cup {None} : SubRead(c, i, a, cy)
    \/ \E c \in Calls :
          \/ ToggleSave(c) \/ TaskSave(c) \/ SubSave(c)
          \/ SettleAllForPerson(c) \/ CreateEntry(c) \/ CreateTask(c)
          \/ \E a \in Amounts, cy \in Cycles : CreateSub(c, a, cy)

----------------------------------------------------------------------------
\* a and b name the same saving, but for half a rupee a month.
WithinRounding(a, b) == a - b <= MonthlyRupee \div 2 /\ b - a <= MonthlyRupee \div 2

\* The annual cost fits amount and cycle after any updates no two of which overlapped, and
\* again after the next one that did not.  Then the savings page promises what the assistant
\* does, up to its rounding to whole rupees a month and unless equal amounts of different
\* cycles compete, and what is kept is the cheapest of the year if all are charged at the
\* same interval.
SubscriptionFigures ==
    /\ \A s \in Active \ mixed : subs[s].annual = AnnualCost(subs[s].amount, subs[s].cycle)
    /\ Active \cap mixed = {} => \A k, l \in Cheapest :
          /\ subs[k].cycle = subs[l].cycle
                => WithinRounding(RedundantSavings(k), PotentialSavings(l))
          /\ (\A s \in Active : subs[s].cycle = subs[k].cycle)
                => \A s \in Redundant(k) : subs[k].annual <= subs[s].annual
=============================================================================
