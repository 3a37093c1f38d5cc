---------------------------- MODULE GroupLedger ----------------------------
(***************************************************************************)
(* The amounts of a group's expenses: who paid, the total, and how it is   *)
(* split (src/src/modules/groups/groups.service.ts).  GroupShares models   *)
(* the same handlers for the personal copies of the shares; here the       *)
(* copies are left out and the figures that the balances are computed from *)
(* are kept.                                                               *)
(*                                                                         *)
(* updateExpense reads the document, checks the figures it has in memory   *)
(* and saves: two database calls, so updates overlap.  save() sends the    *)
(* modified paths alone.  If splits is one of them it is conditional on    *)
(* the document's __v and increments it (every copy read before is then    *)
(* "stale"); paidBy and totalAmountMinor are written unconditionally.      *)
(***************************************************************************)
EXTENDS Integers, FiniteSets, Functions

CONSTANTS
    Members,    \* the group's member names
    Expenses,   \* slots for expense documents
    Requests,   \* updates that can be in flight at the same time
    Bodies,     \* request bodies for adding or updating; an absent field is None
    Payments,   \* amounts of settlements
    Tolerance,  \* SPLIT_SUM_TOLERANCE_MINOR, in paise
    None        \* "undefined"

ASSUME FiniteAssumption == IsFiniteSet(Members) /\ IsFiniteSet(Expenses)
ASSUME ToleranceAssumption == Tolerance \in Nat
ASSUME PaymentsAssumption == Payments \subseteq Nat \ {0}

VARIABLES
    ledger,     \* the group's expense documents
    edit,       \* an update's modified paths, between its read and its save
    overlapped  \* history: expenses of which two updates were in flight at once

ledgerVars == <<ledger, edit, overlapped>>

\* split[m] is the sum of m's lines, 0 if there is none.
Split == [Members -> Nat]

Doc == [paidBy : Members, total : Nat, split : Split, isSettlement : BOOLEAN]

Body == [paidBy : Members \cup {None}, total : Nat \cup {None},
         split : Split \cup {None}]

ASSUME NoneAssumption ==
    None \notin Members \cup Expenses \cup Nat \cup Split \cup Doc
ASSUME BodiesAssumption == Bodies \subseteq Body

\* Paths that are not modified are None.
Edit == [expense : Expenses \cup {None}, paidBy : Members \cup {None},
         total : Nat \cup {None}, split : Split \cup {None}, stale : BOOLEAN]

LedgerTypeOK ==
    /\ \A e \in Expenses : ledger[e] # None => ledger[e] \in Doc
    /\ DOMAIN ledger = Expenses
    /\ edit \in [Requests -> Edit]
    /\ overlapped \subseteq Expenses

----------------------------------------------------------------------------
NoEdit == [expense |-> None, paidBy |-> None, total |-> None, split |-> None,
           stale |-> FALSE]

LedgerInit ==
    /\ ledger = [e \in Expenses |-> None]
    /\ edit = [r \in Requests |-> NoEdit]
    /\ overlapped = {}

InFlightOn(e) == {r \in Requests : edit[r].expense = e}

\* "Split amounts must add up to the total bill amount", more or less.
Fits(total, split) ==
    /\ total - SumFunction(split) <= Tolerance
    /\ SumFunction(split) - total <= Tolerance

Insert(doc) ==
    \E e \in Expenses :
        /\ ledger[e] = None
        /\ InFlightOn(e) = {}
        /\ ledger' = [ledger EXCEPT ![e] = doc]
        /\ overlapped' = overlapped \ {e}
        /\ UNCHANGED edit

AddExpense ==
    \E b \in Bodies :
        /\ b.paidBy # None /\ b.total # None /\ b.split # None
        /\ Fits(b.total, b.split)
        /\ Insert([paidBy |-> b.paidBy, total |-> b.total, split |-> b.split,
                   isSettlement |-> FALSE])

\* Mutant: recorded as if the creditor had paid the debtor.
SettlementSwapped(from, to, x) ==
    [paidBy |-> to, total |-> x,
     split |-> [m \in Members |-> IF m = from THEN x ELSE 0], isSettlement |-> TRUE]

\* A settle-up is an expense of the one who pays, with the receiver for only split.
Settlement(from, to, x) ==
    [paidBy |-> from, total |-> x,
     split |-> [m \in Members |-> IF m = to THEN x ELSE 0], isSettlement |-> TRUE]

RecordSettlement ==
    \E from, to \in Members, x \in Payments :
        /\ from # to
        /\ Insert(Settlement(from, to, x))

\* What a path set to a value is in the update sent: nothing if it has that value.
Modified(value, old) == IF value = old THEN None ELSE value

Or(value, old) == IF value = None THEN old ELSE value

\* Mutant: new splits are compared with the total of the document as it was.
AcceptedOldTotal(doc, b) == Fits(doc.total, Or(b.split, doc.split))

\* updateExpense's check of the sum, with the figures read where the body has none.
Accepted(doc, b) ==
    \/ b.total = None /\ b.split = None
    \/ Fits(Or(b.total, doc.total), Or(b.split, doc.split))

\* updateExpense up to its save.  Splits that differ in no amount may still be a
\* modified path, for their weights or their links.
UpdateRead(r) ==
    \E e \in Expenses, b \in Bodies :
        LET doc == ledger[e] IN
        /\ edit[r] = NoEdit
        /\ doc # None
        /\ Accepted(doc, b)
        /\ \E split \in {Modified(b.split, doc.split), b.split} :
            edit' = [edit EXCEPT ![r] =
                        [expense |-> e, paidBy |-> Modified(b.paidBy, doc.paidBy),
                         total |-> Modified(b.total, doc.total), split |-> split,
                         stale |-> FALSE]]
        /\ overlapped' = IF InFlightOn(e) = {} THEN overlapped ELSE overlapped \cup {e}
        /\ UNCHANGED ledger

\* Mutant: an absent field is written as undefined.
SavedAsSent(doc, u) == [doc EXCEPT !.paidBy = u.paidBy]

\* The document once the modified paths are written.
Saved(doc, u) ==
    [doc EXCEPT !.paidBy = Or(u.paidBy, doc.paidBy),
                !.total = Or(u.total, doc.total),
                !.split = Or(u.split, doc.split)]

\* Replacing the splits outdates the other copies of e.
Outdate(r, e, splits) ==
    [q \in Requests |->
        IF q = r THEN NoEdit
        ELSE IF edit[q].expense = e /\ splits # None
        THEN [edit[q] EXCEPT !.stale = TRUE]
        ELSE edit[q]]

\* The save; it throws if the document is gone or a version conflict is found.
UpdateSave(r) ==
    LET u == edit[r] IN
    /\ u # NoEdit
    /\ \/ /\ ledger[u.expense] # None
          /\ u.split # None => ~u.stale
          /\ ledger' = [ledger EXCEPT ![u.expense] = Saved(ledger[u.expense], u)]
          /\ edit' = Outdate(r, u.expense, u.split)
       \/ /\ ledger[u.expense] = None \/ (u.split # None /\ u.stale)
          /\ edit' = [edit EXCEPT ![r] = NoEdit]
          /\ UNCHANGED ledger
    /\ UNCHANGED overlapped

\* A database call throws or the instance is stopped; also, a confirmation of a
\* share, which replaces the splits by equal ones, was saved in between.
UpdateFails(r) ==
    /\ edit[r] # NoEdit
    /\ edit' = [edit EXCEPT ![r] = NoEdit]
    /\ UNCHANGED <<ledger, overlapped>>

\* deleteExpense, and the deletion of the whole group one expense at a time.
DeleteExpense ==
    \E e \in Expenses :
        /\ ledger[e] # None
        /\ ledger' = [ledger EXCEPT ![e] = None]
        /\ UNCHANGED <<edit, overlapped>>

LedgerNext ==
    \/ AddExpense
    \/ RecordSettlement
    \/ \E r \in Requests : UpdateRead(r) \/ UpdateSave(r) \/ UpdateFails(r)
    \/ DeleteExpense

LedgerSpec == LedgerInit /\ [][LedgerNext]_ledgerVars

----------------------------------------------------------------------------
Bills == {e \in Expenses : ledger[e] # None /\ ~ledger[e].isSettlement}

\* The splits of an expense add up to its total, within the tolerance addExpense and
\* updateExpense allow, however often it was edited, as long as no two updates of it
\* were in flight together.
SplitsAddUp ==
    \A e \in Bills \ overlapped : Fits(ledger[e].total, ledger[e].split)
============================================================================
