------------------------ MODULE DebtSimplification ------------------------
(***************************************************************************)
(* DebtSimplificationService.simplify                                      *)
(* (src/src/modules/groups/services/debt-simplification.service.ts): from  *)
(* the members' net balances in paise, who pays whom.  Debtors and         *)
(* creditors are sorted by amount and matched by two pointers; each turn   *)
(* of the loop is a step.                                                  *)
(*                                                                         *)
(* A member is on one of the two sides at most, so one function holds the  *)
(* amounts of both.  Members with equal amounts may come in any order.     *)
(***************************************************************************)
EXTENDS Integers, Sequences, FiniteSets

CONSTANTS
    Members,  \* the names in the balances
    Balances  \* the balances simplify is called with

ASSUME MembersAssumption == IsFiniteSet(Members)
ASSUME BalancesAssumption == Balances \subseteq [Members -> Int]

VARIABLES
    net,          \* the balances: the argument
    debtors,      \* names, largest debt first
    creditors,    \* names, largest credit first
    amount,       \* what is still to be paid by a debtor or to a creditor
    d, c,         \* the indices, 0-based
    settlements,  \* the result
    left,         \* history: the balances once the settlements so far are paid
    phase         \* "idle", in the loop ("matching") or after it ("listed")

vars == <<net, debtors, creditors, amount, d, c, settlements, left, phase>>

Zero == [m \in Members |-> 0]

Settlement == [from : Members, to : Members, amountMinor : Nat \ {0}]

TypeOK ==
    /\ net \in [Members -> Int]
    /\ debtors \in Seq(Members)
    /\ creditors \in Seq(Members)
    /\ amount \in [Members -> Nat]
    /\ d \in 0..Len(debtors)
    /\ c \in 0..Len(creditors)
    /\ settlements \in Seq(Settlement)
    /\ left \in [Members -> Int]
    /\ phase \in {"idle", "matching", "listed"}

----------------------------------------------------------------------------
Init ==
    /\ net = Zero
    /\ debtors = << >>
    /\ creditors = << >>
    /\ amount = Zero
    /\ d = 0
    /\ c = 0
    /\ settlements = << >>
    /\ left = Zero
    /\ phase = "idle"

Debtors(balances) == {m \in Members : balances[m] < 0}
Creditors(balances) == {m \in Members : balances[m] > 0}

Owing(balances) ==
    [m \in Members |-> IF balances[m] < 0 THEN -balances[m] ELSE balances[m]]

\* The orders sort may return for the members of a side, largest amount first.
Sorted(side, amounts) ==
    {s \in [1..Cardinality(side) -> side] :
        \A i, j \in 1..Cardinality(side) :
            i < j => s[i] # s[j] /\ amounts[s[i]] >= amounts[s[j]]}

\* A call of simplify.
Simplify(balances) ==
    /\ phase = "idle"
    /\ net' = balances
    /\ amount' = Owing(balances)
    /\ debtors' \in Sorted(Debtors(balances), Owing(balances))
    /\ creditors' \in Sorted(Creditors(balances), Owing(balances))
    /\ d' = 0
    /\ c' = 0
    /\ settlements' = << >>
    /\ left' = balances
    /\ phase' = "matching"

\* Mutant: the last debtor is left out.
MoreShort == d + 1 < Len(debtors) /\ c < Len(creditors)

More == d < Len(debtors) /\ c < Len(creditors)

\* Mutant: one unit at a time.
SettledOne(debtor, creditor) == 1

\* Mutant: the larger of the two.
SettledLarger(debtor, creditor) ==
    IF amount[debtor] < amount[creditor] THEN amount[creditor] ELSE amount[debtor]

Settled(debtor, creditor) ==
    IF amount[debtor] < amount[creditor] THEN amount[debtor] ELSE amount[creditor]

\* Mutant: only the first of the two comparisons.
AdvanceFirst(i, side, rest) == IF rest = 0 /\ side = debtors THEN i + 1 ELSE i

Advance(i, side, rest) == IF rest = 0 THEN i + 1 ELSE i

\* One turn of the loop.  A settlement of nothing is not pushed.
Settle ==
    /\ phase = "matching"
    /\ More
    /\ LET debtor == debtors[d + 1]
           creditor == creditors[c + 1]
           settled == Settled(debtor, creditor)
       IN
       /\ settlements' = IF settled > 0
                         THEN Append(settlements, [from |-> debtor, to |-> creditor,
                                                   amountMinor |-> settled])
                         ELSE settlements
       /\ left' = [m \in Members |->
                      IF m = debtor THEN left[m] + settled
                      ELSE IF m = creditor THEN left[m] - settled
                      ELSE left[m]]
       /\ amount' = [m \in Members |->
                        IF m \in {debtor, creditor} THEN amount[m] - settled
                        ELSE amount[m]]
       /\ d' = Advance(d, debtors, amount[debtor] - settled)
       /\ c' = Advance(c, creditors, amount[creditor] - settled)
    /\ UNCHANGED <<net, debtors, creditors, phase>>

\* The end of the loop.
Return ==
    /\ phase = "matching"
    /\ ~More
    /\ phase' = "listed"
    /\ UNCHANGED <<net, debtors, creditors, amount, d, c, settlements, left>>

\* The caller has sent its answer; the call's variables are gone.
Answered ==
    /\ phase = "listed"
    /\ net' = Zero
    /\ debtors' = << >>
    /\ creditors' = << >>
    /\ amount' = Zero
    /\ d' = 0
    /\ c' = 0
    /\ settlements' = << >>
    /\ left' = Zero
    /\ phase' = "idle"

Next ==
    \/ \E balances \in Balances : Simplify(balances)
    \/ Settle
    \/ Return
    \/ Answered

Spec == Init /\ [][Next]_vars

\* simplify is one synchronous call: once it runs, nothing else does.
FairSpec == Spec /\ WF_vars(Settle) /\ WF_vars(Return)

----------------------------------------------------------------------------
\* Paying the settlements listed so far asks nobody to pay more than they owe and
\* gives nobody more than they are owed: every balance moves towards zero and never
\* past it, at every turn of the loop.
NothingOverpaid ==
    \A m \in Members :
        \/ net[m] <= left[m] /\ left[m] <= 0
        \/ 0 <= left[m] /\ left[m] <= net[m]

\* Once the loop has ended, no debt is left that a credit could still take:
\* either all debtors or all creditors are at exactly zero (they end up so
\* together when the balances add up to zero).
OneSideSettled ==
    phase = "listed" =>
        \/ \A m \in Members : left[m] >= 0
        \/ \A m \in Members : left[m] <= 0

\* The list never has as many payments as there are members to settle: one fewer
\* than debtors and creditors together.
FewPayments ==
    settlements # << >> => Len(settlements) < Len(debtors) + Len(creditors)

\* The loop ends, whatever the balances: each turn takes a pointer further.
Terminates == phase = "matching" ~> phase = "listed"
============================================================================
