--------------------------- MODULE GroupBalances ---------------------------
(***************************************************************************)
(* GroupsService.getBalances (src/src/modules/groups/groups.service.ts):   *)
(* the members' net balances computed from the group's expenses, and the   *)
(* two lists of payments it may show with them: the simplified one, by the *)
(* loop of DebtSimplification, and the pairwise one.  The expenses and     *)
(* their edits are GroupLedger's.                                          *)
(*                                                                         *)
(* The simplified list is computed in one synchronous stretch, so nothing  *)
(* else happens until it is shown; the pairwise one is a function of the   *)
(* expenses and takes no step of its own.                                  *)
(***************************************************************************)
EXTENDS GroupLedger, FiniteSetsExt, Sequences

VARIABLES
    simplifyDebts,  \* the group's setting
    net, debtors, creditors, amount, d, c, settlements, left, phase
                    \* of the call of simplify, see DebtSimplification

simplifierVars ==
    <<net, debtors, creditors, amount, d, c, settlements, left, phase>>

vars == <<ledger, edit, overlapped, simplifyDebts, net, debtors, creditors,
          amount, d, c, settlements, left, phase>>

Simplifier == INSTANCE DebtSimplification WITH Balances <- [Members -> Int]

TypeOK ==
    /\ LedgerTypeOK
    /\ simplifyDebts \in BOOLEAN
    /\ Simplifier!TypeOK

Recorded == {e \in Expenses : ledger[e] # None}

\* Mutant: settle-ups are not counted.
NetOfSpending ==
    [m \in Members |->
        MapThenSumSet(LAMBDA e : (IF ledger[e].paidBy = m THEN ledger[e].total ELSE 0)
                                 - ledger[e].split[m],
                      {e \in Recorded : ~ledger[e].isSettlement})]

\* What each member has paid less what they have consumed.
Net ==
    [m \in Members |->
        MapThenSumSet(LAMBDA e : (IF ledger[e].paidBy = m THEN ledger[e].total ELSE 0)
                                 - ledger[e].split[m],
                      Recorded)]

\* Mutant: settle-ups are not counted.
OwesOfSpending(a, b) ==
    IF a = b THEN 0
    ELSE MapThenSumSet(LAMBDA e : ledger[e].split[a],
                       {e \in Recorded : ledger[e].paidBy = b /\ ~ledger[e].isSettlement})

\* The shares of a in what b paid.  One's own share is no debt.
Owes(a, b) ==
    IF a = b THEN 0
    ELSE MapThenSumSet(LAMBDA e : ledger[e].split[a],
                       {e \in Recorded : ledger[e].paidBy = b})

\* The list with simplifyDebts off: what remains of the two directions of a pair.
Pairwise ==
    {[from |-> p[1], to |-> p[2], amountMinor |-> Owes(p[1], p[2]) - Owes(p[2], p[1])] :
        p \in {q \in Members \X Members : Owes(q[1], q[2]) > Owes(q[2], q[1])}}

----------------------------------------------------------------------------
Init ==
    /\ LedgerInit
    /\ simplifyDebts = TRUE
    /\ Simplifier!Init

LedgerStep ==
    /\ phase = "idle"
    /\ LedgerNext
    /\ UNCHANGED simplifyDebts
    /\ UNCHANGED simplifierVars

\* The group's owner turns the setting over (update).
ToggleSimplifyDebts ==
    /\ phase = "idle"
    /\ simplifyDebts' = ~simplifyDebts
    /\ UNCHANGED ledgerVars
    /\ UNCHANGED simplifierVars

GetBalances ==
    /\ simplifyDebts
    /\ Simplifier!Simplify(Net)
    /\ UNCHANGED ledgerVars
    /\ UNCHANGED simplifyDebts

SimplifierStep ==
    /\ Simplifier!Settle \/ Simplifier!Return \/ Simplifier!Answered
    /\ UNCHANGED ledgerVars
    /\ UNCHANGED simplifyDebts

Next == LedgerStep \/ ToggleSimplifyDebts \/ GetBalances \/ SimplifierStep

Spec == Init /\ [][Next]_vars

----------------------------------------------------------------------------
\* What the total of an expense has over its splits (or under, if negative).
Drift(e) == ledger[e].total - SumFunction(ledger[e].split)

DriftPaidBy(m) == MapThenSumSet(Drift, {e \in Recorded : ledger[e].paidBy = m})

\* The balances once the pairwise list is paid.
LeftAfterPairwise ==
    [m \in Members |->
        Net[m]
        + MapThenSumSet(LAMBDA s : s.amountMinor, {s \in Pairwise : s.from = m})
        - MapThenSumSet(LAMBDA s : s.amountMinor, {s \in Pairwise : s.to = m})]

\* Paying the simplified list of getBalances leaves what the totals of the expenses
\* have over their splits, all on one side: nobody keeps a balance where every
\* expense is split to the paisa, and never more is left than the tolerance of
\* addExpense let in.
SimplifiedLeavesDrift ==
    phase = "listed" =>
        LET drift == MapThenSumSet(Drift, Recorded) IN
        /\ SumFunction(left) = drift
        /\ drift >= 0 => \A m \in Members : left[m] >= 0
        /\ drift <= 0 => \A m \in Members : left[m] <= 0

\* Paying the pairwise list leaves each member with the drift of what they paid, so
\* both modes of getBalances describe the same money: where the splits are exact,
\* everyone is even in either of them.
PairwiseLeavesDrift == \A m \in Members : LeftAfterPairwise[m] = DriftPaidBy(m)

\* Recording a payment takes its amount off what the payer owes the receiver in the
\* pairwise list (and beyond it turns the debt round) and leaves every other pair
\* alone; the members' balances move by the amount, the others' not at all
\* (recordSettlement, "so they reduce the pair's debt naturally").
SettleUpReducesDebt ==
    [][\A from, to \in Members, x \in Payments :
        LET added == {e \in Expenses : ledger[e] = None /\ ledger'[e] # None} IN
        /\ from # to
        /\ \E e \in added : ledger'[e] = Settlement(from, to, x)
        => /\ \A a, b \in Members :
                (Owes(a, b) - Owes(b, a))' =
                    (Owes(a, b) - Owes(b, a))
                    + (IF <<a, b>> = <<from, to>> THEN -x
                       ELSE IF <<a, b>> = <<to, from>> THEN x ELSE 0)
           /\ \A m \in Members :
                Net'[m] = Net[m] + (IF m = from THEN x ELSE IF m = to THEN -x ELSE 0)]_vars
============================================================================
