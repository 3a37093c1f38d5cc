---------------------- MODULE DebtSimplificationProofs ----------------------
(***************************************************************************)
(* Theorems about DebtSimplification for any finite set of members and any *)
(* integer balances, also those that do not add up to zero.                *)
(***************************************************************************)
EXTENDS DebtSimplification, FiniteSetTheorems, TLAPS

(***************************************************************************)
(* The loop invariant.  Before a pointer everyone is settled; from it on   *)
(* nobody is, and what is left of a balance is the amount still to be      *)
(* matched.  Every turn takes a pointer further, so there are no more      *)
(* settlements than turns of the pointers.                                 *)
(***************************************************************************)
DebtorsInv ==
    \A i \in 1..Len(debtors) :
        /\ net[debtors[i]] < 0
        /\ amount[debtors[i]] = -left[debtors[i]]
        /\ net[debtors[i]] <= left[debtors[i]]
        /\ i <= d <=> amount[debtors[i]] = 0

CreditorsInv ==
    \A i \in 1..Len(creditors) :
        /\ net[creditors[i]] > 0
        /\ amount[creditors[i]] = left[creditors[i]]
        /\ left[creditors[i]] <= net[creditors[i]]
        /\ i <= c <=> amount[creditors[i]] = 0

Distinct(s) == \A i, j \in 1..Len(s) : i # j => s[i] # s[j]

Listed(m, s) == \E i \in 1..Len(s) : s[i] = m

SidesInv ==
    \A m \in Members :
        \/ net[m] = 0 /\ left[m] = 0
        \/ net[m] < 0 /\ Listed(m, debtors)
        \/ net[m] > 0 /\ Listed(m, creditors)

LoopInv ==
    /\ TypeOK
    /\ phase = "idle" => net = Zero
    /\ Distinct(debtors) /\ Distinct(creditors)
    /\ DebtorsInv
    /\ CreditorsInv
    /\ SidesInv
    /\ Len(settlements) <= d + c
    /\ FewPayments
    /\ phase = "listed" => ~More

\* What sort returns holds everyone of the side, once.
LEMMA SortedSide ==
    ASSUME NEW side \in SUBSET Members, NEW amounts, NEW s \in Sorted(side, amounts)
    PROVE  /\ s \in Seq(Members)
           /\ \A i \in 1..Len(s) : s[i] \in side
           /\ Distinct(s)
           /\ \A m \in side : Listed(m, s)
<1>1. IsFiniteSet(side)
  BY MembersAssumption, FS_Subset
<1>2. Cardinality(side) \in Nat
  BY <1>1, FS_CardinalityType
<1>3. PICK n \in Nat : n = Cardinality(side)
  BY <1>2
<1>4. /\ s \in [1..n -> side]
      /\ \A i, j \in 1..n : i < j => s[i] # s[j]
  BY <1>3 DEF Sorted
<1>5. s \in Seq(Members) /\ Len(s) = n
  BY <1>4
<1>6. \A i, j \in 1..n : i # j => s[i] # s[j]
  BY <1>4
<1>7. s \in Injection(1..n, side)
  BY <1>4, <1>6 DEF Injection, IsInjective
<1>8. IsFiniteSet(1..n) /\ Cardinality(1..n) = n
  BY FS_Interval
<1>9. s \in Surjection(1..n, side)
  BY <1>1, <1>3, <1>7, <1>8, FS_Injection
<1>10. \A m \in side : \E i \in 1..n : s[i] = m
  BY <1>9 DEF Surjection
<1>11. QED  BY <1>4, <1>5, <1>6, <1>10 DEF Distinct, Listed

\* The ranges of what the loop reads.
LEMMA Ranges ==
    ASSUME TypeOK
    PROVE  /\ \A m \in Members : net[m] \in Int /\ left[m] \in Int /\ amount[m] \in Nat
           /\ Len(debtors) \in Nat /\ d \in Nat /\ d <= Len(debtors)
           /\ Len(creditors) \in Nat /\ c \in Nat /\ c <= Len(creditors)
           /\ Len(settlements) \in Nat
           /\ \A i \in 1..Len(debtors) : debtors[i] \in Members
           /\ \A i \in 1..Len(creditors) : creditors[i] \in Members
<1>1. \A m \in Members : net[m] \in Int /\ left[m] \in Int /\ amount[m] \in Nat
  BY DEF TypeOK
<1>2. /\ Len(debtors) \in Nat /\ Len(creditors) \in Nat /\ Len(settlements) \in Nat
      /\ \A i \in 1..Len(debtors) : debtors[i] \in Members
      /\ \A i \in 1..Len(creditors) : creditors[i] \in Members
  BY DEF TypeOK
<1>3. d \in 0..Len(debtors) /\ c \in 0..Len(creditors)
  BY DEF TypeOK
<1>4. QED  BY <1>1, <1>2, <1>3

\* Before any call the lists are empty.
LEMMA LoopInit == Init => LoopInv
BY DEF Init, LoopInv, TypeOK, Zero, Distinct, DebtorsInv, CreditorsInv, SidesInv,
       FewPayments

\* A call starts with nobody settled and both pointers at the front.
LEMMA SimplifyStep ==
    ASSUME LoopInv, NEW balances \in Balances, Simplify(balances)
    PROVE  LoopInv'
<1>1. balances \in [Members -> Int]
  BY BalancesAssumption
<1>2. PICK ds, cs : ds = debtors' /\ cs = creditors'
  OBVIOUS
<1>3. /\ ds \in Seq(Members) /\ Distinct(ds)
      /\ \A i \in 1..Len(ds) : balances[ds[i]] < 0
      /\ \A m \in Debtors(balances) : Listed(m, ds)
  <2>1. Debtors(balances) \in SUBSET Members /\ ds \in Sorted(Debtors(balances), Owing(balances))
    BY <1>2 DEF Simplify, Debtors
  <2>2. /\ ds \in Seq(Members) /\ Distinct(ds)
        /\ \A i \in 1..Len(ds) : ds[i] \in Debtors(balances)
        /\ \A m \in Debtors(balances) : Listed(m, ds)
    BY <2>1, SortedSide
  <2>3. QED  BY <2>2 DEF Debtors
<1>4. /\ cs \in Seq(Members) /\ Distinct(cs)
      /\ \A i \in 1..Len(cs) : balances[cs[i]] > 0
      /\ \A m \in Creditors(balances) : Listed(m, cs)
  <2>1. Creditors(balances) \in SUBSET Members /\ cs \in Sorted(Creditors(balances), Owing(balances))
    BY <1>2 DEF Simplify, Creditors
  <2>2. /\ cs \in Seq(Members) /\ Distinct(cs)
        /\ \A i \in 1..Len(cs) : cs[i] \in Creditors(balances)
        /\ \A m \in Creditors(balances) : Listed(m, cs)
    BY <2>1, SortedSide
  <2>3. QED  BY <2>2 DEF Creditors
<1>5. /\ net' = balances /\ left' = balances /\ settlements' = << >>
      /\ d' = 0 /\ c' = 0 /\ phase' = "matching"
      /\ amount' = Owing(balances)
  BY DEF Simplify
<1>6. /\ Owing(balances) \in [Members -> Nat]
      /\ \A m \in Members : balances[m] < 0 => Owing(balances)[m] = -balances[m]
      /\ \A m \in Members : balances[m] >= 0 => Owing(balances)[m] = balances[m]
  BY <1>1 DEF Owing
<1>7. TypeOK'
  BY <1>1, <1>2, <1>3, <1>4, <1>5, <1>6 DEF TypeOK
<1>8. DebtorsInv'
  BY <1>1, <1>2, <1>3, <1>5, <1>6 DEF DebtorsInv
<1>9. CreditorsInv'
  BY <1>1, <1>2, <1>4, <1>5, <1>6 DEF CreditorsInv
<1>10. SidesInv'
  BY <1>1, <1>2, <1>3, <1>4, <1>5 DEF SidesInv, Debtors, Creditors, Listed
<1>11. Distinct(debtors)' /\ Distinct(creditors)'
  BY <1>2, <1>3, <1>4 DEF Distinct
<1>12. FewPayments' /\ Len(settlements') <= d' + c'
  BY <1>5 DEF FewPayments
<1>13. QED  BY <1>5, <1>7, <1>8, <1>9, <1>10, <1>11, <1>12 DEF LoopInv

\* One turn of the loop.
LEMMA SettleStep ==
    ASSUME LoopInv, Settle
    PROVE  LoopInv'
<1>r. /\ \A m \in Members : net[m] \in Int /\ left[m] \in Int /\ amount[m] \in Nat
      /\ Len(debtors) \in Nat /\ d \in Nat
      /\ Len(creditors) \in Nat /\ c \in Nat
      /\ Len(settlements) \in Nat
      /\ \A i \in 1..Len(debtors) : debtors[i] \in Members
      /\ \A i \in 1..Len(creditors) : creditors[i] \in Members
  BY Ranges DEF LoopInv
<1>m. d < Len(debtors) /\ c < Len(creditors)
  BY DEF Settle, More
<1>n. d + 1 \in 1..Len(debtors) /\ c + 1 \in 1..Len(creditors)
  BY <1>r, <1>m
<1>1. PICK debtor, creditor : debtor = debtors[d + 1] /\ creditor = creditors[c + 1]
  OBVIOUS
<1>2. debtor \in Members /\ creditor \in Members
  BY <1>1, <1>n, <1>r
<1>3. /\ net[debtor] < 0 /\ amount[debtor] # 0 /\ amount[debtor] = -left[debtor]
      /\ net[debtor] <= left[debtor]
  <2>1. ~(d + 1 <= d)
    BY <1>r
  <2>2. QED  BY <1>1, <1>n, <2>1 DEF LoopInv, DebtorsInv
<1>4. /\ net[creditor] > 0 /\ amount[creditor] # 0 /\ amount[creditor] = left[creditor]
      /\ left[creditor] <= net[creditor]
  <2>1. ~(c + 1 <= c)
    BY <1>r
  <2>2. QED  BY <1>1, <1>n, <2>1 DEF LoopInv, CreditorsInv
<1>5. debtor # creditor
  BY <1>2, <1>3, <1>4, <1>r
<1>6. PICK settled :
          /\ settled = Settled(debtor, creditor)
          /\ settled \in Nat /\ settled > 0
          /\ settled <= amount[debtor] /\ settled <= amount[creditor]
          /\ settled = amount[debtor] \/ settled = amount[creditor]
  BY <1>2, <1>3, <1>4, <1>r DEF Settled
<1>7. /\ settlements' = Append(settlements, [from |-> debtor, to |-> creditor,
                                             amountMinor |-> settled])
      /\ left' = [m \in Members |-> IF m = debtor THEN left[m] + settled
                                    ELSE IF m = creditor THEN left[m] - settled
                                    ELSE left[m]]
      /\ amount' = [m \in Members |-> IF m \in {debtor, creditor}
                                      THEN amount[m] - settled
                                      ELSE amount[m]]
      /\ d' = Advance(d, debtors, amount[debtor] - settled)
      /\ c' = Advance(c, creditors, amount[creditor] - settled)
      /\ net' = net /\ debtors' = debtors /\ creditors' = creditors /\ phase' = phase
  BY <1>1, <1>6 DEF Settle
<1>8. /\ d' = IF amount[debtor] = settled THEN d + 1 ELSE d
      /\ c' = IF amount[creditor] = settled THEN c + 1 ELSE c
  BY <1>2, <1>6, <1>7, <1>r DEF Advance
<1>9. /\ amount'[debtor] = amount[debtor] - settled
      /\ amount'[creditor] = amount[creditor] - settled
      /\ left'[debtor] = left[debtor] + settled
      /\ left'[creditor] = left[creditor] - settled
      /\ \A m \in Members \ {debtor, creditor} :
            amount'[m] = amount[m] /\ left'[m] = left[m]
  BY <1>2, <1>5, <1>7
<1>10. TypeOK'
  <2>1. amount' \in [Members -> Nat]
    BY <1>2, <1>6, <1>7, <1>r
  <2>2. left' \in [Members -> Int]
    BY <1>2, <1>6, <1>7, <1>r
  <2>3. [from |-> debtor, to |-> creditor, amountMinor |-> settled] \in Settlement
    BY <1>2, <1>6 DEF Settlement
  <2>4. settlements' \in Seq(Settlement)
    BY <1>7, <2>3 DEF LoopInv, TypeOK
  <2>5. d' \in 0..Len(debtors) /\ c' \in 0..Len(creditors)
    BY <1>8, <1>m, <1>r
  <2>6. QED  BY <1>7, <2>1, <2>2, <2>4, <2>5 DEF LoopInv, TypeOK
<1>11. DebtorsInv'
  <2> SUFFICES ASSUME NEW i \in 1..Len(debtors)
               PROVE  /\ net[debtors[i]] < 0
                      /\ amount'[debtors[i]] = -left'[debtors[i]]
                      /\ net[debtors[i]] <= left'[debtors[i]]
                      /\ i <= d' <=> amount'[debtors[i]] = 0
    BY <1>7 DEF DebtorsInv
  <2>1. /\ debtors[i] \in Members /\ i \in Nat
        /\ net[debtors[i]] < 0 /\ amount[debtors[i]] = -left[debtors[i]]
        /\ net[debtors[i]] <= left[debtors[i]]
        /\ i <= d <=> amount[debtors[i]] = 0
    BY <1>r DEF LoopInv, DebtorsInv
  <2>2. CASE i = d + 1
    <3>1. debtors[i] = debtor
      BY <1>1, <2>2
    <3>2. i <= d' <=> amount[debtor] = settled
      BY <1>8, <1>r, <2>2
    <3>3. QED  BY <1>2, <1>3, <1>6, <1>9, <1>r, <3>1, <3>2
  <2>3. CASE i # d + 1
    <3>1. debtors[i] # debtor
      BY <1>1, <1>n, <2>3 DEF LoopInv, Distinct
    <3>2. debtors[i] # creditor
      BY <1>4, <1>r, <2>1, <1>2
    <3>3. i <= d' <=> i <= d
      BY <1>8, <1>r, <2>1, <2>3
    <3>4. QED  BY <1>9, <2>1, <3>1, <3>2, <3>3
  <2>4. QED  BY <2>2, <2>3
<1>12. CreditorsInv'
  <2> SUFFICES ASSUME NEW i \in 1..Len(creditors)
               PROVE  /\ net[creditors[i]] > 0
                      /\ amount'[creditors[i]] = left'[creditors[i]]
                      /\ left'[creditors[i]] <= net[creditors[i]]
                      /\ i <= c' <=> amount'[creditors[i]] = 0
    BY <1>7 DEF CreditorsInv
  <2>1. /\ creditors[i] \in Members /\ i \in Nat
        /\ net[creditors[i]] > 0 /\ amount[creditors[i]] = left[creditors[i]]
        /\ left[creditors[i]] <= net[creditors[i]]
        /\ i <= c <=> amount[creditors[i]] = 0
    BY <1>r DEF LoopInv, CreditorsInv
  <2>2. CASE i = c + 1
    <3>1. creditors[i] = creditor
      BY <1>1, <2>2
    <3>2. i <= c' <=> amount[creditor] = settled
      BY <1>8, <1>r, <2>2
    <3>3. QED  BY <1>2, <1>4, <1>6, <1>9, <1>r, <3>1, <3>2
  <2>3. CASE i # c + 1
    <3>1. creditors[i] # creditor
      BY <1>1, <1>n, <2>3 DEF LoopInv, Distinct
    <3>2. creditors[i] # debtor
      BY <1>3, <1>r, <2>1, <1>2
    <3>3. i <= c' <=> i <= c
      BY <1>8, <1>r, <2>1, <2>3
    <3>4. QED  BY <1>9, <2>1, <3>1, <3>2, <3>3
  <2>4. QED  BY <2>2, <2>3
<1>13. SidesInv'
  <2>1. \A m \in Members : net[m] = 0 => left'[m] = left[m]
    BY <1>3, <1>4, <1>9, <1>r
  <2>2. QED  BY <1>7, <2>1 DEF LoopInv, SidesInv, Listed
<1>14. FewPayments' /\ Len(settlements') <= d' + c'
  <2>1. Len(settlements') = Len(settlements) + 1
    BY <1>7 DEF LoopInv, TypeOK
  <2>2. d' + c' >= d + c + 1
    BY <1>6, <1>8, <1>r
  <2>3. Len(settlements) <= d + c
    BY DEF LoopInv
  <2>4. Len(settlements') < Len(debtors) + Len(creditors)
    BY <1>m, <1>r, <2>1, <2>3
  <2>5. d' \in Nat /\ c' \in Nat
    BY <1>8, <1>r
  <2>6. QED  BY <1>7, <1>r, <2>1, <2>2, <2>3, <2>4, <2>5 DEF FewPayments
<1>15. Distinct(debtors)' /\ Distinct(creditors)'
  BY <1>7 DEF LoopInv, Distinct
<1>16. phase' = "matching"
  BY DEF Settle
<1>17. QED  BY <1>10, <1>11, <1>12, <1>13, <1>14, <1>15, <1>16 DEF LoopInv

\* A turn moves an amount between the balances of two members.
LEMMA Turn ==
    ASSUME LoopInv, Settle
    PROVE  \E debtor, creditor \in Members, settled \in Nat :
               /\ debtor # creditor
               /\ left' = [m \in Members |-> IF m = debtor THEN left[m] + settled
                                            ELSE IF m = creditor THEN left[m] - settled
                                            ELSE left[m]]
<1>1. PICK debtor, creditor : debtor = debtors[d + 1] /\ creditor = creditors[c + 1]
  OBVIOUS
<1>2. d + 1 \in 1..Len(debtors) /\ c + 1 \in 1..Len(creditors)
  BY Ranges DEF LoopInv, Settle, More
<1>3. debtor \in Members /\ creditor \in Members
  BY <1>1, <1>2, Ranges DEF LoopInv
<1>4. net[debtor] < 0 /\ net[creditor] > 0
  BY <1>1, <1>2 DEF LoopInv, DebtorsInv, CreditorsInv
<1>5. debtor # creditor
  BY <1>3, <1>4, Ranges DEF LoopInv
<1>6. Settled(debtor, creditor) \in Nat
  BY <1>3, Ranges DEF LoopInv, Settled
<1>7. left' = [m \in Members |->
                  IF m = debtor THEN left[m] + Settled(debtor, creditor)
                  ELSE IF m = creditor THEN left[m] - Settled(debtor, creditor)
                  ELSE left[m]]
  BY <1>1 DEF Settle
<1>8. QED  BY <1>3, <1>5, <1>6, <1>7

\* Every step of a call keeps the loop invariant.
LEMMA LoopStep == LoopInv /\ [Next]_vars => LoopInv'
<1> SUFFICES ASSUME LoopInv, [Next]_vars PROVE LoopInv'
  OBVIOUS
<1>1. ASSUME NEW balances \in Balances, Simplify(balances) PROVE LoopInv'
  BY <1>1, SimplifyStep
<1>2. CASE Settle
  BY <1>2, SettleStep
<1>3. CASE Return
  BY <1>3 DEF Return, More, LoopInv, TypeOK, Distinct, DebtorsInv, CreditorsInv,
              SidesInv, Listed, FewPayments
<1>4. CASE Answered
  BY <1>4 DEF Answered, Zero, LoopInv, TypeOK, Distinct, DebtorsInv, CreditorsInv,
              SidesInv, FewPayments
<1>5. CASE UNCHANGED vars
  BY <1>5 DEF vars, More, LoopInv, TypeOK, Distinct, DebtorsInv, CreditorsInv,
              SidesInv, Listed, FewPayments
<1>6. QED  BY <1>1, <1>2, <1>3, <1>4, <1>5 DEF Next

\* The loop invariant holds of any call.
LEMMA Correct == Spec => []LoopInv
BY LoopInit, LoopStep, PTL DEF Spec

\* Amounts never become negative, indices stay within the sides, and every
\* settlement is of more than nothing.
THEOREM TypeCorrect == Spec => []TypeOK
<1>1. LoopInv => TypeOK
  BY DEF LoopInv
<1>2. QED  BY <1>1, Correct, PTL

\* However many members there are and whatever they owe, nobody is asked to pay more
\* than they owe and nobody gets more than they are owed.
THEOREM NobodyOverpaid == Spec => []NothingOverpaid
<1>1. LoopInv => NothingOverpaid
  <2> SUFFICES ASSUME LoopInv, NEW m \in Members
               PROVE  \/ net[m] <= left[m] /\ left[m] <= 0
                      \/ 0 <= left[m] /\ left[m] <= net[m]
    BY DEF NothingOverpaid
  <2>1. net[m] \in Int /\ left[m] \in Int /\ amount[m] \in Nat
    BY DEF LoopInv, TypeOK
  <2>2. QED
    BY <2>1 DEF LoopInv, SidesInv, Listed, DebtorsInv, CreditorsInv
<1>2. QED  BY <1>1, Correct, PTL

\* The loop ends when a pointer is at the end of its side.
LEMMA SideSettled == LoopInv => OneSideSettled
<1> SUFFICES ASSUME LoopInv, phase = "listed"
             PROVE  \/ \A m \in Members : left[m] >= 0
                    \/ \A m \in Members : left[m] <= 0
  BY DEF OneSideSettled
<1>1. /\ \A m \in Members : net[m] \in Int /\ left[m] \in Int /\ amount[m] \in Nat
      /\ Len(debtors) \in Nat /\ d \in Nat /\ d <= Len(debtors)
      /\ Len(creditors) \in Nat /\ c \in Nat /\ c <= Len(creditors)
      /\ \A i \in 1..Len(debtors) : debtors[i] \in Members
      /\ \A i \in 1..Len(creditors) : creditors[i] \in Members
  BY Ranges DEF LoopInv
<1>2. ASSUME NEW m \in Members, Listed(m, debtors)
      PROVE  left[m] = -amount[m] /\ (d = Len(debtors) => amount[m] = 0)
  <2>1. PICK i \in 1..Len(debtors) : debtors[i] = m
    BY <1>2 DEF Listed
  <2>2. amount[m] = -left[m] /\ (i <= d <=> amount[m] = 0)
    BY <2>1 DEF LoopInv, DebtorsInv
  <2>3. QED  BY <1>1, <2>1, <2>2
<1>3. ASSUME NEW m \in Members, Listed(m, creditors)
      PROVE  left[m] = amount[m] /\ (c = Len(creditors) => amount[m] = 0)
  <2>1. PICK i \in 1..Len(creditors) : creditors[i] = m
    BY <1>3 DEF Listed
  <2>2. amount[m] = left[m] /\ (i <= c <=> amount[m] = 0)
    BY <2>1 DEF LoopInv, CreditorsInv
  <2>3. QED  BY <1>1, <2>1, <2>2
<1>4. \A m \in Members : left[m] = 0 \/ Listed(m, debtors) \/ Listed(m, creditors)
  BY DEF LoopInv, SidesInv
<1>5. d = Len(debtors) \/ c = Len(creditors)
  BY <1>1 DEF LoopInv, More
<1>6. QED  BY <1>1, <1>2, <1>3, <1>4, <1>5

\* When the loop ends, nobody owes or nobody is owed anything more.
THEOREM OneSideLeft == Spec => []OneSideSettled
BY SideSettled, Correct, PTL

\* There are fewer payments than members to settle.
THEOREM PaymentsBounded == Spec => []FewPayments
<1>1. LoopInv => FewPayments
  BY DEF LoopInv
<1>2. QED  BY <1>1, Correct, PTL
============================================================================
