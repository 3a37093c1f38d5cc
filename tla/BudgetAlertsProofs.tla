-------------------------- MODULE BudgetAlertsProofs --------------------------
(***************************************************************************)
(* Proofs about BudgetAlerts, for any transactions, requests, limits and   *)
(* number of months.  That no alert is repeated holds whatever the sums    *)
(* are; that one is raised rests on what an insert does to the sum of a    *)
(* month.                                                                  *)
(***************************************************************************)
EXTENDS BudgetAlerts, FiniteSetTheorems, WellFoundedInduction, TLAPS

(***************************************************************************)
(* The types.  What a check holds depends on how far it is, and the budget *)
(* it has read is there unless it is marked as gone.                       *)
(***************************************************************************)
WellFormed(q) ==
    /\ q \in Request
    /\ q.check \in {"sum", "notify", "save"} =>
          /\ q.read \in Budget
          /\ q.month \in Months
    /\ q.check \in {"notify", "save"} => q.level \in Levels

Holding(q) == q.check \in {"sum", "notify", "save"} /\ ~q.gone

TypeInv ==
    /\ TypeOK
    /\ \A r \in Requests : WellFormed(req[r])
    /\ \A r \in Requests : Holding(req[r]) => budget # None

\* The records a request begins and ends with.
LEMMA IdleType == WellFormed(Idle) /\ ~Holding(Idle)
BY DEF WellFormed, Holding, Idle, Request

\* What the alert levels are compared with is a number.
LEMMA OverType ==
    ASSUME NEW q, q \in Request
    PROVE  WellFormed(Over(q)) /\ ~Holding(Over(q)) /\ Over(q).check = "done"
BY DEF WellFormed, Holding, Over, Request

\* A disturbance changes only the mark of it.
LEMMA DisturbedType ==
    ASSUME TypeInv, NEW r \in Requests
    PROVE  /\ WellFormed(Disturbed[r])
           /\ Disturbed[r].check = req[r].check
           /\ Disturbed[r].read = req[r].read
           /\ Disturbed[r].month = req[r].month
           /\ Disturbed[r].level = req[r].level
           /\ Disturbed[r].gone = req[r].gone
<1>1. req[r] \in Request /\ WellFormed(req[r])
    BY DEF TypeInv, TypeOK
<1>2. CASE r \in Active
    <2>1. Disturbed[r] = [req[r] EXCEPT !.smooth = FALSE]
        BY <1>2 DEF Disturbed
    <2>. QED  BY <1>1, <2>1 DEF WellFormed, Request
<1>3. CASE r \notin Active
    <2>1. Disturbed[r] = req[r]
        BY <1>3 DEF Disturbed
    <2>. QED  BY <1>1, <2>1
<1>. QED  BY <1>2, <1>3

\* A level is decided on, or none, whatever the sum.
LEMMA LevelType ==
    ASSUME NEW total, NEW limit
    PROVE  LevelOf(total, limit) \in Levels \cup {None}
BY DEF LevelOf, Levels

\* The initial state is well typed.
LEMMA InitType == Init => TypeInv
<1>. SUFFICES ASSUME Init PROVE TypeInv
    OBVIOUS
<1>1. \A r \in Requests : req[r] = Idle
    BY DEF Init
<1>2. TypeOK
    <2>1. 1 \in Months
        BY BudgetAlertsAssumption DEF Months
    <2>. QED  BY <2>1, IdleType DEF Init, TypeOK, Tx, Unused, WellFormed
<1>. QED  BY <1>1, <1>2, IdleType DEF TypeInv

\* A step of the check or the insert of one request r leaves the others alone.
LEMMA OneRequest ==
    ASSUME TypeInv, NEW r \in Requests, NEW q, WellFormed(q),
           req' = [req EXCEPT ![r] = q]
    PROVE  /\ req' \in [Requests -> Request]
           /\ \A s \in Requests : WellFormed(req[s])'
           /\ req'[r] = q
           /\ \A s \in Requests \ {r} : req'[s] = req[s]
<1>1. /\ req \in [Requests -> Request]
      /\ q \in Request
      /\ \A s \in Requests : WellFormed(req[s])
    BY DEF TypeInv, TypeOK, WellFormed
<1>2. \A s \in Requests : req'[s] = IF s = r THEN q ELSE req[s]
    BY <1>1
<1>. QED  BY <1>1, <1>2 DEF WellFormed

\* Nor does it disturb the types if what it holds next is there.
LEMMA OneRequestType ==
    ASSUME TypeInv, NEW r \in Requests, NEW q, WellFormed(q),
           Holding(q) => budget # None,
           req' = [req EXCEPT ![r] = q],
           UNCHANGED <<tx, budget, month>>,
           clean' \in BOOLEAN,
           alerts' \in Seq([month : Months, level : Levels])
    PROVE  TypeInv'
<1>1. /\ req' \in [Requests -> Request]
      /\ \A s \in Requests : WellFormed(req[s])'
      /\ req'[r] = q
      /\ \A s \in Requests \ {r} : req'[s] = req[s]
    BY OneRequest
<1>2. TypeOK'
    BY <1>1 DEF TypeInv, TypeOK
<1>3. \A s \in Requests : Holding(req[s])' => budget' # None
    BY <1>1 DEF TypeInv, Holding
<1>. QED  BY <1>1, <1>2, <1>3 DEF TypeInv

\* A disturbance of all requests leaves what they hold alone.
LEMMA AllDisturbed ==
    ASSUME TypeInv, req' = Disturbed
    PROVE  /\ req' \in [Requests -> Request]
           /\ \A s \in Requests : WellFormed(req[s])'
           /\ \A s \in Requests : Holding(req[s])' => Holding(req[s])
<1>1. DOMAIN req' = Requests /\ req' = [s \in Requests |-> req'[s]]
    BY DEF Disturbed
<1>2. \A s \in Requests : WellFormed(req[s])' /\ (Holding(req[s])' => Holding(req[s]))
    <2>. SUFFICES ASSUME NEW s \in Requests
                  PROVE  WellFormed(req[s])' /\ (Holding(req[s])' => Holding(req[s]))
        OBVIOUS
    <2>. QED  BY DisturbedType DEF WellFormed, Holding
<1>. QED  BY <1>1, <1>2 DEF WellFormed

\* Every action keeps the types.
LEMMA NextType == TypeInv /\ [Next]_vars => TypeInv'
<1>. SUFFICES ASSUME TypeInv, [Next]_vars PROVE TypeInv'
    OBVIOUS
<1>. USE DEF TypeInv
<1>0. TypeOK
    OBVIOUS
<1>1. CASE Upsert
    <2>. PICK limit \in Limits :
            budget' = IF budget = None
                      THEN [limit |-> limit, month |-> None, level |-> None]
                      ELSE [budget EXCEPT !.limit = limit]
        BY <1>1 DEF Upsert
    <2>1. budget' \in Budget
        BY <1>0 DEF TypeOK, Budget
    <2>2. budget' # None
        BY <2>1, BudgetAlertsAssumption
    <2>. QED  BY <1>0, <1>1, <2>1, <2>2, AllDisturbed DEF Upsert, TypeOK
<1>2. CASE DeleteBudget
    <2>1. \A s \in Requests : req'[s] \in Request /\ WellFormed(req'[s]) /\ ~Holding(req'[s])
        <3>. SUFFICES ASSUME NEW s \in Requests
                      PROVE  req'[s] \in Request /\ WellFormed(req'[s]) /\ ~Holding(req'[s])
            OBVIOUS
        <3>1. CASE s \in Active
            <4>1. req'[s] = [Disturbed[s] EXCEPT !.gone = req[s].read # None]
                BY <1>2, <3>1 DEF DeleteBudget
            <4>2. req[s].check \in {"sum", "notify", "save"} => req[s].read # None
                BY BudgetAlertsAssumption DEF WellFormed
            <4>. QED  BY <4>1, <4>2, DisturbedType DEF WellFormed, Holding, Request
        <3>2. CASE s \notin Active
            <4>1. req'[s] = req[s]
                BY <1>2, <3>2 DEF DeleteBudget
            <4>. QED  BY <4>1, <3>2, <1>0 DEF Active, Holding, WellFormed, TypeOK
        <3>. QED  BY <3>1, <3>2
    <2>2. req' \in [Requests -> Request]
        BY <1>2, <2>1 DEF DeleteBudget
    <2>3. TypeOK'
        BY <1>0, <1>2, <2>2 DEF DeleteBudget, TypeOK
    <2>. QED  BY <2>1, <2>3 DEF WellFormed, Holding
<1>3. CASE EditTransaction
    <2>1. tx' \in [TxIds -> Tx]
        <3>1. PICK t \in TxIds, a \in Amounts, m \in Months :
                tx' = [tx EXCEPT ![t].amount = a, ![t].date = m]
            BY <1>3 DEF EditTransaction
        <3>2. [tx[t] EXCEPT !.amount = a, !.date = m] \in Tx
            BY <1>0 DEF TypeOK, Tx
        <3>3. tx' = [tx EXCEPT ![t] = [tx[t] EXCEPT !.amount = a, !.date = m]]
            BY <1>0, <3>1 DEF TypeOK, Tx
        <3>. QED  BY <1>0, <3>2, <3>3 DEF TypeOK
    <2>. QED  BY <1>0, <1>3, <2>1, AllDisturbed DEF EditTransaction, TypeOK
<1>4. CASE DeleteTransaction
    <2>1. tx' \in [TxIds -> Tx]
        BY <1>0, <1>4 DEF DeleteTransaction, TypeOK, Tx, Unused
    <2>. QED  BY <1>0, <1>4, <2>1, AllDisturbed DEF DeleteTransaction, TypeOK
<1>5. CASE NewMonth
    <2>1. month' \in Months
        BY <1>0, <1>5, BudgetAlertsAssumption DEF NewMonth, TypeOK, Months
    <2>. QED  BY <1>0, <1>5, <2>1, AllDisturbed DEF NewMonth, TypeOK
<1>6. ASSUME NEW r \in Requests, Create(r) PROVE TypeInv'
    <2>. PICK a \in Amounts, m \in Months :
            req' = [Disturbed EXCEPT ![r] =
                      [Idle EXCEPT !.check = "read", !.insert = "pending", !.amount = a,
                                   !.date = m, !.smooth = (Active = {})]]
        BY <1>6 DEF Create
    <2>1. \A s \in Requests \ {r} : req'[s] = Disturbed[s]
        BY DEF Disturbed
    <2>2. /\ req'[r] \in Request
          /\ req'[r].check = "read"
        BY DEF Disturbed, Idle, Request
    <2>3. \A s \in Requests : /\ req'[s] \in Request
                              /\ WellFormed(req'[s])
                              /\ Holding(req'[s]) => Holding(req[s])
        BY <2>1, <2>2, DisturbedType DEF WellFormed, Holding
    <2>4. req' \in [Requests -> Request]
        BY <2>3 DEF Disturbed
    <2>5. clean' \in BOOLEAN /\ alerts' \in Seq([month : Months, level : Levels])
        BY <1>0, <1>6 DEF Create, Remembering, TypeOK
    <2>. QED  BY <1>0, <1>6, <2>3, <2>4, <2>5 DEF Create, TypeOK, WellFormed, Holding
<1>7. ASSUME NEW r \in Requests, Insert(r) PROVE TypeInv'
    <2>. DEFINE q == req[r]
    <2>0. q \in Request /\ WellFormed(q)
        BY <1>0 DEF TypeOK
    <2>1. PICK sm \in BOOLEAN : req' = [req EXCEPT ![r] = [q EXCEPT !.insert = "done", !.smooth = sm]]
        <3>1. CASE req' = [req EXCEPT ![r].insert = "done"]
            <4>1. [q EXCEPT !.insert = "done"] = [q EXCEPT !.insert = "done", !.smooth = q.smooth]
                BY <2>0 DEF Request
            <4>. QED  BY <3>1, <4>1, <2>0 DEF Request
        <3>. QED  BY <1>7, <3>1 DEF Insert
    <2>2. tx' \in [TxIds -> Tx]
        BY <1>0, <1>7, <2>0 DEF Insert, TypeOK, Tx, Request
    <2>3. /\ WellFormed([q EXCEPT !.insert = "done", !.smooth = sm])
          /\ Holding([q EXCEPT !.insert = "done", !.smooth = sm]) => Holding(q)
        BY <2>0 DEF WellFormed, Holding, Request
    <2>4. /\ req' \in [Requests -> Request]
          /\ \A s \in Requests : WellFormed(req'[s])
          /\ req'[r] = [q EXCEPT !.insert = "done", !.smooth = sm]
          /\ \A s \in Requests \ {r} : req'[s] = req[s]
        BY <2>1, <2>3, OneRequest
    <2>5. \A s \in Requests : Holding(req'[s]) => Holding(req[s])
        BY <2>3, <2>4
    <2>. QED  BY <1>0, <1>7, <2>2, <2>4, <2>5 DEF Insert, TypeOK, WellFormed, Holding
<1>8. ASSUME NEW r \in Requests, ReadBudget(r) PROVE TypeInv'
    <2>. DEFINE q == req[r]
                p == [q EXCEPT !.check = "sum", !.read = budget, !.month = CurrentMonth]
    <2>0. q \in Request /\ WellFormed(q) /\ q.check = "read"
        BY <1>0, <1>8 DEF TypeOK, ReadBudget
    <2>1. UNCHANGED <<tx, budget, month, clean, alerts>>
        BY <1>8 DEF ReadBudget
    <2>2. CASE req' = [req EXCEPT ![r] = Over(q)]
        BY <1>0, <2>0, <2>1, <2>2, OverType, OneRequestType DEF TypeOK
    <2>3. CASE budget # None /\ req' = [req EXCEPT ![r] = p]
        <3>1. WellFormed(p)
            BY <1>0, <2>0, <2>3 DEF WellFormed, Request, TypeOK, CurrentMonth
        <3>. HIDE DEF p
        <3>. QED  BY <1>0, <2>1, <2>3, <3>1, OneRequestType DEF TypeOK
    <2>. QED  BY <1>8, <2>2, <2>3 DEF ReadBudget
<1>9. ASSUME NEW r \in Requests, SumMonth(r) PROVE TypeInv'
    <2>. DEFINE q == req[r]
                level == LevelOf(Counted(Spent(q.month), q.amount), q.read.limit)
                p == [q EXCEPT !.check = "notify", !.level = level]
    <2>0. q \in Request /\ WellFormed(q) /\ q.check = "sum"
        BY <1>0, <1>9 DEF TypeOK, SumMonth
    <2>1. UNCHANGED <<tx, budget, month, clean, alerts>>
        BY <1>9 DEF SumMonth
    <2>2. level \in Levels \cup {None}
        BY LevelType
    <2>3. \/ req' = [req EXCEPT ![r] = Over(q)]
          \/ level # None /\ req' = [req EXCEPT ![r] = p]
        BY <1>9 DEF SumMonth
    <2>. HIDE DEF level
    <2>4. CASE req' = [req EXCEPT ![r] = Over(q)]
        BY <1>0, <2>0, <2>1, <2>4, OverType, OneRequestType DEF TypeOK
    <2>5. CASE level # None /\ req' = [req EXCEPT ![r] = p]
        <3>1. WellFormed(p) /\ (Holding(p) => Holding(q))
            BY <2>0, <2>2, <2>5 DEF WellFormed, Holding, Request
        <3>. HIDE DEF p
        <3>. QED  BY <1>0, <2>1, <2>5, <3>1, OneRequestType DEF TypeOK
    <2>. QED  BY <2>3, <2>4, <2>5
<1>10. ASSUME NEW r \in Requests, Notify(r) PROVE TypeInv'
    <2>. DEFINE q == req[r]
                p == [q EXCEPT !.check = "save"]
    <2>0. q \in Request /\ WellFormed(q) /\ q.check = "notify"
        BY <1>0, <1>10 DEF TypeOK, Notify
    <2>1. req' = [req EXCEPT ![r] = p] /\ UNCHANGED <<tx, budget, month, clean>>
        BY <1>10 DEF Notify
    <2>2. alerts' \in Seq([month : Months, level : Levels])
        <3>. DEFINE S == [month : Months, level : Levels]
                    x == [month |-> q.month, level |-> q.level]
        <3>1. x \in S /\ alerts \in Seq(S)
            BY <1>0, <2>0 DEF WellFormed, TypeOK
        <3>2. alerts' = alerts \/ alerts' = Append(alerts, x)
            BY <1>10 DEF Notify
        <3>. HIDE DEF S, x
        <3>3. alerts' \in Seq(S)
            BY <3>1, <3>2
        <3>. QED  BY <3>3 DEF S
    <2>3. WellFormed(p) /\ (Holding(p) => Holding(q))
        BY <2>0 DEF WellFormed, Holding, Request
    <2>. HIDE DEF p
    <2>. QED  BY <1>0, <2>1, <2>2, <2>3, OneRequestType DEF TypeOK
<1>11. ASSUME NEW r \in Requests, SaveBudget(r) PROVE TypeInv'
    <2>. DEFINE q == req[r]
                p == [Over(q) EXCEPT !.smooth = @ /\ ~q.gone]
    <2>0. q \in Request /\ WellFormed(q) /\ q.check = "save"
        BY <1>0, <1>11 DEF TypeOK, SaveBudget
    <2>1. req' = [req EXCEPT ![r] = p] /\ UNCHANGED <<tx, month, clean, alerts>>
        BY <1>11 DEF SaveBudget
    <2>2. budget' = budget \/ (budget # None /\ budget' = Alerted(budget, q))
        BY <1>11, <2>0 DEF SaveBudget, Holding
    <2>3. budget' \in Budget \cup {None} /\ (budget # None => budget' # None)
        <3>1. CASE budget' = budget
            BY <1>0, <3>1 DEF TypeOK
        <3>2. CASE budget # None /\ budget' = Alerted(budget, q)
            <4>1. /\ budget \in Budget
                  /\ q.month \in Months \cup {None}
                  /\ q.level \in Levels \cup {None}
                BY <1>0, <2>0, <3>2 DEF TypeOK, WellFormed
            <4>2. budget' \in Budget
                BY <3>2, <4>1 DEF Alerted, Budget
            <4>. QED  BY <3>2, <4>2, BudgetAlertsAssumption
        <3>. QED  BY <2>2, <3>1, <3>2
    <2>4. WellFormed(p) /\ ~Holding(p)
        BY <2>0 DEF Over, WellFormed, Holding, Request
    <2>. HIDE DEF p
    <2>5. /\ req' \in [Requests -> Request]
          /\ \A s \in Requests : WellFormed(req'[s])
          /\ req'[r] = p
          /\ \A s \in Requests \ {r} : req'[s] = req[s]
        BY <2>1, <2>4, OneRequest
    <2>6. \A s \in Requests : Holding(req'[s]) => Holding(req[s])
        BY <2>4, <2>5
    <2>7. TypeOK'
        BY <1>0, <2>1, <2>3, <2>5 DEF TypeOK
    <2>. QED  BY <2>3, <2>5, <2>6, <2>7 DEF WellFormed, Holding
<1>12. ASSUME NEW r \in Requests, CheckFails(r) PROVE TypeInv'
    <2>. DEFINE p == [Over(req[r]) EXCEPT !.smooth = FALSE]
    <2>1. WellFormed(p) /\ ~Holding(p)
        <3>1. req[r] \in Request
            BY <1>0 DEF TypeOK
        <3>. QED  BY <3>1 DEF Over, WellFormed, Holding, Request
    <2>2. clean' \in BOOLEAN /\ alerts' \in Seq([month : Months, level : Levels])
        BY <1>0, <1>12 DEF CheckFails, Remembering, TypeOK
    <2>3. req' = [req EXCEPT ![r] = p] /\ UNCHANGED <<tx, budget, month>>
        BY <1>12 DEF CheckFails
    <2>. HIDE DEF p
    <2>. QED  BY <2>1, <2>2, <2>3, OneRequestType
<1>13. ASSUME NEW r \in Requests, Finished(r) PROVE TypeInv'
    BY <1>0, <1>13, IdleType, OneRequestType DEF Finished, TypeOK
<1>14. CASE UNCHANGED vars
    BY <1>14 DEF vars, TypeOK, WellFormed, Holding
<1>. QED  BY <1>1, <1>2, <1>3, <1>4, <1>5, <1>6, <1>7, <1>8, <1>9, <1>10, <1>11,
             <1>12, <1>13, <1>14 DEF Next

\* The budget, the transactions, the checks under way and the alerts stay well typed,
\* for any transactions, requests, limits and number of months.
THEOREM TypeCorrect == Spec => []TypeOK
<1>1. TypeInv => TypeOK
    BY DEF TypeInv
<1>. QED  BY InitType, NextType, <1>1, PTL DEF Spec

(***************************************************************************)
(* The alerts.  While the checks run one at a time, the budget has on      *)
(* record the last alert sent, except between the notification and the     *)
(* save, and a check holds the month and level that are on record: what it *)
(* decides it decides on the last alert.                                   *)
(***************************************************************************)
Abreast(q) ==
    /\ ~q.gone
    /\ q.check \in {"sum", "notify", "save"} =>
          /\ budget.month = q.read.month
          /\ budget.level = q.read.level
          /\ q.month <= month
          /\ \A i \in 1..Len(alerts) : alerts[i].month <= q.month
    /\ q.check = "notify" => ~AlreadySent(q.read, q.month, q.level)
    /\ q.check = "save" =>
          /\ alerts # << >>
          /\ alerts[Len(alerts)].month = q.month
          /\ alerts[Len(alerts)].level = q.level

InMonths ==
    /\ \A i \in 1..Len(alerts) : alerts[i].month <= month
    /\ \A i, j \in 1..Len(alerts) : i < j => alerts[i].month <= alerts[j].month

OnRecord ==
    alerts # << >> =>
        /\ budget # None
        /\ \/ \E r \in Checking : req[r].check = "save"
           \/ /\ budget.month = alerts[Len(alerts)].month
              /\ budget.level = alerts[Len(alerts)].level

AlertInv ==
    clean => /\ \A r, s \in Checking : r = s
             /\ \A r \in Checking : Abreast(req[r])
             /\ InMonths
             /\ OnRecord
             /\ NoRepeatedAlert

\* The alerts have months and levels.
LEMMA AlertType ==
    ASSUME TypeInv
    PROVE  \A i \in 1..Len(alerts) :
                alerts[i].month \in Nat /\ alerts[i].level \in Levels
<1>. DEFINE S == [month : Months, level : Levels]
<1>1. alerts \in Seq(S)
    BY DEF TypeInv, TypeOK
<1>2. \A x \in S : x.month \in Nat /\ x.level \in Levels
    BY BudgetAlertsAssumption DEF Months
<1>. HIDE DEF S
<1>. QED  BY <1>1, <1>2

\* A check of which all that matters here is the same.
Same(q, p) ==
    /\ p.check = q.check
    /\ p.read = q.read
    /\ p.month = q.month
    /\ p.level = q.level
    /\ p.gone = q.gone

\* A step that sends no alert and forgets none, and after which a check is as it was or
\* over without having to save one.
CalmStep ==
    /\ clean' => clean /\ alerts' = alerts
    /\ month' >= month
    /\ budget # None => /\ budget' # None
                        /\ budget'.month = budget.month
                        /\ budget'.level = budget.level
    /\ \A r \in Requests : \/ Same(req[r], req'[r])
                           \/ r \notin Checking' /\ req[r].check # "save"

\* Such a step keeps the invariant.
LEMMA Calm == TypeInv /\ TypeInv' /\ AlertInv /\ CalmStep => AlertInv'
<1>. SUFFICES ASSUME TypeInv, TypeInv', AlertInv, CalmStep PROVE AlertInv'
    OBVIOUS
<1>. USE DEF CalmStep
<1>. SUFFICES ASSUME clean' PROVE AlertInv'
    BY DEF AlertInv
<1>1. clean /\ alerts' = alerts
    OBVIOUS
<1>2. \A r \in Checking' : r \in Checking /\ Same(req[r], req'[r])
    BY DEF Checking, Same
<1>3. \A r \in Checking : req[r].check = "save" => r \in Checking' /\ req'[r].check = "save"
    BY DEF Checking, Same
<1>4. month \in Nat /\ month' \in Nat
    BY BudgetAlertsAssumption DEF TypeInv, TypeOK, Months
<1>5. \A i \in 1..Len(alerts) : alerts[i].month \in Nat
    BY AlertType
<1>6. \A r, s \in Checking' : r = s
    BY <1>1, <1>2 DEF AlertInv
<1>7. \A r \in Checking' : Abreast(req[r])'
    <2>. SUFFICES ASSUME NEW r \in Checking' PROVE Abreast(req[r])'
        OBVIOUS
    <2>1. r \in Checking /\ Same(req[r], req'[r]) /\ Abreast(req[r])
        BY <1>1, <1>2 DEF AlertInv
    <2>2. r \in Requests /\ WellFormed(req[r])
        BY <2>1 DEF Checking, TypeInv
    <2>3. ~req[r].gone /\ ~req'[r].gone
        BY <2>1 DEF Abreast, Same
    <2>4. CASE req[r].check \in {"sum", "notify", "save"}
        <3>1. budget # None
            BY <2>2, <2>3, <2>4 DEF TypeInv, Holding
        <3>2. req[r].month \in Nat
            BY <2>2, <2>4, BudgetAlertsAssumption DEF WellFormed, Months
        <3>. QED  BY <1>1, <1>4, <2>1, <2>3, <2>4, <3>1, <3>2 DEF Abreast, Same, AlreadySent
    <2>5. CASE req[r].check = "read"
        BY <2>1, <2>3, <2>5 DEF Abreast, Same
    <2>. QED  BY <2>1, <2>4, <2>5 DEF Checking
<1>8. InMonths'
    BY <1>1, <1>4, <1>5 DEF AlertInv, InMonths
<1>9. OnRecord'
    BY <1>1, <1>3 DEF AlertInv, OnRecord
<1>10. NoRepeatedAlert'
    BY <1>1 DEF AlertInv, NoRepeatedAlert
<1>. QED  BY <1>6, <1>7, <1>8, <1>9, <1>10 DEF AlertInv

\* A disturbance keeps what matters.
LEMMA DisturbedSame ==
    ASSUME TypeInv, req' = Disturbed
    PROVE  \A r \in Requests : Same(req[r], req'[r])
BY DisturbedType DEF Same

\* The initial state.
LEMMA InitAlerts == Init => AlertInv
<1>. SUFFICES ASSUME Init PROVE AlertInv
    OBVIOUS
<1>1. alerts = << >> /\ Checking = {}
    BY DEF Init, Checking, Idle
<1>. QED  BY <1>1 DEF AlertInv, InMonths, OnRecord, NoRepeatedAlert

\* A check is over, or has not begun to save, and leaves the others alone.
LEMMA CalmRequest ==
    ASSUME TypeInv, TypeInv', AlertInv,
           clean' => clean /\ alerts' = alerts,
           UNCHANGED <<budget, month>>,
           NEW r \in Requests, NEW p, req' = [req EXCEPT ![r] = p],
           \/ Same(req[r], p)
           \/ /\ p.check \notin {"read", "sum", "notify", "save"}
              /\ req[r].check # "save"
    PROVE  AlertInv'
<1>1. \A s \in Requests : req'[s] = IF s = r THEN p ELSE req[s]
    BY DEF TypeInv, TypeOK
<1>2. \A s \in Requests : \/ Same(req[s], req'[s])
                          \/ s \notin Checking' /\ req[s].check # "save"
    BY <1>1 DEF Same, Checking
<1>3. month' >= month
    BY BudgetAlertsAssumption DEF TypeInv, TypeOK, Months
<1>4. CalmStep
    BY <1>2, <1>3 DEF CalmStep
<1>. QED  BY <1>4, Calm

\* A step of the only check there is leaves no other.
LEMMA OnlyCheck ==
    ASSUME TypeInv, AlertInv, clean, NEW r \in Checking,
           NEW p, req' = [req EXCEPT ![r] = p]
    PROVE  /\ req'[r] = p
           /\ \A s \in Checking' : s = r
           /\ \A s \in Checking : s = r
           /\ Abreast(req[r]) /\ WellFormed(req[r]) /\ req[r] \in Request
           /\ InMonths /\ OnRecord /\ NoRepeatedAlert
<1>1. /\ r \in Requests
      /\ \A s \in Requests : req'[s] = IF s = r THEN p ELSE req[s]
    BY DEF TypeInv, TypeOK, Checking
<1>2. \A s \in Checking : s = r
    BY DEF AlertInv
<1>3. \A s \in Checking' : s = r
    BY <1>1, <1>2 DEF Checking
<1>. QED  BY <1>1, <1>2, <1>3 DEF AlertInv, TypeInv, TypeOK

\* Every action keeps the invariant.
LEMMA NextAlerts == TypeInv /\ TypeInv' /\ AlertInv /\ [Next]_vars => AlertInv'
<1>. SUFFICES ASSUME TypeInv, TypeInv', AlertInv, [Next]_vars PROVE AlertInv'
    OBVIOUS
<1>0. /\ TypeOK
      /\ month \in Nat
      /\ \A r \in Requests : req[r] \in Request /\ WellFormed(req[r])
    BY BudgetAlertsAssumption DEF TypeInv, TypeOK, Months
<1>1. CASE Upsert
    <2>1. budget # None => /\ budget'.month = budget.month
                           /\ budget'.level = budget.level
        BY <1>0, <1>1 DEF Upsert, TypeOK, Budget
    <2>2. budget' # None
        BY <1>0, <1>1, BudgetAlertsAssumption DEF Upsert, TypeOK, Budget
    <2>3. month' >= month /\ (clean' => clean /\ alerts' = alerts)
        BY <1>0, <1>1 DEF Upsert
    <2>4. \A r \in Requests : Same(req[r], req'[r])
        BY <1>1, DisturbedSame DEF Upsert
    <2>5. CalmStep
        BY <2>1, <2>2, <2>3, <2>4 DEF CalmStep
    <2>. QED  BY <2>5, Calm
<1>2. CASE DeleteBudget
    <2>. SUFFICES ASSUME clean' PROVE AlertInv'
        BY DEF AlertInv
    <2>1. Checking = {} /\ alerts' = << >>
        BY <1>2 DEF DeleteBudget
    <2>2. \A r \in Requests : req'[r].check = req[r].check
        BY <1>0, <1>2, DisturbedType DEF DeleteBudget, WellFormed, Request
    <2>3. Checking' = {}
        BY <2>1, <2>2 DEF Checking
    <2>. QED  BY <2>1, <2>3 DEF AlertInv, InMonths, OnRecord, NoRepeatedAlert
<1>3. CASE EditTransaction \/ DeleteTransaction
    <2>1. req' = Disturbed /\ UNCHANGED <<budget, month, clean, alerts>>
        BY <1>3 DEF EditTransaction, DeleteTransaction
    <2>2. CalmStep
        BY <1>0, <2>1, DisturbedSame DEF CalmStep
    <2>. QED  BY <2>2, Calm
<1>4. CASE NewMonth
    <2>1. req' = Disturbed /\ UNCHANGED <<budget, clean, alerts>> /\ month' = month + 1
        BY <1>4 DEF NewMonth
    <2>2. CalmStep
        BY <1>0, <2>1, DisturbedSame DEF CalmStep
    <2>. QED  BY <2>2, Calm
<1>5. ASSUME NEW r \in Requests, Create(r) PROVE AlertInv'
    <2>. SUFFICES ASSUME clean' PROVE AlertInv'
        BY DEF AlertInv
    <2>1. Checking = {} /\ clean /\ alerts' = alerts /\ UNCHANGED <<budget, month>>
        BY <1>5 DEF Create, Remembering
    <2>2. PICK a \in Amounts, m \in Months :
            req' = [Disturbed EXCEPT ![r] =
                      [Idle EXCEPT !.check = "read", !.insert = "pending", !.amount = a,
                                   !.date = m, !.smooth = (Active = {})]]
        BY <1>5 DEF Create
    <2>3. \A s \in Requests \ {r} : req'[s] = Disturbed[s]
        BY <2>2 DEF Disturbed
    <2>4. \A s \in Requests \ {r} : req'[s].check = req[s].check
        BY <2>3, DisturbedType
    <2>5. req'[r].check = "read" /\ ~req'[r].gone
        BY <2>2 DEF Disturbed, Idle
    <2>6. Checking' = {r}
        BY <2>1, <2>4, <2>5 DEF Checking
    <2>7. Abreast(req[r])'
        BY <2>5 DEF Abreast
    <2>8. InMonths' /\ NoRepeatedAlert'
        BY <2>1 DEF AlertInv, InMonths, NoRepeatedAlert
    <2>9. OnRecord'
        BY <2>1 DEF AlertInv, OnRecord
    <2>10. /\ \A s, t \in Checking' : s = t
           /\ \A s \in Checking' : Abreast(req[s])'
        BY <2>6, <2>7
    <2>. QED  BY <2>8, <2>9, <2>10 DEF AlertInv
<1>6. ASSUME NEW r \in Requests, Insert(r) PROVE AlertInv'
    <2>1. PICK p : req' = [req EXCEPT ![r] = p] /\ Same(req[r], p)
        <3>1. CASE req' = [req EXCEPT ![r].insert = "done"]
            <4>1. Same(req[r], [req[r] EXCEPT !.insert = "done"])
                BY <1>0 DEF Same, Request
            <4>. QED  BY <3>1, <4>1
        <3>2. CASE req' = [req EXCEPT ![r] = [req[r] EXCEPT !.insert = "done", !.smooth = FALSE]]
            <4>1. Same(req[r], [req[r] EXCEPT !.insert = "done", !.smooth = FALSE])
                BY <1>0 DEF Same, Request
            <4>. QED  BY <3>2, <4>1
        <3>. QED  BY <1>6, <3>1, <3>2 DEF Insert
    <2>. QED  BY <1>6, <2>1, CalmRequest DEF Insert
<1>7. ASSUME NEW r \in Requests, Finished(r) PROVE AlertInv'
    BY <1>7, CalmRequest DEF Finished, Idle
<1>8. ASSUME NEW r \in Requests, ReadBudget(r) PROVE AlertInv'
    <2>. DEFINE q == req[r]
                p == [q EXCEPT !.check = "sum", !.read = budget, !.month = CurrentMonth]
    <2>0. r \in Checking /\ q.check = "read" /\ UNCHANGED <<budget, month, clean, alerts>>
        BY <1>8 DEF ReadBudget, Checking
    <2>1. CASE req' = [req EXCEPT ![r] = Over(q)]
        <3>1. Over(q).check = "done"
            BY <1>0, OverType
        <3>. QED  BY <2>0, <2>1, <3>1, CalmRequest
    <2>2. CASE budget # None /\ req' = [req EXCEPT ![r] = p]
        <3>. SUFFICES ASSUME clean PROVE AlertInv'
            BY <2>0 DEF AlertInv
        <3>1. /\ req'[r] = p
              /\ \A s \in Checking' : s = r
              /\ \A s \in Checking : s = r
              /\ Abreast(q)
              /\ InMonths /\ OnRecord /\ NoRepeatedAlert
            BY <2>0, <2>2, OnlyCheck
        <3>2. /\ p.check = "sum" /\ p.read = budget /\ p.month = month
              /\ p.gone = q.gone
            BY <1>0 DEF Request, CurrentMonth
        <3>. HIDE DEF p
        <3>3. Abreast(req[r])'
            BY <1>0, <2>0, <3>1, <3>2 DEF Abreast, InMonths
        <3>4. InMonths' /\ NoRepeatedAlert'
            BY <2>0, <3>1 DEF InMonths, NoRepeatedAlert
        <3>5. OnRecord'
            BY <2>0, <3>1 DEF OnRecord
        <3>. QED  BY <3>1, <3>3, <3>4, <3>5 DEF AlertInv
    <2>. QED  BY <1>8, <2>1, <2>2 DEF ReadBudget
<1>9. ASSUME NEW r \in Requests, SumMonth(r) PROVE AlertInv'
    <2>. DEFINE q == req[r]
                level == LevelOf(Counted(Spent(q.month), q.amount), q.read.limit)
                p == [q EXCEPT !.check = "notify", !.level = level]
    <2>0. r \in Checking /\ q.check = "sum" /\ UNCHANGED <<budget, month, clean, alerts>>
        BY <1>9 DEF SumMonth, Checking
    <2>1. \/ req' = [req EXCEPT ![r] = Over(q)]
          \/ ~AlreadySent(q.read, q.month, level) /\ req' = [req EXCEPT ![r] = p]
        BY <1>9 DEF SumMonth
    <2>. HIDE DEF level
    <2>2. CASE req' = [req EXCEPT ![r] = Over(q)]
        <3>1. Over(q).check = "done"
            BY <1>0, OverType
        <3>. QED  BY <2>0, <2>2, <3>1, CalmRequest
    <2>3. CASE ~AlreadySent(q.read, q.month, level) /\ req' = [req EXCEPT ![r] = p]
        <3>. SUFFICES ASSUME clean PROVE AlertInv'
            BY <2>0 DEF AlertInv
        <3>1. /\ req'[r] = p
              /\ \A s \in Checking' : s = r
              /\ \A s \in Checking : s = r
              /\ Abreast(q)
              /\ InMonths /\ OnRecord /\ NoRepeatedAlert
            BY <2>0, <2>3, OnlyCheck
        <3>2. /\ p.check = "notify" /\ p.read = q.read /\ p.month = q.month
              /\ p.level = level /\ p.gone = q.gone
            BY <1>0 DEF Request
        <3>. HIDE DEF p
        <3>3. Abreast(req[r])'
            BY <2>0, <2>3, <3>1, <3>2 DEF Abreast, AlreadySent
        <3>4. InMonths' /\ NoRepeatedAlert'
            BY <2>0, <3>1 DEF InMonths, NoRepeatedAlert
        <3>5. OnRecord'
            BY <2>0, <3>1 DEF OnRecord
        <3>. QED  BY <3>1, <3>3, <3>4, <3>5 DEF AlertInv
    <2>. QED  BY <2>1, <2>2, <2>3
<1>10. ASSUME NEW r \in Requests, Notify(r) PROVE AlertInv'
    <2>. SUFFICES ASSUME clean' PROVE AlertInv'
        BY DEF AlertInv
    <2>. DEFINE q == req[r]
                p == [q EXCEPT !.check = "save"]
                a == [month |-> q.month, level |-> q.level]
                n == Len(alerts)
    <2>1. /\ r \in Checking /\ q.check = "notify" /\ clean
          /\ req' = [req EXCEPT ![r] = p] /\ UNCHANGED <<budget, month>>
        BY <1>10 DEF Notify, Checking
    <2>2. /\ req'[r] = p
          /\ \A s \in Checking' : s = r
          /\ \A s \in Checking : s = r
          /\ Abreast(q)
          /\ InMonths /\ OnRecord /\ NoRepeatedAlert
        BY <2>1, OnlyCheck
    <2>3. ~q.gone
        BY <2>2 DEF Abreast
    <2>4. budget # None
        BY <1>0, <2>1, <2>3 DEF Holding, TypeInv
    <2>5. alerts' = Append(alerts, a)
        BY <1>10, <2>1, <2>3 DEF Notify
    <2>6. /\ n \in Nat
          /\ Len(alerts') = n + 1
          /\ alerts'[n + 1] = a
          /\ \A i \in 1..n : alerts'[i] = alerts[i]
          /\ (alerts # << >>) <=> n > 0
          /\ alerts' # << >>
        BY <1>0, <2>5 DEF TypeOK
    <2>7. /\ \A i \in 1..n : alerts[i].month <= q.month
          /\ \A i \in 1..n : alerts[i].month \in Nat /\ alerts[i].level \in Levels
          /\ q.month <= month /\ q.month \in Nat
        BY <1>0, <2>1, <2>2, AlertType, BudgetAlertsAssumption DEF Abreast, WellFormed, Months
    <2>8. /\ p.check = "save" /\ p.read = q.read /\ p.month = q.month
          /\ p.level = q.level /\ p.gone = q.gone
        BY <1>0 DEF Request
    <2>9. \A i \in 1..n : alerts[i].month = q.month =>
                i = n /\ alerts[i].level = "near" /\ q.level = "exceeded"
        <3>. SUFFICES ASSUME NEW i \in 1..n, alerts[i].month = q.month
                      PROVE  i = n /\ alerts[i].level = "near" /\ q.level = "exceeded"
            OBVIOUS
        <3>1. alerts[n].month = q.month
            BY <2>2, <2>6, <2>7 DEF InMonths
        <3>2. budget.month = q.month /\ budget.level = alerts[n].level
            BY <2>1, <2>2, <2>6, <3>1 DEF OnRecord
        <3>3. alerts[n].level # "exceeded" /\ alerts[n].level # q.level
            BY <2>1, <2>2, <3>2 DEF Abreast, AlreadySent
        <3>4. alerts[n].level = "near" /\ q.level = "exceeded"
            BY <1>0, <2>1, <2>6, <2>7, <3>3 DEF Levels, WellFormed
        <3>5. i = n
            BY <2>1, <2>2, <2>6, <3>1, <3>3 DEF NoRepeatedAlert
        <3>. QED  BY <3>4, <3>5
    <2>. HIDE DEF p
    <2>10. Abreast(req[r])'
        BY <2>1, <2>2, <2>3, <2>6, <2>7, <2>8 DEF Abreast
    <2>11. InMonths'
        BY <2>1, <2>2, <2>6, <2>7 DEF InMonths
    <2>12. OnRecord'
        <3>1. r \in Checking' /\ req'[r].check = "save"
            BY <2>2, <2>8 DEF Checking
        <3>. QED  BY <2>1, <2>4, <3>1 DEF OnRecord
    <2>13. NoRepeatedAlert'
        BY <2>1, <2>2, <2>6, <2>9 DEF NoRepeatedAlert
    <2>. QED  BY <2>2, <2>10, <2>11, <2>12, <2>13 DEF AlertInv
<1>11. ASSUME NEW r \in Requests, SaveBudget(r) PROVE AlertInv'
    <2>. SUFFICES ASSUME clean' PROVE AlertInv'
        BY DEF AlertInv
    <2>. DEFINE q == req[r]
                p == [Over(q) EXCEPT !.smooth = @ /\ ~q.gone]
    <2>1. /\ r \in Checking /\ q.check = "save" /\ clean
          /\ req' = [req EXCEPT ![r] = p] /\ UNCHANGED <<month, alerts>>
        BY <1>11 DEF SaveBudget, Checking
    <2>2. /\ req'[r] = p
          /\ \A s \in Checking' : s = r
          /\ Abreast(q)
          /\ InMonths /\ OnRecord /\ NoRepeatedAlert
        BY <2>1, OnlyCheck
    <2>3. p.check = "done"
        BY <1>0 DEF Over, Request
    <2>. HIDE DEF p
    <2>4. Checking' = {}
        BY <2>2, <2>3 DEF Checking
    <2>5. budget # None /\ budget' = Alerted(budget, q)
        BY <1>0, <1>11, <2>1, <2>2 DEF SaveBudget, Abreast, Holding, TypeInv
    <2>6. budget'.month = q.month /\ budget'.level = q.level
        BY <1>0, <2>1, <2>2, <2>5 DEF Alerted, Abreast, TypeOK, Budget
    <2>7. budget' # None
        BY <1>0, <2>5, BudgetAlertsAssumption DEF Alerted, TypeOK, Budget, Request, WellFormed
    <2>8. OnRecord'
        BY <2>1, <2>2, <2>6, <2>7 DEF OnRecord, Abreast
    <2>9. InMonths' /\ NoRepeatedAlert'
        BY <2>1, <2>2 DEF InMonths, NoRepeatedAlert
    <2>. QED  BY <2>4, <2>8, <2>9 DEF AlertInv
<1>12. ASSUME NEW r \in Requests, CheckFails(r) PROVE AlertInv'
    <2>. SUFFICES ASSUME clean' PROVE AlertInv'
        BY DEF AlertInv
    <2>. DEFINE p == [Over(req[r]) EXCEPT !.smooth = FALSE]
    <2>1. /\ r \in Checking /\ clean /\ alerts' = alerts
          /\ req' = [req EXCEPT ![r] = p] /\ UNCHANGED <<budget, month>>
          /\ req[r].check = "save" => req[r].gone
        BY <1>12 DEF CheckFails, Remembering
    <2>2. req[r].check # "save"
        BY <2>1 DEF AlertInv, Abreast
    <2>3. p.check = "done"
        BY <1>0 DEF Over, Request
    <2>. HIDE DEF p
    <2>. QED  BY <2>1, <2>2, <2>3, CalmRequest
<1>13. CASE UNCHANGED vars
    <2>1. CalmStep
        BY <1>0, <1>13 DEF vars, CalmStep, Same
    <2>. QED  BY <2>1, Calm
<1>. QED  BY <1>1, <1>2, <1>3, <1>4, <1>5, <1>6, <1>7, <1>8, <1>9, <1>10, <1>11,
             <1>12, <1>13 DEF Next

\* As long as the checks ran one at a time and none was cut off between the
\* notification and the save, nothing is announced twice: for any limits, amounts,
\* requests and number of months.
THEOREM AlertsNotRepeated == Spec => []NoRepeatedAlert
<1>1. AlertInv => NoRepeatedAlert
    BY DEF AlertInv, NoRepeatedAlert
<1>. QED  BY InitType, NextType, InitAlerts, NextAlerts, <1>1, PTL DEF Spec

(***************************************************************************)
(* Sums.  The library adds up a set by taking out one element after the    *)
(* other; whichever is taken out first the sum is the same.  The induction *)
(* is over the subsets of a finite set: of those a fact fails for, one has *)
(* no smaller one.                                                         *)
(***************************************************************************)
\* Induction over the subsets of a finite set, for a set of subsets.
LEMMA SubsetInduction ==
    ASSUME NEW X, IsFiniteSet(X), NEW T,
           \A s \in SUBSET X : (\A t \in SUBSET s : t # s => t \in T) => s \in T
    PROVE  X \in T
<1>. DEFINE Bad == {s \in SUBSET X : s \notin T}
<1>1. Bad = {}
    <2>. SUFFICES ASSUME Bad # {} PROVE FALSE
        OBVIOUS
    <2>1. IsWellFoundedOn(StrictSubsetOrdering(X), SUBSET X)
        <3>1. FiniteSubsetsOf(X) = SUBSET X
            BY FS_FiniteSubsetsOfFinite
        <3>2. IsWellFoundedOn(StrictSubsetOrdering(X), FiniteSubsetsOf(X))
            BY FS_StrictSubsetOrderingWellFounded
        <3>. QED  BY <3>1, <3>2
    <2>2. \E s \in Bad : \A t \in Bad : ~ (<<t, s>> \in StrictSubsetOrdering(X))
        <3>1. Bad \subseteq SUBSET X
            OBVIOUS
        <3>. HIDE DEF Bad
        <3>. QED  BY <2>1, <3>1, WFMin
    <2>3. PICK s \in Bad : \A t \in Bad : ~ (<<t, s>> \in StrictSubsetOrdering(X))
        BY <2>2
    <2>4. ASSUME NEW t \in SUBSET s, t # s PROVE t \in T
        <3>1. t \in SUBSET X /\ <<t, s>> \in StrictSubsetOrdering(X)
            BY <2>4 DEF StrictSubsetOrdering
        <3>. QED  BY <2>3, <3>1
    <2>. QED  BY <2>4
<1>. QED  BY <1>1

Total(f, X) == MapThenSumSet(LAMBDA x : f[x], X)

First(s) == CHOOSE x \in s : TRUE

\* Unfolds the recursion of the library's sum.
Folds(f, X, h) ==
    h = [s \in SUBSET X |-> IF s = {} THEN 0 ELSE f[First(s)] + h[s \ {First(s)}]]

\* The library's sum is the value of the function that takes a first out at a time.
LEMMA TotalUnfold ==
    ASSUME NEW f, NEW X
    PROVE  Total(f, X) = (CHOOSE h : Folds(f, X, h))[X]
BY DEF Total, MapThenSumSet, MapThenFoldSet, Folds, First

\* The first of a set that is not empty.
LEMMA FirstIn == ASSUME NEW s, s # {} PROVE First(s) \in s
BY DEF First

\* There is one such function at most.
LEMMA FoldsUnique ==
    ASSUME NEW f, NEW X, IsFiniteSet(X), NEW g, NEW h, Folds(f, X, g), Folds(f, X, h)
    PROVE  g[X] = h[X]
<1>. DEFINE T == {s \in SUBSET X : g[s] = h[s]}
<1>1. ASSUME NEW s \in SUBSET X, \A t \in SUBSET s : t # s => t \in T
      PROVE  s \in T
    <2>1. CASE s = {}
        BY <2>1 DEF Folds
    <2>2. CASE s # {}
        <3>1. First(s) \in s /\ s \ {First(s)} \in SUBSET s /\ s \ {First(s)} # s
            BY <2>2, FirstIn
        <3>2. g[s \ {First(s)}] = h[s \ {First(s)}]
            BY <1>1, <3>1
        <3>3. /\ g[s] = f[First(s)] + g[s \ {First(s)}]
              /\ h[s] = f[First(s)] + h[s \ {First(s)}]
            BY <2>2 DEF Folds
        <3>. QED  BY <3>2, <3>3
    <2>. QED  BY <2>1, <2>2
<1>. HIDE DEF T
<1>2. X \in T
    BY <1>1, SubsetInduction
<1>. QED  BY <1>2 DEF T

\* The sum over a set takes its first out.
Unfolds(f, s) ==
    /\ s = {} => Total(f, s) = 0
    /\ s # {} => Total(f, s) = f[First(s)] + Total(f, s \ {First(s)})

\* Every sum over a finite set unfolds.
LEMMA TotalUnfolds ==
    ASSUME NEW f, NEW X, IsFiniteSet(X)
    PROVE  Unfolds(f, X)
<1>. DEFINE T == {s \in SUBSET X : Unfolds(f, s)}
<1>1. ASSUME NEW s \in SUBSET X, \A t \in SUBSET s : t # s => t \in T
      PROVE  s \in T
    <2>. DEFINE r == s \ {First(s)}
                h == [t \in SUBSET s |->
                        IF t = {} THEN 0
                        ELSE IF t = s THEN f[First(s)] + Total(f, r)
                        ELSE Total(f, t)]
    <2>1. IsFiniteSet(s)
        BY FS_Subset
    <2>2. ASSUME NEW t \in SUBSET s
          PROVE  h[t] = IF t = {} THEN 0 ELSE f[First(t)] + h[t \ {First(t)}]
        <3>1. CASE t = {}
            BY <3>1
        <3>2. CASE t # {}
            <4>1. First(t) \in t
                BY <3>2, FirstIn
            <4>2. t \ {First(t)} \in SUBSET s /\ t \ {First(t)} # s
                BY <4>1
            <4>3. h[t \ {First(t)}] = Total(f, t \ {First(t)})
                <5>1. CASE t \ {First(t)} = {}
                    <6>1. {} \in T
                        BY <1>1, <3>2
                    <6>2. Total(f, {}) = 0
                        BY <6>1 DEF Unfolds
                    <6>. QED  BY <4>2, <5>1, <6>2
                <5>2. CASE t \ {First(t)} # {}
                    BY <4>2, <5>2
                <5>. QED  BY <5>1, <5>2
            <4>4. CASE t = s
                BY <3>2, <4>3, <4>4
            <4>5. CASE t # s
                <5>1. Total(f, t) = f[First(t)] + Total(f, t \ {First(t)})
                    BY <1>1, <3>2, <4>5 DEF Unfolds
                <5>2. h[t] = Total(f, t)
                    BY <3>2, <4>5
                <5>. QED  BY <3>2, <4>3, <5>1, <5>2
            <4>. QED  BY <4>4, <4>5
        <3>. QED  BY <3>1, <3>2
    <2>3. Folds(f, s, h)
        <3>1. h = [t \in SUBSET s |-> h[t]]
            OBVIOUS
        <3>. HIDE DEF h
        <3>2. [t \in SUBSET s |-> h[t]]
              = [t \in SUBSET s |-> IF t = {} THEN 0 ELSE f[First(t)] + h[t \ {First(t)}]]
            BY <2>2
        <3>. QED  BY <3>1, <3>2 DEF Folds
    <2>4. h[s] = IF s = {} THEN 0 ELSE f[First(s)] + Total(f, r)
        OBVIOUS
    <2>. HIDE DEF h
    <2>5. Total(f, s) = h[s]
        <3>1. Folds(f, s, CHOOSE g : Folds(f, s, g))
            BY <2>3
        <3>. QED  BY <2>1, <2>3, <3>1, FoldsUnique, TotalUnfold
    <2>. QED  BY <2>4, <2>5 DEF Unfolds
<1>. HIDE DEF T
<1>2. X \in T
    BY <1>1, SubsetInduction
<1>. QED  BY <1>2 DEF T

\* The empty sum.
LEMMA TotalEmpty == ASSUME NEW f PROVE Total(f, {}) = 0
BY TotalUnfolds, FS_EmptySet DEF Unfolds

\* A sum of integers is one, and of naturals.
LEMMA TotalType ==
    ASSUME NEW X, IsFiniteSet(X), NEW f, \A x \in X : f[x] \in Int
    PROVE  /\ Total(f, X) \in Int
           /\ (\A x \in X : f[x] >= 0) => Total(f, X) >= 0
<1>. DEFINE T == {s \in SUBSET X : /\ Total(f, s) \in Int
                                   /\ (\A x \in X : f[x] >= 0) => Total(f, s) >= 0}
<1>1. ASSUME NEW s \in SUBSET X, \A t \in SUBSET s : t # s => t \in T
      PROVE  s \in T
    <2>1. CASE s = {}
        BY <2>1, TotalEmpty
    <2>2. CASE s # {}
        <3>1. First(s) \in s /\ s \ {First(s)} \in SUBSET s /\ s \ {First(s)} # s
            BY <2>2, FirstIn
        <3>2. Total(f, s) = f[First(s)] + Total(f, s \ {First(s)})
            BY <2>2, TotalUnfolds, FS_Subset DEF Unfolds
        <3>3. s \ {First(s)} \in T /\ First(s) \in X
            BY <1>1, <3>1
        <3>. QED  BY <3>2, <3>3
    <2>. QED  BY <2>1, <2>2
<1>. HIDE DEF T
<1>2. X \in T
    BY <1>1, SubsetInduction
<1>. QED  BY <1>2 DEF T

\* Any element can be taken out of a sum.
LEMMA TotalStep ==
    ASSUME NEW X, IsFiniteSet(X), NEW f, \A x \in X : f[x] \in Int, NEW y \in X
    PROVE  Total(f, X) = f[y] + Total(f, X \ {y})
<1>. DEFINE T == {s \in SUBSET X : \A z \in s : Total(f, s) = f[z] + Total(f, s \ {z})}
<1>1. ASSUME NEW s \in SUBSET X, \A t \in SUBSET s : t # s => t \in T
      PROVE  s \in T
    <2>. SUFFICES ASSUME NEW z \in s PROVE Total(f, s) = f[z] + Total(f, s \ {z})
        OBVIOUS
    <2>. DEFINE c == First(s)
    <2>1. c \in s /\ s \ {c} \in SUBSET s /\ s \ {c} # s
        BY FirstIn
    <2>2. Total(f, s) = f[c] + Total(f, s \ {c})
        BY TotalUnfolds, FS_Subset DEF Unfolds
    <2>. HIDE DEF c
    <2>3. CASE z = c
        BY <2>2, <2>3
    <2>4. CASE z # c
        <3>1. s \ {c} \in T /\ s \ {z} \in T
            BY <1>1, <2>1
        <3>2. /\ Total(f, s \ {c}) = f[z] + Total(f, (s \ {c}) \ {z})
              /\ Total(f, s \ {z}) = f[c] + Total(f, (s \ {z}) \ {c})
            BY <2>1, <2>4, <3>1
        <3>3. (s \ {c}) \ {z} = (s \ {z}) \ {c}
            OBVIOUS
        <3>4. f[c] \in Int /\ f[z] \in Int /\ Total(f, (s \ {z}) \ {c}) \in Int
            <4>1. IsFiniteSet((s \ {z}) \ {c})
                BY FS_Subset
            <4>. QED  BY <2>1, <4>1, TotalType
        <3>5. PICK a \in Int, b \in Int, r \in Int :
                  a = f[c] /\ b = f[z] /\ r = Total(f, (s \ {z}) \ {c})
            BY <3>4
        <3>6. Total(f, s) = a + (b + r) /\ Total(f, s \ {z}) = a + r
            BY <2>2, <3>2, <3>3, <3>5
        <3>7. a + (b + r) = b + (a + r)
            OBVIOUS
        <3>. QED  BY <3>5, <3>6, <3>7
    <2>. QED  BY <2>3, <2>4
<1>. HIDE DEF T
<1>2. X \in T
    BY <1>1, SubsetInduction
<1>. QED  BY <1>2 DEF T

\* A sum depends on the values at its set alone.
LEMMA TotalSame ==
    ASSUME NEW X, IsFiniteSet(X), NEW f, NEW g, \A x \in X : f[x] = g[x]
    PROVE  Total(f, X) = Total(g, X)
<1>. DEFINE T == {s \in SUBSET X : Total(f, s) = Total(g, s)}
<1>1. ASSUME NEW s \in SUBSET X, \A t \in SUBSET s : t # s => t \in T
      PROVE  s \in T
    <2>1. CASE s = {}
        BY <2>1, TotalEmpty
    <2>2. CASE s # {}
        <3>1. First(s) \in s /\ s \ {First(s)} \in SUBSET s /\ s \ {First(s)} # s
            BY <2>2, FirstIn
        <3>2. /\ Total(f, s) = f[First(s)] + Total(f, s \ {First(s)})
              /\ Total(g, s) = g[First(s)] + Total(g, s \ {First(s)})
            BY <2>2, TotalUnfolds, FS_Subset DEF Unfolds
        <3>. QED  BY <1>1, <3>1, <3>2
    <2>. QED  BY <2>1, <2>2
<1>. HIDE DEF T
<1>2. X \in T
    BY <1>1, SubsetInduction
<1>. QED  BY <1>2 DEF T

\* What is summed up, of transactions g in month m.
Counting(g, m) == {t \in TxIds : g[t].status = "live" /\ g[t].date = m}

Amount(g) == [t \in TxIds |-> g[t].amount]

SpentOf(g, m) == MapThenSumSet(LAMBDA t : g[t].amount, Counting(g, m))

\* The recursion of the library's sum over amounts.
FoldsAmounts(g, X, h) ==
    h = [s \in SUBSET X |-> IF s = {} THEN 0 ELSE g[First(s)].amount + h[s \ {First(s)}]]

\* The sum of a month is one of amounts.
LEMMA SpentTotal ==
    ASSUME NEW g, NEW m
    PROVE  SpentOf(g, m) = Total(Amount(g), Counting(g, m))
<1>. DEFINE X == Counting(g, m)
            f == Amount(g)
<1>1. SpentOf(g, m) = (CHOOSE h : FoldsAmounts(g, X, h))[X]
    BY DEF SpentOf, MapThenSumSet, MapThenFoldSet, FoldsAmounts, First
<1>2. ASSUME NEW h PROVE Folds(f, X, h) <=> FoldsAmounts(g, X, h)
    <2>. DEFINE A(s) == IF s = {} THEN 0 ELSE f[First(s)] + h[s \ {First(s)}]
                B(s) == IF s = {} THEN 0 ELSE g[First(s)].amount + h[s \ {First(s)}]
    <2>1. ASSUME NEW s \in SUBSET X PROVE A(s) = B(s)
        <3>1. CASE s = {}
            BY <3>1
        <3>2. CASE s # {}
            <4>1. First(s) \in TxIds
                BY <3>2, FirstIn DEF Counting
            <4>. QED  BY <4>1 DEF Amount
        <3>. QED  BY <3>1, <3>2
    <2>. HIDE DEF A, B
    <2>2. [s \in SUBSET X |-> A(s)] = [s \in SUBSET X |-> B(s)]
        BY <2>1
    <2>. QED  BY <2>2 DEF A, B, Folds, FoldsAmounts
<1>. HIDE DEF f, X
<1>3. (CHOOSE h : Folds(f, X, h)) = (CHOOSE h : FoldsAmounts(g, X, h))
    BY <1>2
<1>. QED  BY <1>1, <1>3, TotalUnfold DEF f, X

\* The amounts are natural numbers.
LEMMA AmountType ==
    ASSUME NEW g \in [TxIds -> Tx], NEW t \in TxIds
    PROVE  Amount(g)[t] = g[t].amount /\ g[t].amount \in Nat
<1>1. g[t] \in Tx /\ Amounts \subseteq Nat
    BY BudgetAlertsAssumption
<1>2. g[t].amount \in Amounts \cup {0}
    BY <1>1 DEF Tx
<1>3. \A x \in Amounts \cup {0} : x \in Nat
    BY <1>1
<1>4. g[t].amount \in Nat
    BY <1>2, <1>3
<1>. QED  BY <1>4 DEF Amount

\* A month sums to a natural number.
LEMMA SpentType ==
    ASSUME NEW g \in [TxIds -> Tx], NEW m
    PROVE  SpentOf(g, m) \in Nat
<1>1. \A t \in TxIds : Amount(g)[t] \in Int /\ Amount(g)[t] >= 0
    BY AmountType
<1>2. Counting(g, m) \subseteq TxIds /\ IsFiniteSet(Counting(g, m))
    BY BudgetAlertsAssumption, FS_Subset DEF Counting
<1>. QED  BY <1>1, <1>2, SpentTotal, TotalType

\* An insert adds its amount to the sum of its month and leaves the others alone.
LEMMA InsertAdds ==
    ASSUME NEW g \in [TxIds -> Tx], NEW t \in TxIds, g[t].status = "unused",
           NEW h, \A u \in TxIds \ {t} : h[u] = g[u], h[t].status = "live",
           NEW a \in Nat, h[t].amount = a, NEW n, h[t].date = n, NEW m
    PROVE  SpentOf(h, m) = SpentOf(g, m) + (IF n = m THEN a ELSE 0)
<1>1. /\ Counting(h, m) = Counting(g, m) \cup (IF n = m THEN {t} ELSE {})
      /\ t \notin Counting(g, m)
    BY DEF Counting
<1>2. \A u \in TxIds : /\ Amount(h)[u] = IF u = t THEN a ELSE Amount(g)[u]
                       /\ Amount(g)[u] \in Int
                       /\ Amount(h)[u] \in Int
    <2>. SUFFICES ASSUME NEW u \in TxIds
                  PROVE  /\ Amount(h)[u] = IF u = t THEN a ELSE Amount(g)[u]
                         /\ Amount(g)[u] \in Int
                         /\ Amount(h)[u] \in Int
        OBVIOUS
    <2>1. Amount(g)[u] = g[u].amount /\ g[u].amount \in Nat
        BY AmountType
    <2>2. Amount(h)[u] = h[u].amount
        BY DEF Amount
    <2>3. h[u].amount = IF u = t THEN a ELSE g[u].amount
        OBVIOUS
    <2>. QED  BY <2>1, <2>2, <2>3
<1>3. Counting(g, m) \subseteq TxIds /\ IsFiniteSet(Counting(g, m)) /\ IsFiniteSet(Counting(h, m))
    BY BudgetAlertsAssumption, FS_Subset DEF Counting
<1>4. Total(Amount(h), Counting(g, m)) = Total(Amount(g), Counting(g, m))
    BY <1>1, <1>2, <1>3, TotalSame
<1>5. Total(Amount(g), Counting(g, m)) \in Int
    BY <1>2, <1>3, TotalType
<1>6. CASE n = m
    <2>1. t \in Counting(h, m) /\ Counting(h, m) \ {t} = Counting(g, m)
        BY <1>1, <1>6
    <2>2. Counting(h, m) \subseteq TxIds
        BY DEF Counting
    <2>3. \A u \in Counting(h, m) : Amount(h)[u] \in Int
        BY <1>2, <2>2
    <2>4. Total(Amount(h), Counting(h, m))
          = Amount(h)[t] + Total(Amount(h), Counting(h, m) \ {t})
        <3>. DEFINE X == Counting(h, m)
                    f == Amount(h)
        <3>1. IsFiniteSet(X) /\ t \in X /\ \A u \in X : f[u] \in Int
            BY <1>3, <2>1, <2>3
        <3>. HIDE DEF X, f
        <3>2. Total(f, X) = f[t] + Total(f, X \ {t})
            BY <3>1, TotalStep
        <3>. QED  BY <3>2 DEF X, f
    <2>5. SpentOf(h, m) = a + SpentOf(g, m)
        BY <1>2, <1>4, <2>1, <2>4, SpentTotal
    <2>6. SpentOf(g, m) \in Int
        BY <1>5, SpentTotal
    <2>. QED  BY <1>6, <2>5, <2>6
<1>7. CASE n # m
    BY <1>1, <1>4, <1>5, <1>7, SpentTotal
<1>. QED  BY <1>6, <1>7

(***************************************************************************)
(* What is on record.  A creation whose mark is smooth is the only one at  *)
(* work, so the budget its check has read is the budget there is.  Due is  *)
(* what the month sums to once the transaction is in: the check counts at  *)
(* least that, whether its sum came before the insert or after it, and the *)
(* level that is sent or on record is that of Due or the higher one.       *)
(***************************************************************************)
Due(q) == Spent(month) + (IF q.insert = "pending" /\ q.date = month THEN q.amount ELSE 0)

Covers(level, total, limit) ==
    LevelOf(total, limit) # None => level \in {"exceeded", LevelOf(total, limit)}

Raised(q) ==
    /\ ~q.gone
    /\ q.insert \in {"pending", "done"}
    /\ q.check \in {"sum", "notify", "save"} => q.read = budget /\ q.month = month
    /\ q.check \in {"notify", "save"} /\ q.date = month => Covers(q.level, Due(q), budget.limit)
    /\ q.check = "done" /\ q.date = month /\ budget # None
          /\ budget.limit > 0 /\ LevelOf(Due(q), budget.limit) # None =>
            budget.month = month /\ Covers(budget.level, Due(q), budget.limit)

RaisedInv ==
    /\ \A r \in Requests \ Active : req[r].insert = "none"
    /\ \A r \in Active : req[r].smooth => Active = {r} /\ Raised(req[r])

\* The sum of the current month, before and after a step.
LEMMA SpentNow ==
    ASSUME TypeInv, NEW m
    PROVE  /\ Spent(m) = SpentOf(tx, m)
           /\ Spent(m)' = SpentOf(tx', m)
           /\ Spent(m) \in Nat
<1>1. Spent(m) = SpentOf(tx, m)
    BY DEF Spent, SpentOf, Counting
<1>2. Spent(m)' = SpentOf(tx', m)
    BY DEF Spent, SpentOf, Counting, MapThenSumSet, MapThenFoldSet
<1>. QED  BY <1>1, <1>2, SpentType DEF TypeInv, TypeOK

\* A higher sum is of no lower level.
LEMMA CoversMore ==
    ASSUME NEW total \in Nat, NEW less \in Nat, less <= total, NEW limit \in Nat
    PROVE  Covers(LevelOf(total, limit), less, limit)
BY DEF Covers, LevelOf

\* The invariant holds initially.
LEMMA InitRaised == Init => RaisedInv
BY DEF Init, RaisedInv, Active, Idle

\* A disturbance takes the mark off everything at work; one may also mark a budget as gone.
LEMMA DisturbedRaised ==
    ASSUME TypeInv, RaisedInv,
           \A r \in Requests :
                /\ req'[r].check = Disturbed[r].check
                /\ req'[r].insert = Disturbed[r].insert
                /\ req'[r].smooth = Disturbed[r].smooth
    PROVE  RaisedInv'
<1>1. \A r \in Requests : /\ req'[r].check = req[r].check
                          /\ req'[r].insert = req[r].insert
                          /\ r \in Active => ~req'[r].smooth
    <2>. SUFFICES ASSUME NEW r \in Requests
                  PROVE  /\ req'[r].check = req[r].check
                         /\ req'[r].insert = req[r].insert
                         /\ r \in Active => ~req'[r].smooth
        OBVIOUS
    <2>1. req[r] \in Request
        BY DEF TypeInv, TypeOK
    <2>2. Disturbed[r] = IF r \in Active THEN [req[r] EXCEPT !.smooth = FALSE] ELSE req[r]
        BY DEF Disturbed
    <2>. QED  BY <2>1, <2>2 DEF Request
<1>2. Active' = Active
    BY <1>1 DEF Active
<1>. QED  BY <1>1, <1>2 DEF RaisedInv, Active

\* A step of the check or the insert of r is one of all that is at work, or of an r whose
\* mark is off.
LEMMA OneRaised ==
    ASSUME RaisedInv, NEW r \in Active,
           \A s \in Requests \ {r} : req'[s] = req[s],
           req'[r].check # "idle",
           req'[r].smooth => req[r].smooth,
           req[r].smooth /\ req'[r].smooth /\ Raised(req[r]) => Raised(req[r])'
    PROVE  RaisedInv'
<1>1. Active' = Active
    BY DEF Active
<1>2. ASSUME NEW s \in Active', req'[s].smooth
      PROVE  Active' = {s} /\ Raised(req[s])'
    <2>1. CASE s = r
        BY <1>1, <1>2, <2>1 DEF RaisedInv
    <2>2. CASE s # r
        <3>1. s \in Active /\ req[s].smooth
            BY <1>1, <1>2, <2>2 DEF Active
        <3>. QED  BY <2>2, <3>1 DEF RaisedInv
    <2>. QED  BY <2>1, <2>2
<1>3. \A s \in Requests \ Active' : req'[s].insert = "none"
    BY <1>1 DEF RaisedInv
<1>. QED  BY <1>2, <1>3 DEF RaisedInv

\* The insert moves the amount from what is pending into the sum.
LEMMA InsertRaised ==
    ASSUME TypeInv, RaisedInv, NEW r \in Requests, Insert(r)
    PROVE  RaisedInv'
<1>. PICK q : q = req[r]
    OBVIOUS
<1>1. q \in Request /\ q.insert = "pending" /\ UNCHANGED <<budget, month, clean, alerts>>
    BY DEF TypeInv, TypeOK, Insert
<1>2. req \in [Requests -> Request] /\ tx \in [TxIds -> Tx]
    BY DEF TypeInv, TypeOK
<1>3. \A s \in Requests \ {r} : req'[s] = req[s]
    BY <1>2 DEF Insert
<1>4. r \in Active
    BY <1>1 DEF RaisedInv
<1>5. CASE \E t \in TxIds :
              /\ tx[t].status = "unused"
              /\ tx' = [tx EXCEPT ![t] = [status |-> "live", amount |-> q.amount,
                                          date |-> q.date]]
              /\ req' = [req EXCEPT ![r].insert = "done"]
    <2>1. PICK t \in TxIds :
              /\ tx[t].status = "unused"
              /\ tx' = [tx EXCEPT ![t] = [status |-> "live", amount |-> q.amount,
                                          date |-> q.date]]
              /\ req' = [req EXCEPT ![r].insert = "done"]
        BY <1>5
    <2>. PICK p : p = req'[r]
        OBVIOUS
    <2>2. p = [q EXCEPT !.insert = "done"]
        BY <2>1 DEF TypeInv, TypeOK
    <2>3. /\ p.insert = "done" /\ p.check = q.check /\ p.read = q.read /\ p.month = q.month
          /\ p.level = q.level /\ p.gone = q.gone /\ p.smooth = q.smooth
          /\ p.date = q.date /\ p.amount = q.amount
        BY <1>1, <2>2 DEF Request
    <2>4. month \in Nat /\ q.amount \in Nat
        <3>1. q.amount \in Amounts \cup {0} /\ month \in Months
            BY <1>1 DEF Request, TypeInv, TypeOK
        <3>2. \A x \in Amounts \cup {0} : x \in Nat
            BY BudgetAlertsAssumption
        <3>3. Months \subseteq Nat
            BY BudgetAlertsAssumption DEF Months
        <3>. QED  BY <3>1, <3>2, <3>3
    <2>5. SpentOf(tx', month) = SpentOf(tx, month) + (IF q.date = month THEN q.amount ELSE 0)
        <3>. PICK g, h, m, a, n : /\ g = tx /\ h = tx' /\ m = month
                                  /\ a = q.amount /\ n = q.date
            OBVIOUS
        <3>1. /\ g \in [TxIds -> Tx] /\ g[t].status = "unused"
              /\ \A u \in TxIds \ {t} : h[u] = g[u]
              /\ h[t].status = "live" /\ h[t].amount = a /\ h[t].date = n
              /\ a \in Nat
            BY <1>2, <2>1, <2>4
        <3>2. SpentOf(h, m) = SpentOf(g, m) + (IF n = m THEN a ELSE 0)
            BY <3>1, InsertAdds
        <3>. QED  BY <3>2
    <2>6. /\ Spent(month) = SpentOf(tx, month)
          /\ Spent(month)' = SpentOf(tx', month)
          /\ Spent(month) \in Nat
          /\ Spent(month)' \in Nat
        <3>1. Spent(month) = SpentOf(tx, month) /\ Spent(month) \in Nat
            BY SpentNow
        <3>2. Spent(month)' = SpentOf(tx', month')
            BY DEF Spent, SpentOf, Counting, MapThenSumSet, MapThenFoldSet
        <3>. QED  BY <1>1, <2>4, <2>5, <3>1, <3>2
    <2>7. Due(req[r])' = Due(req[r])
        <3>1. Due(req[r])' = Spent(month)'
            BY <2>3, <2>6 DEF Due
        <3>2. Due(req[r]) = Spent(month) + (IF q.date = month THEN q.amount ELSE 0)
            BY <1>1 DEF Due
        <3>. QED  BY <2>5, <2>6, <3>1, <3>2
    <2>8. Raised(req[r]) => Raised(req[r])'
        BY <1>1, <2>3, <2>7 DEF Raised, Covers
    <2>9. req'[r].check # "idle"
        BY <1>4, <2>3 DEF Active
    <2>. QED  BY <1>3, <1>4, <2>3, <2>8, <2>9, OneRaised
<1>6. CASE req' = [req EXCEPT ![r] = [q EXCEPT !.insert = "done", !.smooth = FALSE]]
    <2>1. req'[r] = [q EXCEPT !.insert = "done", !.smooth = FALSE]
        BY <1>6 DEF TypeInv, TypeOK
    <2>2. ~req'[r].smooth /\ req'[r].check = q.check
        BY <1>1, <2>1 DEF Request
    <2>3. req'[r].check # "idle"
        BY <1>4, <2>2 DEF Active
    <2>. QED  BY <1>3, <1>4, <2>2, <2>3, OneRaised
<1>. QED  BY <1>5, <1>6 DEF Insert

\* The read of the budget, the sum and what is decided on it.
LEMMA ReadRaised ==
    ASSUME TypeInv, RaisedInv, NEW r \in Requests, ReadBudget(r)
    PROVE  RaisedInv'
<1>. PICK q, p : q = req[r] /\ p = req'[r]
    OBVIOUS
<1>1. /\ q \in Request /\ q.check = "read" /\ r \in Active
      /\ UNCHANGED <<tx, budget, month, clean, alerts>>
    BY DEF TypeInv, TypeOK, ReadBudget, Active
<1>2. p = IF budget = None \/ budget.limit <= 0 THEN Over(q)
          ELSE [q EXCEPT !.check = "sum", !.read = budget, !.month = CurrentMonth]
    BY DEF TypeInv, TypeOK, ReadBudget
<1>3. \A s \in Requests \ {r} : req'[s] = req[s]
    BY DEF ReadBudget, TypeInv, TypeOK
<1>4. CASE budget = None \/ budget.limit <= 0
    <2>1. /\ p.check = "done" /\ p.insert = q.insert /\ ~p.gone /\ p.smooth = q.smooth
        BY <1>1, <1>2, <1>4 DEF Over, Request
    <2>2. budget = None \/ ~(budget.limit > 0)
        <3>1. budget # None => budget.limit \in Nat
            BY BudgetAlertsAssumption DEF TypeInv, TypeOK, Budget
        <3>. QED  BY <1>4, <3>1
    <2>3. Raised(q) => Raised(req[r])'
        BY <1>1, <2>1, <2>2 DEF Raised
    <2>. QED  BY <1>1, <1>3, <2>1, <2>3, OneRaised
<1>5. CASE ~(budget = None \/ budget.limit <= 0)
    <2>1. /\ p.check = "sum" /\ p.insert = q.insert /\ p.gone = q.gone /\ p.smooth = q.smooth
          /\ p.read = budget /\ p.month = month
        BY <1>1, <1>2, <1>5 DEF Request, CurrentMonth
    <2>2. Raised(q) => Raised(req[r])'
        BY <1>1, <2>1 DEF Raised
    <2>. QED  BY <1>1, <1>3, <2>1, <2>2, OneRaised
<1>. QED  BY <1>4, <1>5

\* The creation's sum: the alert it goes on to raise is the one its month has reached.
LEMMA SumRaised ==
    ASSUME TypeInv, RaisedInv, NEW r \in Requests, SumMonth(r)
    PROVE  RaisedInv'
<1>. PICK q, p : q = req[r] /\ p = req'[r]
    OBVIOUS
<1>. PICK total, level : /\ total = Counted(Spent(q.month), q.amount)
                         /\ level = LevelOf(total, q.read.limit)
    OBVIOUS
<1>1. /\ q \in Request /\ WellFormed(q) /\ q.check = "sum" /\ r \in Active
      /\ UNCHANGED <<tx, budget, month, clean, alerts>>
    BY DEF TypeInv, TypeOK, SumMonth, Active
<1>2. p = IF level = None \/ AlreadySent(q.read, q.month, level) THEN Over(q)
          ELSE [q EXCEPT !.check = "notify", !.level = level]
    BY DEF TypeInv, TypeOK, SumMonth
<1>3. \A s \in Requests \ {r} : req'[s] = req[s]
    BY DEF SumMonth, TypeInv, TypeOK
<1>4. /\ p.insert = q.insert /\ p.smooth = q.smooth /\ p.date = q.date
      /\ p.amount = q.amount
      /\ \/ /\ p.check = "done" /\ ~p.gone
            /\ level = None \/ AlreadySent(q.read, q.month, level)
         \/ /\ p.check = "notify" /\ p.read = q.read /\ p.month = q.month
            /\ p.level = level /\ p.gone = q.gone
    <2>1. CASE level = None \/ AlreadySent(q.read, q.month, level)
        BY <1>1, <1>2, <2>1 DEF Over, Request
    <2>2. CASE ~(level = None \/ AlreadySent(q.read, q.month, level))
        BY <1>1, <1>2, <2>2 DEF Request
    <2>. QED  BY <2>1, <2>2
<1>5. ASSUME Raised(q)
      PROVE  Raised(p)'
    <2>1. q.read = budget /\ q.month = month /\ budget \in Budget /\ budget # None
        BY <1>1, <1>5, BudgetAlertsAssumption DEF Raised, WellFormed
    <2>2. budget.limit \in Nat
        BY <2>1, BudgetAlertsAssumption DEF Budget
    <2>3. Spent(month) \in Nat /\ q.amount \in Nat
        <3>1. q.amount \in Amounts \cup {0}
            BY <1>1 DEF Request
        <3>2. \A x \in Amounts \cup {0} : x \in Nat
            BY BudgetAlertsAssumption
        <3>. QED  BY <3>1, <3>2, SpentNow
    <2>4. Due(q) \in Nat /\ total \in Nat /\ Due(q) <= total
        BY <2>1, <2>3 DEF Due, Counted
    <2>5. Covers(level, Due(q), budget.limit)
        BY <2>1, <2>2, <2>4, CoversMore
    <2>6. Spent(month)' = Spent(month)
        BY <1>1 DEF Spent, MapThenSumSet, MapThenFoldSet
    <2>7. Due(p)' = Due(q)
        BY <1>1, <1>4, <2>6 DEF Due
    <2>. HIDE DEF Due
    <2>8. level = None => LevelOf(Due(q), budget.limit) = None
        BY <2>5, BudgetAlertsAssumption DEF Covers, Levels
    <2>9. AlreadySent(q.read, q.month, level) /\ level # None =>
              budget.month = month /\ Covers(budget.level, Due(q), budget.limit)
        BY <2>1, <2>5 DEF AlreadySent, Covers
    <2>. QED  BY <1>1, <1>4, <1>5, <2>1, <2>5, <2>7, <2>8, <2>9 DEF Raised, Covers
<1>6. Raised(req[r]) => Raised(req[r])'
    BY <1>5 DEF Raised, Due
<1>. QED  BY <1>1, <1>3, <1>4, <1>6, OneRaised

\* The notification, and the save that puts it on record.
LEMMA NotifyRaised ==
    ASSUME TypeInv, RaisedInv, NEW r \in Requests, Notify(r)
    PROVE  RaisedInv'
<1>. PICK q, p : q = req[r] /\ p = req'[r]
    OBVIOUS
<1>1. /\ q \in Request /\ q.check = "notify" /\ r \in Active
      /\ UNCHANGED <<tx, budget, month, clean>>
    BY DEF TypeInv, TypeOK, Notify, Active
<1>2. p = [q EXCEPT !.check = "save"]
    BY DEF TypeInv, TypeOK, Notify
<1>3. \A s \in Requests \ {r} : req'[s] = req[s]
    BY DEF Notify, TypeInv, TypeOK
<1>4. /\ p.check = "save" /\ p.insert = q.insert /\ p.smooth = q.smooth /\ p.date = q.date
      /\ p.amount = q.amount /\ p.read = q.read /\ p.month = q.month /\ p.level = q.level
      /\ p.gone = q.gone
    BY <1>1, <1>2 DEF Request
<1>5. Spent(month)' = Spent(month)
    BY <1>1 DEF Spent, MapThenSumSet, MapThenFoldSet
<1>6. Due(req[r])' = Due(req[r])
    BY <1>1, <1>4, <1>5 DEF Due
<1>. HIDE DEF Due
<1>7. Raised(req[r]) => Raised(req[r])'
    BY <1>1, <1>4, <1>6 DEF Raised, Covers
<1>. QED  BY <1>1, <1>3, <1>4, <1>7, OneRaised

\* The alert saved is what the others were waiting for.
LEMMA SaveRaised ==
    ASSUME TypeInv, RaisedInv, NEW r \in Requests, SaveBudget(r)
    PROVE  RaisedInv'
<1>. PICK q, p : q = req[r] /\ p = req'[r]
    OBVIOUS
<1>1. /\ q \in Request /\ WellFormed(q) /\ q.check = "save" /\ r \in Active
      /\ UNCHANGED <<tx, month, clean, alerts>>
    BY DEF TypeInv, TypeOK, SaveBudget, Active
<1>2. p = [Over(q) EXCEPT !.smooth = @ /\ ~q.gone]
    BY DEF TypeInv, TypeOK, SaveBudget
<1>3. \A s \in Requests \ {r} : req'[s] = req[s]
    BY DEF SaveBudget, TypeInv, TypeOK
<1>4. /\ p.check = "done" /\ p.insert = q.insert /\ p.date = q.date
      /\ p.amount = q.amount /\ ~p.gone
    BY <1>1, <1>2 DEF Request, Over
<1>5. p.smooth => q.smooth
    BY <1>1, <1>2 DEF Request, Over
<1>6. Spent(month)' = Spent(month)
    BY <1>1 DEF Spent, MapThenSumSet, MapThenFoldSet
<1>7. Due(req[r])' = Due(req[r])
    BY <1>1, <1>4, <1>6 DEF Due
<1>. HIDE DEF Due
<1>8. ASSUME Raised(q), q = req[r] PROVE Raised(req[r])'
    <2>1. q.read = budget /\ q.month = month /\ budget \in Budget /\ ~q.gone
        BY <1>1, <1>8 DEF Raised, WellFormed
    <2>2. budget' = Alerted(budget, q)
        BY <2>1 DEF SaveBudget
    <2>3. budget'.month = month /\ budget'.level = q.level /\ budget'.limit = budget.limit
        BY <2>1, <2>2 DEF Alerted, Budget
    <2>4. q.date = month => Covers(q.level, Due(req[r]), budget.limit)
        BY <1>1, <1>8 DEF Raised
    <2>. QED  BY <1>1, <1>4, <1>7, <1>8, <2>3, <2>4 DEF Raised, Covers
<1>. QED  BY <1>1, <1>3, <1>4, <1>5, <1>8, OneRaised

\* A creation ends with its alert on record, or with none to raise.
LEMMA FinishRaised ==
    ASSUME TypeInv, RaisedInv, NEW r \in Requests, Finished(r)
    PROVE  RaisedInv'
<1>1. /\ req' = [req EXCEPT ![r] = Idle] /\ r \in Active
      /\ req \in [Requests -> Request]
    BY DEF Finished, Active, TypeInv, TypeOK
<1>2. /\ req'[r].check = "idle" /\ req'[r].insert = "none"
      /\ \A s \in Requests \ {r} : req'[s] = req[s]
    BY <1>1 DEF Idle
<1>3. \A s \in Active' : s # r /\ s \in Active /\ req'[s] = req[s]
    BY <1>2 DEF Active
<1>4. \A s \in Active' : ~req'[s].smooth
    BY <1>1, <1>3 DEF RaisedInv
<1>5. \A s \in Requests \ Active' : req'[s].insert = "none"
    BY <1>2 DEF Active, RaisedInv
<1>. QED  BY <1>4, <1>5 DEF RaisedInv

\* Only a creation that finds nothing at work begins with the mark.
LEMMA CreateRaised ==
    ASSUME TypeInv, RaisedInv, NEW r \in Requests, Create(r)
    PROVE  RaisedInv'
<1>1. PICK a \in Amounts, m \in Months :
          req' = [Disturbed EXCEPT ![r] =
                      [Idle EXCEPT !.check = "read", !.insert = "pending", !.amount = a,
                                   !.date = m, !.smooth = (Active = {})]]
    BY DEF Create
<1>2. \A s \in Requests \ {r} : req'[s] = Disturbed[s]
    BY <1>1 DEF Disturbed
<1>3. /\ req'[r].check = "read" /\ req'[r].insert = "pending" /\ ~req'[r].gone
      /\ req'[r].smooth = (Active = {})
    BY <1>1 DEF Disturbed, Idle
<1>4. \A s \in Requests \ {r} : /\ req'[s].check = req[s].check
                                /\ req'[s].insert = req[s].insert
                                /\ s \in Active => ~req'[s].smooth
    <2>. SUFFICES ASSUME NEW s \in Requests \ {r}
                  PROVE  /\ req'[s].check = req[s].check
                         /\ req'[s].insert = req[s].insert
                         /\ s \in Active => ~req'[s].smooth
        OBVIOUS
    <2>1. req[s] \in Request
        BY DEF TypeInv, TypeOK
    <2>2. req'[s] = IF s \in Active THEN [req[s] EXCEPT !.smooth = FALSE] ELSE req[s]
        BY <1>2 DEF Disturbed
    <2>. QED  BY <2>1, <2>2 DEF Request
<1>5. r \notin Active
    BY DEF Create, Active, Idle
<1>6. Active' = Active \cup {r}
    BY <1>3, <1>4, <1>5 DEF Active
<1>7. \A s \in Active' : req'[s].smooth => s = r /\ Active' = {s}
    BY <1>3, <1>4, <1>6 DEF Active
<1>8. Raised(req[r])'
    BY <1>3 DEF Raised
<1>9. \A s \in Requests \ Active' : req'[s].insert = "none"
    BY <1>4, <1>6 DEF RaisedInv, Active
<1>. QED  BY <1>7, <1>8, <1>9 DEF RaisedInv

\* Every step keeps what creations owe their months.
LEMMA NextRaised == TypeInv /\ RaisedInv /\ [Next]_vars => RaisedInv'
<1>. SUFFICES ASSUME TypeInv, RaisedInv, [Next]_vars PROVE RaisedInv'
    OBVIOUS
<1>1. CASE Upsert \/ EditTransaction \/ DeleteTransaction \/ NewMonth
    <2>1. req' = Disturbed
        BY <1>1 DEF Upsert, EditTransaction, DeleteTransaction, NewMonth
    <2>. QED  BY <2>1, DisturbedRaised
<1>2. CASE DeleteBudget
    <2>1. \A r \in Requests : /\ req'[r].check = Disturbed[r].check
                              /\ req'[r].insert = Disturbed[r].insert
                              /\ req'[r].smooth = Disturbed[r].smooth
        <3>. SUFFICES ASSUME NEW r \in Requests
                      PROVE  /\ req'[r].check = Disturbed[r].check
                             /\ req'[r].insert = Disturbed[r].insert
                             /\ req'[r].smooth = Disturbed[r].smooth
            OBVIOUS
        <3>1. Disturbed[r] \in Request
            BY DisturbedType DEF WellFormed
        <3>2. CASE r \in Active
            <4>1. req'[r] = [Disturbed[r] EXCEPT !.gone = req[r].read # None]
                BY <1>2, <3>2 DEF DeleteBudget
            <4>. QED  BY <3>1, <4>1 DEF Request
        <3>3. CASE r \notin Active
            BY <1>2, <3>3 DEF DeleteBudget, Disturbed
        <3>. QED  BY <3>2, <3>3
    <2>. QED  BY <2>1, DisturbedRaised
<1>3. ASSUME NEW r \in Requests, CheckFails(r) PROVE RaisedInv'
    <2>1. /\ req' = [req EXCEPT ![r] = [Over(req[r]) EXCEPT !.smooth = FALSE]]
          /\ r \in Active /\ req[r] \in Request /\ req \in [Requests -> Request]
        BY <1>3 DEF CheckFails, Checking, Active, TypeInv, TypeOK
    <2>2. req'[r].check = "done" /\ ~req'[r].smooth
        BY <2>1 DEF Over, Request
    <2>3. \A s \in Requests \ {r} : req'[s] = req[s]
        BY <2>1
    <2>. QED  BY <2>1, <2>2, <2>3, OneRaised
<1>4. ASSUME NEW r \in Requests,
             Create(r) \/ Insert(r) \/ ReadBudget(r) \/ SumMonth(r) \/ Notify(r)
             \/ SaveBudget(r) \/ Finished(r)
      PROVE  RaisedInv'
    BY <1>4, CreateRaised, InsertRaised, ReadRaised, SumRaised, NotifyRaised, SaveRaised,
       FinishRaised
<1>5. CASE UNCHANGED vars
    <2>1. Spent(month)' = Spent(month)
        BY <1>5 DEF vars, Spent, MapThenSumSet, MapThenFoldSet
    <2>2. Active' = Active /\ req' = req /\ budget' = budget /\ month' = month
        BY <1>5 DEF vars, Active
    <2>3. \A r \in Requests : Due(req[r])' = Due(req[r])
        BY <2>1, <2>2 DEF Due
    <2>. HIDE DEF Due
    <2>4. \A r \in Requests : Raised(req[r]) => Raised(req[r])'
        BY <2>2, <2>3 DEF Raised, Covers
    <2>. QED  BY <2>2, <2>4 DEF RaisedInv, Active
<1>. QED  BY <1>1, <1>2, <1>3, <1>4, <1>5 DEF Next

\* Where nothing else touched the category meanwhile, a creation that is over has not
\* gone unnoticed: an alert of the level the month has reached, or of the higher one, is
\* on record.  For any finite set of transactions, whatever their amounts, and for any
\* limits and requests.
THEOREM AlertsRaised == Spec => []AlertRaised
<1>1. TypeInv /\ RaisedInv => AlertRaised
    <2>. SUFFICES ASSUME TypeInv, RaisedInv, NEW r \in Requests,
                         req[r].check = "done", req[r].insert = "done", req[r].smooth,
                         budget # None, budget.limit > 0,
                         LevelOf(Spent(month), budget.limit) # None,
                         req[r].date = month
                  PROVE  /\ budget.month = month
                         /\ budget.level \in {"exceeded", LevelOf(Spent(month), budget.limit)}
        BY DEF AlertRaised
    <2>1. r \in Active /\ Raised(req[r])
        BY DEF Active, RaisedInv
    <2>2. Due(req[r]) = Spent(month)
        BY SpentNow DEF Due
    <2>. QED  BY <2>1, <2>2 DEF Raised, Covers
<1>. QED  BY InitType, NextType, InitRaised, NextRaised, <1>1, PTL DEF Spec
=============================================================================
