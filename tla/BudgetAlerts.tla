--------------------------- MODULE BudgetAlerts ---------------------------
(***************************************************************************)
(* One user's budget for one category, and the alerts about it             *)
(* (BudgetsService, src/src/modules/budgets/budgets.service.ts) that       *)
(* creating an expense sets off (TransactionsService.create,               *)
(* src/src/modules/transactions/transactions.service.ts).                  *)
(*                                                                         *)
(* create starts checkThreshold and does not wait for it: from then on the *)
(* insert of the transaction and the database calls of the check (read the *)
(* budget, sum the month, store the notification, save the budget) happen  *)
(* in any order of the two, next to those of other requests.  The save     *)
(* sends the modified ones of lastAlertedMonth and lastAlertedLevel, and   *)
(* is unconditional.                                                       *)
(***************************************************************************)
EXTENDS Naturals, Sequences, FiniteSets, FiniteSetsExt

CONSTANTS
    TxIds,     \* ids for transactions of the category, never reused
    Requests,  \* creations in flight at the same time
    Amounts,   \* amounts of transactions
    Limits,    \* limits the user sets
    MaxMonth,  \* the months are 1..MaxMonth
    None       \* "undefined"

VARIABLES
    tx,      \* the transactions
    budget,  \* the budget document, None if there is none
    month,   \* the current month
    req,     \* a creation and its check
    clean,   \* history: the checks of this budget have run one at a time, to the end
    alerts   \* history: the alerts sent about it while clean

vars == <<tx, budget, month, req, clean, alerts>>

Months == 1..MaxMonth
Levels == {"near", "exceeded"}

Tx == [status : {"unused", "live", "deleted"}, amount : Amounts \cup {0},
       date : Months \cup {0}]

\* month and level are lastAlertedMonth and lastAlertedLevel.
Budget == [limit : Limits, month : Months \cup {None}, level : Levels \cup {None}]

ASSUME BudgetAlertsAssumption ==
    /\ IsFiniteSet(TxIds)
    /\ Amounts \subseteq Nat
    /\ Limits \subseteq Nat
    /\ MaxMonth \in Nat \ {0}
    /\ None \notin Budget \cup Months \cup Levels

\* check: where checkThreshold is; insert: how far the create is; read: the budget read;
\* month: currentMonth; level: the alert under way; gone: the budget read was deleted;
\* smooth: history, no call has failed and nothing else has touched the category in the
\* meantime.
Request == [check  : {"idle", "read", "sum", "notify", "save", "done"},
            insert : {"none", "pending", "done"},
            amount : Amounts \cup {0},
            date   : Months \cup {0},
            read   : Budget \cup {None},
            month  : Months \cup {None},
            level  : Levels \cup {None},
            gone   : BOOLEAN,
            smooth : BOOLEAN]

TypeOK ==
    /\ tx \in [TxIds -> Tx]
    /\ budget \in Budget \cup {None}
    /\ month \in Months
    /\ req \in [Requests -> Request]
    /\ clean \in BOOLEAN
    /\ alerts \in Seq([month : Months, level : Levels])

----------------------------------------------------------------------------
Unused == [status |-> "unused", amount |-> 0, date |-> 0]

Idle == [check |-> "idle", insert |-> "none", amount |-> 0, date |-> 0, read |-> None, month |-> None, level |-> None,
         gone |-> FALSE, smooth |-> TRUE]

Init ==
    /\ tx = [t \in TxIds |-> Unused]
    /\ budget = None
    /\ month = 1
    /\ req = [r \in Requests |-> Idle]
    /\ clean = TRUE
    /\ alerts = << >>

\* Mutant: getMonth is taken for the number of the month.
CurrentMonthFromZero == month - 1

CurrentMonth == month

Active == {r \in Requests : req[r].check # "idle"}
Checking == {r \in Requests : req[r].check \in {"read", "sum", "notify", "save"}}

\* The check of a creation is over.
Over(q) == [q EXCEPT !.check = "done", !.read = None, !.month = None,
                     !.level = None, !.gone = FALSE]

Disturbed == [r \in Requests |-> IF r \in Active THEN [req[r] EXCEPT !.smooth = FALSE]
                                 ELSE req[r]]

\* The history of the alerts ends where the checks are no longer clean.
Remembering(still) ==
    /\ clean' = (clean /\ still)
    /\ alerts' = IF clean' THEN alerts ELSE << >>

\* The sum over the expenses of a month.
Spent(m) ==
    MapThenSumSet(LAMBDA t : tx[t].amount,
                  {t \in TxIds : tx[t].status = "live" /\ tx[t].date = m})

\* Mutant: the new transaction is taken to be in the sum.
CountedStored(sum, amount) == sum

\* totalSpentMinor.
Counted(sum, amount) == sum + amount

\* The thresholds: 100% and 80% of the limit.
LevelOf(total, limit) ==
    IF total >= limit THEN "exceeded"
    ELSE IF 5 * total >= 4 * limit THEN "near"
    ELSE None

\* Mutant: only the very same alert is held back.
AlreadySentSame(b, m, level) == b.month = m /\ b.level = level

\* No second alert of the same level in a month, and none that is near once one that
\* the limit is exceeded was sent.
AlreadySent(b, m, level) ==
    /\ b.month = m
    /\ b.level = "exceeded" \/ b.level = level

----------------------------------------------------------------------------
\* The user sets the limit; what was alerted last stays.
Upsert ==
    \E limit \in Limits :
        /\ budget' = IF budget = None
                     THEN [limit |-> limit, month |-> None, level |-> None]
                     ELSE [budget EXCEPT !.limit = limit]
        /\ req' = Disturbed
        /\ UNCHANGED <<tx, month, clean, alerts>>

\* deleteAllForUser.
DeleteBudget ==
    /\ budget # None
    /\ budget' = None
    /\ req' = [r \in Requests |-> IF r \in Active
                                  THEN [Disturbed[r] EXCEPT
                                            !.gone = req[r].read # None]
                                  ELSE req[r]]
    /\ clean' = (Checking = {})
    /\ alerts' = << >>
    /\ UNCHANGED <<tx, month>>

\* update, or syncGroupShare: no check is made.
EditTransaction ==
    \E t \in TxIds, a \in Amounts, m \in Months :
        /\ tx[t].status = "live"
        /\ tx' = [tx EXCEPT ![t].amount = a, ![t].date = m]
        /\ req' = Disturbed
        /\ UNCHANGED <<budget, month, clean, alerts>>

\* remove, or removeGroupShares, or an update to another category.
DeleteTransaction ==
    \E t \in TxIds :
        /\ tx[t].status = "live"
        /\ tx' = [tx EXCEPT ![t] = [Unused EXCEPT !.status = "deleted"]]
        /\ req' = Disturbed
        /\ UNCHANGED <<budget, month, clean, alerts>>

NewMonth ==
    /\ month < MaxMonth
    /\ month' = month + 1
    /\ req' = Disturbed
    /\ UNCHANGED <<tx, budget, clean, alerts>>

\* create of an expense: the check is started, the insert is under way.
Create(r) ==
    \E a \in Amounts, m \in Months :
        /\ req[r] = Idle
        /\ req' = [Disturbed EXCEPT ![r] =
                      [Idle EXCEPT !.check = "read", !.insert = "pending", !.amount = a,
                                   !.date = m, !.smooth = (Active = {})]]
        /\ Remembering(Checking = {})
        /\ UNCHANGED <<tx, budget, month>>

Insert(r) ==
    LET q == req[r] IN
    /\ q.insert = "pending"
    /\ \/ \E t \in TxIds :
            /\ tx[t].status = "unused"
            /\ tx' = [tx EXCEPT ![t] = [status |-> "live", amount |-> q.amount,
                                        date |-> q.date]]
            /\ req' = [req EXCEPT ![r].insert = "done"]
       \/ /\ req' = [req EXCEPT ![r] = [q EXCEPT !.insert = "done", !.smooth = FALSE]]
          /\ UNCHANGED tx
    /\ UNCHANGED <<budget, month, clean, alerts>>

ReadBudget(r) ==
    LET q == req[r] IN
    /\ q.check = "read"
    /\ req' = [req EXCEPT ![r] =
                  IF budget = None \/ budget.limit <= 0
                  THEN Over(q)
                  ELSE [q EXCEPT !.check = "sum", !.read = budget,
                                 !.month = CurrentMonth]]
    /\ UNCHANGED <<tx, budget, month, clean, alerts>>

\* The aggregate, and what is decided on it.
SumMonth(r) ==
    LET q == req[r]
        level == LevelOf(Counted(Spent(q.month), q.amount), q.read.limit)
    IN
    /\ q.check = "sum"
    /\ req' = [req EXCEPT ![r] =
                  IF level = None \/ AlreadySent(q.read, q.month, level)
                  THEN Over(q)
                  ELSE [q EXCEPT !.check = "notify", !.level = level]]
    /\ UNCHANGED <<tx, budget, month, clean, alerts>>

Notify(r) ==
    LET q == req[r] IN
    /\ q.check = "notify"
    /\ alerts' = IF q.gone \/ ~clean THEN alerts
                 ELSE Append(alerts, [month |-> q.month, level |-> q.level])
    /\ req' = [req EXCEPT ![r] = [q EXCEPT !.check = "save"]]
    /\ UNCHANGED <<tx, budget, month, clean>>

\* The budget with the paths modified since it was read.
Alerted(b, q) ==
    [b EXCEPT !.month = IF q.month # q.read.month THEN q.month ELSE b.month,
              !.level = IF q.level # q.read.level THEN q.level ELSE b.level]

\* The save; it throws if the document is gone.
SaveBudget(r) ==
    LET q == req[r] IN
    /\ q.check = "save"
    /\ budget' = IF q.gone THEN budget ELSE Alerted(budget, q)
    /\ req' = [req EXCEPT ![r] = [Over(q) EXCEPT !.smooth = @ /\ ~q.gone]]
    /\ UNCHANGED <<tx, month, clean, alerts>>

\* A call of the check fails, which create ignores, or the instance is frozen once
\* create has answered.
CheckFails(r) ==
    /\ r \in Checking
    /\ req' = [req EXCEPT ![r] = [Over(req[r]) EXCEPT !.smooth = FALSE]]
    /\ Remembering(req[r].check = "save" => req[r].gone)
    /\ UNCHANGED <<tx, budget, month>>

Finished(r) ==
    /\ req[r].check = "done"
    /\ req[r].insert = "done"
    /\ req' = [req EXCEPT ![r] = Idle]
    /\ UNCHANGED <<tx, budget, month, clean, alerts>>

Next ==
    \/ Upsert
    \/ DeleteBudget
    \/ EditTransaction
    \/ DeleteTransaction
    \/ NewMonth
    \/ \E r \in Requests :
        \/ Create(r) \/ Insert(r)
        \/ ReadBudget(r) \/ SumMonth(r) \/ Notify(r) \/ SaveBudget(r)
        \/ CheckFails(r) \/ Finished(r)

Spec == Init /\ [][Next]_vars

----------------------------------------------------------------------------
\* As long as the checks ran one at a time and none was cut off between the
\* notification and the save, the user is not told the same thing twice: in a month,
\* at most an alert that the limit is near and after it one that it is exceeded,
\* whatever the limit is changed to and whatever transactions come and go.
NoRepeatedAlert ==
    clean => \A i, j \in 1..Len(alerts) :
        i < j /\ alerts[i].month = alerts[j].month =>
            alerts[i].level = "near" /\ alerts[j].level = "exceeded"

\* Where nothing else touched the category meanwhile, a creation that is over has not
\* gone unnoticed: if the month's expenses have reached the limit or 80% of it, an
\* alert of that level was sent and is on record, whichever of the insert and the sum
\* came first.
AlertRaised ==
    \A r \in Requests :
        LET q == req[r] IN
        /\ q.check = "done" /\ q.insert = "done" /\ q.smooth
        /\ budget # None /\ budget.limit > 0
        /\ LevelOf(Spent(month), budget.limit) # None
        /\ q.date = month
        => /\ budget.month = month
           /\ budget.level \in {"exceeded", LevelOf(Spent(month), budget.limit)}
============================================================================
