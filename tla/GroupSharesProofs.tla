------------------------- MODULE GroupSharesProofs -------------------------
(***************************************************************************)
(* Theorems about GroupShares for any number of members, expenses,         *)
(* transactions and requests, proved with TLAPS.                           *)
(***************************************************************************)
EXTENDS GroupShares, TLAPS

(***************************************************************************)
(* The type invariant.  On its own TypeOK is not inductive: what a request *)
(* holds depends on where it is in its handler.                            *)
(***************************************************************************)
WellFormed(q) ==
    /\ q \in Request
    /\ q.pc # "idle" => q.expense \in Expenses
    /\ q.pc \in {"confirm_create", "confirm_save"} =>
           /\ q.member \in Members
           /\ q.owed[q.member] # None
           /\ q.link[q.member] = None
    /\ q.pc = "confirm_save" => q.tx \in TxIds
    /\ q.todo \subseteq Confirmed(q.link)

TypeInv ==
    /\ TypeOK
    /\ \A r \in Requests : WellFormed(req[r])

\* The helpers stay inside the types.
LEMMA HelperTypes ==
    ASSUME TypeOK
    PROVE  /\ WellFormed(Idle)
           /\ \A status \in {"deleted", "wiped"} : GoneExpense(status) \in ExpenseDoc
           /\ \A t \in TxIds : \A status \in {"deleted", "removed"} :
                 GoneTx(t, status) \in TxDoc
BY DEF TypeOK, Idle, Request, Pcs, NoOwed, NoLinks, Owed, Links, GoneExpense,
       ExpenseDoc, GoneTx, TxDoc, WellFormed, Confirmed

\* What a request has fetched is the document.
LEMMA FetchedType ==
    ASSUME TypeOK, NEW e \in Expenses, NEW pc \in Pcs
    PROVE  /\ Fetched(e, pc) \in Request
           /\ Fetched(e, pc).pc = pc
           /\ Fetched(e, pc).expense = e
           /\ Fetched(e, pc).info = expense[e].info
           /\ Fetched(e, pc).owed = expense[e].owed
           /\ Fetched(e, pc).link = expense[e].link
           /\ Fetched(e, pc).todo = {}
           /\ Fetched(e, pc).stale = FALSE
<1>1. expense[e] \in ExpenseDoc  BY DEF TypeOK
<1>2. Idle \in Request  BY HelperTypes DEF WellFormed
<1>3. QED  BY <1>1, <1>2 DEF Fetched, ExpenseDoc, Request, Idle

\* A save changes the requests, apart from the one that saves, in their stale mark.
LEMMA OutdateType ==
    ASSUME TypeInv, NEW r \in Requests, NEW e, NEW local, WellFormed(local)
    PROVE  /\ Outdate(r, e, local) \in [Requests -> Request]
           /\ \A p \in Requests : WellFormed(Outdate(r, e, local)[p])
<1>1. ASSUME NEW p \in Requests
      PROVE  WellFormed([req[p] EXCEPT !.stale = TRUE])
  BY DEF TypeInv, WellFormed, Request, Confirmed
<1>2. QED  BY <1>1 DEF TypeInv, Outdate, WellFormed

\* Removing copies leaves a transaction collection.
LEMMA RemoveCopiesType ==
    ASSUME TypeOK, NEW ids, RemoveCopies(ids)
    PROVE  tx' \in [TxIds -> TxDoc]
BY HelperTypes DEF TypeOK, RemoveCopies

\* Overwriting a transaction's values leaves a transaction.
LEMMA OverwrittenType ==
    ASSUME TypeOK, NEW t \in TxIds, NEW amount \in Amounts \cup {None},
           NEW info \in Infos \cup {None}
    PROVE  Overwritten(t, amount, info) \in TxDoc
BY DEF TypeOK, TxDoc, Overwritten

\* One request moves on, the others stay.
LEMMA OneMoves ==
    ASSUME TypeInv, NEW r \in Requests, NEW local, WellFormed(local),
           req' = [req EXCEPT ![r] = local]
    PROVE  /\ req' \in [Requests -> Request]
           /\ \A p \in Requests : WellFormed(req'[p])
BY DEF TypeInv, TypeOK, WellFormed

\* A request begins.
LEMMA BeginType ==
    ASSUME TypeInv, NEW r \in Requests, NEW e \in Expenses, NEW local,
           WellFormed(local), Begin(r, e, local)
    PROVE  TypeInv'
<1>1. req' \in [Requests -> Request] /\ \A p \in Requests : WellFormed(req'[p])
  BY OneMoves DEF Begin
<1>2. QED  BY <1>1 DEF TypeInv, TypeOK, Begin, WellFormed, Request, Confirmed

\* Steps that leave the requests alone.
LEMMA RequestsKept ==
    ASSUME TypeInv, req' = req, TypeOK'
    PROVE  TypeInv'
BY DEF TypeInv, WellFormed, Request, Confirmed

\* Every step of the program keeps the documents, the requests and the history
\* variables in their types.
LEMMA TypeStep == TypeInv /\ [Next]_vars => TypeInv'
<1> SUFFICES ASSUME TypeInv, [Next]_vars PROVE TypeInv'
  OBVIOUS
<1> TypeOK /\ \A r \in Requests : WellFormed(req[r])
  BY DEF TypeInv
<1> USE HelperTypes
<1>a. ASSUME req' \in [Requests -> Request], \A p \in Requests : WellFormed(req'[p]),
             expense' \in [Expenses -> ExpenseDoc], tx' \in [TxIds -> TxDoc],
             acked' \subseteq TxIds, abandoned' \subseteq TxIds,
             undisturbed' \subseteq Expenses
      PROVE  TypeInv'
  BY <1>a DEF TypeInv, TypeOK, WellFormed, Request, Confirmed
<1>1. CASE AddExpense
  <2>1. TypeOK'
    BY <1>1, SplitListsAssumption
       DEF AddExpense, TypeOK, ExpenseDoc, Owed, Links, NoLinks, history
  <2>2. QED  BY <1>1, <2>1, RequestsKept DEF AddExpense
<1>2. CASE WipeGroup
  <2>1. TypeOK'
    BY <1>2 DEF WipeGroup, TypeOK, history
  <2>2. QED  BY <1>2, <2>1, RequestsKept DEF WipeGroup
<1>3. CASE EditOwnTransaction
  <2>1. TypeOK'
    BY <1>3, OverwrittenType DEF EditOwnTransaction, TypeOK, history
  <2>2. QED  BY <1>3, <2>1, RequestsKept DEF EditOwnTransaction
<1>4. CASE DeleteOwnTransaction
  <2>1. TypeOK'
    BY <1>4 DEF DeleteOwnTransaction, TypeOK, history
  <2>2. QED  BY <1>4, <2>1, RequestsKept DEF DeleteOwnTransaction
<1>5. ASSUME NEW r \in Requests, ConfirmRead(r) PROVE TypeInv'
  <2>1. PICK e \in Expenses, m \in Members :
          /\ expense[e].owed[m] # None
          /\ expense[e].link[m] = None
          /\ Begin(r, e, [Fetched(e, "confirm_create") EXCEPT !.member = m])
    BY <1>5 DEF ConfirmRead
  <2> DEFINE f == Fetched(e, "confirm_create")
  <2>2. /\ f \in Request /\ f.expense = e /\ f.pc = "confirm_create"
        /\ f.owed[m] # None /\ f.link[m] = None /\ f.todo = {}
    BY <2>1, FetchedType DEF Pcs
  <2>3. WellFormed([f EXCEPT !.member = m])
    <3> HIDE DEF f
    <3> QED  BY <2>2 DEF Request, WellFormed
  <2>4. QED  BY <2>1, <2>3, BeginType
<1>6. ASSUME NEW r \in Requests, ConfirmCreate(r) PROVE TypeInv'
  <2> DEFINE q == req[r]
  <2>1. WellFormed(q) /\ q.pc = "confirm_create"
    BY <1>6 DEF ConfirmCreate
  <2>2. PICK t \in TxIds :
          /\ tx' = [tx EXCEPT ![t] = [status |-> "live",
                                      share |-> <<q.expense, q.member>>,
                                      amount |-> q.owed[q.member],
                                      info |-> q.info]]
          /\ req' = [req EXCEPT ![r] = [q EXCEPT !.pc = "confirm_save", !.tx = t]]
    BY <1>6 DEF ConfirmCreate
  <2>3. WellFormed([q EXCEPT !.pc = "confirm_save", !.tx = t])
    BY <2>1 DEF Request, Pcs, WellFormed, Confirmed
  <2>4. [status |-> "live", share |-> <<q.expense, q.member>>,
         amount |-> q.owed[q.member], info |-> q.info] \in TxDoc
    BY <2>1 DEF TxDoc, Request, Owed, Shares, WellFormed
  <2>5. tx' \in [TxIds -> TxDoc]
    BY <2>2, <2>4 DEF TypeOK
  <2>6. req' \in [Requests -> Request] /\ \A p \in Requests : WellFormed(req'[p])
    BY <2>2, <2>3, OneMoves
  <2>7. QED  BY <1>6, <1>a, <2>5, <2>6 DEF ConfirmCreate, TypeOK, history
<1>7. ASSUME NEW r \in Requests, ConfirmSave(r) PROVE TypeInv'
  <2> DEFINE q == req[r]
  <2>1. WellFormed(q) /\ q.pc = "confirm_save"
    BY <1>7 DEF ConfirmSave
  <2>2. req' \in [Requests -> Request] /\ \A p \in Requests : WellFormed(req'[p])
    <3>1. CASE req' = [req EXCEPT ![r] = Idle]
      BY <3>1, OneMoves
    <3>2. CASE req' = Outdate(r, q.expense, Idle)
      BY <3>2, OutdateType
    <3>3. QED  BY <1>7, <3>1, <3>2 DEF ConfirmSave
  <2>3. Marked(q) \in ExpenseDoc
    BY <2>1 DEF Marked, WellFormed, Request, ExpenseDoc, TypeOK, Links
  <2>4. expense' \in [Expenses -> ExpenseDoc]
    BY <1>7, <2>3 DEF ConfirmSave, TypeOK
  <2>5. acked' \subseteq TxIds
    BY <1>7, <2>1 DEF ConfirmSave, TypeOK, WellFormed
  <2>6. QED  BY <1>7, <1>a, <2>2, <2>4, <2>5 DEF ConfirmSave, TypeOK
<1>8. ASSUME NEW r \in Requests, UpdateRead(r) PROVE TypeInv'
  <2>1. PICK e \in Expenses, i \in Infos, owed \in SplitLists :
          Begin(r, e, [Fetched(e, "update_save") EXCEPT !.newInfo = i,
                                                        !.newOwed = owed])
    BY <1>8 DEF UpdateRead
  <2> DEFINE f == Fetched(e, "update_save")
  <2>2. /\ f \in Request /\ f.expense = e /\ f.pc = "update_save"
        /\ f.todo = {}
    BY <2>1, FetchedType DEF Pcs
  <2>3. WellFormed([f EXCEPT !.newInfo = i, !.newOwed = owed])
    <3> HIDE DEF f
    <3> QED  BY <2>2, SplitListsAssumption DEF Request, Owed, WellFormed
  <2>4. QED  BY <2>1, <2>3, BeginType
<1>9. ASSUME NEW r \in Requests, UpdateSave(r) PROVE TypeInv'
  <2> DEFINE q == req[r]
  <2>1. WellFormed(q) /\ q.pc = "update_save"
    BY <1>9 DEF UpdateSave
  <2>2. WellFormed(Syncing(q))
    BY <2>1 DEF Syncing, Request, Idle, Confirmed, Pcs, WellFormed, NoOwed, Owed
  <2>3. req' \in [Requests -> Request] /\ \A p \in Requests : WellFormed(req'[p])
    <3>1. CASE req' = [req EXCEPT ![r] = Idle]
      BY <3>1, OneMoves
    <3>2. CASE req' = Outdate(r, q.expense, Syncing(q))
      BY <3>2, <2>2, OutdateType
    <3>3. CASE req' = [req EXCEPT ![r] = Syncing(q)]
      BY <3>3, <2>2, OneMoves
    <3>4. QED  BY <1>9, <3>1, <3>2, <3>3 DEF UpdateSave
  <2>4. KeptLinks(q) \in Links
    BY <2>1 DEF KeptLinks, Request, Links, WellFormed
  <2>5. \A replaced : Written(q, replaced) \in ExpenseDoc
    <3>1. expense[q.expense] \in ExpenseDoc
      BY <2>1 DEF WellFormed, TypeOK
    <3>2. q.newInfo \in Infos \cup {None} /\ q.newOwed \in Owed
      BY <2>1 DEF WellFormed, Request
    <3> HIDE DEF q
    <3>3. QED  BY <2>4, <3>1, <3>2 DEF Written, ExpenseDoc
  <2>6. expense' \in [Expenses -> ExpenseDoc]
    BY <1>9, <2>5 DEF UpdateSave, TypeOK
  <2>7. QED  BY <1>9, <1>a, <2>3, <2>6 DEF UpdateSave, TypeOK, history
<1>10. ASSUME NEW r \in Requests, UpdateSync(r) PROVE TypeInv'
  <2> DEFINE q == req[r]
  <2>1. WellFormed(q)
    OBVIOUS
  <2>2. PICK m \in q.todo :
          /\ req' = [req EXCEPT ![r] = [q EXCEPT !.todo = @ \ {m}]]
          /\ tx' = IF tx[q.link[m]].status = "live"
                   THEN [tx EXCEPT ![q.link[m]] =
                            Overwritten(q.link[m], q.newOwed[m], q.newInfo)]
                   ELSE tx
    BY <1>10 DEF UpdateSync
  <2>3. WellFormed([q EXCEPT !.todo = @ \ {m}])
    BY <2>1 DEF WellFormed, Request, Confirmed
  <2>4. req' \in [Requests -> Request] /\ \A p \in Requests : WellFormed(req'[p])
    BY <2>2, <2>3, OneMoves
  <2>5. /\ q.link[m] \in TxIds
        /\ q.newOwed[m] \in Amounts \cup {None}
        /\ q.newInfo \in Infos \cup {None}
    BY <2>1 DEF WellFormed, Request, Confirmed, Links, Owed
  <2>6. tx' \in [TxIds -> TxDoc]
    BY <2>2, <2>5, OverwrittenType DEF TypeOK
  <2>7. QED  BY <1>10, <1>a, <2>4, <2>6 DEF UpdateSync, TypeOK, history
<1>11. ASSUME NEW r \in Requests, UpdateRemove(r) PROVE TypeInv'
  <2>1. req' \in [Requests -> Request] /\ \A p \in Requests : WellFormed(req'[p])
    BY <1>11, OneMoves DEF UpdateRemove
  <2>2. QED  BY <1>11, <1>a, <2>1, RemoveCopiesType DEF UpdateRemove, TypeOK, history
<1>12. ASSUME NEW r \in Requests, DeleteRead(r) PROVE TypeInv'
  <2>1. PICK e \in Expenses : Begin(r, e, [Idle EXCEPT !.pc = "delete_doc",
                                      !.expense = e, !.link = expense[e].link])
    BY <1>12 DEF DeleteRead
  <2>2. WellFormed([Idle EXCEPT !.pc = "delete_doc", !.expense = e,
                                !.link = expense[e].link])
    BY DEF TypeOK, Request, ExpenseDoc, Pcs, Idle, WellFormed
  <2>3. QED  BY <2>1, <2>2, BeginType
<1>13. ASSUME NEW r \in Requests, DeleteDoc(r) PROVE TypeInv'
  <2>1. WellFormed([req[r] EXCEPT !.pc = "delete_remove"])
    BY <1>13 DEF DeleteDoc, WellFormed, Request, Pcs, Confirmed
  <2>2. req' \in [Requests -> Request] /\ \A p \in Requests : WellFormed(req'[p])
    BY <1>13, <2>1, OneMoves DEF DeleteDoc
  <2>3. QED  BY <1>13, <1>a, <2>2 DEF DeleteDoc, TypeOK, history
<1>14. ASSUME NEW r \in Requests, DeleteRemove(r) PROVE TypeInv'
  <2>1. req' \in [Requests -> Request] /\ \A p \in Requests : WellFormed(req'[p])
    BY <1>14, OneMoves DEF DeleteRemove
  <2>2. QED  BY <1>14, <1>a, <2>1, RemoveCopiesType DEF DeleteRemove, TypeOK, history
<1>15. ASSUME NEW r \in Requests, Abort(r) PROVE TypeInv'
  <2>1. PendingRemoval(req[r]) \subseteq TxIds
    BY DEF WellFormed, Request, PendingRemoval, Dropped, LinkedCopies, Confirmed, Links
  <2>2. req' \in [Requests -> Request] /\ \A p \in Requests : WellFormed(req'[p])
    BY <1>15, OneMoves DEF Abort
  <2>3. QED  BY <1>15, <1>a, <2>1, <2>2 DEF Abort, TypeOK
<1>16. CASE UNCHANGED vars
  <2>1. TypeOK'
    BY <1>16 DEF vars, TypeOK
  <2>2. QED  BY <1>16, <2>1, RequestsKept DEF vars
<1>17. QED
  BY <1>1, <1>2, <1>3, <1>4, <1>5, <1>6, <1>7, <1>8, <1>9, <1>10, <1>11, <1>12,
     <1>13, <1>14, <1>15, <1>16 DEF Next

\* The types hold at the start.
LEMMA TypeInit == Init => TypeInv
BY HelperTypes
   DEF Init, TypeInv, TypeOK, WellFormed, Idle, Request, Pcs, NoOwed, NoLinks, Owed,
       Links, ExpenseDoc, TxDoc, Confirmed

\* The documents of both collections, the in-memory state of every request and the
\* history variables always have the types declared for them.
THEOREM TypeCorrect == Spec => []TypeOK
<1>1. TypeInv => TypeOK
  BY DEF TypeInv
<1>2. QED  BY <1>1, TypeInit, TypeStep, PTL DEF Spec

(***************************************************************************)
(* The links.  The strengthening of LinkIsOwnCopy and AckedCopyTracked     *)
(* says what is known of the copy of the document a request holds: it is   *)
(* the stored one until it is marked stale, its links are acknowledged     *)
(* copies of its own shares, the copy a confirmation has just made is      *)
(* nobody else's, and what a request is about to remove is linked no more. *)
(***************************************************************************)
RequestInv(q) ==
    q.pc # "idle" =>
        /\ expense[q.expense].status # "unused"
        /\ \A m \in Members : q.link[m] # None =>
               /\ q.link[m] \in acked
               /\ tx[q.link[m]].share = <<q.expense, m>>
        /\ q.pc \in VersionedPcs =>
               \A m \in Members : q.link[m] # None => q.owed[m] # None
        /\ q.pc \in VersionedPcs /\ ~q.stale /\ Live(q.expense) =>
               /\ q.owed = expense[q.expense].owed
               /\ q.link = expense[q.expense].link
        /\ q.pc = "confirm_save" =>
               /\ q.tx \notin acked
               /\ tx[q.tx].share = <<q.expense, q.member>>
               /\ tx[q.tx].status \in {"live", "deleted"}
        /\ q.pc = "update_sync" /\ Live(q.expense) =>
               \A m \in q.todo :
                   q.newOwed[m] = None => expense[q.expense].link[m] # q.link[m]
        /\ q.pc = "delete_remove" => ~Live(q.expense)

FreshCopiesDiffer ==
    \A r, s \in Requests :
        req[r].pc = "confirm_save" /\ req[s].pc = "confirm_save" /\ r # s
            => req[r].tx # req[s].tx

AckedCreated ==
    \A t \in acked :
        /\ tx[t].status # "unused"
        /\ tx[t].share \in Shares
        /\ expense[tx[t].share[1]].status # "unused"

LinkInv ==
    /\ TypeInv
    /\ LinkIsOwnCopy
    /\ AckedCopyTracked
    /\ AckedCreated
    /\ FreshCopiesDiffer
    /\ \A r \in Requests : RequestInv(req[r])

\* At the start nothing is linked.
LEMMA LinkInit == Init => LinkInv
<1> SUFFICES ASSUME Init PROVE LinkInv
  OBVIOUS
<1>1. TypeInv
  BY TypeInit
<1>2. LinkIsOwnCopy
  BY DEF Init, LinkIsOwnCopy, Live
<1>3. AckedCopyTracked /\ AckedCreated
  BY DEF Init, AckedCopyTracked, AckedCreated
<1>4. FreshCopiesDiffer /\ \A r \in Requests : RequestInv(req[r])
  BY DEF Init, FreshCopiesDiffer, RequestInv, Idle
<1>5. QED  BY <1>1, <1>2, <1>3, <1>4 DEF LinkInv

\* What the steps that only move one request on do to the invariant: nothing, if
\* the request's new state is as it should be and it forgets no removal.
LEMMA QuietMove ==
    ASSUME LinkInv, TypeInv', NEW r \in Requests, NEW local,
           req' = [req EXCEPT ![r] = local],
           UNCHANGED <<expense, tx, acked>>,
           abandoned \subseteq abandoned',
           \A t \in PendingRemoval(req[r]) :
               t \in PendingRemoval(local) \/ t \in abandoned',
           RequestInv(local), local.pc = "confirm_save" => local.tx = req[r].tx
                                                          /\ req[r].pc = "confirm_save"
    PROVE  LinkInv'
<1>1. req'[r] = local /\ \A p \in Requests : p # r => req'[p] = req[p]
  BY DEF LinkInv, TypeInv, TypeOK
<1>2. LinkIsOwnCopy'
  BY DEF LinkInv, LinkIsOwnCopy, Live
<1>3. AckedCopyTracked'
  BY <1>1 DEF LinkInv, AckedCopyTracked, Live, PendingRemoval, Dropped, LinkedCopies, Confirmed
<1>4. AckedCreated'
  BY DEF LinkInv, AckedCreated
<1>5. FreshCopiesDiffer'
  BY <1>1 DEF LinkInv, FreshCopiesDiffer
<1>6. \A p \in Requests : RequestInv(req[p])'
  <2>1. ASSUME NEW q, RequestInv(q) PROVE RequestInv(q)'
    BY <2>1 DEF RequestInv, Live
  <2>2. TAKE p \in Requests
  <2>3. RequestInv(req'[p])
    BY <1>1 DEF LinkInv
  <2>4. QED  BY <2>3 DEF RequestInv, Live
<1>7. QED  BY <1>2, <1>3, <1>4, <1>5, <1>6 DEF LinkInv

\* A request that begins has just read the document, and only confirmed copies are
\* linked from it.
LEMMA BeginLinks ==
    ASSUME LinkInv, TypeInv', NEW r \in Requests, NEW e \in Expenses, NEW local,
           Begin(r, e, local),
           local.expense = e, local.link = expense[e].link,
           local.pc \in VersionedPcs => local.owed = expense[e].owed,
           local.pc \in {"confirm_create", "update_save", "delete_doc"}
    PROVE  LinkInv'
<1>1. PendingRemoval(req[r]) = {}
  BY DEF Begin, PendingRemoval
<1>2. RequestInv(local)
  BY DEF Begin, RequestInv, Live, LinkInv, LinkIsOwnCopy, TypeInv, TypeOK, ExpenseDoc
<1>3. QED  BY <1>1, <1>2, QuietMove DEF Begin

\* What a request has not yet been told: its own links stay as they are while
\* transactions are edited, deleted or removed.
LEMMA TxMove ==
    ASSUME LinkInv, TypeInv', NEW r \in Requests, NEW local,
           req' = [req EXCEPT ![r] = local] \/ req' = req,
           RequestInv(local), local.pc # "confirm_save",
           UNCHANGED <<expense, acked, abandoned>>,
           \A t \in TxIds :
               /\ tx'[t].share = tx[t].share
               /\ tx'[t].status = "unused" <=> tx[t].status = "unused"
               /\ tx'[t].status = "live" => tx[t].status = "live"
               /\ tx'[t].status = "removed" /\ tx[t].status # "removed" =>
                      /\ t \in acked
                      /\ \A e \in Expenses, m \in Members :
                             Live(e) => expense[e].link[m] # t,
           \A t \in PendingRemoval(req[r]) :
               \/ req' = req
               \/ t \in PendingRemoval(local)
               \/ tx'[t].status # "live"
    PROVE  LinkInv'
<1>1. \A p \in Requests : req'[p] = req[p] \/ (p = r /\ req'[p] = local)
  <2>1. req \in [Requests -> Request]
    BY DEF LinkInv, TypeInv, TypeOK
  <2>2. CASE req' = req
    BY <2>2
  <2>3. CASE req' = [req EXCEPT ![r] = local]
    BY <2>1, <2>3
  <2>4. QED  BY <2>2, <2>3
<1>2. LinkIsOwnCopy'
  <2> SUFFICES ASSUME NEW e \in Expenses, NEW m \in Members,
                      Live(e), expense[e].link[m] # None
               PROVE  /\ expense[e].owed[m] # None
                      /\ expense[e].link[m] \in acked
                      /\ tx'[expense[e].link[m]].share = <<e, m>>
                      /\ tx'[expense[e].link[m]].status \in {"live", "deleted"}
    BY DEF LinkIsOwnCopy, Live
  <2> DEFINE t == expense[e].link[m]
  <2>1. /\ expense[e].owed[m] # None /\ t \in acked
        /\ tx[t].share = <<e, m>> /\ tx[t].status \in {"live", "deleted"}
    BY DEF LinkInv, LinkIsOwnCopy
  <2>2. t \in TxIds /\ tx'[t].status \in {"unused", "live", "deleted", "removed"}
    BY <2>1 DEF LinkInv, TypeInv, TypeOK, TxDoc
  <2>3. QED  BY <2>1, <2>2
<1>3. AckedCopyTracked'
  <2> SUFFICES ASSUME NEW t \in acked, tx'[t].status = "live",
                      Live(tx[t].share[1])
               PROVE  \/ expense[tx[t].share[1]].link[tx[t].share[2]] = t
                      \/ \E p \in Requests : t \in PendingRemoval(req'[p])
                      \/ t \in abandoned
    BY DEF LinkInv, TypeInv, TypeOK, AckedCopyTracked, Live, PendingRemoval, Dropped,
           LinkedCopies, Confirmed
  <2>1. tx[t].status = "live"
    BY DEF LinkInv, TypeInv, TypeOK
  <2>2. CASE \E p \in Requests : t \in PendingRemoval(req[p])
    <3>1. PICK p \in Requests : t \in PendingRemoval(req[p])
      BY <2>2
    <3>2. CASE req' = req
      BY <3>1, <3>2
    <3>3. CASE req' = [req EXCEPT ![r] = local]
      <4>1. req'[r] = local /\ \A o \in Requests \ {r} : req'[o] = req[o]
        BY <3>3 DEF LinkInv, TypeInv, TypeOK
      <4>2. CASE p # r
        BY <3>1, <4>1, <4>2
      <4>3. CASE p = r
        <5>1. req' = req \/ t \in PendingRemoval(local)
          BY <3>1, <4>3
        <5>2. QED  BY <5>1, <4>1, <3>1
      <4>4. QED  BY <4>2, <4>3
    <3>4. QED  BY <3>2, <3>3
  <2>3. QED  BY <2>1, <2>2 DEF LinkInv, AckedCopyTracked
<1>4. AckedCreated'
  BY DEF LinkInv, AckedCreated, TypeInv, TypeOK
<1>5. FreshCopiesDiffer'
  BY <1>1 DEF LinkInv, FreshCopiesDiffer
<1>6. \A p \in Requests : RequestInv(req[p])'
  <2>1. ASSUME NEW q, RequestInv(q), WellFormed(q) PROVE RequestInv(q)'
    <3>1. \A m \in Members : q.link[m] # None => q.link[m] \in TxIds
      BY <2>1 DEF WellFormed, Request, Links
    <3>2. q.pc = "confirm_save" =>
             /\ q.tx \in TxIds
             /\ tx'[q.tx].status \in {"unused", "live", "deleted", "removed"}
      BY <2>1 DEF WellFormed, TypeInv, TypeOK, TxDoc
    <3>3. q.pc # "idle" => \A m \in Members : q.link[m] # None =>
               /\ q.link[m] \in acked
               /\ tx'[q.link[m]].share = <<q.expense, m>>
      BY <2>1, <3>1 DEF RequestInv
    <3>4. q.pc = "confirm_save" =>
               /\ q.tx \notin acked
               /\ tx'[q.tx].share = <<q.expense, q.member>>
               /\ tx'[q.tx].status \in {"live", "deleted"}
      BY <2>1, <3>2 DEF RequestInv
    <3>5. QED  BY <2>1, <3>3, <3>4 DEF RequestInv, Live
  <2>2. TAKE p \in Requests
  <2>3. RequestInv(req'[p]) /\ WellFormed(req'[p])
    BY <1>1 DEF LinkInv, TypeInv
  <2>4. QED  BY <2>1, <2>3 DEF RequestInv, Live
<1>7. QED  BY <1>2, <1>3, <1>4, <1>5, <1>6 DEF LinkInv

\* An expense is added: no request can have read it.
LEMMA AddExpenseLinks ==
    ASSUME LinkInv, TypeInv', AddExpense
    PROVE  LinkInv'
<1>1. PICK e \in Expenses, i \in Infos, owed \in SplitLists :
        /\ expense[e].status = "unused"
        /\ expense' = [expense EXCEPT ![e] = [status |-> "live", info |-> i,
                                              owed |-> owed, link |-> NoLinks]]
        /\ UNCHANGED <<tx, req, acked, abandoned>>
  BY DEF AddExpense, history
<1>2. /\ expense'[e].link = NoLinks
      /\ \A f \in Expenses : f # e => expense'[f] = expense[f]
  BY <1>1 DEF LinkInv, TypeInv, TypeOK
<1>3. LinkIsOwnCopy'
  <2> SUFFICES ASSUME NEW f \in Expenses, NEW m \in Members,
                      Live(f)', expense'[f].link[m] # None
               PROVE  /\ expense'[f].owed[m] # None
                      /\ expense'[f].link[m] \in acked
                      /\ tx[expense'[f].link[m]].share = <<f, m>>
                      /\ tx[expense'[f].link[m]].status \in {"live", "deleted"}
    BY <1>1 DEF LinkIsOwnCopy, Live
  <2>1. f # e
    BY <1>2 DEF NoLinks
  <2>2. QED  BY <1>2, <2>1 DEF LinkInv, LinkIsOwnCopy, Live
<1>4. \A p \in Requests : req[p].pc # "idle" => req[p].expense # e
  BY <1>1 DEF LinkInv, RequestInv
<1>5. AckedCopyTracked'
  <2> SUFFICES ASSUME NEW t \in acked, tx[t].status = "live",
                      Live(tx[t].share[1])'
               PROVE  \/ expense'[tx[t].share[1]].link[tx[t].share[2]] = t
                      \/ \E p \in Requests : t \in PendingRemoval(req[p])
                      \/ t \in abandoned
    BY <1>1 DEF AckedCopyTracked, PendingRemoval, Dropped, LinkedCopies, Confirmed, Live
  <2>1. tx[t].share[1] # e
    BY <1>1 DEF LinkInv, AckedCreated
  <2>2. tx[t].share[1] \in Expenses
    BY DEF LinkInv, AckedCreated, Shares
  <2>3. QED  BY <1>1, <1>2, <2>1, <2>2 DEF LinkInv, AckedCopyTracked, Live
<1>6. AckedCreated'
  BY <1>1, <1>2, NoneAssumption DEF LinkInv, AckedCreated, Shares
<1>7. FreshCopiesDiffer'
  BY <1>1 DEF LinkInv, FreshCopiesDiffer
<1>8. \A p \in Requests : RequestInv(req[p])'
  <2>1. TAKE p \in Requests
  <2>2. CASE req[p].pc = "idle"
    BY <1>1, <2>2 DEF RequestInv
  <2>3. CASE req[p].pc # "idle"
    <3>1. req[p].expense \in Expenses
      BY <2>3 DEF LinkInv, TypeInv, WellFormed
    <3>2. expense'[req[p].expense] = expense[req[p].expense]
      BY <1>2, <1>4, <2>3, <3>1
    <3>3. RequestInv(req[p])
      BY DEF LinkInv
    <3>4. QED  BY <1>1, <3>2, <3>3 DEF RequestInv, Live
  <2>4. QED  BY <2>2, <2>3
<1>9. QED  BY <1>3, <1>5, <1>6, <1>7, <1>8 DEF LinkInv

\* Expenses go: nothing is said of the links of an expense that is not live.
LEMMA ExpenseGone ==
    ASSUME LinkInv, TypeInv', NEW r \in Requests, NEW local,
           req' = [req EXCEPT ![r] = local] \/ req' = req,
           UNCHANGED <<tx, acked, abandoned>>,
           PendingRemoval(req[r]) = {} \/ req' = req,
           \A e \in Expenses :
               \/ expense'[e] = expense[e]
               \/ Live(e) /\ expense'[e].status \in {"deleted", "wiped"},
           RequestInv(local)', local.pc # "confirm_save"
    PROVE  LinkInv'
<1>1. \A p \in Requests : req'[p] = req[p] \/ (p = r /\ req'[p] = local)
  <2>1. req \in [Requests -> Request]
    BY DEF LinkInv, TypeInv, TypeOK
  <2>2. CASE req' = req
    BY <2>2
  <2>3. CASE req' = [req EXCEPT ![r] = local]
    BY <2>1, <2>3
  <2>4. QED  BY <2>2, <2>3
<1>2. \A e \in Expenses : Live(e)' => Live(e) /\ expense'[e] = expense[e]
  BY DEF Live
<1>3. LinkIsOwnCopy'
  BY <1>2 DEF LinkInv, LinkIsOwnCopy, Live
<1>4. AckedCopyTracked'
  <2> SUFFICES ASSUME NEW t \in acked, tx[t].status = "live",
                      Live(tx[t].share[1])'
               PROVE  \/ expense'[tx[t].share[1]].link[tx[t].share[2]] = t
                      \/ \E p \in Requests : t \in PendingRemoval(req'[p])
                      \/ t \in abandoned
    BY DEF AckedCopyTracked, PendingRemoval, Dropped, LinkedCopies, Confirmed, Live
  <2>1. tx[t].share[1] \in Expenses
    BY DEF LinkInv, AckedCreated, Shares
  <2>2. \/ expense[tx[t].share[1]].link[tx[t].share[2]] = t
        \/ \E p \in Requests : t \in PendingRemoval(req[p])
        \/ t \in abandoned
    BY <1>2, <2>1 DEF LinkInv, AckedCopyTracked
  <2>3. \A p \in Requests : PendingRemoval(req[p]) # {} => req'[p] = req[p]
    BY <1>1
  <2>4. QED  BY <1>2, <2>1, <2>2, <2>3
<1>5. AckedCreated'
  BY DEF LinkInv, AckedCreated, Shares, Live
<1>6. FreshCopiesDiffer'
  BY <1>1 DEF LinkInv, FreshCopiesDiffer
<1>7. \A p \in Requests : RequestInv(req[p])'
  <2>1. ASSUME NEW q, RequestInv(q), WellFormed(q) PROVE RequestInv(q)'
    <3>1. CASE q.pc = "idle"
      BY <3>1 DEF RequestInv
    <3>2. CASE q.pc # "idle"
      <4>1. q.expense \in Expenses
        BY <2>1, <3>2 DEF WellFormed
      <4>2. expense'[q.expense].status # "unused"
        BY <2>1, <3>2, <4>1 DEF RequestInv, Live
      <4>3. QED  BY <1>2, <2>1, <3>2, <4>1, <4>2 DEF RequestInv
    <3>3. QED  BY <3>1, <3>2
  <2>2. TAKE p \in Requests
  <2>3. CASE req'[p] = req[p]
    <3>1. RequestInv(req'[p]) /\ WellFormed(req'[p])
      BY <2>3 DEF LinkInv, TypeInv
    <3>2. QED  BY <2>1, <3>1 DEF RequestInv, Live
  <2>4. CASE req'[p] = local
    BY <2>4 DEF RequestInv, Live
  <2>5. QED  BY <1>1, <2>3, <2>4
<1>8. QED  BY <1>3, <1>4, <1>5, <1>6, <1>7 DEF LinkInv

\* The copy a confirmation makes was nobody's before.
LEMMA CreateLinks ==
    ASSUME LinkInv, TypeInv', NEW r \in Requests, ConfirmCreate(r)
    PROVE  LinkInv'
<1> DEFINE q == req[r]
<1>1. PICK t \in TxIds :
        /\ tx[t].status = "unused"
        /\ tx' = [tx EXCEPT ![t] = [status |-> "live",
                                    share |-> <<q.expense, q.member>>,
                                    amount |-> q.owed[q.member],
                                    info |-> q.info]]
        /\ req' = [req EXCEPT ![r] = [q EXCEPT !.pc = "confirm_save", !.tx = t]]
        /\ UNCHANGED <<expense, acked, abandoned>>
  BY DEF ConfirmCreate, history
<1>2. /\ WellFormed(q) /\ RequestInv(q) /\ q \in Request /\ q.pc = "confirm_create"
  BY DEF ConfirmCreate, LinkInv, TypeInv, WellFormed
<1>3. /\ tx'[t].status = "live" /\ tx'[t].share = <<q.expense, q.member>>
      /\ \A u \in TxIds \ {t} : tx'[u] = tx[u]
  BY <1>1 DEF LinkInv, TypeInv, TypeOK
<1> DEFINE local == [q EXCEPT !.pc = "confirm_save", !.tx = t]
<1>4. /\ local.pc = "confirm_save" /\ local.tx = t
      /\ local.expense = q.expense /\ local.member = q.member
      /\ local.owed = q.owed /\ local.link = q.link /\ local.stale = q.stale
      /\ local.todo = q.todo /\ local.newOwed = q.newOwed
  BY <1>2 DEF Request
<1>5. req'[r] = local /\ \A p \in Requests \ {r} : req'[p] = req[p]
  BY <1>1 DEF LinkInv, TypeInv, TypeOK
<1>6. t \notin acked
  BY <1>1 DEF LinkInv, AckedCreated
<1> HIDE DEF local
<1>7. LinkIsOwnCopy'
  <2> SUFFICES ASSUME NEW e \in Expenses, NEW m \in Members,
                      Live(e), expense[e].link[m] # None
               PROVE  /\ expense[e].owed[m] # None
                      /\ expense[e].link[m] \in acked
                      /\ tx'[expense[e].link[m]].share = <<e, m>>
                      /\ tx'[expense[e].link[m]].status \in {"live", "deleted"}
    BY <1>1 DEF LinkIsOwnCopy, Live
  <2>1. /\ expense[e].link[m] \in acked /\ expense[e].link[m] \in TxIds \ {t}
    BY <1>6 DEF LinkInv, LinkIsOwnCopy, TypeInv, TypeOK
  <2>2. QED  BY <1>3, <2>1 DEF LinkInv, LinkIsOwnCopy
<1>8. AckedCopyTracked'
  <2> SUFFICES ASSUME NEW u \in acked, tx'[u].status = "live",
                      Live(tx'[u].share[1])
               PROVE  \/ expense[tx'[u].share[1]].link[tx'[u].share[2]] = u
                      \/ \E p \in Requests : u \in PendingRemoval(req'[p])
                      \/ u \in abandoned
    BY <1>1 DEF AckedCopyTracked, PendingRemoval, Dropped, LinkedCopies, Confirmed, Live
  <2>1. u \in TxIds \ {t} /\ tx'[u] = tx[u]
    BY <1>3, <1>6 DEF LinkInv, TypeInv, TypeOK
  <2>2. \/ expense[tx[u].share[1]].link[tx[u].share[2]] = u
        \/ \E p \in Requests : u \in PendingRemoval(req[p])
        \/ u \in abandoned
    BY <2>1 DEF LinkInv, AckedCopyTracked
  <2>3. PendingRemoval(q) = {}
    BY <1>2 DEF PendingRemoval
  <2>4. QED  BY <1>5, <2>1, <2>2, <2>3
<1>9. AckedCreated'
  BY <1>1, <1>3, <1>6 DEF LinkInv, AckedCreated, TypeInv, TypeOK
<1>10. \A p \in Requests : req[p].pc = "confirm_save" => req[p].tx \in TxIds \ {t}
  BY <1>1 DEF LinkInv, RequestInv, TypeInv, WellFormed
<1>11. FreshCopiesDiffer'
  BY <1>4, <1>5, <1>10 DEF LinkInv, FreshCopiesDiffer
<1>12. \A p \in Requests : RequestInv(req[p])'
  <2>1. TAKE p \in Requests
  <2>2. \A m \in Members : req[p].pc # "idle" /\ req[p].link[m] # None =>
            req[p].link[m] \in TxIds \ {t}
    BY <1>6 DEF LinkInv, RequestInv, TypeInv, TypeOK
  <2>3. CASE p = r
    <3>1. \A m \in Members : q.link[m] # None =>
              q.link[m] \in acked /\ tx'[q.link[m]].share = <<q.expense, m>>
      BY <1>2, <1>3, <2>2, <2>3 DEF RequestInv
    <3>2. QED
      BY <1>1, <1>2, <1>3, <1>4, <1>5, <1>6, <2>3, <3>1
         DEF RequestInv, Live, VersionedPcs
  <2>4. CASE p # r
    <3>1. RequestInv(req[p]) /\ req'[p] = req[p]
      BY <1>5, <2>4 DEF LinkInv
    <3>2. req[p].pc # "idle" => \A m \in Members : req[p].link[m] # None =>
              req[p].link[m] \in acked
              /\ tx'[req[p].link[m]].share = <<req[p].expense, m>>
      BY <1>3, <2>2, <3>1 DEF RequestInv
    <3>3. req[p].pc = "confirm_save" => tx'[req[p].tx] = tx[req[p].tx]
      BY <1>3, <1>10
    <3>4. UNCHANGED <<expense, acked>> /\ req'[p] = req[p]
      BY <1>1, <3>1
    <3>5. QED  BY <3>1, <3>2, <3>3, <3>4 DEF RequestInv, Live
  <2>5. QED  BY <2>3, <2>4
<1>13. QED  BY <1>7, <1>8, <1>9, <1>11, <1>12 DEF LinkInv

\* What a successful save on e of the request r leaves: the document doc, the
\* request at local, and at most r's own copy newly acknowledged.
SaveOf(r, e, local, doc) ==
    /\ req[r].pc \in {"confirm_save", "update_save"}
    /\ req[r].expense = e
    /\ Live(e)
    /\ expense' = [expense EXCEPT ![e] = doc]
    /\ doc.status = "live"
    /\ \/ req' = Outdate(r, e, local)
       \/ /\ req' = [req EXCEPT ![r] = local]
          /\ doc.owed = expense[e].owed
          /\ doc.link = expense[e].link
    /\ UNCHANGED <<tx, abandoned>>
    /\ acked \subseteq acked'
    /\ \A t \in acked' \ acked :
           /\ req[r].pc = "confirm_save" /\ req[r].tx = t /\ t \in TxIds
           /\ \E m \in Members : doc.link[m] = t /\ tx[t].share = <<e, m>>
    /\ \A m \in Members : doc.link[m] # None =>
           /\ doc.owed[m] # None
           /\ doc.link[m] \in acked'
           /\ \/ doc.link[m] = expense[e].link[m]
              \/ doc.link[m] \in acked' \ acked /\ tx[doc.link[m]].share = <<e, m>>
    /\ \A m \in Members : \/ expense[e].link[m] \in {None, doc.link[m]}
                           \/ expense[e].link[m] \in PendingRemoval(local)
    /\ local.pc # "confirm_save"

\* A save on e that succeeds: what it leaves behind, for the requests that hold a
\* copy of e and for the links of e.
LEMMA SaveLinks ==
    ASSUME LinkInv, TypeInv', NEW r \in Requests, NEW e \in Expenses, NEW local,
           NEW doc \in ExpenseDoc,
           SaveOf(r, e, local, doc), RequestInv(local)'
    PROVE  LinkInv'
<1> USE DEF SaveOf
<1>1. expense'[e] = doc /\ \A f \in Expenses \ {e} : expense'[f] = expense[f]
  BY DEF LinkInv, TypeInv, TypeOK
<1>2. /\ req'[r] = local
      /\ \A p \in Requests \ {r} :
            \/ req'[p] = req[p]
            \/ req'[p] = [req[p] EXCEPT !.stale = TRUE]
  <2>1. req \in [Requests -> Request]
    BY DEF LinkInv, TypeInv, TypeOK
  <2>2. CASE req' = Outdate(r, e, local)
    BY <2>2 DEF Outdate
  <2>3. CASE req' = [req EXCEPT ![r] = local]
    BY <2>1, <2>3
  <2>4. QED  BY <2>2, <2>3
<1>3. \A p \in Requests \ {r} :
        /\ req'[p].pc = req[p].pc /\ req'[p].expense = req[p].expense
        /\ req'[p].owed = req[p].owed /\ req'[p].link = req[p].link
        /\ req'[p].member = req[p].member /\ req'[p].tx = req[p].tx
        /\ req'[p].newOwed = req[p].newOwed /\ req'[p].todo = req[p].todo
  <2>1. TAKE p \in Requests \ {r}
  <2>2. req[p] \in Request
    BY DEF LinkInv, TypeInv, TypeOK
  <2>3. QED  BY <1>2, <2>2 DEF Request
<1>4. LinkIsOwnCopy'
  <2> SUFFICES ASSUME NEW f \in Expenses, NEW m \in Members,
                      Live(f)', expense'[f].link[m] # None
               PROVE  /\ expense'[f].owed[m] # None
                      /\ expense'[f].link[m] \in acked'
                      /\ tx[expense'[f].link[m]].share = <<f, m>>
                      /\ tx[expense'[f].link[m]].status \in {"live", "deleted"}
    BY DEF LinkIsOwnCopy, Live
  <2>1. CASE f # e
    BY <1>1, <2>1 DEF LinkInv, LinkIsOwnCopy, Live
  <2>2. CASE f = e /\ doc.link[m] = expense[e].link[m]
    BY <1>1, <2>2 DEF LinkInv, LinkIsOwnCopy, Live
  <2>3. CASE f = e /\ doc.link[m] \in acked' \ acked
    <3>1. tx[doc.link[m]].status \in {"live", "deleted"}
      BY <2>3 DEF LinkInv, RequestInv
    <3>2. expense[e].link[m] # doc.link[m]
      BY <2>3, NoneAssumption DEF LinkInv, LinkIsOwnCopy
    <3>3. QED  BY <1>1, <2>3, <3>1, <3>2
  <2>4. QED  BY <1>1, <2>1, <2>2, <2>3
<1>5. \A p \in Requests \ {r} : PendingRemoval(req'[p]) = PendingRemoval(req[p])
  <2>1. TAKE p \in Requests \ {r}
  <2>2. /\ Dropped(req'[p]) = Dropped(req[p])
        /\ LinkedCopies(req'[p]) = LinkedCopies(req[p])
    BY <1>3 DEF Dropped, LinkedCopies, Confirmed
  <2>3. QED  BY <1>3, <2>2 DEF PendingRemoval
<1>6. PendingRemoval(req[r]) = {}
  BY DEF PendingRemoval
<1>7. AckedCopyTracked'
  <2> SUFFICES ASSUME NEW t \in acked', tx[t].status = "live",
                      Live(tx[t].share[1])'
               PROVE  \/ expense'[tx[t].share[1]].link[tx[t].share[2]] = t
                      \/ \E p \in Requests : t \in PendingRemoval(req'[p])
                      \/ t \in abandoned
    BY DEF AckedCopyTracked, PendingRemoval, Dropped, LinkedCopies, Confirmed, Live
  <2>1. CASE t \in acked' \ acked
    BY <1>1, <2>1
  <2>2. CASE t \in acked
    <3>1. tx[t].share \in Shares
      BY <2>2 DEF LinkInv, AckedCreated
    <3>2. Live(tx[t].share[1])
      BY <1>1, <3>1 DEF Live, Shares
    <3>3. \/ expense[tx[t].share[1]].link[tx[t].share[2]] = t
          \/ \E p \in Requests : t \in PendingRemoval(req[p])
          \/ t \in abandoned
      BY <2>2, <3>2 DEF LinkInv, AckedCopyTracked
    <3>4. CASE \E p \in Requests : t \in PendingRemoval(req[p])
      BY <1>5, <1>6, <3>4
    <3>5. CASE expense[tx[t].share[1]].link[tx[t].share[2]] = t
      <4>1. t # None
        BY NoneAssumption, <2>2 DEF LinkInv, TypeInv, TypeOK
      <4>2. CASE tx[t].share[1] # e
        BY <1>1, <3>1, <3>5, <4>2 DEF Shares
      <4>3. CASE tx[t].share[1] = e
        BY <1>1, <1>2, <3>1, <3>5, <4>1, <4>3 DEF Shares
      <4>4. QED  BY <4>2, <4>3
    <3>6. QED  BY <3>3, <3>4, <3>5
  <2>3. QED  BY <2>1, <2>2
<1>8. AckedCreated'
  <2> SUFFICES ASSUME NEW t \in acked'
               PROVE  /\ tx[t].status # "unused"
                      /\ tx[t].share \in Shares
                      /\ expense'[tx[t].share[1]].status # "unused"
    BY DEF AckedCreated
  <2>1. CASE t \in acked
    BY <1>1, <2>1 DEF LinkInv, AckedCreated, Shares
  <2>2. CASE t \in acked' \ acked
    <3>1. PICK m \in Members : tx[t].share = <<e, m>>
      BY <2>2
    <3>2. tx[t].status # "unused"
      BY <2>2 DEF LinkInv, RequestInv
    <3>3. QED  BY <1>1, <3>1, <3>2 DEF Shares
  <2>3. QED  BY <2>1, <2>2
<1>9. FreshCopiesDiffer'
  BY <1>2, <1>3 DEF LinkInv, FreshCopiesDiffer
<1>10. \A p \in Requests : RequestInv(req[p])'
  <2>1. TAKE p \in Requests
  <2>2. CASE p = r
    BY <1>2, <2>2 DEF RequestInv, Live
  <2>3. CASE p # r /\ req[p].pc = "idle"
    BY <1>3, <2>3 DEF RequestInv
  <2>4. CASE p # r /\ req[p].pc # "idle" /\ req[p].expense # e
    <3>1. req[p].expense \in Expenses /\ RequestInv(req[p])
      BY <2>4 DEF LinkInv, TypeInv, WellFormed
    <3>2. expense'[req[p].expense] = expense[req[p].expense]
      BY <1>1, <2>4, <3>1
    <3>3. ~req'[p].stale => ~req[p].stale
      <4>1. req[p] \in Request
        BY DEF LinkInv, TypeInv, TypeOK
      <4>2. QED  BY <1>2, <2>4, <4>1 DEF Request
    <3>4. req[p].pc = "confirm_save" => req[p].tx \notin acked'
      BY <2>4, <3>1 DEF RequestInv, LinkInv, FreshCopiesDiffer
    <3> SUFFICES
          /\ expense'[req'[p].expense].status # "unused"
          /\ \A m \in Members : req'[p].link[m] # None =>
                 /\ req'[p].link[m] \in acked'
                 /\ tx'[req'[p].link[m]].share = <<req'[p].expense, m>>
          /\ req'[p].pc \in VersionedPcs =>
                 \A m \in Members : req'[p].link[m] # None => req'[p].owed[m] # None
          /\ req'[p].pc \in VersionedPcs /\ ~req'[p].stale /\ Live(req[p].expense)' =>
                 /\ req'[p].owed = expense'[req'[p].expense].owed
                 /\ req'[p].link = expense'[req'[p].expense].link
          /\ req'[p].pc = "confirm_save" =>
                 /\ req'[p].tx \notin acked'
                 /\ tx'[req'[p].tx].share = <<req'[p].expense, req'[p].member>>
                 /\ tx'[req'[p].tx].status \in {"live", "deleted"}
          /\ req'[p].pc = "update_sync" /\ Live(req[p].expense)' =>
                 \A m \in req'[p].todo :
                     req'[p].newOwed[m] = None =>
                         expense'[req'[p].expense].link[m] # req'[p].link[m]
          /\ req'[p].pc = "delete_remove" => ~Live(req[p].expense)'
      BY DEF RequestInv
    <3>5. QED  BY <1>3, <2>4, <3>1, <3>2, <3>3, <3>4 DEF RequestInv, Live
  <2>5. CASE p # r /\ req[p].pc # "idle" /\ req[p].expense = e
    <3>1. RequestInv(req[p]) /\ req[p] \in Request
      BY DEF LinkInv, TypeInv, TypeOK
    <3>2. req[p].pc = "confirm_save" => req[p].tx \notin acked'
      BY <2>5, <3>1 DEF RequestInv, LinkInv, FreshCopiesDiffer
    <3>3. req[p].pc \in VersionedPcs /\ ~req'[p].stale =>
             /\ req[p].owed = doc.owed
             /\ req[p].link = doc.link
      <4>1. CASE req' = Outdate(r, e, local)
        BY <2>5, <3>1, <4>1 DEF Outdate, Request
      <4>2. CASE req' = [req EXCEPT ![r] = local] /\ doc.owed = expense[e].owed
                 /\ doc.link = expense[e].link
        <5>1. req'[p] = req[p]
          BY <4>2, <2>5 DEF LinkInv, TypeInv, TypeOK
        <5>2. QED  BY <2>5, <3>1, <4>2, <5>1 DEF RequestInv
      <4>3. QED  BY <4>1, <4>2
    <3>4. req[p].pc = "update_sync" =>
             \A m \in req[p].todo :
                 req[p].newOwed[m] = None => doc.link[m] # req[p].link[m]
      <4> SUFFICES ASSUME req[p].pc = "update_sync", NEW m \in req[p].todo,
                          req[p].newOwed[m] = None
                   PROVE  doc.link[m] # req[p].link[m]
        OBVIOUS
      <4>1. m \in Members /\ req[p].link[m] # None
        BY DEF LinkInv, TypeInv, WellFormed, Confirmed
      <4>2. req[p].link[m] \in acked /\ expense[e].link[m] # req[p].link[m]
        BY <2>5, <3>1, <4>1 DEF RequestInv
      <4>3. QED  BY <4>1, <4>2
    <3>5. req[p].pc # "delete_remove"
      BY <2>5, <3>1 DEF RequestInv
    <3>6. \A m \in Members : req[p].link[m] # None =>
             req[p].link[m] \in acked' /\ tx[req[p].link[m]].share = <<e, m>>
      BY <2>5, <3>1 DEF RequestInv
    <3>11. req[p].pc \in VersionedPcs =>
               \A m \in Members : req[p].link[m] # None => req[p].owed[m] # None
      BY <2>5, <3>1 DEF RequestInv
    <3>7. req[p].pc = "confirm_save" =>
             /\ tx[req[p].tx].share = <<e, req[p].member>>
             /\ tx[req[p].tx].status \in {"live", "deleted"}
      BY <2>5, <3>1 DEF RequestInv
    <3> SUFFICES
          /\ expense'[req'[p].expense].status # "unused"
          /\ \A m \in Members : req'[p].link[m] # None =>
                 /\ req'[p].link[m] \in acked'
                 /\ tx'[req'[p].link[m]].share = <<req'[p].expense, m>>
          /\ req'[p].pc \in VersionedPcs =>
                 \A m \in Members : req'[p].link[m] # None => req'[p].owed[m] # None
          /\ req'[p].pc \in VersionedPcs /\ ~req'[p].stale /\ Live(req[p].expense)' =>
                 /\ req'[p].owed = expense'[req'[p].expense].owed
                 /\ req'[p].link = expense'[req'[p].expense].link
          /\ req'[p].pc = "confirm_save" =>
                 /\ req'[p].tx \notin acked'
                 /\ tx'[req'[p].tx].share = <<req'[p].expense, req'[p].member>>
                 /\ tx'[req'[p].tx].status \in {"live", "deleted"}
          /\ req'[p].pc = "update_sync" /\ Live(req[p].expense)' =>
                 \A m \in req'[p].todo :
                     req'[p].newOwed[m] = None =>
                         expense'[req'[p].expense].link[m] # req'[p].link[m]
          /\ req'[p].pc = "delete_remove" => ~Live(req[p].expense)'
      BY DEF RequestInv
    <3>8. expense'[req'[p].expense] = doc /\ p \in Requests \ {r}
      BY <1>1, <1>3, <2>5
    <3>9. /\ req'[p].pc = req[p].pc /\ req'[p].expense = e
          /\ req'[p].owed = req[p].owed /\ req'[p].link = req[p].link
          /\ req'[p].member = req[p].member /\ req'[p].tx = req[p].tx
          /\ req'[p].newOwed = req[p].newOwed /\ req'[p].todo = req[p].todo
      BY <1>3, <2>5, <3>8
    <3>10. QED
      BY <3>2, <3>3, <3>4, <3>5, <3>6, <3>7, <3>8, <3>9, <3>11
  <2>6. QED  BY <2>2, <2>3, <2>4, <2>5
<1>11. QED  BY <1>4, <1>7, <1>8, <1>9, <1>10 DEF LinkInv

\* A confirmation's save.
LEMMA ConfirmSaveLinks ==
    ASSUME LinkInv, TypeInv', NEW r \in Requests, ConfirmSave(r)
    PROVE  LinkInv'
<1> DEFINE q == req[r]
<1>1. WellFormed(q) /\ RequestInv(q) /\ q.pc = "confirm_save"
  BY DEF ConfirmSave, LinkInv, TypeInv
<1>2. PendingRemoval(q) = {}
  BY <1>1 DEF PendingRemoval
<1>3. RequestInv(Idle) /\ Idle.pc = "idle"
  BY DEF RequestInv, Idle
<1>4. CASE req' = [req EXCEPT ![r] = Idle] /\ UNCHANGED <<expense, acked>>
  BY <1>2, <1>3, <1>4, QuietMove DEF ConfirmSave
<1>5. CASE /\ Live(q.expense)
           /\ ~q.stale
           /\ expense' = [expense EXCEPT ![q.expense] = Marked(q)]
           /\ req' = Outdate(r, q.expense, Idle)
           /\ acked' = acked \cup {q.tx}
  <2> DEFINE e == q.expense
  <2>0. PICK doc : doc = Marked(q)
    OBVIOUS
  <2>1. /\ e \in Expenses /\ q.member \in Members /\ q.tx \in TxIds
        /\ q.owed \in Owed /\ q.link \in Links
        /\ q.owed[q.member] # None /\ q.link[q.member] = None
    BY <1>1 DEF WellFormed, Request
  <2>2. expense[e] \in ExpenseDoc
    BY <2>1 DEF LinkInv, TypeInv, TypeOK
  <2>3. /\ doc.status = expense[e].status
        /\ doc.owed = q.owed
        /\ doc.link = [q.link EXCEPT ![q.member] = q.tx]
    BY <2>0, <2>2 DEF Marked, ExpenseDoc
  <2>4. expense' \in [Expenses -> ExpenseDoc] /\ expense'[e] = doc
    BY <1>5, <2>0, <2>1 DEF LinkInv, TypeInv, TypeOK
  <2>5. q.owed = expense[e].owed /\ q.link = expense[e].link
    BY <1>1, <1>5 DEF RequestInv, VersionedPcs
  <2>6. /\ q.tx \notin acked /\ tx[q.tx].share = <<e, q.member>>
    BY <1>1 DEF RequestInv
  <2>7. /\ doc.link[q.member] = q.tx
        /\ \A m \in Members \ {q.member} : doc.link[m] = expense[e].link[m]
        /\ expense[e].link[q.member] = None
    BY <2>1, <2>3, <2>5 DEF Links
  <2>8. acked' \ acked = {q.tx} /\ acked \subseteq acked'
    BY <1>5, <2>6
  <2>9. \A m \in Members : doc.link[m] # None =>
            /\ doc.owed[m] # None
            /\ doc.link[m] \in acked'
            /\ \/ doc.link[m] = expense[e].link[m]
               \/ doc.link[m] \in acked' \ acked /\ tx[doc.link[m]].share = <<e, m>>
    <3>1. TAKE m \in Members
    <3>2. CASE m = q.member
      BY <2>1, <2>3, <2>6, <2>7, <2>8, <3>2
    <3>3. CASE m # q.member
      <4>1. expense[e].link[m] # None => expense[e].owed[m] # None
                                         /\ expense[e].link[m] \in acked
        BY <1>5, <2>1 DEF LinkInv, LinkIsOwnCopy
      <4>2. QED  BY <2>3, <2>5, <2>7, <2>8, <3>3, <4>1
    <3>4. QED  BY <3>2, <3>3
  <2>10. \A m \in Members : expense[e].link[m] \in {None, doc.link[m]}
                            \/ expense[e].link[m] \in PendingRemoval(Idle)
    BY <2>7
  <2>11. \A t \in acked' \ acked : /\ q.pc = "confirm_save" /\ q.tx = t /\ t \in TxIds
                                   /\ \E m \in Members :
                                         doc.link[m] = t /\ tx[t].share = <<e, m>>
    BY <1>1, <2>1, <2>6, <2>7, <2>8
  <2>12. RequestInv(Idle)'
    BY <1>3 DEF RequestInv
  <2>13. doc \in ExpenseDoc /\ doc.status = "live"
    BY <1>5, <2>1, <2>3, <2>4 DEF Live
  <2>14. UNCHANGED <<tx, abandoned>>
    BY DEF ConfirmSave
  <2>15. SaveOf(r, e, Idle, doc)
    BY <1>1, <1>3, <1>5, <2>0, <2>8, <2>9, <2>10, <2>11, <2>13, <2>14 DEF SaveOf
  <2>16. QED  BY <2>1, <2>12, <2>13, <2>15, SaveLinks
<1>6. QED  BY <1>4, <1>5 DEF ConfirmSave

\* An edit's save.
LEMMA UpdateSaveLinks ==
    ASSUME LinkInv, TypeInv', NEW r \in Requests, UpdateSave(r)
    PROVE  LinkInv'
<1> DEFINE q == req[r]
<1>1. WellFormed(q) /\ RequestInv(q) /\ q.pc = "update_save"
  BY DEF UpdateSave, LinkInv, TypeInv
<1>2. PendingRemoval(q) = {}
  BY <1>1 DEF PendingRemoval
<1>3. RequestInv(Idle) /\ Idle.pc = "idle" /\ RequestInv(Idle)'
  BY DEF RequestInv, Idle
<1>4. CASE req' = [req EXCEPT ![r] = Idle] /\ UNCHANGED expense
  BY <1>2, <1>3, <1>4, QuietMove DEF UpdateSave, history
<1>5. ASSUME NEW replaced \in Replacing(q),
             Live(q.expense),
             replaced => ~q.stale,
             expense' = [expense EXCEPT ![q.expense] = Written(q, replaced)],
             req' = IF replaced
                    THEN Outdate(r, q.expense, Syncing(q))
                    ELSE [req EXCEPT ![r] = Syncing(q)]
      PROVE  LinkInv'
  <2> DEFINE e == q.expense
  <2>0. PICK doc, local : doc = Written(q, replaced) /\ local = Syncing(q)
    OBVIOUS
  <2>1. /\ e \in Expenses /\ q \in Request /\ q.owed \in Owed /\ q.link \in Links
        /\ q.newOwed \in Owed
    BY <1>1 DEF WellFormed, Request
  <2>2. expense[e] \in ExpenseDoc
    BY <2>1 DEF LinkInv, TypeInv, TypeOK
  <2>3. /\ doc.status = expense[e].status
        /\ doc.owed = IF replaced THEN q.newOwed ELSE expense[e].owed
        /\ doc.link = IF replaced THEN KeptLinks(q) ELSE expense[e].link
    BY <2>0, <2>2 DEF Written, ExpenseDoc
  <2>4. expense'[e] = doc /\ doc \in ExpenseDoc
    BY <1>5, <2>0, <2>1 DEF LinkInv, TypeInv, TypeOK
  <2>5. replaced => q.owed = expense[e].owed /\ q.link = expense[e].link
    BY <1>1, <1>5 DEF RequestInv, VersionedPcs
  <2>6. UNCHANGED <<tx, acked, abandoned>>
    BY DEF UpdateSave, history
  <2>7. \A m \in Members : expense[e].link[m] # None =>
            expense[e].owed[m] # None /\ expense[e].link[m] \in acked
    BY <1>5, <2>1 DEF LinkInv, LinkIsOwnCopy
  <2>8. \A m \in Members : doc.link[m] # None =>
            /\ doc.owed[m] # None
            /\ doc.link[m] \in acked
            /\ doc.link[m] = expense[e].link[m]
    BY <2>3, <2>5, <2>7 DEF KeptLinks
  <2>9. \/ local = Idle /\ Confirmed(q.link) = {}
        \/ /\ local.pc = "update_sync" /\ local.expense = e /\ local.link = q.link
           /\ local.todo = Confirmed(q.link) /\ local.newOwed = q.newOwed
    BY <2>0, <2>1 DEF Syncing, Idle
  <2>10. \A m \in Members : expense[e].link[m] \in {None, doc.link[m]}
                            \/ expense[e].link[m] \in PendingRemoval(local)
    <3> SUFFICES ASSUME NEW m \in Members, expense[e].link[m] # None,
                        expense[e].link[m] # doc.link[m]
                 PROVE  expense[e].link[m] \in PendingRemoval(local)
      OBVIOUS
    <3>1. /\ replaced /\ q.link[m] = expense[e].link[m] /\ q.newOwed[m] = None
      BY <2>3, <2>5 DEF KeptLinks
    <3>2. m \in Confirmed(q.link)
      BY <3>1 DEF Confirmed
    <3>3. m \in local.todo /\ local.newOwed[m] = None /\ local.pc = "update_sync"
          /\ local.link[m] = expense[e].link[m]
      BY <2>9, <3>1, <3>2
    <3>4. QED  BY <3>3 DEF PendingRemoval, Dropped
  <2>11. RequestInv(local)'
    <3>1. CASE local = Idle
      BY <1>3, <3>1
    <3>2. CASE /\ local.pc = "update_sync" /\ local.expense = e /\ local.link = q.link
               /\ local.todo = Confirmed(q.link) /\ local.newOwed = q.newOwed
      <4>1. doc.status = "live"
        BY <1>5, <2>3 DEF Live
      <4>2. \A m \in Members : q.link[m] # None =>
                q.link[m] \in acked /\ tx[q.link[m]].share = <<e, m>>
        BY <1>1 DEF RequestInv
      <4>3. \A m \in Confirmed(q.link) : q.newOwed[m] = None => doc.link[m] # q.link[m]
        <5> SUFFICES ASSUME NEW m \in Confirmed(q.link), q.newOwed[m] = None,
                            doc.link[m] = q.link[m]
                     PROVE  FALSE
          OBVIOUS
        <5>1. m \in Members /\ q.link[m] # None
          BY DEF Confirmed
        <5>2. ~replaced
          BY <2>3, <5>1 DEF KeptLinks
        <5>3. q.owed[m] = None
          BY <5>2 DEF Replacing
        <5>4. q.owed[m] # None
          BY <1>1, <5>1 DEF RequestInv, VersionedPcs
        <5>5. QED  BY <5>3, <5>4
      <4>4. QED  BY <2>4, <2>6, <3>2, <4>1, <4>2, <4>3 DEF RequestInv, VersionedPcs
    <3>3. QED  BY <2>9, <3>1, <3>2
  <2>12. doc.status = "live"
    BY <1>5, <2>3 DEF Live
  <2>13. local.pc # "confirm_save"
    BY <2>9 DEF Idle
  <2>14. SaveOf(r, e, local, doc)
    BY <1>1, <1>5, <2>0, <2>3, <2>6, <2>8, <2>10, <2>12, <2>13 DEF SaveOf
  <2>15. QED  BY <2>1, <2>4, <2>11, <2>14, SaveLinks
<1>6. QED  BY <1>4, <1>5 DEF UpdateSave

\* The ids handed to removeGroupShares at the end of a request are acknowledged
\* copies that no live expense links to any more.
LEMMA RemovalLinks ==
    ASSUME LinkInv, TypeInv', NEW r \in Requests,
           req[r].pc # "idle",
           RemoveCopies(PendingRemoval(req[r])),
           \/ req[r].pc = "update_sync"
           \/ req[r].pc = "delete_remove",
           req' = [req EXCEPT ![r] = Idle],
           UNCHANGED <<expense, acked, abandoned>>
    PROVE  LinkInv'
<1> DEFINE q == req[r]
           ids == PendingRemoval(q)
<1>1. WellFormed(q) /\ RequestInv(q)
  BY DEF LinkInv, TypeInv
<1>2. ASSUME NEW t \in ids
      PROVE  t \in acked /\ \A e \in Expenses, m \in Members :
                               Live(e) => expense[e].link[m] # t
  <2>1. PICK n \in Members :
          /\ q.link[n] = t /\ t # None
          /\ \/ q.pc = "delete_remove"
             \/ q.pc = "update_sync" /\ n \in q.todo /\ q.newOwed[n] = None
    BY <1>1, <1>2 DEF PendingRemoval, Dropped, LinkedCopies, Confirmed, WellFormed,
                      Request
  <2>2. t \in acked /\ tx[t].share = <<q.expense, n>>
    BY <1>1, <2>1 DEF RequestInv
  <2>3. ASSUME NEW e \in Expenses, NEW m \in Members, Live(e), expense[e].link[m] = t
        PROVE  FALSE
    <3>1. tx[t].share = <<e, m>>
      BY <2>1, <2>3 DEF LinkInv, LinkIsOwnCopy
    <3>2. e = q.expense /\ m = n
      BY <2>2, <3>1
    <3>3. QED  BY <1>1, <2>1, <2>3, <3>2 DEF RequestInv
  <2>4. QED  BY <2>2, <2>3
<1>3. ASSUME NEW t \in TxIds
      PROVE  /\ tx'[t].share = tx[t].share
             /\ tx'[t].status = "unused" <=> tx[t].status = "unused"
             /\ tx'[t].status = "live" => tx[t].status = "live" /\ t \notin ids
             /\ tx'[t].status = "removed" /\ tx[t].status # "removed" => t \in ids
  <2>1. CASE t \in ids /\ tx[t].status = "live"
    BY <2>1 DEF RemoveCopies, GoneTx
  <2>2. CASE ~(t \in ids /\ tx[t].status = "live")
    BY <2>2 DEF RemoveCopies
  <2>3. QED  BY <2>1, <2>2
<1>4. RequestInv(Idle) /\ Idle.pc # "confirm_save"
  BY DEF RequestInv, Idle
<1>5. ids \subseteq TxIds
  BY <1>2 DEF LinkInv, TypeInv, TypeOK
<1> HIDE DEF ids
<1>6. \A t \in ids : tx'[t].status # "live"
  BY <1>3, <1>5
<1>7. QED  BY <1>2, <1>3, <1>4, <1>6, TxMove DEF ids

\* Every step keeps the links.
LEMMA LinkStep == LinkInv /\ [Next]_vars => LinkInv'
<1> SUFFICES ASSUME LinkInv, [Next]_vars PROVE LinkInv'
  OBVIOUS
<1>t. TypeInv'
  BY TypeStep DEF LinkInv
<1>i. /\ RequestInv(Idle) /\ RequestInv(Idle)' /\ Idle.pc = "idle"
      /\ PendingRemoval(Idle) = {}
  BY DEF RequestInv, Idle, PendingRemoval
<1>r. ASSUME NEW r \in Requests
      PROVE  WellFormed(req[r]) /\ RequestInv(req[r]) /\ req[r] \in Request
  BY DEF LinkInv, TypeInv, WellFormed
<1>1. CASE AddExpense
  BY <1>1, <1>t, AddExpenseLinks
<1>2. ASSUME NEW r \in Requests, ConfirmRead(r) PROVE LinkInv'
  <2>1. PICK e \in Expenses, m \in Members :
          Begin(r, e, [Fetched(e, "confirm_create") EXCEPT !.member = m])
    BY <1>2 DEF ConfirmRead
  <2>2. PICK local : local = [Fetched(e, "confirm_create") EXCEPT !.member = m]
    OBVIOUS
  <2>3. /\ local.pc = "confirm_create" /\ local.expense = e
        /\ local.owed = expense[e].owed /\ local.link = expense[e].link
    <3>1. TypeOK /\ "confirm_create" \in Pcs
      BY DEF LinkInv, TypeInv, Pcs
    <3>2. /\ Fetched(e, "confirm_create") \in Request
          /\ Fetched(e, "confirm_create").pc = "confirm_create"
          /\ Fetched(e, "confirm_create").expense = e
          /\ Fetched(e, "confirm_create").owed = expense[e].owed
          /\ Fetched(e, "confirm_create").link = expense[e].link
      BY <3>1, FetchedType
    <3>3. QED  BY <2>2, <3>2 DEF Request
  <2>4. QED  BY <1>t, <2>1, <2>2, <2>3, BeginLinks
<1>3. ASSUME NEW r \in Requests, ConfirmCreate(r) PROVE LinkInv'
  BY <1>3, <1>t, CreateLinks
<1>4. ASSUME NEW r \in Requests, ConfirmSave(r) PROVE LinkInv'
  BY <1>4, <1>t, ConfirmSaveLinks
<1>5. ASSUME NEW r \in Requests, UpdateRead(r) PROVE LinkInv'
  <2>1. PICK e \in Expenses, i \in Infos, owed \in SplitLists :
          Begin(r, e, [Fetched(e, "update_save") EXCEPT !.newInfo = i, !.newOwed = owed])
    BY <1>5 DEF UpdateRead
  <2>2. PICK local :
          local = [Fetched(e, "update_save") EXCEPT !.newInfo = i, !.newOwed = owed]
    OBVIOUS
  <2>3. /\ local.pc = "update_save" /\ local.expense = e
        /\ local.owed = expense[e].owed /\ local.link = expense[e].link
    <3>1. TypeOK /\ "update_save" \in Pcs
      BY DEF LinkInv, TypeInv, Pcs
    <3>2. /\ Fetched(e, "update_save") \in Request
          /\ Fetched(e, "update_save").pc = "update_save"
          /\ Fetched(e, "update_save").expense = e
          /\ Fetched(e, "update_save").owed = expense[e].owed
          /\ Fetched(e, "update_save").link = expense[e].link
      BY <3>1, FetchedType
    <3>3. QED  BY <2>2, <3>2 DEF Request
  <2>4. QED  BY <1>t, <2>1, <2>2, <2>3, BeginLinks
<1>6. ASSUME NEW r \in Requests, UpdateSave(r) PROVE LinkInv'
  BY <1>6, <1>t, UpdateSaveLinks
<1>7. ASSUME NEW r \in Requests, UpdateSync(r) PROVE LinkInv'
  <2>1. PICK m \in req[r].todo :
          /\ req[r].newOwed[m] # None
          /\ req' = [req EXCEPT ![r] = [req[r] EXCEPT !.todo = req[r].todo \ {m}]]
          /\ tx' = IF tx[req[r].link[m]].status = "live"
                   THEN [tx EXCEPT ![req[r].link[m]] =
                            Overwritten(req[r].link[m], req[r].newOwed[m], req[r].newInfo)]
                   ELSE tx
    BY <1>7 DEF UpdateSync
  <2>2. PICK local : local = [req[r] EXCEPT !.todo = req[r].todo \ {m}]
    OBVIOUS
  <2>3. /\ local.pc = "update_sync" /\ local.todo = req[r].todo \ {m}
        /\ local.expense = req[r].expense /\ local.link = req[r].link
        /\ local.newOwed = req[r].newOwed
    BY <1>7, <1>r, <2>2 DEF Request, UpdateSync
  <2>4. req[r].pc = "update_sync" /\ UNCHANGED <<expense, acked, abandoned>>
    BY <1>7 DEF UpdateSync, history
  <2>5. RequestInv(local)
    BY <1>r, <2>3, <2>4 DEF RequestInv, VersionedPcs
  <2>6. PendingRemoval(local) = PendingRemoval(req[r])
    <3>1. Dropped(local) = Dropped(req[r])
      BY <2>1, <2>3 DEF Dropped
    <3>2. QED  BY <2>3, <2>4, <3>1 DEF PendingRemoval
  <2>7. ASSUME NEW t \in TxIds
        PROVE  tx'[t].share = tx[t].share /\ tx'[t].status = tx[t].status
    <3>1. tx[t] \in TxDoc
      BY DEF LinkInv, TypeInv, TypeOK
    <3>2. QED  BY <2>1, <3>1 DEF Overwritten, LinkInv, TypeInv, TypeOK, TxDoc
  <2>8. QED
    BY <1>t, <2>1, <2>2, <2>3, <2>4, <2>5, <2>6, <2>7, TxMove
<1>8. ASSUME NEW r \in Requests, UpdateRemove(r) PROVE LinkInv'
  <2>1. req[r].pc = "update_sync" /\ PendingRemoval(req[r]) = Dropped(req[r])
    BY <1>8 DEF UpdateRemove, PendingRemoval
  <2>2. QED  BY <1>8, <1>t, <2>1, RemovalLinks DEF UpdateRemove, history
<1>9. ASSUME NEW r \in Requests, DeleteRead(r) PROVE LinkInv'
  <2>1. PICK e \in Expenses :
          Begin(r, e, [Idle EXCEPT !.pc = "delete_doc", !.expense = e,
                                   !.link = expense[e].link])
    BY <1>9 DEF DeleteRead
  <2>2. PICK local : local = [Idle EXCEPT !.pc = "delete_doc", !.expense = e,
                                          !.link = expense[e].link]
    OBVIOUS
  <2>3. /\ local.pc = "delete_doc" /\ local.expense = e
        /\ local.link = expense[e].link
    BY <2>2 DEF Idle
  <2>4. QED  BY <1>t, <2>1, <2>2, <2>3, BeginLinks DEF VersionedPcs
<1>10. ASSUME NEW r \in Requests, DeleteDoc(r) PROVE LinkInv'
  <2>1. PICK local : local = [req[r] EXCEPT !.pc = "delete_remove"]
    OBVIOUS
  <2>2. /\ local.pc = "delete_remove" /\ local.expense = req[r].expense
        /\ local.link = req[r].link
    BY <1>r, <2>1 DEF Request
  <2>3. /\ req[r].pc = "delete_doc" /\ req' = [req EXCEPT ![r] = local]
        /\ UNCHANGED <<tx, acked, abandoned>>
    BY <1>10, <2>1 DEF DeleteDoc, history
  <2>4. req[r].expense \in Expenses /\ PendingRemoval(req[r]) = {}
    BY <1>r, <2>3 DEF WellFormed, PendingRemoval
  <2>5. ASSUME NEW e \in Expenses
        PROVE  /\ \/ expense'[e] = expense[e]
                  \/ Live(e) /\ expense'[e].status \in {"deleted", "wiped"}
               /\ e = req[r].expense => expense'[e].status \notin {"live", "unused"}
    <3>1. expense[req[r].expense].status # "unused"
      BY <1>r, <2>3 DEF RequestInv
    <3>2. QED
      BY <1>10, <2>4, <3>1 DEF DeleteDoc, LinkInv, TypeInv, TypeOK, GoneExpense, Live
  <2>6. RequestInv(local)'
    <3>1. \A m \in Members : req[r].link[m] # None =>
              /\ req[r].link[m] \in acked
              /\ tx[req[r].link[m]].share = <<req[r].expense, m>>
      BY <1>r, <2>3 DEF RequestInv
    <3>2. expense'[req[r].expense].status \notin {"live", "unused"}
      BY <2>4, <2>5
    <3>3. acked' = acked /\ tx' = tx
      BY <2>3
    <3>4. QED  BY <2>2, <3>1, <3>2, <3>3 DEF RequestInv, VersionedPcs, Live
  <2>7. QED  BY <1>t, <2>2, <2>3, <2>4, <2>5, <2>6, ExpenseGone
<1>11. ASSUME NEW r \in Requests, DeleteRemove(r) PROVE LinkInv'
  <2>1. req[r].pc = "delete_remove" /\ PendingRemoval(req[r]) = LinkedCopies(req[r])
    BY <1>11 DEF DeleteRemove, PendingRemoval
  <2>2. QED  BY <1>11, <1>t, <2>1, RemovalLinks DEF DeleteRemove, history
<1>12. ASSUME NEW r \in Requests, Abort(r) PROVE LinkInv'
  <2>1. abandoned' = abandoned \cup PendingRemoval(req[r])
    BY <1>12 DEF Abort
  <2>2. QED  BY <1>12, <1>i, <1>t, <2>1, QuietMove DEF Abort
<1>13. CASE WipeGroup
  <2>1. \A e \in Expenses :
          \/ expense'[e] = expense[e]
          \/ Live(e) /\ expense'[e].status \in {"deleted", "wiped"}
    BY <1>13 DEF WipeGroup, GoneExpense
  <2>2. UNCHANGED <<tx, req, acked, abandoned>>
    BY <1>13 DEF WipeGroup, history
  <2>3. CASE Requests = {}
    BY <1>t, <2>1, <2>2, <2>3
       DEF LinkInv, LinkIsOwnCopy, AckedCopyTracked, AckedCreated, FreshCopiesDiffer,
           Live, Shares
  <2>4. ASSUME NEW r \in Requests PROVE LinkInv'
    BY <1>i, <1>t, <2>1, <2>2, ExpenseGone
  <2>5. QED  BY <2>3, <2>4
<1>14. ASSUME NEW t \in TxIds, tx[t].status = "live", NEW copy,
              copy.share = tx[t].share, copy.status \in {"live", "deleted"},
              tx' = [tx EXCEPT ![t] = copy],
              UNCHANGED <<expense, req, acked, abandoned>>
       PROVE  LinkInv'
  <2>1. ASSUME NEW u \in TxIds
        PROVE  /\ tx'[u].share = tx[u].share
               /\ tx'[u].status = "unused" <=> tx[u].status = "unused"
               /\ tx'[u].status = "live" => tx[u].status = "live"
               /\ tx'[u].status = "removed" => tx[u].status = "removed"
               /\ tx[u].status = "deleted" => tx'[u].status = "deleted"
               /\ tx[u].status = "live" => tx'[u].status \in {"live", "deleted"}
    BY <1>14 DEF LinkInv, TypeInv, TypeOK
  <2>2. CASE Requests = {}
    <3>1. LinkIsOwnCopy'
      <4> SUFFICES ASSUME NEW e \in Expenses, NEW m \in Members,
                          Live(e), expense[e].link[m] # None
                   PROVE  /\ expense[e].owed[m] # None
                          /\ expense[e].link[m] \in acked
                          /\ tx'[expense[e].link[m]].share = <<e, m>>
                          /\ tx'[expense[e].link[m]].status \in {"live", "deleted"}
        BY <1>14 DEF LinkIsOwnCopy, Live
      <4>1. expense[e].link[m] \in TxIds
        BY DEF LinkInv, LinkIsOwnCopy, TypeInv, TypeOK
      <4>2. QED  BY <2>1, <4>1 DEF LinkInv, LinkIsOwnCopy
    <3>2. AckedCopyTracked' /\ AckedCreated' /\ FreshCopiesDiffer'
      BY <1>14, <2>1, <2>2
         DEF LinkInv, AckedCopyTracked, AckedCreated, FreshCopiesDiffer, Live, Shares,
             TypeInv, TypeOK
    <3>3. QED  BY <1>t, <2>2, <3>1, <3>2 DEF LinkInv
  <2>3. ASSUME NEW r \in Requests PROVE LinkInv'
    BY <1>14, <1>i, <1>t, <2>1, TxMove
  <2>4. QED  BY <2>2, <2>3
<1>15. CASE EditOwnTransaction
  <2>1. PICK t \in TxIds : /\ tx[t].status = "live"
                           /\ tx' = [tx EXCEPT ![t] = Overwritten(t, None, None)]
                           /\ UNCHANGED <<expense, req, acked, abandoned>>
    BY <1>15 DEF EditOwnTransaction, history
  <2>2. PICK copy : copy = Overwritten(t, None, None)
    OBVIOUS
  <2>3. copy.share = tx[t].share /\ copy.status = "live"
    BY <2>1, <2>2 DEF Overwritten, LinkInv, TypeInv, TypeOK, TxDoc
  <2>4. QED  BY <1>14, <2>1, <2>2, <2>3
<1>16. CASE DeleteOwnTransaction
  <2>1. PICK t \in TxIds : /\ tx[t].status = "live"
                           /\ tx' = [tx EXCEPT ![t] = GoneTx(t, "deleted")]
                           /\ UNCHANGED <<expense, req, acked, abandoned>>
    BY <1>16 DEF DeleteOwnTransaction, history
  <2>2. PICK copy : copy = GoneTx(t, "deleted")
    OBVIOUS
  <2>3. copy.share = tx[t].share /\ copy.status = "deleted"
    BY <2>2 DEF GoneTx
  <2>4. QED  BY <1>14, <2>1, <2>2, <2>3
<1>17. CASE UNCHANGED vars
  <2>1. UNCHANGED <<expense, tx, req, acked, abandoned>>
    BY <1>17 DEF vars
  <2>2. QED
    BY <1>t, <2>1
       DEF LinkInv, LinkIsOwnCopy, AckedCopyTracked, AckedCreated, FreshCopiesDiffer,
           RequestInv, Live, PendingRemoval, Dropped, LinkedCopies, Confirmed
<1>18. QED
  BY <1>1, <1>2, <1>3, <1>4, <1>5, <1>6, <1>7, <1>8, <1>9, <1>10, <1>11, <1>12,
     <1>13, <1>15, <1>16, <1>17 DEF Next

\* Whatever requests overlap or are cut off, and however many there are, a link
\* stored on a split of a live expense is to the acknowledged copy of that very
\* share, which the server has not removed.
THEOREM LinksCorrect == Spec => []LinkIsOwnCopy
<1>1. LinkInv => LinkIsOwnCopy
  BY DEF LinkInv
<1>2. QED  BY <1>1, LinkInit, LinkStep, PTL DEF Spec

\* No acknowledged copy of a live expense's share is forgotten: it is linked, about
\* to be removed, or its removal was cut off.
THEOREM AckedTracked == Spec => []AckedCopyTracked
<1>1. LinkInv => AckedCopyTracked
  BY DEF LinkInv
<1>2. QED  BY <1>1, LinkInit, LinkStep, PTL DEF Spec

\* What a step leaves of an expense's links.
LEMMA LinkKeptStep == LinkInv /\ [Next]_vars => [LinkKept]_vars
<1> SUFFICES ASSUME LinkInv, Next PROVE LinkKept
  BY DEF LinkKept, vars
<1>t. expense \in [Expenses -> ExpenseDoc]
  BY DEF LinkInv, TypeInv, TypeOK
<1>1. CASE UNCHANGED expense
  BY <1>1 DEF LinkKept
<1>2. CASE AddExpense
  BY <1>2, <1>t DEF AddExpense, LinkKept, Live
<1>3. CASE WipeGroup
  BY <1>3, <1>t DEF WipeGroup, GoneExpense, LinkKept, Live
<1>4. ASSUME NEW r \in Requests, ConfirmSave(r), ~UNCHANGED expense PROVE LinkKept
  <2> DEFINE q == req[r]
  <2>1. /\ expense' = [expense EXCEPT ![q.expense] = Marked(q)]
        /\ q.pc = "confirm_save" /\ ~q.stale /\ Live(q.expense)
    BY <1>4 DEF ConfirmSave
  <2>2. /\ q.expense \in Expenses /\ q.member \in Members /\ q.link \in Links
        /\ q.link[q.member] = None
        /\ q.link = expense[q.expense].link
    BY <2>1 DEF LinkInv, TypeInv, WellFormed, Request, RequestInv, VersionedPcs
  <2>3. \A m \in Members \ {q.member} :
            Marked(q).link[m] = expense[q.expense].link[m]
    BY <1>t, <2>2 DEF Marked, ExpenseDoc, Links
  <2>4. expense[q.expense].link[q.member] = None
    BY <2>2
  <2> HIDE DEF q
  <2>5. QED  BY <1>t, <2>1, <2>2, <2>3, <2>4 DEF LinkKept
<1>5. ASSUME NEW r \in Requests, UpdateSave(r), ~UNCHANGED expense PROVE LinkKept
  <2> DEFINE q == req[r]
  <2>1. PICK replaced \in Replacing(q) :
        /\ expense' = [expense EXCEPT ![q.expense] = Written(q, replaced)]
        /\ q.pc = "update_save" /\ Live(q.expense)
        /\ replaced => ~q.stale
    BY <1>5 DEF UpdateSave
  <2>2. /\ q.expense \in Expenses
        /\ replaced => q.link = expense[q.expense].link
    BY <2>1 DEF LinkInv, TypeInv, WellFormed, Request, RequestInv, VersionedPcs
  <2>3. /\ Written(q, replaced).owed = IF replaced THEN q.newOwed ELSE expense[q.expense].owed
        /\ Written(q, replaced).link = IF replaced THEN KeptLinks(q) ELSE expense[q.expense].link
    BY <1>t, <2>2 DEF Written, ExpenseDoc
  <2>4. \A m \in Members : Written(q, replaced).owed[m] # None =>
            Written(q, replaced).link[m] = expense[q.expense].link[m]
    BY <2>2, <2>3 DEF KeptLinks
  <2> HIDE DEF q
  <2>5. QED  BY <1>t, <2>1, <2>2, <2>4 DEF LinkKept
<1>6. ASSUME NEW r \in Requests, DeleteDoc(r) PROVE LinkKept
  BY <1>6, <1>t DEF DeleteDoc, GoneExpense, LinkKept, Live
<1>7. QED
  BY <1>1, <1>2, <1>3, <1>4, <1>5, <1>6
     DEF Next, EditOwnTransaction, DeleteOwnTransaction, ConfirmRead, ConfirmCreate,
         UpdateRead, UpdateSync, UpdateRemove, DeleteRead, DeleteRemove, Abort, Begin

\* A confirmed split stays confirmed by the same transaction as long as its expense
\* exists and its member is in the split, whatever edits overlap the confirmation.
THEOREM LinksStable == Spec => LinkStable
BY LinkInit, LinkStep, LinkKeptStep, PTL DEF Spec, LinkStable

(***************************************************************************)
(* The copies follow.  For an expense whose requests run one at a time the *)
(* strengthening of ShareFollowsExpense says what the one in flight, if    *)
(* any, has read of it, and how each copy stands to it: a confirmation's   *)
(* new copy is still unlinked, an update has still to bring the copies of  *)
(* its todo to what it has saved, a deletion has still to remove them all. *)
(***************************************************************************)
Shows(t, amount, info) == tx[t].amount # None => tx[t].amount = amount /\ tx[t].info = info

Following(e, m, t) ==
    /\ Live(e)
    /\ expense[e].link[m] = t
    /\ Shows(t, expense[e].owed[m], expense[e].info)

\* What the request in flight knows of the expense.
AsRead(e, q) ==
    /\ q.pc \in VersionedPcs =>
           /\ Live(e) /\ ~q.stale
           /\ q.info = expense[e].info /\ q.owed = expense[e].owed
           /\ q.link = expense[e].link
    /\ q.pc = "update_sync" =>
           Live(e) /\ q.newOwed = expense[e].owed /\ q.newInfo = expense[e].info
    /\ q.pc = "delete_doc" => Live(e) /\ q.link = expense[e].link
    /\ q.pc = "delete_remove" => ~Live(e)

\* What it makes of a copy of m's share.
Expected(e, q, m, t) ==
    /\ q.pc \in {"confirm_create", "update_save", "delete_doc"} => Following(e, m, t)
    /\ q.pc = "confirm_save" =>
           IF t = q.tx THEN Shows(t, q.owed[m], q.info) ELSE Following(e, m, t)
    /\ q.pc = "update_sync" =>
           /\ q.link[m] = t
           /\ q.newOwed[m] # None => expense[e].link[m] = t
           /\ m \notin q.todo => Following(e, m, t)
    /\ q.pc = "delete_remove" => q.link[m] = t

Standing(e) ==
    /\ \A r \in InFlightOn(e) : AsRead(e, req[r])
    /\ \A m \in Members : \A t \in Copies(e, m) :
           /\ InFlightOn(e) = {} => Following(e, m, t)
           /\ \A r \in InFlightOn(e) : Expected(e, req[r], m, t)

FollowsAt(e) ==
    /\ \A r, s \in InFlightOn(e) : r = s
    /\ expense[e].status \in {"live", "deleted"} => Standing(e)

\* A live copy is of a share that there has been.
CopiesCreated ==
    \A t \in TxIds : tx[t].status = "live" =>
        \E e \in Expenses, m \in Members :
            tx[t].share = <<e, m>> /\ expense[e].status # "unused"

FollowInv ==
    /\ \A r \in Requests : req[r].pc = "idle" => req[r].expense = None
    /\ CopiesCreated
    /\ \A e \in undisturbed : FollowsAt(e)

\* It holds at the start.
LEMMA FollowInit == Init => FollowInv
<1> SUFFICES ASSUME Init PROVE FollowInv
  OBVIOUS
<1>1. \A e \in Expenses : InFlightOn(e) = {}
  BY NoneAssumption DEF Init, InFlightOn, Idle
<1>2. QED  BY <1>1 DEF Init, FollowInv, CopiesCreated, FollowsAt, Idle

\* A copy that a step leaves there, or its owner has edited.
CopyCalm(t) ==
    /\ tx'[t].share = tx[t].share /\ tx[t].status = "live"
    /\ \/ tx'[t].amount = None
       \/ tx'[t].amount = tx[t].amount /\ tx'[t].info = tx[t].info

\* Such a copy stands to its expense as before, if that and the request do.
LEMMA CalmCopy ==
    ASSUME NEW e \in Expenses, NEW m \in Members, NEW t \in TxIds, CopyCalm(t),
           expense'[e] = expense[e]
    PROVE  /\ Following(e, m, t) => Following(e, m, t)'
           /\ \A q : Expected(e, q, m, t) => Expected(e, q, m, t)'
<1>1. \A amount, info : Shows(t, amount, info) => Shows(t, amount, info)'
  BY DEF CopyCalm, Shows
<1>2. Following(e, m, t) => Following(e, m, t)'
  BY <1>1 DEF Following, Live, Shows
<1>3. \A q : Expected(e, q, m, t) => Expected(e, q, m, t)'
  <2>1. TAKE q
  <2>2. Shows(t, q.owed[m], q.info) => Shows(t, q.owed[m], q.info)'
    BY <1>1 DEF Shows
  <2>3. QED  BY <1>2, <2>2 DEF Expected
<1>4. QED  BY <1>2, <1>3

\* Nothing changes for an expense that a step passes over.
LEMMA PassedOver ==
    ASSUME NEW e \in Expenses, FollowsAt(e), expense'[e] = expense[e],
           \A s \in Requests : req[s].expense = e \/ req'[s].expense = e => req'[s] = req[s],
           \A m \in Members : \A t \in Copies(e, m)' : CopyCalm(t)
    PROVE  FollowsAt(e)'
<1>1. InFlightOn(e)' = InFlightOn(e) /\ \A s \in InFlightOn(e) : req'[s] = req[s]
  BY DEF InFlightOn
<1>2. ASSUME expense[e].status \in {"live", "deleted"} PROVE Standing(e)'
  <2>1. Standing(e)
    BY <1>2 DEF FollowsAt
  <2>2. \A s \in InFlightOn(e)' : AsRead(e, req[s])'
    BY <1>1, <2>1 DEF Standing, AsRead, Live
  <2>3. ASSUME NEW m \in Members, NEW t \in Copies(e, m)'
        PROVE  /\ InFlightOn(e)' = {} => Following(e, m, t)'
               /\ \A s \in InFlightOn(e)' : Expected(e, req[s], m, t)'
    <3>1. t \in TxIds /\ CopyCalm(t) /\ t \in Copies(e, m)
      BY DEF Copies, CopyCalm
    <3>2. InFlightOn(e)' = {} => Following(e, m, t)'
      BY <1>1, <2>1, <3>1, CalmCopy DEF Standing
    <3>3. \A s \in InFlightOn(e) : Expected(e, req[s], m, t)
      BY <2>1, <3>1 DEF Standing
    <3>4. \A q : Expected(e, q, m, t) => Expected(e, q, m, t)'
      BY <3>1, CalmCopy
    <3>5. \A s \in InFlightOn(e)' : Expected(e, req[s], m, t)'
      <4>1. TAKE s \in InFlightOn(e)'
      <4>2. PICK q : q = req[s]
        OBVIOUS
      <4>3. q = req'[s] /\ Expected(e, q, m, t)'
        BY <1>1, <3>3, <3>4, <4>2
      <4>4. QED  BY <4>3 DEF Expected, Following, Shows, Live
    <3>6. QED  BY <3>2, <3>5
  <2>4. QED  BY <2>2, <2>3 DEF Standing
<1>3. QED  BY <1>1, <1>2 DEF FollowsAt

\* What a step of r on e leaves of the other requests, expenses and copies.
MovesAt(r, e) ==
    /\ req'[r].expense \in {e, None} /\ req[r].expense \in {e, None}
    /\ req'[r].pc = "idle" => req'[r].expense = None
    /\ \A s \in Requests \ {r} :
           /\ req'[s].expense = req[s].expense /\ req'[s].pc = req[s].pc
           /\ req[s].expense # e => req'[s] = req[s]
    /\ \A f \in Expenses \ {e} : expense'[f] = expense[f]
    /\ \A f \in Expenses \ {e}, m \in Members : \A t \in Copies(f, m)' : CopyCalm(t)

\* How the copies of e stand after a step of r, the only request in flight on it.
LeavesStanding(r, e) ==
    /\ req'[r].expense = e => AsRead(e, req[r])'
    /\ \A m \in Members : \A t \in Copies(e, m)' :
           /\ req'[r].expense = e => Expected(e, req[r], m, t)'
           /\ req'[r].expense = None => Following(e, m, t)'

\* A step of one request: what it leaves of its own expense has to be shown.
LEMMA StepFollows ==
    ASSUME FollowInv, NEW r \in Requests, NEW e \in Expenses, MovesAt(r, e),
           CopiesCreated', undisturbed' \subseteq undisturbed, undisturbed \subseteq Expenses,
           e \in undisturbed' =>
               /\ InFlightOn(e) \subseteq {r}
               /\ expense'[e].status \in {"live", "deleted"} => LeavesStanding(r, e)
    PROVE  FollowInv'
<1>1. \A s \in Requests : req'[s].pc = "idle" => req'[s].expense = None
  BY DEF FollowInv, MovesAt
<1>2. ASSUME NEW f \in undisturbed', f # e PROVE FollowsAt(f)'
  <2>1. f \in Expenses /\ f \in undisturbed /\ FollowsAt(f) /\ expense'[f] = expense[f]
    BY <1>2 DEF FollowInv, MovesAt
  <2>2. \A s \in Requests : req[s].expense = f \/ req'[s].expense = f => req'[s] = req[s]
    BY <1>2, <2>1, NoneAssumption DEF MovesAt
  <2>3. QED  BY <1>2, <2>1, <2>2, PassedOver DEF MovesAt
<1>3. ASSUME e \in undisturbed' PROVE FollowsAt(e)'
  <2>1. InFlightOn(e)' = IF req'[r].expense = e THEN {r} ELSE {}
    BY <1>3 DEF InFlightOn, MovesAt
  <2>2. req'[r].expense # e => req'[r].expense = None
    BY DEF MovesAt
  <2>3. ASSUME expense'[e].status \in {"live", "deleted"} PROVE Standing(e)'
    <3>1. LeavesStanding(r, e)
      BY <1>3, <2>3
    <3>2. CASE req'[r].expense = e
      BY <2>1, <3>1, <3>2 DEF LeavesStanding, Standing
    <3>3. CASE req'[r].expense # e
      BY <2>1, <2>2, <3>1, <3>3 DEF LeavesStanding, Standing
    <3>4. QED  BY <3>2, <3>3
  <2>4. QED  BY <2>1, <2>3 DEF FollowsAt
<1>4. QED  BY <1>1, <1>2, <1>3 DEF FollowInv

\* How the copies of an expense stand before a step of a request in flight on it.
LEMMA Stood ==
    ASSUME FollowInv, NEW r \in Requests, NEW e \in undisturbed, req[r].expense = e
    PROVE  /\ InFlightOn(e) \subseteq {r}
           /\ expense[e].status \in {"live", "deleted"} =>
                  /\ AsRead(e, req[r])
                  /\ \A m \in Members : \A t \in Copies(e, m) : Expected(e, req[r], m, t)
<1>1. FollowsAt(e) /\ r \in InFlightOn(e)
  BY DEF FollowInv, InFlightOn
<1>2. QED  BY <1>1 DEF FollowsAt, Standing

\* Copies that are there after a step that makes none were there before.
LEMMA CreatedKept ==
    ASSUME CopiesCreated,
           \A t \in TxIds : tx'[t].status = "live" =>
               tx[t].status = "live" /\ tx'[t].share = tx[t].share,
           \A e \in Expenses : expense[e].status # "unused" => expense'[e].status # "unused"
    PROVE  CopiesCreated'
BY DEF CopiesCreated

\* What deleteMany leaves there it leaves as it was.
LEMMA RemovedCopies ==
    ASSUME TypeOK, NEW ids, RemoveCopies(ids)
    PROVE  \A t \in TxIds : tx'[t].status = "live" =>
               t \notin ids /\ tx'[t] = tx[t]
BY DEF TypeOK, RemoveCopies, GoneTx

\* Steps of the other programs: no request moves, and copies only lose their owner's values.
LEMMA OutsideFollows ==
    ASSUME FollowInv, undisturbed \subseteq Expenses, UNCHANGED <<req, undisturbed>>,
           \A t \in TxIds : tx'[t].status = "live" => CopyCalm(t),
           \A e \in Expenses : \/ expense'[e] = expense[e]
                               \/ expense'[e].status = "wiped"
    PROVE  FollowInv'
<1>1. CopiesCreated'
  BY CreatedKept DEF FollowInv, CopyCalm
<1>2. ASSUME NEW e \in undisturbed, expense'[e] = expense[e] PROVE FollowsAt(e)'
  <2>1. e \in Expenses /\ FollowsAt(e)
    BY DEF FollowInv
  <2>2. \A m \in Members : \A t \in Copies(e, m)' : CopyCalm(t)
    BY DEF Copies
  <2>3. \A s \in Requests : req'[s] = req[s]
    OBVIOUS
  <2>4. QED  BY <1>2, <2>1, <2>2, <2>3, PassedOver
<1>3. ASSUME NEW e \in undisturbed, expense'[e].status = "wiped" PROVE FollowsAt(e)'
  BY <1>3 DEF FollowInv, FollowsAt, InFlightOn
<1>4. QED  BY <1>1, <1>2, <1>3 DEF FollowInv

\* An expense is added: nothing has been made of it yet.
LEMMA AddFollows ==
    ASSUME LinkInv, FollowInv, AddExpense
    PROVE  FollowInv'
<1>1. PICK e \in Expenses, i \in Infos, owed \in SplitLists :
        /\ expense[e].status = "unused"
        /\ expense' = [expense EXCEPT ![e] = [status |-> "live", info |-> i,
                                              owed |-> owed, link |-> NoLinks]]
        /\ UNCHANGED <<tx, req, undisturbed>>
  BY DEF AddExpense, history
<1>2. /\ \A f \in Expenses : f # e => expense'[f] = expense[f]
      /\ expense'[e].status = "live"
      /\ undisturbed \subseteq Expenses
  BY <1>1 DEF LinkInv, TypeInv, TypeOK
<1>3. CopiesCreated'
  <2>1. CopiesCreated
    BY DEF FollowInv
  <2>2. \A f \in Expenses : expense[f].status # "unused" => expense'[f].status # "unused"
    BY <1>1, <1>2
  <2>3. QED  BY <1>1, <2>1, <2>2, CreatedKept
<1>4. InFlightOn(e) = {} /\ InFlightOn(e)' = {}
  <2>1. \A s \in Requests : req[s].expense # e
    BY <1>1, NoneAssumption DEF LinkInv, RequestInv, FollowInv
  <2>2. QED  BY <1>1, <2>1 DEF InFlightOn
<1>5. \A m \in Members : Copies(e, m)' = {}
  <2> SUFFICES ASSUME NEW m \in Members, NEW t \in TxIds, tx[t].share = <<e, m>>,
                      tx[t].status = "live"
               PROVE  FALSE
    BY <1>1 DEF Copies
  <2>1. PICK f \in Expenses, n \in Members :
          tx[t].share = <<f, n>> /\ expense[f].status # "unused"
    BY DEF FollowInv, CopiesCreated
  <2>2. QED  BY <1>1, <2>1
<1>6. FollowsAt(e)'
  BY <1>4, <1>5 DEF FollowsAt, Standing
<1>7. ASSUME NEW f \in undisturbed, f # e PROVE FollowsAt(f)'
  <2>1. f \in Expenses /\ FollowsAt(f) /\ expense'[f] = expense[f]
    BY <1>2, <1>7 DEF FollowInv
  <2>2. \A m \in Members : \A t \in Copies(f, m)' : CopyCalm(t)
    BY <1>1 DEF Copies, CopyCalm
  <2>3. \A s \in Requests : req'[s] = req[s]
    BY <1>1
  <2>4. QED  BY <2>1, <2>2, <2>3, PassedOver
<1>8. QED  BY <1>1, <1>3, <1>6, <1>7 DEF FollowInv

\* A request begins: it has read the document as it is.
LEMMA BeginFollows ==
    ASSUME LinkInv, FollowInv, NEW r \in Requests, NEW e \in Expenses, NEW local,
           Begin(r, e, local), local.expense = e, local.link = expense[e].link,
           local.pc \in {"confirm_create", "update_save", "delete_doc"},
           local.pc \in {"confirm_create", "update_save"} =>
               /\ ~local.stale /\ local.info = expense[e].info
               /\ local.owed = expense[e].owed
    PROVE  FollowInv'
<1>1. /\ req[r].expense = None /\ Live(e)
      /\ UNCHANGED <<expense, tx>>
      /\ req'[r] = local /\ \A s \in Requests \ {r} : req'[s] = req[s]
      /\ undisturbed' \subseteq undisturbed /\ undisturbed \subseteq Expenses
      /\ e \in undisturbed' => InFlightOn(e) = {}
  BY DEF Begin, FollowInv, LinkInv, TypeInv, TypeOK
<1>2. CopiesCreated'
  BY <1>1 DEF FollowInv, CopiesCreated
<1>3. MovesAt(r, e)
  BY <1>1 DEF MovesAt, Copies, CopyCalm
<1>4. ASSUME e \in undisturbed' PROVE LeavesStanding(r, e)
  <2>1. AsRead(e, req[r])'
    BY <1>1 DEF AsRead, VersionedPcs, Live
  <2>2. ASSUME NEW m \in Members, NEW t \in Copies(e, m)' PROVE Expected(e, req[r], m, t)'
    <3>1. t \in Copies(e, m) /\ expense[e].status \in {"live", "deleted"} /\ e \in undisturbed
      BY <1>1, <1>4 DEF Copies, Live
    <3>2. Following(e, m, t)
      BY <1>1, <1>4, <3>1 DEF FollowInv, FollowsAt, Standing
    <3>3. QED  BY <1>1, <3>2 DEF Expected, Following, Shows, Live
  <2>3. QED  BY <1>1, <2>1, <2>2, NoneAssumption DEF LeavesStanding
<1>5. QED  BY <1>1, <1>2, <1>3, <1>4, StepFollows

\* The copy a confirmation makes shows what the request has read.
LEMMA CreateFollows ==
    ASSUME LinkInv, FollowInv, NEW r \in Requests, ConfirmCreate(r)
    PROVE  FollowInv'
<1> DEFINE q == req[r]
           e == q.expense
<1>1. /\ q.pc = "confirm_create" /\ WellFormed(q) /\ RequestInv(q)
      /\ UNCHANGED <<expense, undisturbed>> /\ undisturbed \subseteq Expenses
  BY DEF ConfirmCreate, history, LinkInv, TypeInv, TypeOK
<1>2. PICK t \in TxIds :
        /\ tx[t].status = "unused"
        /\ tx' = [tx EXCEPT ![t] = [status |-> "live",
                                    share |-> <<e, q.member>>,
                                    amount |-> q.owed[q.member],
                                    info |-> q.info]]
        /\ req' = [req EXCEPT ![r] = [q EXCEPT !.pc = "confirm_save", !.tx = t]]
  BY DEF ConfirmCreate
<1>3. /\ e \in Expenses /\ q.member \in Members /\ expense[e].status # "unused"
      /\ q \in Request
  BY <1>1 DEF WellFormed, RequestInv
<1>4. /\ tx'[t].share = <<e, q.member>> /\ tx'[t].status = "live"
      /\ tx'[t].amount = q.owed[q.member] /\ tx'[t].info = q.info
      /\ \A u \in TxIds \ {t} : tx'[u] = tx[u]
  BY <1>2 DEF LinkInv, TypeInv, TypeOK
<1>5. /\ req'[r].pc = "confirm_save" /\ req'[r].tx = t /\ req'[r].expense = e
      /\ req'[r].stale = q.stale /\ req'[r].info = q.info /\ req'[r].owed = q.owed
      /\ req'[r].link = q.link
      /\ \A s \in Requests \ {r} : req'[s] = req[s]
  BY <1>2, <1>3 DEF LinkInv, TypeInv, TypeOK, Request
<1>6. PICK f \in Expenses : f = e
  BY <1>3
<1> HIDE DEF q, e
<1>7. CopiesCreated'
  BY <1>1, <1>3, <1>4 DEF FollowInv, CopiesCreated
<1>8. MovesAt(r, f)
  <2>1. ASSUME NEW g \in Expenses \ {f}, NEW m \in Members, NEW u \in Copies(g, m)'
        PROVE  CopyCalm(u)
    <3>1. u # t /\ u \in TxIds
      BY <1>4, <1>6, <2>1 DEF Copies
    <3>2. QED  BY <1>4, <2>1, <3>1 DEF Copies, CopyCalm
  <2>2. req[r].expense = f
    BY <1>6 DEF e, q
  <2>3. QED  BY <1>1, <1>5, <1>6, <2>1, <2>2 DEF MovesAt
<1>9. ASSUME f \in undisturbed', expense'[f].status \in {"live", "deleted"}
      PROVE  LeavesStanding(r, f)
  <2>1. /\ AsRead(f, q)
        /\ \A m \in Members : \A u \in Copies(f, m) : Expected(f, q, m, u)
    BY <1>1, <1>6, <1>9, Stood DEF q, e
  <2>2. AsRead(f, req[r])'
    BY <1>1, <1>5, <2>1 DEF AsRead, VersionedPcs, Live
  <2>3. ASSUME NEW m \in Members, NEW u \in Copies(f, m)' PROVE Expected(f, req[r], m, u)'
    <3>1. CASE u = t
      <4>1. m = q.member
        BY <1>4, <3>1 DEF Copies
      <4>2. QED  BY <1>4, <1>5, <3>1, <4>1 DEF Expected, Shows
    <3>2. CASE u # t
      <4>1. u \in TxIds /\ tx'[u] = tx[u] /\ u \in Copies(f, m)
        BY <1>4, <3>2 DEF Copies
      <4>2. Following(f, m, u)
        BY <1>1, <2>1, <4>1 DEF Expected
      <4>3. QED  BY <1>1, <1>5, <3>2, <4>1, <4>2 DEF Expected, Following, Shows, Live
    <3>3. QED  BY <3>1, <3>2
  <2>4. QED  BY <1>5, <1>6, <2>2, <2>3, NoneAssumption DEF LeavesStanding
<1>10. f \in undisturbed' => InFlightOn(f) \subseteq {r}
  BY <1>1, <1>6, Stood DEF q, e
<1>11. QED  BY <1>1, <1>7, <1>8, <1>9, <1>10, StepFollows

\* What the requests are after a save of r on e, which leaves r with local.
LEMMA Outdated ==
    ASSUME TypeOK, NEW r \in Requests, NEW e, NEW local,
           req' = Outdate(r, e, local) \/ req' = [req EXCEPT ![r] = local]
    PROVE  /\ req'[r] = local
           /\ \A s \in Requests \ {r} :
                  /\ req'[s].expense = req[s].expense /\ req'[s].pc = req[s].pc
                  /\ req[s].expense # e => req'[s] = req[s]
BY DEF TypeOK, Outdate, Request

\* A save of r's expense e: what r is left with stands to the copies as it should.
LEMMA SaveFollows ==
    ASSUME LinkInv, FollowInv, NEW r \in Requests, NEW e \in Expenses, NEW local,
           req[r].pc # "idle", req[r].expense = e,
           local.expense \in {e, None}, local.pc = "idle" => local.expense = None,
           UNCHANGED <<tx, undisturbed>>,
           req' = Outdate(r, e, local) \/ req' = [req EXCEPT ![r] = local],
           \A f \in Expenses \ {e} : expense'[f] = expense[f],
           expense'[e].status # "unused",
           e \in undisturbed /\ expense'[e].status \in {"live", "deleted"} =>
               LeavesStanding(r, e)
    PROVE  FollowInv'
<1>1. TypeOK /\ undisturbed \subseteq Expenses
  BY DEF LinkInv, TypeInv, TypeOK
<1>2. /\ req'[r] = local
      /\ \A s \in Requests \ {r} :
             /\ req'[s].expense = req[s].expense /\ req'[s].pc = req[s].pc
             /\ req[s].expense # e => req'[s] = req[s]
  BY <1>1, Outdated
<1>3. CopiesCreated'
  <2>1. \A f \in Expenses : expense[f].status # "unused" => expense'[f].status # "unused"
    OBVIOUS
  <2>2. QED  BY <2>1, CreatedKept DEF FollowInv
<1>4. MovesAt(r, e)
  BY <1>2 DEF MovesAt, Copies, CopyCalm
<1>5. e \in undisturbed' => InFlightOn(e) \subseteq {r}
  BY Stood
<1>6. QED  BY <1>1, <1>3, <1>4, <1>5, StepFollows

\* A confirmation that is saved links its copy, the only one of the share.
LEMMA ConfirmSaveFollows ==
    ASSUME LinkInv, FollowInv, NEW r \in Requests, ConfirmSave(r)
    PROVE  FollowInv'
<1>1. PICK q : q = req[r]
  OBVIOUS
<1>2. PICK e : e = q.expense
  OBVIOUS
<1>3. /\ q.pc = "confirm_save" /\ WellFormed(q) /\ RequestInv(q) /\ q \in Request
      /\ UNCHANGED <<tx, undisturbed>>
      /\ e \in Expenses /\ q.member \in Members /\ expense[e] \in ExpenseDoc
      /\ expense \in [Expenses -> ExpenseDoc]
  BY <1>1, <1>2 DEF ConfirmSave, LinkInv, TypeInv, TypeOK, WellFormed
<1>4. Idle.expense = None /\ Idle.pc = "idle"
  BY DEF Idle
<1>5. CASE /\ Live(e) /\ ~q.stale
           /\ expense' = [expense EXCEPT ![e] = Marked(q)]
           /\ req' = Outdate(r, e, Idle)
  <2>1. /\ expense'[e].status = "live" /\ expense'[e].info = expense[e].info
        /\ expense'[e].owed = q.owed
        /\ expense'[e].link = [q.link EXCEPT ![q.member] = q.tx]
        /\ \A f \in Expenses \ {e} : expense'[f] = expense[f]
    BY <1>2, <1>3, <1>5 DEF Marked, ExpenseDoc, Live
  <2>2. /\ q.owed = expense[e].owed /\ q.link = expense[e].link
        /\ q.link[q.member] = None /\ q.link \in Links /\ q.tx \in TxIds
        /\ tx[q.tx].share = <<e, q.member>>
    BY <1>2, <1>3, <1>5 DEF RequestInv, WellFormed, VersionedPcs, Request
  <2>3. req'[r] = Idle
    BY <1>5 DEF Outdate
  <2>4. ASSUME e \in undisturbed PROVE LeavesStanding(r, e)
    <3>1. /\ q.info = expense[e].info
          /\ \A m \in Members : \A t \in Copies(e, m) : Expected(e, q, m, t)
      BY <1>1, <1>2, <1>3, <1>5, <2>4, Stood DEF Live, AsRead, VersionedPcs
    <3>2. ASSUME NEW m \in Members, NEW t \in Copies(e, m)' PROVE Following(e, m, t)'
      <4>1. t \in Copies(e, m) /\ t \in TxIds /\ Expected(e, q, m, t)
        BY <1>3, <3>1 DEF Copies
      <4>2. CASE t = q.tx
        <5>1. m = q.member
          BY <2>2, <4>1, <4>2 DEF Copies
        <5>2. expense'[e].link[m] = t
          BY <2>1, <2>2, <4>2, <5>1 DEF Links
        <5>3. Shows(t, q.owed[m], q.info)
          BY <1>3, <4>1, <4>2 DEF Expected
        <5>4. QED  BY <1>3, <2>1, <2>2, <3>1, <5>2, <5>3 DEF Following, Live, Shows
      <4>3. CASE t # q.tx
        <5>1. Following(e, m, t)
          BY <1>3, <4>1, <4>3 DEF Expected
        <5>2. m # q.member
          BY <2>2, <4>1, <5>1, NoneAssumption DEF Following
        <5>3. expense'[e].link[m] = t
          BY <2>1, <2>2, <5>1, <5>2 DEF Links, Following
        <5>4. QED  BY <1>3, <2>1, <2>2, <5>1, <5>3 DEF Following, Live, Shows
      <4>4. QED  BY <4>2, <4>3
    <3>3. QED  BY <1>3, <1>4, <2>3, <3>2, NoneAssumption DEF LeavesStanding
  <2>5. QED  BY <1>1, <1>2, <1>3, <1>4, <1>5, <2>1, <2>4, SaveFollows
<1>6. CASE /\ ~Live(e) \/ q.stale
           /\ req' = [req EXCEPT ![r] = Idle]
           /\ UNCHANGED expense
  <2>1. ~(e \in undisturbed /\ expense[e].status \in {"live", "deleted"})
    BY <1>1, <1>2, <1>3, <1>6, Stood DEF AsRead, VersionedPcs
  <2>2. expense[e].status # "unused"
    BY <1>2, <1>3 DEF RequestInv
  <2>3. QED  BY <1>1, <1>2, <1>3, <1>4, <1>6, <2>1, <2>2, SaveFollows
<1>7. QED  BY <1>1, <1>2, <1>5, <1>6 DEF ConfirmSave

\* An edit that is saved goes on to the copies of the links it has read, if there are any.
LEMMA UpdateSaveFollows ==
    ASSUME LinkInv, FollowInv, NEW r \in Requests, UpdateSave(r)
    PROVE  FollowInv'
<1>1. PICK q : q = req[r]
  OBVIOUS
<1>2. PICK e : e = q.expense
  OBVIOUS
<1>3. /\ q.pc = "update_save" /\ WellFormed(q) /\ RequestInv(q) /\ q \in Request
      /\ UNCHANGED <<tx, undisturbed>>
      /\ e \in Expenses /\ expense[e] \in ExpenseDoc
      /\ expense \in [Expenses -> ExpenseDoc]
  BY <1>1, <1>2 DEF UpdateSave, LinkInv, TypeInv, TypeOK, WellFormed, history
<1>4. Idle.expense = None /\ Idle.pc = "idle"
  BY DEF Idle
<1>5. PICK local : local = Syncing(q)
  OBVIOUS
<1>6. IF Confirmed(q.link) = {} THEN local = Idle
      ELSE /\ local.pc = "update_sync" /\ local.expense = e /\ local.link = q.link
           /\ local.todo = Confirmed(q.link)
           /\ local.newOwed = q.newOwed /\ local.newInfo = q.newInfo
  BY <1>2, <1>5 DEF Syncing, Idle
<1>7. /\ local.expense \in {e, None}
      /\ local.pc = "idle" => local.expense = None
      /\ local.expense = e => Confirmed(q.link) # {}
      /\ local.expense = None => Confirmed(q.link) = {}
  BY <1>3, <1>4, <1>6, NoneAssumption
<1>8. ASSUME NEW replaced \in Replacing(q), Live(e), replaced => ~q.stale,
             expense' = [expense EXCEPT ![e] = Written(q, replaced)],
             req' = Outdate(r, e, local) \/ req' = [req EXCEPT ![r] = local]
      PROVE  FollowInv'
  <2>1. /\ expense'[e].status = "live"
        /\ expense'[e].info = IF q.newInfo # q.info THEN q.newInfo ELSE expense[e].info
        /\ expense'[e].owed = IF replaced THEN q.newOwed ELSE expense[e].owed
        /\ expense'[e].link = IF replaced THEN KeptLinks(q) ELSE expense[e].link
        /\ \A f \in Expenses \ {e} : expense'[f] = expense[f]
    BY <1>2, <1>3, <1>8 DEF Written, ExpenseDoc, Live
  <2>2. req'[r] = local
    BY <1>3, <1>8, Outdated DEF LinkInv, TypeInv
  <2>3. ASSUME e \in undisturbed PROVE LeavesStanding(r, e)
    <3>1. /\ q.info = expense[e].info /\ q.owed = expense[e].owed /\ q.link = expense[e].link
          /\ \A m \in Members : \A t \in Copies(e, m) : Following(e, m, t)
      BY <1>1, <1>2, <1>3, <1>8, <2>3, Stood DEF Live, AsRead, VersionedPcs, Expected
    <3>2. expense'[e].info = q.newInfo /\ expense'[e].owed = q.newOwed
      BY <2>1, <3>1 DEF Replacing
    <3>3. \A m \in Members : q.link[m] # None /\ q.newOwed[m] # None =>
              expense'[e].link[m] = q.link[m]
      BY <2>1, <3>1 DEF KeptLinks
    <3>4. \A m \in Members : \A t \in Copies(e, m)' : t # None /\ q.link[m] = t
      BY <1>3, <3>1, NoneAssumption DEF Copies, Following
    <3>5. CASE local.expense = e
      <4>1. AsRead(e, req[r])'
        BY <1>6, <1>7, <2>1, <2>2, <3>2, <3>5 DEF AsRead, VersionedPcs, Live
      <4>2. ASSUME NEW m \in Members, NEW t \in Copies(e, m)'
            PROVE  Expected(e, req[r], m, t)'
        <5>1. m \in local.todo /\ local.pc = "update_sync" /\ local.link[m] = t
          BY <1>6, <1>7, <3>4, <3>5 DEF Confirmed
        <5>2. local.newOwed[m] # None => expense'[e].link[m] = t
          BY <1>6, <1>7, <3>3, <3>4, <3>5
        <5>3. QED  BY <2>2, <5>1, <5>2 DEF Expected
      <4>3. QED  BY <1>3, <2>2, <3>5, <4>1, <4>2, NoneAssumption DEF LeavesStanding
    <3>6. CASE local.expense = None
      <4>1. \A m \in Members : Copies(e, m)' = {}
        BY <1>7, <3>4, <3>6 DEF Confirmed
      <4>2. QED  BY <1>3, <2>2, <3>6, <4>1, NoneAssumption DEF LeavesStanding
    <3>7. QED  BY <1>7, <3>5, <3>6
  <2>4. QED  BY <1>1, <1>2, <1>3, <1>7, <1>8, <2>1, <2>3, SaveFollows
<1>9. ASSUME NEW replaced, ~Live(e) \/ q.stale,
             req' = [req EXCEPT ![r] = Idle], UNCHANGED expense
      PROVE  FollowInv'
  <2>1. ~(e \in undisturbed /\ expense[e].status \in {"live", "deleted"})
    BY <1>1, <1>2, <1>3, <1>9, Stood DEF AsRead, VersionedPcs
  <2>2. expense[e].status # "unused"
    BY <1>2, <1>3 DEF RequestInv
  <2>3. QED  BY <1>1, <1>2, <1>3, <1>4, <1>9, <2>1, <2>2, SaveFollows
<1>10. PICK replaced \in Replacing(q) :
         \/ /\ Live(e)
            /\ replaced => ~q.stale
            /\ expense' = [expense EXCEPT ![e] = Written(q, replaced)]
            /\ req' = Outdate(r, e, local) \/ req' = [req EXCEPT ![r] = local]
         \/ /\ ~Live(e) \/ (replaced /\ q.stale)
            /\ req' = [req EXCEPT ![r] = Idle]
            /\ UNCHANGED expense
  BY <1>1, <1>2, <1>5 DEF UpdateSave
<1>11. QED  BY <1>8, <1>9, <1>10

\* A step of a request on its expense's copies alone.
LEMMA CopiesFollow ==
    ASSUME LinkInv, FollowInv, NEW r \in Requests, NEW e \in Expenses, NEW local,
           req[r].pc # "idle", req[r].expense = e,
           local.expense \in {e, None}, local.pc = "idle" => local.expense = None,
           req' = [req EXCEPT ![r] = local],
           expense' = expense, undisturbed' \subseteq undisturbed,
           \A t \in TxIds : tx'[t].status = "live" =>
               /\ tx'[t].share = tx[t].share /\ tx[t].status = "live"
               /\ (\A m \in Members : tx[t].share # <<e, m>>) => tx'[t] = tx[t],
           e \in undisturbed' /\ expense[e].status \in {"live", "deleted"} =>
               LeavesStanding(r, e)
    PROVE  FollowInv'
<1>1. TypeOK /\ undisturbed \subseteq Expenses
  BY DEF LinkInv, TypeInv, TypeOK
<1>2. /\ req'[r] = local
      /\ \A s \in Requests \ {r} : req'[s] = req[s]
  BY <1>1, Outdated DEF TypeOK
<1>3. CopiesCreated'
  BY CreatedKept DEF FollowInv
<1>4. MovesAt(r, e)
  <2>1. ASSUME NEW f \in Expenses \ {e}, NEW m \in Members, NEW t \in Copies(f, m)'
        PROVE  CopyCalm(t)
    <3>1. t \in TxIds /\ tx[t].share = <<f, m>> /\ tx[t].status = "live"
      BY DEF Copies
    <3>2. tx'[t] = tx[t]
      BY <3>1 DEF Copies
    <3>3. QED  BY <3>1, <3>2 DEF CopyCalm
  <2>2. QED  BY <1>2, <2>1 DEF MovesAt
<1>5. e \in undisturbed' => InFlightOn(e) \subseteq {r}
  BY Stood
<1>6. QED  BY <1>1, <1>3, <1>4, <1>5, StepFollows

\* One turn of the loop brings one copy to what was saved.
LEMMA SyncFollows ==
    ASSUME LinkInv, FollowInv, NEW r \in Requests, UpdateSync(r)
    PROVE  FollowInv'
<1>1. PICK q : q = req[r]
  OBVIOUS
<1>2. PICK e : e = q.expense
  OBVIOUS
<1>3. /\ q.pc = "update_sync" /\ WellFormed(q) /\ RequestInv(q) /\ q \in Request
      /\ UNCHANGED <<expense, undisturbed>> /\ e \in Expenses /\ TypeOK
  BY <1>1, <1>2 DEF UpdateSync, LinkInv, TypeInv, WellFormed, history
<1>4. PICK m \in q.todo :
        /\ q.newOwed[m] # None
        /\ req' = [req EXCEPT ![r] = [q EXCEPT !.todo = @ \ {m}]]
        /\ tx' = IF tx[q.link[m]].status = "live"
                 THEN [tx EXCEPT ![q.link[m]] =
                          Overwritten(q.link[m], q.newOwed[m], q.newInfo)]
                 ELSE tx
  BY <1>1 DEF UpdateSync
<1>5. PICK t : t = q.link[m]
  OBVIOUS
<1>6. m \in Members /\ t \in TxIds /\ tx[t].share = <<e, m>>
  BY <1>2, <1>3, <1>4, <1>5 DEF WellFormed, Confirmed, Request, Links, RequestInv
<1>7. /\ \A u \in TxIds \ {t} : tx'[u] = tx[u]
      /\ tx'[t].share = tx[t].share /\ tx'[t].status = tx[t].status
      /\ tx[t].status = "live" => tx'[t].amount = q.newOwed[m] /\ tx'[t].info = q.newInfo
  BY <1>3, <1>4, <1>5, <1>6 DEF Overwritten, TypeOK, TxDoc
<1>8. PICK local : local = [q EXCEPT !.todo = @ \ {m}]
  OBVIOUS
<1>9. /\ local.pc = "update_sync" /\ local.expense = e /\ local.todo = q.todo \ {m}
      /\ local.link = q.link /\ local.newOwed = q.newOwed /\ local.newInfo = q.newInfo
  BY <1>2, <1>3, <1>8 DEF Request
<1>10. req' = [req EXCEPT ![r] = local] /\ req'[r] = local
  BY <1>3, <1>4, <1>8 DEF TypeOK
<1>11. ASSUME e \in undisturbed, expense[e].status \in {"live", "deleted"}
       PROVE  LeavesStanding(r, e)
  <2>1. /\ Live(e) /\ q.newOwed = expense[e].owed /\ q.newInfo = expense[e].info
        /\ \A n \in Members : \A u \in Copies(e, n) :
               /\ q.link[n] = u
               /\ q.newOwed[n] # None => expense[e].link[n] = u
               /\ n \notin q.todo => Following(e, n, u)
    BY <1>1, <1>2, <1>3, <1>11, Stood DEF AsRead, Expected
  <2>2. AsRead(e, req[r])'
    BY <1>3, <1>9, <1>10, <2>1 DEF AsRead, VersionedPcs, Live
  <2>3. ASSUME NEW n \in Members, NEW u \in Copies(e, n)' PROVE Expected(e, req[r], n, u)'
    <3>1. u \in TxIds /\ u \in Copies(e, n)
      BY <1>7 DEF Copies
    <3>2. n \notin local.todo => Following(e, n, u)'
      <4>1. CASE n = m
        <5>1. u = t /\ tx[t].status = "live" /\ expense[e].link[n] = u
          BY <1>4, <1>5, <2>1, <3>1, <4>1 DEF Copies
        <5>2. QED  BY <1>3, <1>7, <2>1, <4>1, <5>1 DEF Following, Live, Shows
      <4>2. CASE n # m
        <5>1. u # t
          BY <1>6, <3>1, <4>2 DEF Copies
        <5>2. QED  BY <1>3, <1>7, <1>9, <2>1, <3>1, <4>2, <5>1 DEF Following, Live, Shows
      <4>3. QED  BY <4>1, <4>2
    <3>3. QED  BY <1>3, <1>9, <1>10, <2>1, <3>1, <3>2 DEF Expected
  <2>4. QED  BY <1>3, <1>9, <1>10, <2>2, <2>3, NoneAssumption DEF LeavesStanding
<1>12. \A u \in TxIds : tx'[u].status = "live" =>
           /\ tx'[u].share = tx[u].share /\ tx[u].status = "live"
           /\ (\A n \in Members : tx[u].share # <<e, n>>) => tx'[u] = tx[u]
  BY <1>6, <1>7
<1>13. QED  BY <1>1, <1>2, <1>3, <1>9, <1>10, <1>11, <1>12, CopiesFollow

\* The end of an update removes the copies that the new splits have no place for.
LEMMA RemoveFollows ==
    ASSUME LinkInv, FollowInv, NEW r \in Requests, UpdateRemove(r)
    PROVE  FollowInv'
<1>1. PICK q : q = req[r]
  OBVIOUS
<1>2. PICK e : e = q.expense
  OBVIOUS
<1>3. /\ q.pc = "update_sync" /\ WellFormed(q) /\ \A m \in q.todo : q.newOwed[m] = None
      /\ UNCHANGED <<expense, undisturbed>> /\ e \in Expenses /\ TypeOK
      /\ RemoveCopies(Dropped(q)) /\ req' = [req EXCEPT ![r] = Idle] /\ req'[r] = Idle
  BY <1>1, <1>2 DEF UpdateRemove, LinkInv, TypeInv, TypeOK, WellFormed, history
<1>4. Idle.expense = None /\ Idle.pc = "idle"
  BY DEF Idle
<1>5. \A t \in TxIds : tx'[t].status = "live" => t \notin Dropped(q) /\ tx'[t] = tx[t]
  BY <1>3, RemovedCopies
<1>6. ASSUME e \in undisturbed, expense[e].status \in {"live", "deleted"}
      PROVE  LeavesStanding(r, e)
  <2>1. \A n \in Members : \A u \in Copies(e, n) : Expected(e, q, n, u)
    BY <1>1, <1>2, <1>6, Stood
  <2>2. ASSUME NEW n \in Members, NEW u \in Copies(e, n)' PROVE Following(e, n, u)'
    <3>1. u \in TxIds /\ u \in Copies(e, n) /\ tx'[u] = tx[u] /\ u \notin Dropped(q)
      BY <1>5 DEF Copies
    <3>2. q.link[n] = u /\ (n \notin q.todo => Following(e, n, u))
      BY <1>3, <2>1, <3>1 DEF Expected
    <3>3. n \notin q.todo
      BY <1>3, <3>1, <3>2 DEF Dropped
    <3>4. QED  BY <1>3, <3>1, <3>2, <3>3 DEF Following, Live, Shows
  <2>3. QED  BY <1>3, <1>4, <2>2, NoneAssumption DEF LeavesStanding
<1>7. QED  BY <1>1, <1>2, <1>3, <1>4, <1>5, <1>6, CopiesFollow

\* A deletion takes the document first ...
LEMMA DeleteDocFollows ==
    ASSUME LinkInv, FollowInv, NEW r \in Requests, DeleteDoc(r)
    PROVE  FollowInv'
<1>1. PICK q : q = req[r]
  OBVIOUS
<1>2. PICK e : e = q.expense
  OBVIOUS
<1>3. /\ q.pc = "delete_doc" /\ WellFormed(q) /\ RequestInv(q) /\ q \in Request
      /\ UNCHANGED <<tx, undisturbed>> /\ e \in Expenses /\ TypeOK
      /\ req' = [req EXCEPT ![r] = [q EXCEPT !.pc = "delete_remove"]]
      /\ expense' = IF Live(e) THEN [expense EXCEPT ![e] = GoneExpense("deleted")]
                    ELSE expense
  BY <1>1, <1>2 DEF DeleteDoc, LinkInv, TypeInv, WellFormed, history
<1>4. PICK local : local = [q EXCEPT !.pc = "delete_remove"]
  OBVIOUS
<1>5. /\ local.pc = "delete_remove" /\ local.expense = e /\ local.link = q.link
      /\ req' = [req EXCEPT ![r] = local] /\ req'[r] = local
  BY <1>2, <1>3, <1>4 DEF Request, TypeOK
<1>6. /\ \A f \in Expenses \ {e} : expense'[f] = expense[f]
      /\ expense'[e].status # "live" /\ expense'[e].status # "unused"
  BY <1>2, <1>3 DEF TypeOK, GoneExpense, Live, RequestInv
<1>7. ASSUME e \in undisturbed, expense'[e].status \in {"live", "deleted"}
      PROVE  LeavesStanding(r, e)
  <2>1. \A n \in Members : \A u \in Copies(e, n) : q.link[n] = u
    <3>1. expense[e].status \in {"live", "deleted"}
      BY <1>3, <1>7 DEF Live
    <3>2. QED  BY <1>1, <1>2, <1>3, <1>7, <3>1, Stood DEF AsRead, Expected, Following
  <2>2. AsRead(e, req[r])'
    BY <1>5, <1>6 DEF AsRead, VersionedPcs, Live
  <2>3. ASSUME NEW n \in Members, NEW u \in Copies(e, n)' PROVE Expected(e, req[r], n, u)'
    <3>1. u \in Copies(e, n)
      BY <1>3 DEF Copies
    <3>2. QED  BY <1>5, <2>1, <3>1 DEF Expected
  <2>4. QED  BY <1>3, <1>5, <2>2, <2>3, NoneAssumption DEF LeavesStanding
<1>8. /\ req[r].pc # "idle" /\ req[r].expense = e /\ local.expense \in {e, None}
      /\ local.pc # "idle" /\ UNCHANGED <<tx, undisturbed>>
  BY <1>1, <1>2, <1>3, <1>5
<1>9. QED  BY <1>3, <1>5, <1>6, <1>7, <1>8, SaveFollows

\* ... and then all the copies.
LEMMA DeleteRemoveFollows ==
    ASSUME LinkInv, FollowInv, NEW r \in Requests, DeleteRemove(r)
    PROVE  FollowInv'
<1>1. PICK q : q = req[r]
  OBVIOUS
<1>2. PICK e : e = q.expense
  OBVIOUS
<1>3. /\ q.pc = "delete_remove" /\ WellFormed(q)
      /\ UNCHANGED <<expense, undisturbed>> /\ e \in Expenses /\ TypeOK
      /\ RemoveCopies(LinkedCopies(q)) /\ req' = [req EXCEPT ![r] = Idle] /\ req'[r] = Idle
  BY <1>1, <1>2 DEF DeleteRemove, LinkInv, TypeInv, TypeOK, WellFormed, history
<1>4. Idle.expense = None /\ Idle.pc = "idle"
  BY DEF Idle
<1>5. \A t \in TxIds : tx'[t].status = "live" => t \notin LinkedCopies(q) /\ tx'[t] = tx[t]
  BY <1>3, RemovedCopies
<1>6. ASSUME e \in undisturbed, expense[e].status \in {"live", "deleted"}
      PROVE  LeavesStanding(r, e)
  <2>1. \A n \in Members : \A u \in Copies(e, n) : q.link[n] = u
    BY <1>1, <1>2, <1>3, <1>6, Stood DEF Expected
  <2>2. ASSUME NEW n \in Members, NEW u \in Copies(e, n)' PROVE FALSE
    <3>1. u \in TxIds /\ u \in Copies(e, n) /\ u \notin LinkedCopies(q)
      BY <1>5 DEF Copies
    <3>2. QED  BY <2>1, <3>1, NoneAssumption DEF LinkedCopies, Confirmed
  <2>3. QED  BY <1>3, <1>4, <2>2, NoneAssumption DEF LeavesStanding
<1>7. /\ req[r].pc # "idle" /\ req[r].expense = e
      /\ expense' = expense /\ undisturbed' \subseteq undisturbed
  BY <1>1, <1>2, <1>3
<1>8. \A t \in TxIds : tx'[t].status = "live" =>
          /\ tx'[t].share = tx[t].share /\ tx[t].status = "live"
          /\ (\A m \in Members : tx[t].share # <<e, m>>) => tx'[t] = tx[t]
  BY <1>5
<1>9. req' = [req EXCEPT ![r] = Idle] /\ e \in Expenses
  BY <1>3
<1>10. QED  BY <1>4, <1>6, <1>7, <1>8, <1>9, CopiesFollow

\* Every step keeps it.
LEMMA FollowStep == LinkInv /\ FollowInv /\ [Next]_vars => FollowInv'
<1> SUFFICES ASSUME LinkInv, FollowInv, [Next]_vars PROVE FollowInv'
  OBVIOUS
<1>t. TypeOK /\ undisturbed \subseteq Expenses
  BY DEF LinkInv, TypeInv, TypeOK
<1>f. \A e \in Expenses : \A pc \in {"confirm_create", "update_save"} :
        /\ Fetched(e, pc) \in Request /\ Fetched(e, pc).pc = pc
        /\ Fetched(e, pc).expense = e /\ Fetched(e, pc).link = expense[e].link
        /\ Fetched(e, pc).info = expense[e].info /\ Fetched(e, pc).owed = expense[e].owed
        /\ ~Fetched(e, pc).stale
  <2>1. TAKE e \in Expenses
  <2>2. TAKE pc \in {"confirm_create", "update_save"}
  <2>3. pc \in Pcs
    BY DEF Pcs
  <2>4. QED  BY <1>t, <2>3, FetchedType
<1>1. CASE WipeGroup
  <2>1. \A e \in Expenses : expense'[e] = expense[e] \/ expense'[e].status = "wiped"
    BY <1>1 DEF WipeGroup, GoneExpense
  <2>2. \A t \in TxIds : tx'[t].status = "live" => CopyCalm(t)
    BY <1>1 DEF WipeGroup, CopyCalm
  <2>3. QED  BY <1>1, <1>t, <2>1, <2>2, OutsideFollows DEF WipeGroup, history
<1>2. CASE EditOwnTransaction \/ DeleteOwnTransaction
  <2>1. \A t \in TxIds : tx'[t].status = "live" => CopyCalm(t)
    <3>1. PICK u \in TxIds :
            /\ tx[u].status = "live"
            /\ \/ tx' = [tx EXCEPT ![u] = Overwritten(u, None, None)]
               \/ tx' = [tx EXCEPT ![u] = GoneTx(u, "deleted")]
      BY <1>2 DEF EditOwnTransaction, DeleteOwnTransaction
    <3>2. \A t \in TxIds \ {u} : tx'[t] = tx[t]
      BY <1>t, <3>1 DEF TypeOK
    <3>3. /\ Overwritten(u, None, None).share = tx[u].share
          /\ Overwritten(u, None, None).amount = None
          /\ GoneTx(u, "deleted").status = "deleted"
      BY <1>t DEF Overwritten, GoneTx, TypeOK, TxDoc
    <3>4. tx'[u].status = "live" => CopyCalm(u)
      BY <1>t, <3>1, <3>3 DEF CopyCalm, TypeOK
    <3>5. QED  BY <3>2, <3>4 DEF CopyCalm
  <2>2. UNCHANGED <<expense, req, undisturbed>>
    BY <1>2 DEF EditOwnTransaction, DeleteOwnTransaction, history
  <2>3. QED  BY <1>t, <2>1, <2>2, OutsideFollows
<1>3. ASSUME NEW r \in Requests, ConfirmRead(r) PROVE FollowInv'
  <2>1. PICK e \in Expenses, m \in Members :
          Begin(r, e, [Fetched(e, "confirm_create") EXCEPT !.member = m])
    BY <1>3 DEF ConfirmRead
  <2>2. PICK local : local = [Fetched(e, "confirm_create") EXCEPT !.member = m]
    OBVIOUS
  <2>3. /\ local.pc = "confirm_create" /\ local.expense = e /\ local.link = expense[e].link
        /\ local.info = expense[e].info /\ local.owed = expense[e].owed /\ ~local.stale
    BY <1>f, <2>1, <2>2 DEF Request
  <2>4. QED  BY <2>1, <2>2, <2>3, BeginFollows
<1>4. ASSUME NEW r \in Requests, UpdateRead(r) PROVE FollowInv'
  <2>1. PICK e \in Expenses, i \in Infos, owed \in SplitLists :
          Begin(r, e, [Fetched(e, "update_save") EXCEPT !.newInfo = i, !.newOwed = owed])
    BY <1>4 DEF UpdateRead
  <2>2. PICK local : local = [Fetched(e, "update_save") EXCEPT !.newInfo = i, !.newOwed = owed]
    OBVIOUS
  <2>3. /\ local.pc = "update_save" /\ local.expense = e /\ local.link = expense[e].link
        /\ local.info = expense[e].info /\ local.owed = expense[e].owed /\ ~local.stale
    BY <1>f, <2>1, <2>2 DEF Request
  <2>4. QED  BY <2>1, <2>2, <2>3, BeginFollows
<1>5. ASSUME NEW r \in Requests, DeleteRead(r) PROVE FollowInv'
  <2>1. PICK e \in Expenses :
          Begin(r, e, [Idle EXCEPT !.pc = "delete_doc", !.expense = e,
                                   !.link = expense[e].link])
    BY <1>5 DEF DeleteRead
  <2>2. PICK local : local = [Idle EXCEPT !.pc = "delete_doc", !.expense = e,
                                          !.link = expense[e].link]
    OBVIOUS
  <2>3. local.pc = "delete_doc" /\ local.expense = e /\ local.link = expense[e].link
    BY <2>2 DEF Idle
  <2>4. QED  BY <2>1, <2>2, <2>3, BeginFollows
<1>6. ASSUME NEW r \in Requests, Abort(r) PROVE FollowInv'
  <2>1. PICK e : e = req[r].expense
    OBVIOUS
  <2>2. /\ e \in Expenses /\ req[r].pc # "idle" /\ req' = [req EXCEPT ![r] = Idle]
        /\ UNCHANGED <<expense, tx>> /\ undisturbed' = undisturbed \ {e}
    BY <1>6, <2>1 DEF Abort, LinkInv, TypeInv, WellFormed
  <2>3. Idle.expense = None /\ Idle.pc = "idle"
    BY DEF Idle
  <2>4. QED  BY <2>1, <2>2, <2>3, CopiesFollow
<1>7. CASE UNCHANGED vars
  <2>1. \A t \in TxIds : tx'[t].status = "live" => CopyCalm(t)
    BY <1>7 DEF vars, CopyCalm
  <2>2. QED  BY <1>7, <1>t, <2>1, OutsideFollows DEF vars
<1>8. QED
  BY <1>1, <1>2, <1>3, <1>4, <1>5, <1>6, <1>7, AddFollows, CreateFollows,
     ConfirmSaveFollows, UpdateSaveFollows, SyncFollows, RemoveFollows, DeleteDocFollows,
     DeleteRemoveFollows DEF Next

\* Where requests on an expense ran one after the other, the copies left are the ones linked
\* from its splits, at their amounts, and none is left of what was deleted or dropped,
\* whatever happens to other expenses and to the owners' transactions meanwhile.
THEOREM SharesFollow == Spec => []ShareFollowsExpense
<1>1. FollowInv => ShareFollowsExpense
  <2> SUFFICES ASSUME FollowInv, NEW e \in undisturbed, InFlightOn(e) = {},
                      expense[e].status \in {"live", "deleted"},
                      NEW m \in Members, NEW t \in Copies(e, m)
               PROVE  Following(e, m, t)
    BY DEF ShareFollowsExpense, Following, Shows
  <2>1. QED  BY DEF FollowInv, FollowsAt, Standing
<1>2. QED  BY <1>1, LinkInit, LinkStep, FollowInit, FollowStep, PTL DEF Spec
============================================================================
