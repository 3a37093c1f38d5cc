---------------------------- MODULE GroupShares ----------------------------
(***************************************************************************)
(* Shared expenses of a group and the personal copies of their shares      *)
(* (src/src/modules/groups/groups.service.ts with the calls it makes into  *)
(* transactions.service.ts).  A member confirms their share of a group     *)
(* expense; the server then creates a Transaction in the member's own      *)
(* spending and stores its id on the split (confirmedTransactionId).       *)
(* Editing or deleting the expense has to carry those copies along.        *)
(*                                                                         *)
(* A handler is a request that holds in memory the document it has read;   *)
(* every awaited database call is one step, so requests interleave between *)
(* them, and a request may be cut off at any of them (Abort).              *)
(*                                                                         *)
(* Mongoose, as this service uses it: save() sends only modified paths.  A *)
(* save that replaces the splits array is conditional on the document's    *)
(* __v and increments it; the counter is modelled by what it decides: an   *)
(* increment makes every copy of the document read before it "stale".  A   *)
(* save of scalar paths is unconditional.  Saving a document that is gone  *)
(* fails; deleteOne, updateOne and deleteMany pass over missing documents. *)
(*                                                                         *)
(* A group is reduced to its member names, each linked to one user, and a  *)
(* split list to at most one line per member.                              *)
(***************************************************************************)
EXTENDS Naturals, FiniteSets

CONSTANTS
    Members,    \* member names of the group; each is one user's own name
    Expenses,   \* ids for expense documents, never reused
    TxIds,      \* ids for transaction documents, never reused
    Requests,   \* requests that can be in flight at the same time
    Amounts,    \* split amounts
    Infos,      \* what a copy takes over besides the amount: title and date
    SplitLists, \* the split lists bodies carry: members' amounts, None if absent
    None        \* "undefined"

ASSUME NoneAssumption ==
    None \notin Members \cup Expenses \cup TxIds \cup Amounts \cup Infos
ASSUME SplitListsAssumption ==
    SplitLists \subseteq [Members -> Amounts \cup {None}]

VARIABLES
    expense,      \* the group expense collection
    tx,           \* the transaction collection
    req,          \* the in-memory state of each request
    acked,        \* history: copies whose confirmation was answered with success
    abandoned,    \* history: copies whose removal was cut off
    undisturbed   \* history: expenses whose requests ran one at a time, to the end

vars == <<expense, tx, req, acked, abandoned, undisturbed>>
history == <<acked, abandoned, undisturbed>>

Shares == Expenses \X Members

\* owed[m] is the amount of m's split (None: not in the split); link[m] its
\* confirmedTransactionId.
Owed  == [Members -> Amounts \cup {None}]
Links == [Members -> TxIds \cup {None}]

\* "wiped" is an expense that went with its group, "deleted" one deleted by itself.
ExpenseDoc == [status : {"unused", "live", "deleted", "wiped"},
               info   : Infos \cup {None},
               owed   : Owed,
               link   : Links]

\* "deleted" by its owner, "removed" with its group share.  share is a history
\* field: the document records the owner, not the share it came from.  amount and
\* info are None while they are the owner's own choice, not the group's.
TxDoc == [status : {"unused", "live", "deleted", "removed"},
          share  : Shares \cup {None},
          amount : Amounts \cup {None},
          info   : Infos \cup {None}]

Pcs == {"idle", "confirm_create", "confirm_save", "update_save", "update_sync",
        "delete_doc", "delete_remove"}

\* expense..link: the document as read; newOwed, newInfo: as edited in memory;
\* todo: members whose confirmed copy is still to be synced or removed.
Request == [pc      : Pcs,
            expense : Expenses \cup {None},
            info    : Infos \cup {None},
            owed    : Owed,
            link    : Links,
            stale   : BOOLEAN,
            member  : Members \cup {None},
            tx      : TxIds \cup {None},
            newInfo : Infos \cup {None},
            newOwed : Owed,
            todo    : SUBSET Members]

TypeOK ==
    /\ expense \in [Expenses -> ExpenseDoc]
    /\ tx \in [TxIds -> TxDoc]
    /\ req \in [Requests -> Request]
    /\ acked \subseteq TxIds
    /\ abandoned \subseteq TxIds
    /\ undisturbed \subseteq Expenses

----------------------------------------------------------------------------
NoOwed == [m \in Members |-> None]
NoLinks == [m \in Members |-> None]

Idle == [pc |-> "idle", expense |-> None, info |-> None, owed |-> NoOwed,
         link |-> NoLinks, stale |-> FALSE, member |-> None, tx |-> None,
         newInfo |-> None, newOwed |-> NoOwed, todo |-> {}]

Init ==
    /\ expense = [e \in Expenses |-> [status |-> "unused", info |-> None,
                                      owed |-> NoOwed, link |-> NoLinks]]
    /\ tx = [t \in TxIds |-> [status |-> "unused", share |-> None,
                              amount |-> None, info |-> None]]
    /\ req = [r \in Requests |-> Idle]
    /\ acked = {}
    /\ abandoned = {}
    /\ undisturbed = Expenses

Live(e) == expense[e].status = "live"

\* Documents that were deleted have no fields left.
GoneExpense(status) == [status |-> status, info |-> None,
                        owed |-> NoOwed, link |-> NoLinks]
GoneTx(t, status) == [status |-> status, share |-> tx[t].share,
                      amount |-> None, info |-> None]

\* A transaction with other values.
Overwritten(t, amount, info) == [tx[t] EXCEPT !.amount = amount, !.info = info]

\* The members whose split in a document read carries a confirmed copy.
Confirmed(links) == {m \in Members : links[m] # None}

InFlightOn(e) == {r \in Requests : req[r].expense = e}

\* What findOne gives a new request r: the document, and a place in the queue of
\* those that work on it.
Fetched(e, pc) ==
    [Idle EXCEPT !.pc = pc, !.expense = e, !.info = expense[e].info,
                 !.owed = expense[e].owed, !.link = expense[e].link]

Begin(r, e, local) ==
    /\ req[r].pc = "idle"
    /\ Live(e)
    /\ req' = [req EXCEPT ![r] = local]
    /\ undisturbed' = IF InFlightOn(e) = {} THEN undisturbed ELSE undisturbed \ {e}
    /\ UNCHANGED <<expense, tx, acked, abandoned>>

\* Where a request still has a save of its copy ahead.
VersionedPcs == {"confirm_create", "confirm_save", "update_save"}

\* Mutant: saves that do not take part in versioning.
OutdateWithoutVersion(r, e, local) == [req EXCEPT ![r] = local]

\* The other requests once r, leaving local behind, has incremented the __v of e.
Outdate(r, e, local) ==
    [q \in Requests |->
        IF q = r THEN local
        ELSE IF req[q].expense = e /\ req[q].pc \in VersionedPcs
        THEN [req[q] EXCEPT !.stale = TRUE]
        ELSE req[q]]

\* Mutant: the copies are left behind.
LeaveCopies(ids) == tx' = tx

\* deleteMany over the ids of confirmed copies.
RemoveCopies(ids) ==
    tx' = [t \in TxIds |->
              IF t \in ids /\ tx[t].status = "live"
              THEN GoneTx(t, "removed")
              ELSE tx[t]]

----------------------------------------------------------------------------
\* addExpense and recordSettlement: one insert, with splits that carry no link.
\* A settlement is an expense split on one member.
AddExpense ==
    \E e \in Expenses, i \in Infos, owed \in SplitLists :
        /\ expense[e].status = "unused"
        /\ expense' = [expense EXCEPT ![e] = [status |-> "live", info |-> i,
                                              owed |-> owed, link |-> NoLinks]]
        /\ UNCHANGED <<tx, req, history>>

\* Group removal and account deletion: deleteMany on the group's expenses; the
\* confirmed copies are left where they are.
WipeGroup ==
    /\ \E e \in Expenses : Live(e)
    /\ expense' = [e \in Expenses |-> IF Live(e)
                                      THEN GoneExpense("wiped")
                                      ELSE expense[e]]
    /\ UNCHANGED <<tx, req, history>>

\* confirmExpenseSplit up to its first write: member m has an unconfirmed split.
ConfirmRead(r) ==
    \E e \in Expenses, m \in Members :
        /\ expense[e].owed[m] # None
        /\ expense[e].link[m] = None
        /\ Begin(r, e, [Fetched(e, "confirm_create") EXCEPT !.member = m])

\* The copy is created from the document read.
ConfirmCreate(r) ==
    LET q == req[r] IN
    /\ q.pc = "confirm_create"
    /\ \E t \in TxIds :
        /\ tx[t].status = "unused"
        /\ tx' = [tx EXCEPT ![t] = [status |-> "live",
                                    share |-> <<q.expense, q.member>>,
                                    amount |-> q.owed[q.member],
                                    info |-> q.info]]
        /\ req' = [req EXCEPT ![r] = [q EXCEPT !.pc = "confirm_save", !.tx = t]]
    /\ UNCHANGED <<expense, history>>

\* Mutant: the split is marked with the member's name for an id.
ConfirmSaveName(r) ==
    LET q == req[r] IN
    /\ q.pc = "confirm_save"
    /\ Live(q.expense)
    /\ expense' = [expense EXCEPT ![q.expense].link[q.member] = q.member]
    /\ req' = [req EXCEPT ![r] = Idle]
    /\ acked' = acked \cup {q.tx}
    /\ UNCHANGED <<tx, abandoned, undisturbed>>

\* The document with the splits read, and the link in the member's.
Marked(q) ==
    [expense[q.expense] EXCEPT !.owed = q.owed,
                               !.link = [q.link EXCEPT ![q.member] = q.tx]]

\* The splits are replaced by those read plus the link; on a version conflict or a
\* missing document the save throws and the copy stays.
ConfirmSave(r) ==
    LET q == req[r] IN
    /\ q.pc = "confirm_save"
    /\ \/ /\ Live(q.expense)
          /\ ~q.stale
          /\ expense' = [expense EXCEPT ![q.expense] = Marked(q)]
          /\ req' = Outdate(r, q.expense, Idle)
          /\ acked' = acked \cup {q.tx}
       \/ /\ ~Live(q.expense) \/ q.stale
          /\ req' = [req EXCEPT ![r] = Idle]
          /\ UNCHANGED <<expense, acked>>
    /\ UNCHANGED <<tx, abandoned, undisturbed>>

\* updateExpense up to its save: the body may carry another title or date and
\* other splits; absent fields keep what was read.
UpdateRead(r) ==
    \E e \in Expenses, i \in Infos, owed \in SplitLists :
        Begin(r, e, [Fetched(e, "update_save") EXCEPT !.newInfo = i, !.newOwed = owed])

\* Mutant: only members whose amount is the same keep the link.
KeptLinksSameAmount(q) ==
    [m \in Members |-> IF q.newOwed[m] = q.owed[m] THEN q.link[m] ELSE None]

\* A member who stays in the split keeps the link that was read.
KeptLinks(q) ==
    [m \in Members |-> IF q.newOwed[m] # None THEN q.link[m] ELSE None]

\* Splits equal to those read are not a modified path; equal amounts may still
\* come with other share weights, which are left out here.
Replacing(q) == {q.newOwed # q.owed, TRUE}

\* The document once the modified paths are written.
Written(q, replaced) ==
    LET doc == expense[q.expense] IN
    [doc EXCEPT !.info = IF q.newInfo # q.info THEN q.newInfo ELSE doc.info,
                !.owed = IF replaced THEN q.newOwed ELSE doc.owed,
                !.link = IF replaced THEN KeptLinks(q) ELSE doc.link]

\* The copies confirmed when the document was read are to be synced next.
Syncing(q) ==
    IF Confirmed(q.link) = {}
    THEN Idle
    ELSE [Idle EXCEPT !.pc = "update_sync", !.expense = q.expense,
                      !.link = q.link, !.todo = Confirmed(q.link),
                      !.newOwed = q.newOwed, !.newInfo = q.newInfo]

UpdateSave(r) ==
    LET q == req[r] IN
    /\ q.pc = "update_save"
    /\ \E replaced \in Replacing(q) :
        \/ /\ Live(q.expense)
           /\ replaced => ~q.stale
           /\ expense' = [expense EXCEPT ![q.expense] = Written(q, replaced)]
           /\ req' = IF replaced
                     THEN Outdate(r, q.expense, Syncing(q))
                     ELSE [req EXCEPT ![r] = Syncing(q)]
        \/ /\ ~Live(q.expense) \/ (replaced /\ q.stale)
           /\ req' = [req EXCEPT ![r] = Idle]
           /\ UNCHANGED expense
    /\ UNCHANGED <<tx, history>>

\* One turn of the loop over the confirmed copies: syncGroupShare.
UpdateSync(r) ==
    LET q == req[r] IN
    /\ q.pc = "update_sync"
    /\ \E m \in q.todo :
        LET t == q.link[m]
        IN
        /\ q.newOwed[m] # None
        /\ req' = [req EXCEPT ![r] = [q EXCEPT !.todo = @ \ {m}]]
        /\ tx' = IF tx[t].status = "live"
                 THEN [tx EXCEPT ![t] = Overwritten(t, q.newOwed[m], q.newInfo)]
                 ELSE tx
    /\ UNCHANGED <<expense, history>>

\* The copies linked from the document a request has read.
LinkedCopies(q) == {q.link[m] : m \in Confirmed(q.link)}

\* Mutant: all copies are taken for dropped ones.
DroppedAll(q) == LinkedCopies(q)

\* The copies of members who left the split.
Dropped(q) == {q.link[m] : m \in {n \in q.todo : q.newOwed[n] = None}}

\* The end of updateExpense: the dropped copies are removed.
UpdateRemove(r) ==
    LET q == req[r] IN
    /\ q.pc = "update_sync"
    /\ \A m \in q.todo : q.newOwed[m] = None
    /\ RemoveCopies(Dropped(q))
    /\ req' = [req EXCEPT ![r] = Idle]
    /\ UNCHANGED <<expense, history>>

\* deleteExpense: read, delete whatever is there by now, remove the copies read.
DeleteRead(r) ==
    \E e \in Expenses :
        Begin(r, e, [Idle EXCEPT !.pc = "delete_doc", !.expense = e,
                                 !.link = expense[e].link])

DeleteDoc(r) ==
    LET q == req[r] IN
    /\ q.pc = "delete_doc"
    /\ expense' = IF Live(q.expense)
                  THEN [expense EXCEPT ![q.expense] = GoneExpense("deleted")]
                  ELSE expense
    /\ req' = [req EXCEPT ![r] = [q EXCEPT !.pc = "delete_remove"]]
    /\ UNCHANGED <<tx, history>>

DeleteRemove(r) ==
    LET q == req[r] IN
    /\ q.pc = "delete_remove"
    /\ RemoveCopies(LinkedCopies(q))
    /\ req' = [req EXCEPT ![r] = Idle]
    /\ UNCHANGED <<expense, history>>

\* The copies a request has still to remove.
PendingRemoval(q) ==
    IF q.pc = "update_sync" THEN Dropped(q)
    ELSE IF q.pc = "delete_remove" THEN LinkedCopies(q)
    ELSE {}

\* A database call throws, or the serverless instance is stopped, at an await.
Abort(r) ==
    LET q == req[r] IN
    /\ q.pc # "idle"
    /\ req' = [req EXCEPT ![r] = Idle]
    /\ abandoned' = abandoned \cup PendingRemoval(q)
    /\ undisturbed' = undisturbed \ {q.expense}
    /\ UNCHANGED <<expense, tx, acked>>

\* The owner edits or deletes a copy like any other transaction of theirs.
EditOwnTransaction ==
    \E t \in TxIds :
        /\ tx[t].status = "live"
        /\ tx' = [tx EXCEPT ![t] = Overwritten(t, None, None)]
        /\ UNCHANGED <<expense, req, history>>

DeleteOwnTransaction ==
    \E t \in TxIds :
        /\ tx[t].status = "live"
        /\ tx' = [tx EXCEPT ![t] = GoneTx(t, "deleted")]
        /\ UNCHANGED <<expense, req, history>>

Next ==
    \/ AddExpense
    \/ WipeGroup
    \/ EditOwnTransaction
    \/ DeleteOwnTransaction
    \/ \E r \in Requests :
        \/ ConfirmRead(r) \/ ConfirmCreate(r) \/ ConfirmSave(r)
        \/ UpdateRead(r) \/ UpdateSave(r) \/ UpdateSync(r) \/ UpdateRemove(r)
        \/ DeleteRead(r) \/ DeleteDoc(r) \/ DeleteRemove(r)
        \/ Abort(r)

Spec == Init /\ [][Next]_vars

----------------------------------------------------------------------------
Copies(e, m) == {t \in TxIds : tx[t].share = <<e, m>> /\ tx[t].status = "live"}

\* A link stored on a split is to the copy made from that very share, by a
\* confirmation that was answered with success, and the server has not removed
\* the copy: whatever edits, deletions and confirmations overlapped, a share
\* shown as settled never points to another share's transaction or to one taken
\* away with a share (confirmExpenseSplit, updateExpense, removeGroupShares).
LinkIsOwnCopy ==
    \A e \in Expenses, m \in Members :
        LET t == expense[e].link[m] IN
        Live(e) /\ t # None =>
            /\ expense[e].owed[m] # None
            /\ t \in acked
            /\ tx[t].share = <<e, m>>
            /\ tx[t].status \in {"live", "deleted"}

\* A confirmed split stays confirmed, by the same transaction, as long as the
\* expense exists and the member is in its split, so getPendingConfirmations
\* never offers it again; in particular an edit prepared from a copy of the
\* expense read before the confirmation does not take the link away.
LinkKept ==
    \A e \in Expenses, m \in Members :
        /\ Live(e) /\ expense[e].link[m] # None
        /\ Live(e)' /\ expense'[e].owed[m] # None
        => expense'[e].link[m] = expense[e].link[m]

LinkStable == [][LinkKept]_vars

\* While the expense exists, no confirmed copy is forgotten: it is linked from its
\* split, or a request that dropped the member is about to remove it, or such a
\* request was cut off.
AckedCopyTracked ==
    \A t \in acked :
        LET e == tx[t].share[1]
            m == tx[t].share[2]
        IN  tx[t].status = "live" /\ Live(e) =>
                \/ expense[e].link[m] = t
                \/ \E r \in Requests : t \in PendingRemoval(req[r])
                \/ t \in abandoned

\* Where the requests on an expense ran one after the other and none was cut off,
\* the copies follow it: between requests every copy left is the one linked from
\* its split, none is left of a deleted expense or of a member who left the split,
\* and it shows the split's amount and the expense's title and date unless its
\* owner changed it.
ShareFollowsExpense ==
    \A e \in undisturbed :
        InFlightOn(e) = {} /\ expense[e].status \in {"live", "deleted"} =>
            \A m \in Members : \A t \in Copies(e, m) :
                /\ Live(e)
                /\ expense[e].link[m] = t
                /\ tx[t].amount # None =>
                       /\ tx[t].amount = expense[e].owed[m]
                       /\ tx[t].info = expense[e].info

\* What confirmExpenseSplit's comment promises of the link it stores: a share is
\* never counted twice in its owner's spending.
NeverDoubleCounted ==
    \A e \in Expenses, m \in Members : Cardinality(Copies(e, m)) <= 1
============================================================================
