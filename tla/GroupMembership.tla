-------------------------- MODULE GroupMembership --------------------------
(***************************************************************************)
(* The members of one group (GroupsService,                                *)
(* src/src/modules/groups/groups.service.ts): guests join with an invite   *)
(* code, as a member the owner has listed or as a new one; the owner edits *)
(* the list; expenses name members by the name they have at the time.      *)
(*                                                                         *)
(* Every request reads the group and saves it later.  The save of a link   *)
(* asks for the version that was read and does not advance it, that of a   *)
(* new member advances it and does not ask, that of the whole list does    *)
(* both.                                                                   *)
(*                                                                         *)
(* A member stands at its position in the list: ids find the same one as   *)
(* long as the version is the same.                                        *)
(*                                                                         *)
(* Left out: the group's name and category, phones, the invite code, what  *)
(* is in an expense besides names (GroupLedger, GroupShares), messages.    *)
(***************************************************************************)
EXTENDS Naturals, Sequences, Functions

CONSTANTS
    Owner,     \* the user who created the group
    Guests,    \* other users
    Written,   \* names as a request sends them
    Names,     \* names of members: without white space around
    Trim,      \* for each name as sent, the one without white space around
    Fold,      \* for each, the one in lower case
    You,       \* the owner's name, "You"
    Listed,    \* the names given at the creation of the group, trimmed
    Edits,     \* sequences of names, as sent, the owner may put the list to
    Requests,  \* requests on the group, each used once
    None       \* "null"

Users == {Owner} \cup Guests

ASSUME GroupMembershipAssumption ==
    /\ Owner \notin Guests /\ None \notin Users
    /\ You \in Names /\ Names \subseteq Written
    /\ Trim \in [Written -> Names] /\ Fold \in [Written -> Written]
    /\ \A n \in Written, m \in Names : Fold[n] = Fold[m] => Trim[n] = n
    /\ Edits \subseteq Seq(Written) /\ Listed \in Seq(Names)

VARIABLES
    group,      \* the members of the group and their version, None when it is deleted
    expense,    \* the names in each expense, none in one that is not there
    req,        \* each request
    settled,    \* history: users whose link no later request may take away
    unchecked   \* history: names an expense got while an edit of the list was under way

vars == <<group, expense, req, settled, unchecked>>

Members == Seq([name : Names, linked : Users \cup {None}])

Request == [pc : {"idle", "check", "save", "done"},
            kind : {"none", "claim", "join", "edit", "expense", "remove"},
            user : Users \cup {None}, v : Nat, read : Members, at : Nat, names : Seq(Written)]

TypeOK ==
    /\ group \in [v : Nat, members : Members] \cup {None}
    /\ expense \in [Requests -> SUBSET Names]
    /\ req \in [Requests -> Request]
    /\ settled \subseteq Users
    /\ unchecked \subseteq Names

Idle == [pc |-> "idle", kind |-> "none", user |-> None, v |-> 0, read |-> << >>,
         at |-> 0, names |-> << >>]

Member(name, user) == [name |-> name, linked |-> user]
YouMember == Member(You, Owner)

Named(members, name) == {i \in DOMAIN members : Fold[members[i].name] = Fold[name]}
Linked(members) == {members[i].linked : i \in DOMAIN members} \ {None}

\* create: a listed "you" is the owner; without one the owner is put in front.
Created ==
    LET listed == [i \in DOMAIN Listed |->
                      Member(Listed[i], IF Fold[Listed[i]] = Fold[You] THEN Owner ELSE None)]
    IN IF Owner \in Linked(listed) THEN listed ELSE <<YouMember>> \o listed

\* A group from before owners were linked.
Legacy == [i \in DOMAIN Created |-> [Created[i] EXCEPT !.linked = None]]

Init ==
    /\ group \in {[v |-> 0, members |-> Created], [v |-> 0, members |-> Legacy]}
    /\ expense = [r \in Requests |-> {}]
    /\ req = [r \in Requests |-> Idle]
    /\ settled = Linked(group.members)
    /\ unchecked = {}

Done(r) == req' = [req EXCEPT ![r] = [Idle EXCEPT !.pc = "done"]]
Read(r, kind, user) ==
    [Idle EXCEPT !.pc = "save", !.kind = kind, !.user = user, !.v = group.v,
                 !.read = group.members]

\* Requests of a kind between their read of the group and their last call.
UnderWay(kind) == {r \in Requests : req[r].kind = kind}

----------------------------------------------------------------------------
(* joinGroup, and getMyMemberNames, which links an owner who is not yet *)

\* joinGroup as a listed member that is not taken.
ClaimRead(r) ==
    \E user \in Guests :
        /\ req[r].pc = "idle" /\ group # None
        /\ user \notin Linked(group.members)
        /\ \E i \in DOMAIN group.members :
            /\ group.members[i].linked = None
            /\ req' = [req EXCEPT ![r] = [Read(r, "claim", user) EXCEPT !.at = i]]
        /\ UNCHANGED <<group, expense, settled, unchecked>>

\* getPendingConfirmations or confirmExpenseSplit of an owner whom no member is linked to:
\* the first unlinked "you".
HealRead(r) ==
    /\ req[r].pc = "idle" /\ group # None
    /\ Owner \notin Linked(group.members)
    /\ LET free == {i \in Named(group.members, You) : group.members[i].linked = None} IN
       /\ free # {}
       /\ req' = [req EXCEPT ![r] =
             [Read(r, "claim", Owner) EXCEPT !.at = CHOOSE i \in free : \A j \in free : i <= j]]
    /\ UNCHANGED <<group, expense, settled, unchecked>>

\* The save of a link.  It settles the matter unless an edit, or another claim of the
\* member, has read the list before, or another member has the name.
LinkSave(r) ==
    LET g == req[r] IN
    /\ g.pc = "save" /\ g.kind = "claim"
    /\ IF group = None \/ group.v # g.v THEN UNCHANGED <<group, settled>>
       ELSE /\ group' = [group EXCEPT !.members[g.at].linked = g.user]
            /\ settled' = IF \/ UnderWay("edit") # {}
                             \/ \E x \in UnderWay("claim") \ {r} : req[x].at = g.at
                             \/ Named(group.members, group.members[g.at].name) # {g.at}
                          THEN settled ELSE settled \cup {g.user}
    /\ Done(r)
    /\ UNCHANGED <<expense, unchecked>>

\* joinGroup under a new name, which nothing compares with the others.
JoinRead(r) ==
    \E user \in Guests, name \in Names :
        /\ req[r].pc = "idle" /\ group # None
        /\ user \notin Linked(group.members)
        /\ req' = [req EXCEPT ![r] = [Read(r, "join", user) EXCEPT !.names = <<name>>]]
        /\ UNCHANGED <<group, expense, settled, unchecked>>

\* Two members of one name unsettle each other.
JoinSave(r) ==
    LET g == req[r]
        twins == Named(group.members, g.names[1])
    IN
    /\ g.pc = "save" /\ g.kind = "join"
    /\ IF group = None THEN UNCHANGED <<group, settled>>
       ELSE /\ group' = [v |-> group.v + 1,
                         members |-> Append(group.members, Member(g.names[1], g.user))]
            /\ settled' = IF twins = {} THEN settled \cup {g.user}
                          ELSE settled \ {group.members[i].linked : i \in twins}
    /\ Done(r)
    /\ UNCHANGED <<expense, unchecked>>

----------------------------------------------------------------------------
(* update *)

\* Mutant: a member is matched by the name as written.
EditedExact(members, names) ==
    LET list == [i \in DOMAIN names |->
                    LET same == {j \in DOMAIN members : members[j].name = names[i]} IN
                    Member(Trim[names[i]], IF same = {} THEN None
                                           ELSE members[CHOOSE j \in same : TRUE].linked)]
    IN IF Named(list, You) = {} THEN <<YouMember>> \o list ELSE list

\* The new list: a member keeps the link of the last whose name, in any case, is the one
\* sent; it is looked up as sent and stored trimmed, so one with white space around it is
\* never found.  The owner is put in front if there is no "you".
Edited(members, names) ==
    LET link(name) == IF Named(members, name) = {} THEN None
                      ELSE members[CHOOSE j \in Named(members, name) :
                                      \A k \in Named(members, name) : k <= j].linked
        list == [i \in DOMAIN names |-> Member(Trim[names[i]], link(names[i]))]
    IN IF Named(list, You) = {} THEN <<YouMember>> \o list ELSE list

EditRead(r) ==
    \E names \in Edits :
        /\ req[r].pc = "idle" /\ group # None
        /\ req' = [req EXCEPT ![r] =
              [Read(r, "edit", Owner) EXCEPT !.pc = "check", !.names = names,
                  !.read = Edited(group.members, names)]]
        /\ UNCHANGED <<group, expense, settled, unchecked>>

Keeps(members, names) == \A n \in names : Named(members, n) # {}

\* Mutant: nobody looks at the expenses.
EditCheckSkipped(r) ==
    /\ req[r].pc = "check"
    /\ req' = [req EXCEPT ![r].pc = "save"]
    /\ UNCHANGED <<group, expense, settled, unchecked>>

\* The read of the expenses: no name in them may be missing.
EditCheck(r) ==
    /\ req[r].pc = "check"
    /\ IF \A e \in Requests : Keeps(req[r].read, expense[e])
       THEN req' = [req EXCEPT ![r].pc = "save"] ELSE Done(r)
    /\ UNCHANGED <<group, expense, settled, unchecked>>

\* History: the name is sent with white space around it.
Missed(names, name) ==
    \E j \in DOMAIN names : Fold[Trim[names[j]]] = Fold[name] /\ Fold[names[j]] # Fold[name]

\* Guests whom the owner leaves out are no longer settled, nor is anyone whose name was
\* sent with white space around it.
EditSave(r) ==
    LET g == req[r] IN
    /\ g.pc = "save" /\ g.kind = "edit"
    /\ IF group = None \/ group.v # g.v THEN UNCHANGED <<group, settled, unchecked>>
       ELSE /\ group' = [v |-> group.v + 1, members |-> g.read]
            /\ settled' = {u \in settled : \A i \in DOMAIN group.members :
                   group.members[i].linked = u =>
                       /\ ~ Missed(g.names, group.members[i].name)
                       /\ \/ u = Owner
                          \/ \E j \in DOMAIN g.names :
                                Fold[g.names[j]] = Fold[group.members[i].name]}
            /\ unchecked' = unchecked \cup UNION {Range(req[x].names) : x \in UnderWay("expense")}
    /\ Done(r)
    /\ UNCHANGED expense

----------------------------------------------------------------------------
(* Expenses: addExpense, recordSettlement, updateExpense; deletion *)

Access(user) == user = Owner \/ user \in Linked(group.members)

\* The names are compared as written.
ExpenseRead(r) ==
    \E user \in Users, payer, other \in Names :
        /\ req[r].pc = "idle" /\ group # None
        /\ Access(user)
        /\ {payer, other} \subseteq {group.members[i].name : i \in DOMAIN group.members}
        /\ req' = [req EXCEPT ![r] =
              [Idle EXCEPT !.pc = "save", !.kind = "expense", !.names = <<payer, other>>]]
        /\ UNCHANGED <<group, expense, settled, unchecked>>

ExpenseSave(r) ==
    LET names == Range(req[r].names) IN
    /\ req[r].pc = "save" /\ req[r].kind = "expense"
    /\ expense' = [expense EXCEPT ![r] = names]
    /\ unchecked' = IF \E x \in UnderWay("edit") : req[x].pc = "save"
                    THEN unchecked \cup names ELSE unchecked
    /\ Done(r)
    /\ UNCHANGED <<group, settled>>

DeleteExpense ==
    \E e \in Requests :
        /\ expense[e] # {}
        /\ expense' = [expense EXCEPT ![e] = {}]
        /\ UNCHANGED <<group, req, settled, unchecked>>

\* remove, deleteAllForUser: the expenses go first, and what is added before the group
\* goes stays.
RemoveRead(r) ==
    /\ req[r].pc = "idle" /\ group # None
    /\ expense' = [e \in Requests |-> {}]
    /\ req' = [req EXCEPT ![r] = [Idle EXCEPT !.pc = "save", !.kind = "remove"]]
    /\ UNCHANGED <<group, settled, unchecked>>

RemoveGroup(r) ==
    /\ req[r].pc = "save" /\ req[r].kind = "remove"
    /\ group' = None
    /\ Done(r)
    /\ UNCHANGED <<expense, settled, unchecked>>

\* A request ends before its next call.
Fails(r) ==
    /\ req[r].pc \in {"check", "save"}
    /\ Done(r)
    /\ UNCHANGED <<group, expense, settled, unchecked>>

Next ==
    \/ \E r \in Requests :
        \/ ClaimRead(r) \/ HealRead(r) \/ LinkSave(r)
        \/ JoinRead(r) \/ JoinSave(r)
        \/ EditRead(r) \/ EditCheck(r) \/ EditSave(r)
        \/ ExpenseRead(r) \/ ExpenseSave(r)
        \/ RemoveRead(r) \/ RemoveGroup(r) \/ Fails(r)
    \/ DeleteExpense

Spec == Init /\ [][Next]_vars

----------------------------------------------------------------------------
\* A user who was linked stays linked, the owner always and a guest until the owner leaves
\* out the name, whatever else joins and edits are under way: at worst a later save fails
\* on the version.  Excepted are links that were saved while an edit or another claim of
\* the member had read the list, members who share a name, and those whose name an edit
\* sends with white space around it: it keeps the name and drops the link.
SettledStaysLinked == group # None => settled \subseteq Linked(group.members)

\* A name in an expense is that of a member, in some case: the owner cannot take a member
\* out who has part in an expense.  Excepted are expenses that were added, or about to be,
\* when an edit that had looked at the expenses was saved.
ExpenseNamesKept ==
    group # None =>
        \A e \in Requests : Keeps(group.members, expense[e] \ unchecked)

============================================================================
