------------------------ MODULE GroupMembershipProofs ------------------------
(***************************************************************************)
(* Proofs about GroupMembership, for any users, names, edits and requests, *)
(* and whatever the names are trimmed and folded to.                       *)
(***************************************************************************)
EXTENDS GroupMembership, SequenceTheorems, WellFoundedInduction, TLAPS

(***************************************************************************)
(* The types, and what a request holds: the version it has read is not     *)
(* ahead, and while it is the group's the member it claims is there, for   *)
(* the owner one named "you".                                              *)
(***************************************************************************)
WellFormed(q) ==
    /\ q \in Request
    /\ q.pc \in {"idle", "done"} <=> q.kind = "none"
    /\ q.pc = "check" => q.kind = "edit"
    /\ q.kind \in {"claim", "join"} => q.user \in Users
    /\ q.kind = "join" => q.user \in Guests /\ q.names # << >>
    /\ q.kind \in {"join", "expense"} => q.names \in Seq(Names)

Current(q, kind) == q.kind = kind /\ q.v = group.v

Yours(name) == Fold[name] = Fold[You]

Abreast(q) ==
    /\ q.kind \in {"claim", "edit"} => q.v <= group.v
    /\ Current(q, "claim") =>
          /\ q.at \in DOMAIN group.members
          /\ q.user = Owner => Yours(group.members[q.at].name)

TypeInv ==
    /\ TypeOK
    /\ \A r \in Requests : WellFormed(req[r])
    /\ group # None => \A r \in Requests : Abreast(req[r])

(***************************************************************************)
(* The names in expenses, in those under way as well, and in what an edit  *)
(* that has looked at the expenses is about to save.                       *)
(***************************************************************************)
ExpenseInv ==
    group # None =>
        /\ \A e \in Requests : Keeps(group.members, expense[e] \ unchecked)
        /\ \A r \in UnderWay("expense") :
              Keeps(group.members, Range(req[r].names) \ unchecked)
        /\ \A r \in Requests :
              Current(req[r], "edit") /\ req[r].pc = "save" =>
                  \A e \in Requests : Keeps(req[r].read, expense[e] \ unchecked)

(***************************************************************************)
(* The links.  A settled user holds a name: all members of that name are   *)
(* linked to the user, and no claim that can still be saved is on any of   *)
(* them.  An edit that can still be saved was made of a list in which this *)
(* was so.                                                                 *)
(***************************************************************************)
Claimed(i) == \E r \in Requests : Current(req[r], "claim") /\ req[r].at = i

HoldsAt(u, list, k) ==
    /\ u = Owner => Yours(group.members[k].name)
    /\ \A i \in Named(group.members, group.members[k].name) :
          /\ ~Claimed(i)
          /\ group.members[i].linked = u
          /\ list[i].linked = u

Holds(u, list) == \E k \in DOMAIN group.members : HoldsAt(u, list, k)

SameNames(list) ==
    /\ list \in Members
    /\ DOMAIN list = DOMAIN group.members
    /\ \A i \in DOMAIN list : list[i].name = group.members[i].name

LinkInv ==
    group # None =>
        /\ \A u \in settled : Holds(u, group.members)
        /\ \A r \in Requests :
              Current(req[r], "edit") =>
                  \E list \in Members :
                      /\ SameNames(list)
                      /\ req[r].read = Edited(list, req[r].names)
                      /\ \A u \in settled : Holds(u, list)

----------------------------------------------------------------------------
\* The last of some places in a list.
LEMMA LastOf ==
    ASSUME NEW n \in Nat, NEW S, S \subseteq 1..n, S # {}
    PROVE  /\ \E j \in S : \A k \in S : k <= j
           /\ (CHOOSE j \in S : \A k \in S : k <= j) \in S
<1>. DEFINE R == {ss \in Nat \X Nat : ss[1] < ss[2]}
            T == {n - j : j \in S}
<1>1. IsWellFoundedOn(R, Nat)
    BY NatLessThanWellFounded DEF OpToRel
<1>2. T \subseteq Nat /\ T # {}
    <2>1. \A j \in S : n - j \in Nat
        OBVIOUS
    <2>2. PICK j \in S : TRUE
        OBVIOUS
    <2>. QED  BY <2>1, <2>2
<1>. HIDE DEF R
<1>3. PICK p \in T : \A q \in T : <<q, p>> \notin R
    BY <1>1, <1>2, WFMin
<1>4. PICK j \in S : p = n - j
    BY <1>3
<1>5. \A k \in S : k <= j
    <2>. TAKE k \in S
    <2>1. n - k \in T /\ n - k \in Nat /\ p \in Nat
        BY <1>2, <1>3
    <2>2. ~(n - k < p)
        BY <1>3, <2>1 DEF R
    <2>. QED  BY <1>4, <2>1, <2>2
<1>. QED  BY <1>5

\* The first of them.
LEMMA FirstOf ==
    ASSUME NEW S, S \subseteq Nat, S # {}
    PROVE  (CHOOSE i \in S : \A j \in S : i <= j) \in S
<1>. DEFINE R == {ss \in Nat \X Nat : ss[1] < ss[2]}
<1>1. IsWellFoundedOn(R, Nat)
    BY NatLessThanWellFounded DEF OpToRel
<1>. HIDE DEF R
<1>2. PICK p \in S : \A q \in S : <<q, p>> \notin R
    BY <1>1, WFMin
<1>3. \A q \in S : ~(q < p)
    BY <1>2 DEF R
<1>4. \A q \in S : p <= q
    BY <1>3
<1>. QED  BY <1>4

MemberType == [name : Names, linked : Users \cup {None}]

\* A list of members has a name and a link at each place.
LEMMA MembersType ==
    ASSUME NEW list \in Members
    PROVE  /\ Len(list) \in Nat /\ DOMAIN list = 1..Len(list)
           /\ \A i \in DOMAIN list : /\ list[i] \in MemberType
                                    /\ list[i].name \in Names
                                    /\ list[i].linked \in Users \cup {None}
           /\ \A name : Named(list, name) \subseteq 1..Len(list)
<1>1. list \in Seq(MemberType)
    BY DEF Members, MemberType
<1>2. /\ Len(list) \in Nat /\ DOMAIN list = 1..Len(list)
      /\ \A i \in DOMAIN list : list[i] \in MemberType
    BY <1>1
<1>. QED  BY <1>2 DEF MemberType, Named

\* The link an edited name gets, and the list before the owner is put in front.
LinkOf(list, name) ==
    IF Named(list, name) = {} THEN None
    ELSE list[CHOOSE j \in Named(list, name) : \A k \in Named(list, name) : k <= j].linked

Relinked(list, names) ==
    [i \in DOMAIN names |-> Member(Trim[names[i]], LinkOf(list, names[i]))]

\* An edited list is the relinked one, behind "you" when it lacks it.
LEMMA EditedIs ==
    ASSUME NEW list, NEW names
    PROVE  Edited(list, names) = IF Named(Relinked(list, names), You) = {}
                                 THEN <<YouMember>> \o Relinked(list, names)
                                 ELSE Relinked(list, names)
BY DEF Edited, Relinked, LinkOf

\* The link is one of the members of that name.
LEMMA LinkOfType ==
    ASSUME NEW list \in Members, NEW name
    PROVE  /\ LinkOf(list, name) \in Users \cup {None}
           /\ Named(list, name) # {} =>
                 \E i \in Named(list, name) : LinkOf(list, name) = list[i].linked
<1>1. CASE Named(list, name) = {}
    BY <1>1 DEF LinkOf
<1>2. CASE Named(list, name) # {}
    <2>. DEFINE i == CHOOSE j \in Named(list, name) : \A k \in Named(list, name) : k <= j
    <2>1. i \in Named(list, name)
        BY <1>2, MembersType, LastOf
    <2>2. LinkOf(list, name) = list[i].linked
        BY <1>2 DEF LinkOf
    <2>3. i \in DOMAIN list
        BY <2>1 DEF Named
    <2>. HIDE DEF i
    <2>. QED  BY <2>1, <2>2, <2>3, MembersType
<1>. QED  BY <1>1, <1>2

\* The relinked list has a member for every name asked for.
LEMMA RelinkedType ==
    ASSUME NEW list \in Members, NEW names \in Seq(Written)
    PROVE  /\ Relinked(list, names) \in Members
           /\ Len(Relinked(list, names)) = Len(names)
           /\ DOMAIN Relinked(list, names) = 1..Len(names)
           /\ DOMAIN names = 1..Len(names)
           /\ \A i \in 1..Len(names) :
                 /\ Relinked(list, names)[i].name = Trim[names[i]]
                 /\ Relinked(list, names)[i].linked = LinkOf(list, names[i])
<1>1. /\ Len(names) \in Nat /\ DOMAIN names = 1..Len(names)
      /\ \A i \in 1..Len(names) : names[i] \in Written /\ Trim[names[i]] \in Names
    BY GroupMembershipAssumption
<1>. DEFINE new == Relinked(list, names)
<1>2. new = [i \in 1..Len(names) |-> Member(Trim[names[i]], LinkOf(list, names[i]))]
    BY <1>1 DEF Relinked
<1>3. \A i \in 1..Len(names) : Member(Trim[names[i]], LinkOf(list, names[i])) \in MemberType
    BY <1>1, LinkOfType DEF Member, MemberType
<1>. HIDE DEF new
<1>4. new \in Seq(MemberType) /\ Len(new) = Len(names)
    BY <1>1, <1>2, <1>3
<1>. QED  BY <1>1, <1>2, <1>4 DEF new, Members, MemberType, Member

\* Every place of an edited list is one of the names or the owner put in front, when no
\* name is "you"; every name has a place.
LEMMA EditedPlaces ==
    ASSUME NEW list \in Members, NEW names \in Seq(Written)
    PROVE  /\ Edited(list, names) \in Members
           /\ \A i \in DOMAIN Edited(list, names) :
                 LET m == Edited(list, names)[i] IN
                 \/ \E j \in DOMAIN names : /\ m.name = Trim[names[j]]
                                            /\ m.linked = LinkOf(list, names[j])
                 \/ /\ m.name = You /\ m.linked = Owner
                    /\ \A j \in DOMAIN names : ~Yours(Trim[names[j]])
           /\ \A j \in DOMAIN names : \E i \in DOMAIN Edited(list, names) :
                 Edited(list, names)[i].name = Trim[names[j]]
           /\ \E i \in DOMAIN Edited(list, names) : Yours(Edited(list, names)[i].name)
<1>. DEFINE new == Relinked(list, names)
            all == Edited(list, names)
<1>1. /\ new \in Members
      /\ DOMAIN new = 1..Len(names) /\ DOMAIN names = 1..Len(names)
      /\ Len(new) = Len(names) /\ Len(names) \in Nat
      /\ \A i \in 1..Len(names) : /\ new[i].name = Trim[names[i]]
                                  /\ new[i].linked = LinkOf(list, names[i])
    BY RelinkedType
<1>. HIDE DEF new
<1>2. CASE Named(new, You) # {}
    <2>1. all = new
        BY <1>2, EditedIs DEF new
    <2>2. \E i \in DOMAIN new : Yours(new[i].name)
        BY <1>2 DEF Named, Yours
    <2>. QED  BY <1>1, <2>1, <2>2
<1>3. CASE Named(new, You) = {}
    <2>1. all = <<YouMember>> \o new
        BY <1>3, EditedIs DEF new
    <2>2. YouMember \in MemberType /\ YouMember.name = You /\ YouMember.linked = Owner
        BY GroupMembershipAssumption DEF YouMember, Member, MemberType, Users
    <2>3. <<YouMember>> \in Seq(MemberType) /\ new \in Seq(MemberType)
        BY <1>1, <2>2 DEF Members, MemberType
    <2>4. /\ all \in Seq(MemberType)
          /\ Len(all) = 1 + Len(names)
          /\ \A i \in 1..1 + Len(names) : all[i] = IF i <= 1 THEN YouMember ELSE new[i - 1]
        BY <1>1, <2>1, <2>3, ConcatProperties
    <2>. HIDE DEF all
    <2>5. DOMAIN all = 1..1 + Len(names)
        BY <2>4
    <2>6. \A j \in DOMAIN names : ~Yours(Trim[names[j]])
        BY <1>1, <1>3 DEF Named, Yours
    <2>7. \A i \in DOMAIN all :
             \/ \E j \in DOMAIN names : /\ all[i].name = Trim[names[j]]
                                        /\ all[i].linked = LinkOf(list, names[j])
             \/ all[i].name = You /\ all[i].linked = Owner
        <3>. TAKE i \in DOMAIN all
        <3>1. CASE i = 1
            BY <2>2, <2>4, <3>1
        <3>2. CASE i # 1
            <4>1. i - 1 \in 1..Len(names) /\ all[i] = new[i - 1]
                BY <1>1, <2>4, <2>5, <3>2
            <4>. QED  BY <1>1, <4>1
        <3>. QED  BY <3>1, <3>2
    <2>8. \A j \in DOMAIN names : \E i \in DOMAIN all : all[i].name = Trim[names[j]]
        <3>. TAKE j \in DOMAIN names
        <3>1. j + 1 \in DOMAIN all /\ all[j + 1] = new[j]
            BY <1>1, <2>4, <2>5
        <3>. QED  BY <1>1, <3>1
    <2>9. \E i \in DOMAIN all : Yours(all[i].name)
        <3>1. 1 \in DOMAIN all /\ all[1] = YouMember
            BY <1>1, <2>4, <2>5
        <3>. QED  BY <2>2, <3>1 DEF Yours
    <2>10. all \in Members
        BY <2>4 DEF Members, MemberType
    <2>. QED  BY <2>6, <2>7, <2>8, <2>9, <2>10 DEF all
<1>. QED  BY <1>2, <1>3

\* A name all members of which, in any case, are linked to a user.
Taken(list, n, u) ==
    \E k \in DOMAIN list :
       /\ Fold[list[k].name] = Fold[n]
       /\ \A i \in Named(list, list[k].name) : list[i].linked = u

\* An edit that sends the name, and never with white space around it, leaves it so.
LEMMA EditedHolds ==
    ASSUME NEW list \in Members, NEW names \in Seq(Written), NEW u, NEW n \in Names,
           Taken(list, n, u), ~ Missed(names, n),
           \E j \in DOMAIN names : Fold[names[j]] = Fold[n]
    PROVE  Taken(Edited(list, names), n, u)
<1>0. /\ Named(list, n) # {}
      /\ \A i \in Named(list, n) : list[i].linked = u
    BY DEF Taken, Named
<1>. PICK j \in DOMAIN names : Fold[names[j]] = Fold[n]
    OBVIOUS
<1>. DEFINE all == Edited(list, names)
<1>1. \A x \in DOMAIN names : Fold[Trim[names[x]]] = Fold[n] => LinkOf(list, names[x]) = u
    <2>. SUFFICES ASSUME NEW x \in DOMAIN names, Fold[names[x]] = Fold[n]
                  PROVE  LinkOf(list, names[x]) = u
        BY DEF Missed
    <2>1. Named(list, names[x]) = Named(list, n)
        BY DEF Named
    <2>. QED  BY <1>0, <2>1, LinkOfType
<1>2. /\ \A i \in DOMAIN all :
            \/ \E x \in DOMAIN names : /\ all[i].name = Trim[names[x]]
                                       /\ all[i].linked = LinkOf(list, names[x])
            \/ /\ all[i].name = You /\ all[i].linked = Owner
               /\ \A x \in DOMAIN names : ~Yours(Trim[names[x]])
      /\ \E i \in DOMAIN all : all[i].name = Trim[names[j]]
    BY EditedPlaces
<1>. HIDE DEF all
<1>3. PICK k \in DOMAIN all : all[k].name = names[j]
    <2>1. names[j] \in Written
        OBVIOUS
    <2>2. Trim[names[j]] = names[j]
        BY <2>1, GroupMembershipAssumption
    <2>. QED  BY <1>2, <2>2
<1>4. \A i \in Named(all, all[k].name) : all[i].linked = u
    <2>. TAKE i \in Named(all, all[k].name)
    <2>1. i \in DOMAIN all /\ Fold[all[i].name] = Fold[n]
        BY <1>3 DEF Named
    <2>2. Trim[names[j]] = names[j]
        BY GroupMembershipAssumption
    <2>. QED  BY <1>1, <1>2, <2>1, <2>2 DEF Yours
<1>. QED  BY <1>3, <1>4 DEF all, Taken

\* The list a group is created with: the owner is the members named "you", and one is.
LEMMA CreatedType ==
    /\ Created \in Members
    /\ \A i \in DOMAIN Created :
          /\ Created[i].linked \in {Owner, None}
          /\ Yours(Created[i].name) => Created[i].linked = Owner
          /\ Created[i].linked = Owner => Yours(Created[i].name)
    /\ \E i \in DOMAIN Created : Created[i].linked = Owner
<1>. DEFINE mine(i) == IF Fold[Listed[i]] = Fold[You] THEN Owner ELSE None
            listed == [i \in DOMAIN Listed |-> Member(Listed[i], mine(i))]
<1>0. None # Owner /\ You \in Names
    BY GroupMembershipAssumption DEF Users
<1>1. /\ Len(Listed) \in Nat /\ DOMAIN Listed = 1..Len(Listed)
      /\ \A i \in 1..Len(Listed) : Listed[i] \in Names
    BY GroupMembershipAssumption
<1>2. /\ listed \in Seq(MemberType) /\ Len(listed) = Len(Listed)
      /\ DOMAIN listed = 1..Len(Listed)
    <2>1. \A i \in 1..Len(Listed) : Member(Listed[i], mine(i)) \in MemberType
        BY <1>1 DEF Member, MemberType, Users
    <2>2. listed = [i \in 1..Len(Listed) |-> Member(Listed[i], mine(i))]
        BY <1>1
    <2>. HIDE DEF listed, mine
    <2>. QED  BY <1>1, <2>1, <2>2
<1>3. \A i \in DOMAIN listed :
         /\ listed[i].linked \in {Owner, None}
         /\ Yours(listed[i].name) => listed[i].linked = Owner
         /\ listed[i].linked = Owner => Yours(listed[i].name)
    BY <1>0 DEF Member, Yours
<1>4. Created = IF Owner \in Linked(listed) THEN listed ELSE <<YouMember>> \o listed
    BY DEF Created
<1>. HIDE DEF listed
<1>5. CASE Owner \in Linked(listed)
    <2>1. \E i \in DOMAIN listed : listed[i].linked = Owner
        BY <1>5 DEF Linked
    <2>. QED  BY <1>2, <1>3, <1>4, <1>5, <2>1 DEF Members, MemberType
<1>6. CASE Owner \notin Linked(listed)
    <2>. DEFINE all == <<YouMember>> \o listed
    <2>1. /\ YouMember \in MemberType /\ YouMember.linked = Owner /\ Yours(YouMember.name)
        BY <1>0 DEF YouMember, Member, MemberType, Users, Yours
    <2>2. /\ all \in Seq(MemberType) /\ Len(all) = 1 + Len(Listed)
          /\ \A i \in 1..1 + Len(Listed) : all[i] = IF i <= 1 THEN YouMember ELSE listed[i - 1]
        <3>1. <<YouMember>> \in Seq(MemberType) /\ Len(<<YouMember>>) = 1
            BY <2>1
        <3>. QED  BY <1>1, <1>2, <3>1, ConcatProperties
    <2>. HIDE DEF all
    <2>3. DOMAIN all = 1..1 + Len(Listed) /\ 1 \in DOMAIN all /\ all[1] = YouMember
        BY <1>1, <2>2
    <2>4. \A i \in DOMAIN all : all[i] = YouMember \/ (i - 1 \in DOMAIN listed /\ all[i] = listed[i - 1])
        BY <1>1, <1>2, <2>2, <2>3
    <2>5. Created = all
        BY <1>4, <1>6 DEF all
    <2>. QED  BY <1>0, <1>3, <2>1, <2>2, <2>3, <2>4, <2>5 DEF Members, MemberType
<1>. QED  BY <1>5, <1>6

----------------------------------------------------------------------------
(* Type correctness *)

\* A list of stored names is also one a request may send.
LEMMA NamesWritten ==
    /\ << >> \in Seq(Written) /\ << >> \in Seq(Names)
    /\ \A n \in Names : <<n>> \in Seq(Written)
    /\ \A n \in Names, m \in Names : <<n, m>> \in Seq(Written)
<1>1. Names \subseteq Written
    BY GroupMembershipAssumption
<1>. QED  BY <1>1

\* A request that has not begun or is over is well formed and of no kind.
LEMMA DoneType ==
    /\ WellFormed(Idle) /\ Idle.kind = "none"
    /\ WellFormed([Idle EXCEPT !.pc = "done"])
    /\ [Idle EXCEPT !.pc = "done"].kind = "none"
    /\ [Idle EXCEPT !.pc = "done"].pc = "done"
<1>1. << >> \in Members
    BY DEF Members
<1>. QED  BY <1>1, NamesWritten DEF Idle, WellFormed, Request

\* The types hold at the start.
LEMMA InitType == Init => TypeInv
<1>. SUFFICES ASSUME Init PROVE TypeInv
    OBVIOUS
<1>1. Legacy \in Members
    <2>1. /\ Len(Created) \in Nat /\ DOMAIN Created = 1..Len(Created)
          /\ \A i \in 1..Len(Created) : [Created[i] EXCEPT !.linked = None] \in MemberType
        BY CreatedType, MembersType DEF MemberType
    <2>2. Legacy = [i \in 1..Len(Created) |-> [Created[i] EXCEPT !.linked = None]]
        BY <2>1 DEF Legacy
    <2>3. Legacy \in Seq(MemberType)
        BY <2>1, <2>2
    <2>. QED  BY <2>3 DEF Members, MemberType
<1>2. group \in [v : Nat, members : Members]
    BY <1>1, CreatedType DEF Init
<1>3. settled \subseteq Users
    <2>1. \A i \in DOMAIN group.members : group.members[i].linked \in Users \cup {None}
        BY <1>2, MembersType
    <2>. QED  BY <2>1 DEF Init, Linked
<1>4. \A r \in Requests : req[r] = Idle
    BY DEF Init
<1>5. TypeOK
    BY <1>2, <1>3, <1>4, DoneType DEF Init, TypeOK, WellFormed
<1>6. \A r \in Requests : Abreast(req[r])
    BY <1>4, DoneType DEF Abreast, Current
<1>. QED  BY <1>4, <1>5, <1>6, DoneType DEF TypeInv

\* A step of one request leaves the others alone.
LEMMA OneRequest ==
    ASSUME TypeInv, NEW r \in Requests, NEW q, WellFormed(q),
           req' = [req EXCEPT ![r] = q]
    PROVE  /\ req' \in [Requests -> Request]
           /\ \A s \in Requests : WellFormed(req[s])'
           /\ req'[r] = q
           /\ \A s \in Requests \ {r} : req'[s] = req[s]
<1>1. /\ req \in [Requests -> Request]
      /\ q \in Request
      /\ \A s \in Requests : WellFormed(req[s])
    BY DEF TypeInv, TypeOK, WellFormed
<1>2. \A s \in Requests : req'[s] = IF s = r THEN q ELSE req[s]
    BY <1>1
<1>. QED  BY <1>1, <1>2 DEF WellFormed

\* The types of a step that leaves the group as it is.
LEMMA SameGroup ==
    ASSUME TypeInv, NEW r \in Requests, NEW q, WellFormed(q),
           group # None => Abreast(q),
           req' = [req EXCEPT ![r] = q],
           group' = group,
           expense' \in [Requests -> SUBSET Names],
           settled' \subseteq Users, unchecked' \subseteq Names
    PROVE  TypeInv'
<1>1. /\ req' \in [Requests -> Request]
      /\ \A s \in Requests : WellFormed(req[s])'
      /\ req'[r] = q
      /\ \A s \in Requests \ {r} : req'[s] = req[s]
    BY OneRequest
<1>2. TypeOK'
    BY <1>1 DEF TypeInv, TypeOK
<1>3. group' # None => \A s \in Requests : Abreast(req[s])'
    BY <1>1 DEF TypeInv, Abreast, Current
<1>. QED  BY <1>1, <1>2, <1>3 DEF TypeInv

\* The types of a save of the group by a request that is then over.
LEMMA SavedGroup ==
    ASSUME TypeInv, NEW r \in Requests, Done(r), group # None,
           group' \in [v : Nat, members : Members],
           \/ group'.v > group.v
           \/ /\ group'.v = group.v
              /\ DOMAIN group'.members = DOMAIN group.members
              /\ \A i \in DOMAIN group.members : group'.members[i].name = group.members[i].name,
           expense' \in [Requests -> SUBSET Names],
           settled' \subseteq Users, unchecked' \subseteq Names
    PROVE  TypeInv'
<1>1. /\ req' \in [Requests -> Request]
      /\ \A s \in Requests : WellFormed(req[s])'
      /\ req'[r].kind = "none"
      /\ \A s \in Requests \ {r} : req'[s] = req[s]
    BY DoneType, OneRequest DEF Done
<1>2. TypeOK'
    BY <1>1 DEF TypeInv, TypeOK
<1>3. group \in [v : Nat, members : Members]
    BY DEF TypeInv, TypeOK
<1>4. \A s \in Requests : Abreast(req[s])'
    <2>. TAKE s \in Requests
    <2>1. CASE s = r
        BY <1>1, <2>1 DEF Abreast, Current
    <2>2. CASE s # r
        <3>1. req'[s] = req[s] /\ req[s].v \in Nat /\ Abreast(req[s])
            BY <1>1, <2>2 DEF TypeInv, TypeOK, Request
        <3>2. CASE group'.v > group.v
            BY <1>2, <1>3, <3>1, <3>2 DEF Abreast, Current, TypeOK
        <3>3. CASE /\ group'.v = group.v
                   /\ DOMAIN group'.members = DOMAIN group.members
                   /\ \A i \in DOMAIN group.members : group'.members[i].name = group.members[i].name
            BY <3>1, <3>3 DEF Abreast, Current, Yours
        <3>. QED  BY <3>2, <3>3
    <2>. QED  BY <2>1, <2>2
<1>. QED  BY <1>1, <1>2, <1>4 DEF TypeInv

\* Every action keeps the types.
LEMMA NextType == TypeInv /\ [Next]_vars => TypeInv'
<1>. SUFFICES ASSUME TypeInv, [Next]_vars PROVE TypeInv'
    OBVIOUS
<1>0. /\ TypeOK
      /\ \A r \in Requests : req[r] \in Request /\ WellFormed(req[r])
      /\ group # None => /\ group.v \in Nat
                         /\ group.members \in Members
                         /\ group \in [v : Nat, members : Members]
                         /\ \A r \in Requests : Abreast(req[r])
      /\ << >> \in Seq(Names)
    BY DEF TypeInv, TypeOK
<1>. DEFINE reads == UNCHANGED <<group, expense, settled, unchecked>>
<1>a. reads => /\ group' = group
               /\ expense' \in [Requests -> SUBSET Names]
               /\ settled' \subseteq Users /\ unchecked' \subseteq Names
    BY <1>0 DEF TypeOK
<1>. HIDE DEF reads
<1>1. ASSUME NEW r \in Requests, ClaimRead(r) PROVE TypeInv'
    <2>. PICK user \in Guests, i \in DOMAIN group.members :
            req' = [req EXCEPT ![r] = [Read(r, "claim", user) EXCEPT !.at = i]]
        BY <1>1 DEF ClaimRead
    <2>. DEFINE q == [Read(r, "claim", user) EXCEPT !.at = i]
    <2>0. group # None /\ reads
        BY <1>1 DEF ClaimRead, reads
    <2>1. i \in Nat /\ user \in Users /\ user # Owner
        BY <1>0, <2>0, MembersType, GroupMembershipAssumption DEF Users
    <2>2. WellFormed(q) /\ Abreast(q)
        <3>1. q \in Request
            BY <1>0, <2>0, <2>1, NamesWritten DEF Read, Idle, Request
        <3>2. /\ q.kind = "claim" /\ q.v = group.v /\ q.pc \in {"check", "save"}
              /\ q.at = i /\ q.user = user
              /\ q.pc = "check" => q.kind = "edit"
            BY DEF Read, Idle
        <3>. HIDE DEF q
        <3>. QED  BY <1>0, <2>0, <2>1, <3>1, <3>2 DEF WellFormed, Abreast, Current
    <2>. HIDE DEF q
    <2>3. req' = [req EXCEPT ![r] = q]
        BY DEF q
    <2>. QED  BY <1>a, <2>0, <2>2, <2>3, SameGroup
<1>2. ASSUME NEW r \in Requests, HealRead(r) PROVE TypeInv'
    <2>. DEFINE free == {i \in Named(group.members, You) : group.members[i].linked = None}
                i == CHOOSE x \in free : \A j \in free : x <= j
                q == [Read(r, "claim", Owner) EXCEPT !.at = i]
    <2>0. group # None /\ reads /\ free # {} /\ req' = [req EXCEPT ![r] = q]
        BY <1>2 DEF HealRead, reads
    <2>1. free \subseteq Nat
        BY <1>0, <2>0, MembersType
    <2>2. i \in free
        <3>. HIDE DEF free
        <3>. QED  BY <2>0, <2>1, FirstOf
    <2>3. i \in DOMAIN group.members /\ Yours(group.members[i].name) /\ i \in Nat
        BY <2>1, <2>2 DEF Named, Yours
    <2>. HIDE DEF i
    <2>4. Owner \in Users
        BY DEF Users
    <2>5. WellFormed(q) /\ Abreast(q)
        <3>1. q \in Request
            BY <1>0, <2>0, <2>3, <2>4, NamesWritten DEF Read, Idle, Request
        <3>2. /\ q.kind = "claim" /\ q.v = group.v /\ q.pc \in {"check", "save"}
              /\ q.at = i /\ q.user = Owner
              /\ q.pc = "check" => q.kind = "edit"
            BY DEF Read, Idle
        <3>. HIDE DEF q
        <3>. QED  BY <1>0, <2>0, <2>3, <2>4, <3>1, <3>2 DEF WellFormed, Abreast, Current
    <2>. HIDE DEF q
    <2>. QED  BY <1>a, <2>0, <2>5, SameGroup
<1>3. ASSUME NEW r \in Requests, LinkSave(r) PROVE TypeInv'
    <2>. DEFINE g == req[r]
    <2>0. Done(r) /\ UNCHANGED <<expense, unchecked>> /\ g.kind = "claim"
        BY <1>3 DEF LinkSave
    <2>1. CASE group = None \/ group.v # g.v
        <3>1. UNCHANGED <<group, settled>>
            BY <1>3, <2>1 DEF LinkSave
        <3>. QED  BY <1>0, <2>0, <3>1, DoneType, SameGroup DEF Done, TypeOK, Abreast, Current
    <2>2. CASE group # None /\ group.v = g.v
        <3>0. g.at \in DOMAIN group.members /\ g.user \in Users
            BY <1>0, <2>0, <2>2 DEF Abreast, Current, WellFormed
        <3>1. group' = [group EXCEPT !.members[g.at].linked = g.user]
            BY <1>3, <2>2 DEF LinkSave
        <3>. DEFINE m == [group.members EXCEPT ![g.at] = [@ EXCEPT !.linked = g.user]]
        <3>2. group' = [v |-> group.v, members |-> m]
            BY <1>0, <2>2, <3>1
        <3>3. /\ m \in Members /\ DOMAIN m = DOMAIN group.members
              /\ \A i \in DOMAIN m : m[i].name = group.members[i].name
            <4>0. group.members \in Seq(MemberType)
                BY <1>0, <2>2 DEF Members, MemberType
            <4>1. [group.members[g.at] EXCEPT !.linked = g.user] \in MemberType
                <5>1. group.members[g.at] \in MemberType
                    BY <1>0, <2>2, <3>0, MembersType
                <5>. QED  BY <3>0, <5>1 DEF MemberType
            <4>2. m \in Seq(MemberType) /\ DOMAIN m = DOMAIN group.members
                BY <3>0, <4>0, <4>1
            <4>3. \A i \in DOMAIN m : m[i].name = group.members[i].name
                BY <1>0, <2>2, <3>0, MembersType DEF MemberType
            <4>. QED  BY <4>2, <4>3 DEF Members, MemberType
        <3>. HIDE DEF m
        <3>4. settled' \subseteq Users
            BY <1>0, <1>3, <2>2, <3>0 DEF LinkSave, TypeOK
        <3>. QED  BY <1>0, <2>0, <2>2, <3>2, <3>3, <3>4, SavedGroup DEF TypeOK
    <2>. QED  BY <2>1, <2>2
<1>4. ASSUME NEW r \in Requests, JoinRead(r) PROVE TypeInv'
    <2>. PICK user \in Guests, name \in Names :
            req' = [req EXCEPT ![r] = [Read(r, "join", user) EXCEPT !.names = <<name>>]]
        BY <1>4 DEF JoinRead
    <2>. DEFINE q == [Read(r, "join", user) EXCEPT !.names = <<name>>]
    <2>0. group # None /\ reads /\ user \in Users
        BY <1>4 DEF JoinRead, reads, Users
    <2>1. <<name>> \in Seq(Names) /\ <<name>> \in Seq(Written) /\ <<name>> # << >>
        BY NamesWritten
    <2>2. WellFormed(q) /\ Abreast(q)
        BY <1>0, <2>0, <2>1, DoneType
        DEF Read, Idle, WellFormed, Request, Abreast, Current
    <2>. HIDE DEF q
    <2>3. req' = [req EXCEPT ![r] = q]
        BY DEF q
    <2>. QED  BY <1>a, <2>0, <2>2, <2>3, SameGroup
<1>5. ASSUME NEW r \in Requests, JoinSave(r) PROVE TypeInv'
    <2>. DEFINE g == req[r]
                m == Append(group.members, Member(g.names[1], g.user))
    <2>0. Done(r) /\ UNCHANGED <<expense, unchecked>> /\ g.kind = "join"
        BY <1>5 DEF JoinSave
    <2>1. CASE group = None
        <3>1. UNCHANGED <<group, settled>>
            BY <1>5, <2>1 DEF JoinSave
        <3>. QED  BY <1>0, <2>0, <2>1, <3>1, DoneType, SameGroup DEF Done, TypeOK
    <2>2. CASE group # None
        <3>1. group' = [v |-> group.v + 1, members |-> m]
            BY <1>5, <2>2 DEF JoinSave
        <3>2. g.user \in Users /\ g.names[1] \in Names
            BY <1>0, <2>0 DEF WellFormed, Request
        <3>3. m \in Members
            <4>1. Member(g.names[1], g.user) \in MemberType /\ group.members \in Seq(MemberType)
                BY <1>0, <2>2, <3>2 DEF Member, Members, MemberType
            <4>. QED  BY <4>1 DEF Members, MemberType
        <3>4. settled' \subseteq Users
            BY <1>0, <1>5, <2>2, <3>2 DEF JoinSave, TypeOK
        <3>. HIDE DEF m
        <3>5. group' \in [v : Nat, members : Members] /\ group'.v > group.v
            BY <1>0, <2>2, <3>1, <3>3
        <3>. QED  BY <1>0, <2>0, <2>2, <3>4, <3>5, SavedGroup DEF TypeOK
    <2>. QED  BY <2>1, <2>2
<1>6. ASSUME NEW r \in Requests, EditRead(r) PROVE TypeInv'
    <2>. PICK names \in Edits :
            req' = [req EXCEPT ![r] =
              [Read(r, "edit", Owner) EXCEPT !.pc = "check", !.names = names,
                  !.read = Edited(group.members, names)]]
        BY <1>6 DEF EditRead
    <2>. DEFINE q == [Read(r, "edit", Owner) EXCEPT !.pc = "check", !.names = names,
                         !.read = Edited(group.members, names)]
    <2>0. group # None /\ reads /\ Owner \in Users
        BY <1>6 DEF EditRead, reads, Users
    <2>1. names \in Seq(Written) /\ Edited(group.members, names) \in Members
        BY <1>0, <2>0, GroupMembershipAssumption, EditedPlaces
    <2>2. WellFormed(q) /\ Abreast(q)
        <3>1. q \in Request
            BY <1>0, <2>0, <2>1 DEF Read, Idle, Request
        <3>2. /\ q.kind = "edit" /\ q.v = group.v /\ q.pc \in {"check", "save"}
              /\ q.pc = "check"
              /\ q.pc = "check" => q.kind = "edit"
            BY DEF Read, Idle
        <3>. HIDE DEF q
        <3>. QED  BY <1>0, <2>0, <2>1, <3>1, <3>2 DEF WellFormed, Abreast, Current
    <2>. HIDE DEF q
    <2>3. req' = [req EXCEPT ![r] = q]
        BY DEF q
    <2>. QED  BY <1>a, <2>0, <2>2, <2>3, SameGroup
<1>7. ASSUME NEW r \in Requests, EditCheck(r) PROVE TypeInv'
    <2>. DEFINE q == [req[r] EXCEPT !.pc = "save"]
    <2>0. reads /\ req[r].pc = "check" /\ req[r].kind = "edit"
        BY <1>0, <1>7 DEF EditCheck, reads, WellFormed
    <2>1. CASE Done(r)
        BY <1>a, <2>0, <2>1, DoneType, SameGroup DEF Done, Abreast, Current
    <2>2. CASE req' = [req EXCEPT ![r].pc = "save"]
        <3>1. req' = [req EXCEPT ![r] = q]
            BY <2>2
        <3>2. WellFormed(q) /\ (group # None => Abreast(q))
            BY <1>0, <2>0 DEF WellFormed, Request, Abreast, Current
        <3>. HIDE DEF q
        <3>. QED  BY <1>a, <2>0, <3>1, <3>2, SameGroup
    <2>. QED  BY <1>7, <2>1, <2>2 DEF EditCheck
<1>8. ASSUME NEW r \in Requests, EditSave(r) PROVE TypeInv'
    <2>. DEFINE g == req[r]
    <2>0. Done(r) /\ UNCHANGED expense /\ g.kind = "edit"
        BY <1>8 DEF EditSave
    <2>1. CASE group = None \/ group.v # g.v
        <3>1. UNCHANGED <<group, settled, unchecked>>
            BY <1>8, <2>1 DEF EditSave
        <3>. QED  BY <1>0, <2>0, <3>1, DoneType, SameGroup DEF Done, TypeOK, Abreast, Current
    <2>2. CASE group # None /\ group.v = g.v
        <3>1. group' = [v |-> group.v + 1, members |-> g.read]
            BY <1>8, <2>2 DEF EditSave
        <3>2. g.read \in Members
            BY <1>0 DEF Request
        <3>3. settled' \subseteq Users
            BY <1>0, <1>8, <2>2 DEF EditSave, TypeOK
        <3>4. unchecked' \subseteq Names
            <4>1. \A x \in UnderWay("expense") : Range(req[x].names) \subseteq Names
                BY <1>0 DEF UnderWay, WellFormed, Range
            <4>. QED  BY <1>0, <1>8, <2>2, <4>1 DEF EditSave, TypeOK
        <3>5. group' \in [v : Nat, members : Members] /\ group'.v > group.v
            BY <1>0, <2>2, <3>1, <3>2
        <3>. QED  BY <1>0, <2>0, <2>2, <3>3, <3>4, <3>5, SavedGroup DEF TypeOK
    <2>. QED  BY <2>1, <2>2
<1>9. ASSUME NEW r \in Requests, ExpenseRead(r) PROVE TypeInv'
    <2>. PICK payer \in Names, other \in Names :
            req' = [req EXCEPT ![r] =
              [Idle EXCEPT !.pc = "save", !.kind = "expense", !.names = <<payer, other>>]]
        BY <1>9 DEF ExpenseRead
    <2>. DEFINE q == [Idle EXCEPT !.pc = "save", !.kind = "expense", !.names = <<payer, other>>]
    <2>0. reads
        BY <1>9 DEF ExpenseRead, reads
    <2>1. <<payer, other>> \in Seq(Names) /\ <<payer, other>> \in Seq(Written) /\ << >> \in Members
        BY NamesWritten DEF Members
    <2>2. WellFormed(q) /\ Abreast(q)
        BY <2>1 DEF Idle, WellFormed, Request, Abreast, Current
    <2>. HIDE DEF q
    <2>3. req' = [req EXCEPT ![r] = q]
        BY DEF q
    <2>. QED  BY <1>a, <2>0, <2>2, <2>3, SameGroup
<1>10. ASSUME NEW r \in Requests, ExpenseSave(r) PROVE TypeInv'
    <2>1. Range(req[r].names) \subseteq Names
        BY <1>0, <1>10 DEF ExpenseSave, WellFormed, Range
    <2>2. expense' \in [Requests -> SUBSET Names] /\ unchecked' \subseteq Names
        BY <1>0, <1>10, <2>1 DEF ExpenseSave, TypeOK
    <2>. QED  BY <1>0, <1>10, <2>2, DoneType, SameGroup
              DEF ExpenseSave, Done, TypeOK, Abreast, Current
<1>11. CASE DeleteExpense
    BY <1>0, <1>11 DEF DeleteExpense, TypeInv, TypeOK, WellFormed, Abreast, Current
<1>12. ASSUME NEW r \in Requests, RemoveRead(r) PROVE TypeInv'
    <2>. DEFINE q == [Idle EXCEPT !.pc = "save", !.kind = "remove"]
    <2>1. WellFormed(q) /\ Abreast(q)
        <3>1. << >> \in Members
            BY DEF Members
        <3>. QED  BY <1>0, <3>1, NamesWritten DEF Idle, WellFormed, Request, Abreast, Current
    <2>. HIDE DEF q
    <2>2. req' = [req EXCEPT ![r] = q]
        BY <1>12 DEF RemoveRead, q
    <2>. QED  BY <1>0, <1>12, <2>1, <2>2, SameGroup DEF RemoveRead, TypeOK
<1>13. ASSUME NEW r \in Requests, RemoveGroup(r) PROVE TypeInv'
    <2>1. /\ req' \in [Requests -> Request]
          /\ \A s \in Requests : WellFormed(req[s])'
        BY <1>13, DoneType, OneRequest DEF RemoveGroup, Done
    <2>2. TypeOK' /\ group' = None
        BY <1>0, <1>13, <2>1 DEF RemoveGroup, TypeOK
    <2>. QED  BY <2>1, <2>2 DEF TypeInv
<1>14. ASSUME NEW r \in Requests, Fails(r) PROVE TypeInv'
    <2>1. reads
        BY <1>14 DEF Fails, reads
    <2>. QED  BY <1>14, <1>a, <2>1, DoneType, SameGroup DEF Fails, Done, Abreast, Current
<1>15. CASE UNCHANGED vars
    BY <1>0, <1>15 DEF vars, TypeInv, TypeOK, WellFormed, Abreast, Current
<1>. QED  BY <1>1, <1>2, <1>3, <1>4, <1>5, <1>6, <1>7, <1>8, <1>9, <1>10, <1>11,
             <1>12, <1>13, <1>14, <1>15 DEF Next

\* The requests, the group, the expenses and the histories stay well typed, for any users,
\* names, edits and requests.
THEOREM TypeCorrect == Spec => []TypeOK
<1>1. TypeInv => TypeOK
    BY DEF TypeInv
<1>. QED  BY InitType, NextType, <1>1, PTL DEF Spec

----------------------------------------------------------------------------
(* The names in expenses *)

\* What a list keeps one with all its names keeps too.
LEMMA KeepsMore ==
    ASSUME NEW list, NEW more, NEW N, NEW M,
           \A i \in DOMAIN list : \E j \in DOMAIN more : more[j].name = list[i].name,
           Keeps(list, N), M \subseteq N
    PROVE  Keeps(more, M)
<1>. SUFFICES ASSUME NEW n \in M PROVE Named(more, n) # {}
    BY DEF Keeps
<1>1. PICK i \in Named(list, n) : TRUE
    BY DEF Keeps
<1>2. PICK j \in DOMAIN more : more[j].name = list[i].name
    BY <1>1 DEF Named
<1>. QED  BY <1>1, <1>2 DEF Named

\* A step that takes no name out of the group, adds none to an expense and sets no
\* request to save an expense or an edit.
NamesCalm ==
    /\ group' # None => /\ group # None
                        /\ group'.v >= group.v
                        /\ \A i \in DOMAIN group.members : \E j \in DOMAIN group'.members :
                              group'.members[j].name = group.members[i].name
    /\ \A e \in Requests : expense'[e] \subseteq expense[e]
    /\ unchecked' = unchecked
    /\ \A s \in Requests :
          \/ req'[s] = req[s]
          \/ req'[s].kind # "expense" /\ ~(req'[s].kind = "edit" /\ req'[s].pc = "save")

\* Such a step keeps the invariant.
LEMMA CalmKeepsNames == TypeInv /\ TypeInv' /\ ExpenseInv /\ NamesCalm => ExpenseInv'
<1>. SUFFICES ASSUME TypeInv, TypeInv', ExpenseInv, NamesCalm, group' # None
              PROVE  ExpenseInv'
    BY DEF ExpenseInv
<1>. USE DEF NamesCalm
<1>1. /\ group # None /\ group.v \in Nat /\ group'.v \in Nat /\ group'.v >= group.v
      /\ \A s \in Requests : Abreast(req[s]) /\ req[s].v \in Nat
    BY DEF TypeInv, TypeOK, Request
<1>2. \A e \in Requests : Keeps(group'.members, expense'[e] \ unchecked')
    <2>. TAKE e \in Requests
    <2>1. Keeps(group.members, expense[e] \ unchecked)
        BY <1>1 DEF ExpenseInv
    <2>2. expense'[e] \ unchecked' \subseteq expense[e] \ unchecked
        OBVIOUS
    <2>. QED  BY <2>1, <2>2, KeepsMore
<1>3. \A s \in UnderWay("expense")' : Keeps(group'.members, Range(req'[s].names) \ unchecked')
    <2>. TAKE s \in UnderWay("expense")'
    <2>1. s \in UnderWay("expense") /\ req'[s] = req[s]
        BY DEF UnderWay
    <2>. QED  BY <1>1, <2>1, KeepsMore DEF ExpenseInv
<1>4. ASSUME NEW s \in Requests, Current(req[s], "edit")', req'[s].pc = "save", NEW e \in Requests
      PROVE  Keeps(req'[s].read, expense'[e] \ unchecked')
    <2>1. req'[s] = req[s] /\ req[s].kind = "edit" /\ req[s].v = group'.v
        BY <1>4 DEF Current
    <2>2. Current(req[s], "edit")
        BY <1>1, <2>1 DEF Current, Abreast
    <2>3. Keeps(req[s].read, expense[e] \ unchecked)
        BY <1>1, <1>4, <2>1, <2>2 DEF ExpenseInv
    <2>. QED  BY <2>1, <2>3 DEF Keeps
<1>. QED  BY <1>2, <1>3, <1>4 DEF ExpenseInv

\* The invariant holds at the start, when there are no expenses.
LEMMA InitExpense == Init => ExpenseInv
BY DEF Init, ExpenseInv, UnderWay, Idle, Keeps, Current

\* A request that is over.
LEMMA DoneStep ==
    ASSUME TypeInv, NEW r \in Requests, Done(r)
    PROVE  /\ req'[r] = [Idle EXCEPT !.pc = "done"] /\ req'[r].kind = "none"
           /\ \A s \in Requests \ {r} : req'[s] = req[s]
BY DoneType DEF TypeInv, TypeOK, Done

\* Every action keeps the invariant.
LEMMA NextExpense == TypeInv /\ TypeInv' /\ ExpenseInv /\ [Next]_vars => ExpenseInv'
<1>. SUFFICES ASSUME TypeInv, TypeInv', ExpenseInv, [Next]_vars PROVE ExpenseInv'
    OBVIOUS
<1>0. /\ TypeOK /\ TypeOK'
      /\ group # None => group.v \in Nat /\ group.members \in Members
      /\ \A r \in Requests : req[r] \in Request /\ WellFormed(req[r])
      /\ group # None => \A r \in Requests : Abreast(req[r])
    BY DEF TypeInv, TypeOK
<1>1. ASSUME NEW r \in Requests, ClaimRead(r) \/ HealRead(r) \/ JoinRead(r) \/ EditRead(r)
      PROVE  ExpenseInv'
    <2>1. PICK q : /\ req' = [req EXCEPT ![r] = q]
                   /\ q.kind # "expense" /\ (q.kind = "edit" => q.pc = "check")
        <3>1. CASE ClaimRead(r)
            <4>. PICK user \in Guests, i \in DOMAIN group.members :
                    req' = [req EXCEPT ![r] = [Read(r, "claim", user) EXCEPT !.at = i]]
                BY <3>1 DEF ClaimRead
            <4>. DEFINE q == [Read(r, "claim", user) EXCEPT !.at = i]
            <4>1. req' = [req EXCEPT ![r] = q] /\ q.kind = "claim"
                BY DEF Read, Idle
            <4>. HIDE DEF q
            <4>. QED  BY <4>1
        <3>2. CASE HealRead(r)
            <4>. PICK i : req' = [req EXCEPT ![r] = [Read(r, "claim", Owner) EXCEPT !.at = i]]
                BY <3>2 DEF HealRead
            <4>. DEFINE q == [Read(r, "claim", Owner) EXCEPT !.at = i]
            <4>1. req' = [req EXCEPT ![r] = q] /\ q.kind = "claim"
                BY DEF Read, Idle
            <4>. HIDE DEF q
            <4>. QED  BY <4>1
        <3>3. CASE JoinRead(r)
            <4>. PICK user \in Guests, name \in Names :
                    req' = [req EXCEPT ![r] = [Read(r, "join", user) EXCEPT !.names = <<name>>]]
                BY <3>3 DEF JoinRead
            <4>. DEFINE q == [Read(r, "join", user) EXCEPT !.names = <<name>>]
            <4>1. req' = [req EXCEPT ![r] = q] /\ q.kind = "join"
                BY DEF Read, Idle
            <4>. HIDE DEF q
            <4>. QED  BY <4>1
        <3>4. CASE EditRead(r)
            <4>. PICK names \in Edits :
                    req' = [req EXCEPT ![r] =
                      [Read(r, "edit", Owner) EXCEPT !.pc = "check", !.names = names,
                          !.read = Edited(group.members, names)]]
                BY <3>4 DEF EditRead
            <4>. DEFINE q == [Read(r, "edit", Owner) EXCEPT !.pc = "check", !.names = names,
                          !.read = Edited(group.members, names)]
            <4>1. req' = [req EXCEPT ![r] = q] /\ q.kind = "edit" /\ q.pc = "check"
                BY DEF Read, Idle
            <4>. HIDE DEF q
            <4>. QED  BY <4>1
        <3>. QED  BY <1>1, <3>1, <3>2, <3>3, <3>4
    <2>2. \A s \in Requests : req'[s] = IF s = r THEN q ELSE req[s]
        BY <1>0, <2>1 DEF TypeOK
    <2>3. UNCHANGED <<group, expense, settled, unchecked>>
        BY <1>1 DEF ClaimRead, HealRead, JoinRead, EditRead
    <2>4. NamesCalm
        BY <1>0, <2>1, <2>2, <2>3 DEF NamesCalm
    <2>. QED  BY <2>4, CalmKeepsNames
<1>2. ASSUME NEW r \in Requests, LinkSave(r) PROVE ExpenseInv'
    <2>. DEFINE g == req[r]
    <2>0. Done(r) /\ UNCHANGED <<expense, unchecked>> /\ g.kind = "claim"
        BY <1>2 DEF LinkSave
    <2>1. CASE UNCHANGED group
        <3>1. NamesCalm
            BY <1>0, <2>0, <2>1, DoneStep DEF NamesCalm
        <3>. QED  BY <3>1, CalmKeepsNames
    <2>2. CASE /\ group # None /\ group.v = g.v
               /\ group' = [group EXCEPT !.members[g.at].linked = g.user]
        <3>1. g.at \in DOMAIN group.members
            BY <1>0, <2>0, <2>2 DEF Abreast, Current
        <3>2. /\ group'.v = group.v
              /\ DOMAIN group'.members = DOMAIN group.members
              /\ \A i \in DOMAIN group.members : group'.members[i].name = group.members[i].name
            BY <1>0, <2>2, <3>1, MembersType DEF TypeOK, MemberType
        <3>3. NamesCalm
            BY <1>0, <2>0, <2>2, <3>2, DoneStep DEF NamesCalm
        <3>. QED  BY <3>3, CalmKeepsNames
    <2>. QED  BY <1>2, <2>1, <2>2 DEF LinkSave
<1>3. ASSUME NEW r \in Requests, JoinSave(r) PROVE ExpenseInv'
    <2>. DEFINE g == req[r]
                new == Member(g.names[1], g.user)
    <2>0. Done(r) /\ UNCHANGED <<expense, unchecked>> /\ g.kind = "join"
        BY <1>3 DEF JoinSave
    <2>1. CASE UNCHANGED group
        <3>1. NamesCalm
            BY <1>0, <2>0, <2>1, DoneStep DEF NamesCalm
        <3>. QED  BY <3>1, CalmKeepsNames
    <2>2. CASE /\ group # None
               /\ group' = [v |-> group.v + 1, members |-> Append(group.members, new)]
        <3>. HIDE DEF new
        <3>1. \A i \in DOMAIN group.members : i \in DOMAIN group'.members
                    /\ group'.members[i] = group.members[i]
            BY <1>0, <2>2 DEF Members
        <3>2. NamesCalm
            BY <1>0, <2>0, <2>2, <3>1, DoneStep DEF NamesCalm
        <3>. QED  BY <3>2, CalmKeepsNames
    <2>. QED  BY <1>3, <2>1, <2>2 DEF JoinSave
<1>4. ASSUME NEW r \in Requests, EditCheck(r) PROVE ExpenseInv'
    <2>0. UNCHANGED <<group, expense, settled, unchecked>>
        BY <1>4 DEF EditCheck
    <2>1. CASE Done(r)
        <3>1. NamesCalm
            BY <1>0, <2>0, <2>1, DoneStep DEF NamesCalm
        <3>. QED  BY <3>1, CalmKeepsNames
    <2>2. CASE /\ \A e \in Requests : Keeps(req[r].read, expense[e])
               /\ req' = [req EXCEPT ![r].pc = "save"]
        <3>1. /\ \A s \in Requests \ {r} : req'[s] = req[s]
              /\ req'[r].read = req[r].read /\ req'[r].kind = req[r].kind
              /\ req[r].kind = "edit" /\ req'[r].names = req[r].names
            BY <1>0, <1>4, <2>2 DEF TypeOK, Request, EditCheck, WellFormed
        <3>2. \A e \in Requests : Keeps(req[r].read, expense[e] \ unchecked)
            BY <2>2 DEF Keeps
        <3>3. \A s \in Requests : s \in UnderWay("expense")' => s # r /\ s \in UnderWay("expense")
            BY <3>1 DEF UnderWay
        <3>. QED  BY <2>0, <3>1, <3>2, <3>3 DEF ExpenseInv, Keeps, Named, Current, UnderWay
    <2>. QED  BY <1>4, <2>1, <2>2 DEF EditCheck
<1>5. ASSUME NEW r \in Requests, EditSave(r) PROVE ExpenseInv'
    <2>. DEFINE g == req[r]
                under == UNION {Range(req[x].names) : x \in UnderWay("expense")}
    <2>0. Done(r) /\ UNCHANGED expense /\ g.kind = "edit" /\ g.pc = "save"
        BY <1>5 DEF EditSave
    <2>1. CASE UNCHANGED <<group, unchecked>>
        <3>1. NamesCalm
            BY <1>0, <2>0, <2>1, DoneStep DEF NamesCalm
        <3>. QED  BY <3>1, CalmKeepsNames
    <2>2. CASE /\ group # None /\ group.v = g.v
               /\ group' = [v |-> group.v + 1, members |-> g.read]
               /\ unchecked' = unchecked \cup under
        <3>1. \A e \in Requests : Keeps(g.read, expense[e] \ unchecked)
            BY <2>0, <2>2 DEF ExpenseInv, Current
        <3>2. \A e \in Requests : Keeps(group'.members, expense'[e] \ unchecked')
            BY <2>0, <2>2, <3>1 DEF Keeps
        <3>3. \A s \in UnderWay("expense")' : Range(req'[s].names) \ unchecked' = {}
            <4>. TAKE s \in UnderWay("expense")'
            <4>1. s \in UnderWay("expense") /\ req'[s] = req[s]
                BY <2>0, DoneStep DEF UnderWay
            <4>. QED  BY <2>2, <4>1
        <3>4. \A s \in Requests : ~Current(req[s], "edit")'
            <4>. TAKE s \in Requests
            <4>1. req'[s].kind = "edit" => req'[s].v <= group.v
                BY <1>0, <2>0, <2>2, DoneStep DEF Abreast
            <4>2. req'[s].v \in Nat
                BY <1>0 DEF TypeOK, Request
            <4>. QED  BY <1>0, <2>2, <4>1, <4>2 DEF Current
        <3>. QED  BY <3>2, <3>3, <3>4 DEF ExpenseInv, Keeps
    <2>. QED  BY <1>5, <2>1, <2>2 DEF EditSave
<1>6. ASSUME NEW r \in Requests, ExpenseRead(r) PROVE ExpenseInv'
    <2>1. PICK payer \in Names, other \in Names :
            /\ {payer, other} \subseteq {group.members[i].name : i \in DOMAIN group.members}
            /\ req' = [req EXCEPT ![r] =
                 [Idle EXCEPT !.pc = "save", !.kind = "expense", !.names = <<payer, other>>]]
        BY <1>6 DEF ExpenseRead
    <2>2. group # None /\ UNCHANGED <<group, expense, settled, unchecked>>
        BY <1>6 DEF ExpenseRead
    <2>3. /\ req'[r].kind = "expense" /\ req'[r].names = <<payer, other>>
          /\ \A s \in Requests \ {r} : req'[s] = req[s]
        BY <1>0, <2>1 DEF TypeOK, Idle
    <2>4. Keeps(group.members, Range(req'[r].names) \ unchecked)
        <3>1. Range(req'[r].names) = {payer, other}
            BY <2>3 DEF Range
        <3>2. \A n \in {payer, other} : \E i \in DOMAIN group.members : group.members[i].name = n
            BY <2>1
        <3>. QED  BY <3>1, <3>2 DEF Keeps, Named
    <2>5. \A s \in UnderWay("expense")' : Keeps(group'.members, Range(req'[s].names) \ unchecked')
        BY <2>2, <2>3, <2>4 DEF ExpenseInv, UnderWay
    <2>6. \A s \in Requests : Current(req[s], "edit")' => s # r /\ Current(req[s], "edit")
        BY <2>2, <2>3 DEF Current
    <2>. QED  BY <2>2, <2>3, <2>5, <2>6 DEF ExpenseInv, Keeps, Named
<1>7. ASSUME NEW r \in Requests, ExpenseSave(r) PROVE ExpenseInv'
    <2>. DEFINE names == Range(req[r].names)
    <2>1. /\ Done(r) /\ UNCHANGED group /\ r \in UnderWay("expense")
          /\ expense' = [expense EXCEPT ![r] = names]
          /\ unchecked \subseteq unchecked'
          /\ (\E x \in UnderWay("edit") : req[x].pc = "save") => names \subseteq unchecked'
        BY <1>7 DEF ExpenseSave, UnderWay
    <2>2. \A e \in Requests : expense'[e] = IF e = r THEN names ELSE expense[e]
        BY <1>0, <2>1 DEF TypeOK
    <2>3. \A s \in Requests : req'[s].kind # "none" => s # r /\ req'[s] = req[s]
        BY <2>1, DoneStep
    <2>. SUFFICES ASSUME group # None PROVE ExpenseInv'
        BY <2>1 DEF ExpenseInv
    <2>4. \A e \in Requests : Keeps(group'.members, expense'[e] \ unchecked')
        BY <2>1, <2>2 DEF ExpenseInv, Keeps, Named
    <2>5. \A s \in UnderWay("expense")' : Keeps(group'.members, Range(req'[s].names) \ unchecked')
        <3>. TAKE s \in UnderWay("expense")'
        <3>1. s \in UnderWay("expense") /\ req'[s] = req[s]
            BY <2>3 DEF UnderWay
        <3>. QED  BY <2>1, <3>1 DEF ExpenseInv, Keeps, Named
    <2>6. ASSUME NEW s \in Requests, Current(req[s], "edit")', req'[s].pc = "save", NEW e \in Requests
          PROVE  Keeps(req'[s].read, expense'[e] \ unchecked')
        <3>1. Current(req[s], "edit") /\ req'[s] = req[s] /\ req[s].pc = "save"
            BY <2>1, <2>3, <2>6 DEF Current
        <3>2. Keeps(req[s].read, expense[e] \ unchecked)
            BY <3>1 DEF ExpenseInv
        <3>3. names \subseteq unchecked'
            BY <2>1, <3>1 DEF UnderWay, Current
        <3>. QED  BY <2>1, <2>2, <3>1, <3>2, <3>3 DEF Keeps
    <2>. QED  BY <2>4, <2>5, <2>6 DEF ExpenseInv
<1>8. CASE DeleteExpense
    <2>1. NamesCalm
        BY <1>0, <1>8 DEF DeleteExpense, NamesCalm, TypeOK
    <2>. QED  BY <2>1, CalmKeepsNames
<1>9. ASSUME NEW r \in Requests, RemoveRead(r) PROVE ExpenseInv'
    <2>1. NamesCalm
        BY <1>0, <1>9 DEF RemoveRead, NamesCalm, TypeOK, Idle
    <2>. QED  BY <2>1, CalmKeepsNames
<1>10. ASSUME NEW r \in Requests, RemoveGroup(r) PROVE ExpenseInv'
    BY <1>10 DEF RemoveGroup, ExpenseInv
<1>11. ASSUME NEW r \in Requests, Fails(r) PROVE ExpenseInv'
    <2>1. NamesCalm
        BY <1>0, <1>11, DoneStep DEF Fails, NamesCalm
    <2>. QED  BY <2>1, CalmKeepsNames
<1>12. CASE UNCHANGED vars
    <2>1. NamesCalm
        BY <1>0, <1>12 DEF vars, NamesCalm
    <2>. QED  BY <2>1, CalmKeepsNames
<1>. QED  BY <1>1, <1>2, <1>3, <1>4, <1>5, <1>6, <1>7, <1>8, <1>9, <1>10, <1>11,
             <1>12 DEF Next

\* A name in an expense is that of a member, unless the expense got it while an edit that
\* had looked at the expenses was under way: for any lists of names, and any number of
\* requests.
THEOREM NamesKept == Spec => []ExpenseNamesKept
<1>1. ExpenseInv => ExpenseNamesKept
    BY DEF ExpenseInv, ExpenseNamesKept
<1>. QED  BY InitType, NextType, InitExpense, NextExpense, <1>1, PTL DEF Spec

----------------------------------------------------------------------------
(* The links *)

\* A step that leaves the list alone, settles nobody and makes no claim or edit.
LinksCalm ==
    /\ group' # None => group' = group
    /\ settled' = settled
    /\ \A s \in Requests :
          \/ req'[s].kind \notin {"claim", "edit"}
          \/ /\ req'[s].kind = req[s].kind /\ req'[s].v = req[s].v
             /\ req'[s].at = req[s].at /\ req'[s].read = req[s].read
             /\ req'[s].names = req[s].names

\* Such a step keeps the invariant.
LEMMA CalmKeepsLinks == LinkInv /\ LinksCalm => LinkInv'
<1>. SUFFICES ASSUME LinkInv, LinksCalm, group' # None PROVE LinkInv'
    BY DEF LinkInv
<1>1. group # None /\ group' = group /\ settled' = settled
    BY DEF LinksCalm
<1>2. \A i : Claimed(i)' => Claimed(i)
    BY <1>1 DEF LinksCalm, Claimed, Current
<1>3. \A u, list : Holds(u, list) => Holds(u, list)'
    BY <1>1, <1>2 DEF Holds, HoldsAt
<1>4. \A u \in settled' : Holds(u, group.members)'
    <2>. SUFFICES ASSUME NEW u \in settled PROVE Holds(u, group.members)'
        BY <1>1
    <2>1. PICK k \in DOMAIN group.members : HoldsAt(u, group.members, k)
        BY <1>1 DEF LinkInv, Holds
    <2>2. HoldsAt(u, group.members, k)'
        BY <1>1, <1>2, <2>1 DEF HoldsAt
    <2>. QED  BY <1>1, <2>2 DEF Holds
<1>5. ASSUME NEW s \in Requests, Current(req[s], "edit")'
      PROVE  \E list \in Members : /\ SameNames(list)'
                                 /\ req'[s].read = Edited(list, req'[s].names)
                                 /\ \A u \in settled' : Holds(u, list)'
    <2>1. /\ Current(req[s], "edit")
          /\ req'[s].read = req[s].read /\ req'[s].names = req[s].names
        BY <1>1, <1>5 DEF LinksCalm, Current
    <2>2. PICK list \in Members : /\ SameNames(list)
                                /\ req[s].read = Edited(list, req[s].names)
                                /\ \A u \in settled : Holds(u, list)
        BY <1>1, <2>1 DEF LinkInv
    <2>3. SameNames(list)'
        BY <1>1, <2>2 DEF SameNames
    <2>. QED  BY <1>1, <1>3, <2>1, <2>2, <2>3
<1>. QED  BY <1>1, <1>4, <1>5 DEF LinkInv

\* At the start the owner holds "you" in a new list, and nobody is linked in an old one.
LEMMA InitLinks == Init => LinkInv
<1>. SUFFICES ASSUME Init PROVE LinkInv
    OBVIOUS
<1>1. \A r \in Requests : req[r].kind = "none"
    BY DEF Init, Idle
<1>2. \A i : ~Claimed(i)
    BY <1>1 DEF Claimed, Current
<1>3. \A u \in settled : Holds(u, group.members)
    <2>1. CASE group.members = Created
        <3>. SUFFICES ASSUME NEW u \in settled PROVE Holds(u, Created)
            BY <2>1
        <3>1. PICK k \in DOMAIN Created : Created[k].linked = u /\ u # None
            BY <2>1 DEF Init, Linked
        <3>2. u = Owner /\ Yours(Created[k].name)
            BY <3>1, CreatedType
        <3>3. \A i \in Named(Created, Created[k].name) : Created[i].linked = Owner
            BY <3>2, CreatedType DEF Named, Yours
        <3>. QED  BY <1>2, <2>1, <3>1, <3>2, <3>3 DEF Holds, HoldsAt
    <2>2. CASE group.members = Legacy
        <3>1. \A i \in DOMAIN Legacy : Legacy[i].linked = None
            BY CreatedType, MembersType DEF Legacy, MemberType
        <3>. QED  BY <2>2, <3>1 DEF Init, Linked
    <2>. QED  BY <2>1, <2>2 DEF Init
<1>. QED  BY <1>1, <1>3 DEF LinkInv, Current

\* A claim of a member who is not linked takes nobody's place.
LEMMA NewClaim ==
    ASSUME TypeInv, LinkInv, NEW r \in Requests, NEW q, req' = [req EXCEPT ![r] = q],
           UNCHANGED <<group, settled>>, group # None,
           q.kind = "claim", group.members[q.at].linked = None
    PROVE  LinkInv'
<1>1. \A s \in Requests : req'[s] = IF s = r THEN q ELSE req[s]
    BY DEF TypeInv, TypeOK
<1>2. \A i : Claimed(i)' => Claimed(i) \/ i = q.at
    BY <1>1 DEF Claimed, Current
<1>3. \A u \in settled : \A list : Holds(u, list) => Holds(u, list)'
    <2>. SUFFICES ASSUME NEW u \in settled, NEW list, NEW k \in DOMAIN group.members,
                         HoldsAt(u, list, k)
                  PROVE  HoldsAt(u, list, k)'
        BY DEF Holds
    <2>1. u # None
        BY GroupMembershipAssumption DEF TypeInv, TypeOK
    <2>. QED  BY <1>2, <2>1 DEF HoldsAt
<1>4. \A s \in Requests : Current(req[s], "edit")' => s # r /\ Current(req[s], "edit")
    BY <1>1 DEF Current
<1>5. \A list : SameNames(list)' <=> SameNames(list)
    BY DEF SameNames
<1>6. \A u \in settled' : Holds(u, group.members)'
    BY <1>3 DEF LinkInv, Holds, HoldsAt
<1>7. ASSUME NEW s \in Requests, Current(req[s], "edit")'
      PROVE  \E list \in Members : /\ SameNames(list)'
                                 /\ req'[s].read = Edited(list, req'[s].names)
                                 /\ \A u \in settled' : Holds(u, list)'
    <2>1. PICK list \in Members : /\ SameNames(list)
                                /\ req[s].read = Edited(list, req[s].names)
                                /\ \A u \in settled : Holds(u, list)
        BY <1>4, <1>7 DEF LinkInv
    <2>. QED  BY <1>1, <1>3, <1>4, <1>5, <1>7, <2>1
<1>. QED  BY <1>6, <1>7 DEF LinkInv

\* After a save that advances the version no claim and no edit can still be saved.
LEMMA NoneCurrent ==
    ASSUME TypeInv, NEW r \in Requests, Done(r), group # None,
           group'.v = group.v + 1
    PROVE  /\ \A s \in Requests : ~Current(req[s], "edit")' /\ ~Current(req[s], "claim")'
           /\ \A i : ~Claimed(i)'
<1>1. group.v \in Nat
    BY DEF TypeInv, TypeOK
<1>2. \A s \in Requests : req'[s].kind \in {"claim", "edit"} => req'[s].v <= group.v /\ req'[s].v \in Nat
    BY DoneStep DEF TypeInv, TypeOK, Abreast, Request
<1>3. \A s \in Requests : ~Current(req[s], "edit")' /\ ~Current(req[s], "claim")'
    BY <1>1, <1>2 DEF Current
<1>. QED  BY <1>3 DEF Claimed

\* Every action keeps the invariant.
LEMMA NextLinks == TypeInv /\ TypeInv' /\ LinkInv /\ [Next]_vars => LinkInv'
<1>. SUFFICES ASSUME TypeInv, TypeInv', LinkInv, [Next]_vars PROVE LinkInv'
    OBVIOUS
<1>0. /\ TypeOK /\ TypeOK'
      /\ group # None => /\ group.v \in Nat /\ group.members \in Members
                         /\ group \in [v : Nat, members : Members]
      /\ \A r \in Requests : req[r] \in Request /\ WellFormed(req[r])
      /\ group # None => \A r \in Requests : Abreast(req[r])
      /\ None \notin settled
    BY GroupMembershipAssumption DEF TypeInv, TypeOK
<1>1. ASSUME NEW r \in Requests, ClaimRead(r) PROVE LinkInv'
    <2>. PICK user \in Guests, i \in DOMAIN group.members :
            /\ group.members[i].linked = None
            /\ req' = [req EXCEPT ![r] = [Read(r, "claim", user) EXCEPT !.at = i]]
        BY <1>1 DEF ClaimRead
    <2>. DEFINE q == [Read(r, "claim", user) EXCEPT !.at = i]
    <2>1. req' = [req EXCEPT ![r] = q] /\ q.kind = "claim" /\ q.at = i
        BY DEF Read, Idle
    <2>. HIDE DEF q
    <2>. QED  BY <1>1, <2>1, NewClaim DEF ClaimRead
<1>2. ASSUME NEW r \in Requests, HealRead(r) PROVE LinkInv'
    <2>. DEFINE free == {i \in Named(group.members, You) : group.members[i].linked = None}
                i == CHOOSE x \in free : \A j \in free : x <= j
                q == [Read(r, "claim", Owner) EXCEPT !.at = i]
    <2>0. group # None /\ free # {} /\ req' = [req EXCEPT ![r] = q]
        BY <1>2 DEF HealRead
    <2>1. free \subseteq Nat
        BY <1>0, <2>0, MembersType
    <2>2. i \in free
        <3>. HIDE DEF free
        <3>. QED  BY <2>0, <2>1, FirstOf
    <2>3. group.members[i].linked = None
        BY <2>2
    <2>. HIDE DEF i
    <2>4. q.kind = "claim" /\ q.at = i
        BY DEF Read, Idle
    <2>. HIDE DEF q
    <2>. QED  BY <1>2, <2>0, <2>3, <2>4, NewClaim DEF HealRead
<1>3. ASSUME NEW r \in Requests, LinkSave(r) PROVE LinkInv'
    <2>. DEFINE g == req[r]
    <2>. PICK w : w = g.at
        OBVIOUS
    <2>0. Done(r) /\ g.kind = "claim"
        BY <1>3 DEF LinkSave
    <2>1. CASE UNCHANGED <<group, settled>>
        <3>1. LinksCalm
            BY <2>0, <2>1, DoneStep DEF LinksCalm
        <3>. QED  BY <3>1, CalmKeepsLinks
    <2>2. CASE /\ group # None /\ group.v = g.v
               /\ group' = [group EXCEPT !.members[w].linked = g.user]
               /\ settled' = IF \/ UnderWay("edit") # {}
                                \/ \E x \in UnderWay("claim") \ {r} : req[x].at = w
                                \/ Named(group.members, group.members[w].name) # {w}
                             THEN settled ELSE settled \cup {g.user}
        <3>1. /\ w \in DOMAIN group.members /\ g.user \in Users
              /\ g.user = Owner => Yours(group.members[w].name)
              /\ Claimed(w)
            BY <1>0, <2>0, <2>2 DEF Abreast, Current, WellFormed, Claimed
        <3>2. /\ group' = [v |-> group.v,
                            members |-> [group.members EXCEPT ![w] = [@ EXCEPT !.linked = g.user]]]
            BY <1>0, <2>2, <3>1
        <3>3. /\ group'.v = group.v
              /\ DOMAIN group'.members = DOMAIN group.members
              /\ \A i \in DOMAIN group.members :
                    /\ group'.members[i].name = group.members[i].name
                    /\ i # w => group'.members[i].linked = group.members[i].linked
              /\ group'.members[w].linked = g.user
            BY <1>0, <2>2, <3>1, <3>2, MembersType DEF MemberType
        <3>4. \A name : Named(group'.members, name) = Named(group.members, name)
            BY <3>3 DEF Named
        <3>5. \A i : Claimed(i)' => \E x \in UnderWay("claim") \ {r} : Current(req[x], "claim") /\ req[x].at = i
            BY <2>0, <3>3, DoneStep DEF Claimed, Current, UnderWay
        <3>6. \A i : Claimed(i)' => Claimed(i)
            BY <3>5 DEF Claimed, UnderWay
        <3>7. ASSUME NEW u, NEW list, NEW k \in DOMAIN group.members, HoldsAt(u, list, k)
              PROVE  HoldsAt(u, list, k)'
            <4>1. Named(group'.members, group'.members[k].name) = Named(group.members, group.members[k].name)
                BY <3>3, <3>4
            <4>2. \A i \in Named(group.members, group.members[k].name) :
                    /\ i # w /\ i \in DOMAIN group.members
                    /\ ~Claimed(i)' /\ group'.members[i].linked = u
                BY <3>1, <3>3, <3>6, <3>7 DEF HoldsAt, Named
            <4>. QED  BY <3>3, <3>7, <4>1, <4>2 DEF HoldsAt
        <3>8. ASSUME NEW u \in settled PROVE Holds(u, group.members)'
            <4>1. PICK k \in DOMAIN group.members : HoldsAt(u, group.members, k)
                BY <2>2 DEF LinkInv, Holds
            <4>2. HoldsAt(u, group.members, k)'
                <5>1. Named(group'.members, group'.members[k].name) = Named(group.members, group.members[k].name)
                    BY <3>3, <3>4
                <5>2. \A i \in Named(group.members, group.members[k].name) :
                        ~Claimed(i)' /\ group'.members[i].linked = u
                    BY <3>1, <3>3, <3>6, <4>1 DEF HoldsAt, Named
                <5>. QED  BY <3>3, <4>1, <5>1, <5>2 DEF HoldsAt
            <4>. QED  BY <3>3, <4>2 DEF Holds
        <3>9. \A u \in settled' : Holds(u, group.members)'
            <4>. SUFFICES ASSUME NEW u \in settled', u \notin settled PROVE Holds(u, group.members)'
                BY <3>8
            <4>1. /\ u = g.user
                  /\ ~\E x \in UnderWay("claim") \ {r} : req[x].at = w
                  /\ Named(group.members, group.members[w].name) = {w}
                BY <2>2
            <4>2. Named(group'.members, group'.members[w].name) = {w}
                BY <3>1, <3>3, <3>4, <4>1
            <4>3. ~Claimed(w)'
                BY <3>5, <4>1
            <4>4. HoldsAt(u, group.members, w)'
                BY <3>1, <3>3, <4>1, <4>2, <4>3 DEF HoldsAt
            <4>. QED  BY <3>1, <3>3, <4>4 DEF Holds
        <3>10. ASSUME NEW s \in Requests, Current(req[s], "edit")'
               PROVE  \E list \in Members : /\ SameNames(list)'
                                          /\ req'[s].read = Edited(list, req'[s].names)
                                          /\ \A u \in settled' : Holds(u, list)'
            <4>1. req'[s] = req[s] /\ Current(req[s], "edit")
                BY <2>0, <3>3, <3>10, DoneStep DEF Current
            <4>2. settled' = settled
                BY <2>2, <4>1 DEF UnderWay, Current
            <4>3. PICK list \in Members : /\ SameNames(list)
                                        /\ req[s].read = Edited(list, req[s].names)
                                        /\ \A u \in settled : Holds(u, list)
                BY <2>2, <4>1 DEF LinkInv
            <4>4. SameNames(list)'
                BY <3>3, <4>3 DEF SameNames
            <4>5. \A u \in settled : Holds(u, list)'
                BY <3>3, <3>7, <4>3 DEF Holds
            <4>. QED  BY <4>1, <4>2, <4>3, <4>4, <4>5
        <3>. QED  BY <3>9, <3>10 DEF LinkInv
    <2>. QED  BY <1>3, <2>1, <2>2 DEF LinkSave
<1>4. ASSUME NEW r \in Requests, JoinRead(r) \/ ExpenseRead(r) \/ RemoveRead(r)
      PROVE  LinkInv'
    <2>1. PICK q : req' = [req EXCEPT ![r] = q] /\ q.kind \notin {"claim", "edit"}
        <3>1. CASE JoinRead(r)
            <4>. PICK user \in Guests, name \in Names :
                    req' = [req EXCEPT ![r] = [Read(r, "join", user) EXCEPT !.names = <<name>>]]
                BY <3>1 DEF JoinRead
            <4>. DEFINE q == [Read(r, "join", user) EXCEPT !.names = <<name>>]
            <4>1. req' = [req EXCEPT ![r] = q] /\ q.kind = "join"
                BY DEF Read, Idle
            <4>. HIDE DEF q
            <4>. QED  BY <4>1
        <3>2. CASE ExpenseRead(r)
            <4>. PICK payer \in Names, other \in Names :
                    req' = [req EXCEPT ![r] =
                      [Idle EXCEPT !.pc = "save", !.kind = "expense", !.names = <<payer, other>>]]
                BY <3>2 DEF ExpenseRead
            <4>. DEFINE q == [Idle EXCEPT !.pc = "save", !.kind = "expense",
                                          !.names = <<payer, other>>]
            <4>1. req' = [req EXCEPT ![r] = q] /\ q.kind = "expense"
                BY DEF Idle
            <4>. HIDE DEF q
            <4>. QED  BY <4>1
        <3>3. CASE RemoveRead(r)
            <4>. DEFINE q == [Idle EXCEPT !.pc = "save", !.kind = "remove"]
            <4>1. req' = [req EXCEPT ![r] = q] /\ q.kind = "remove"
                BY <3>3 DEF RemoveRead, Idle
            <4>. HIDE DEF q
            <4>. QED  BY <4>1
        <3>. QED  BY <1>4, <3>1, <3>2, <3>3
    <2>2. \A s \in Requests : req'[s] = IF s = r THEN q ELSE req[s]
        BY <1>0, <2>1 DEF TypeOK
    <2>3. LinksCalm
        BY <1>4, <2>1, <2>2 DEF LinksCalm, JoinRead, ExpenseRead, RemoveRead
    <2>. QED  BY <2>3, CalmKeepsLinks
<1>5. ASSUME NEW r \in Requests, JoinSave(r) PROVE LinkInv'
    <2>. PICK name, user : name = req[r].names[1] /\ user = req[r].user
        OBVIOUS
    <2>. DEFINE new == Member(name, user)
                n == Len(group.members) + 1
                twins == Named(group.members, name)
    <2>0. Done(r) /\ user \in Guests /\ user # Owner
        BY <1>0, <1>5, GroupMembershipAssumption DEF JoinSave, WellFormed
    <2>1. CASE UNCHANGED <<group, settled>>
        <3>1. LinksCalm
            BY <2>0, <2>1, DoneStep DEF LinksCalm
        <3>. QED  BY <3>1, CalmKeepsLinks
    <2>2. CASE /\ group # None
               /\ group' = [v |-> group.v + 1, members |-> Append(group.members, new)]
               /\ settled' = IF twins = {} THEN settled \cup {user}
                             ELSE settled \ {group.members[i].linked : i \in twins}
        <3>0. new.name = name /\ new.linked = user
            BY DEF Member
        <3>. HIDE DEF new
        <3>1. group'.v = group.v + 1
            BY <2>2
        <3>2. /\ \A s \in Requests : ~Current(req[s], "edit")'
              /\ \A i : ~Claimed(i)'
            BY <2>0, <2>2, <3>1, NoneCurrent
        <3>. PICK last : last = n
            OBVIOUS
        <3>3. /\ DOMAIN group.members = 1..last - 1 /\ last \in Nat \ {0}
              /\ DOMAIN group'.members = 1..last
              /\ \A i \in 1..last - 1 : group'.members[i] = group.members[i]
              /\ group'.members[last] = new
            BY <1>0, <2>2 DEF Members
        <3>4. ASSUME NEW u \in settled, NEW k \in DOMAIN group.members,
                     HoldsAt(u, group.members, k), Fold[group.members[k].name] # Fold[name]
              PROVE  Holds(u, group.members)'
            <4>1. k \in DOMAIN group'.members /\ group'.members[k] = group.members[k]
                BY <3>3
            <4>2. \A i \in Named(group'.members, group'.members[k].name) :
                    /\ i \in Named(group.members, group.members[k].name)
                    /\ group'.members[i] = group.members[i]
                <5>. TAKE i \in Named(group'.members, group'.members[k].name)
                <5>1. i \in 1..last /\ i # last
                    BY <3>0, <3>3, <3>4, <4>1 DEF Named
                <5>. QED  BY <3>3, <4>1, <5>1 DEF Named
            <4>3. HoldsAt(u, group.members, k)'
                BY <3>2, <3>4, <4>1, <4>2 DEF HoldsAt
            <4>. QED  BY <4>1, <4>3 DEF Holds
        <3>5. ASSUME NEW u \in settled, u \in settled' PROVE Holds(u, group.members)'
            <4>1. PICK k \in DOMAIN group.members : HoldsAt(u, group.members, k)
                BY <2>2 DEF LinkInv, Holds
            <4>2. group.members[k].linked = u
                BY <4>1 DEF HoldsAt, Named
            <4>3. k \notin twins
                BY <2>2, <3>5, <4>2
            <4>4. Fold[group.members[k].name] # Fold[name]
                BY <4>3 DEF Named
            <4>. QED  BY <3>4, <4>1, <4>4
        <3>6. ASSUME NEW u \in settled', u \notin settled PROVE Holds(u, group.members)'
            <4>1. u = user /\ twins = {}
                BY <2>2, <3>6
            <4>2. last \in DOMAIN group'.members /\ group'.members[last].linked = u
                BY <3>0, <3>3, <4>1
            <4>3. \A i \in Named(group'.members, group'.members[last].name) : i = last
                <5>. TAKE i \in Named(group'.members, group'.members[last].name)
                <5>1. i \in 1..last /\ Fold[group'.members[i].name] = Fold[name]
                    BY <3>0, <3>3 DEF Named
                <5>2. i \in 1..last - 1 => i \in twins
                    BY <3>3, <5>1 DEF Named
                <5>. QED  BY <3>3, <4>1, <5>1, <5>2
            <4>4. HoldsAt(u, group.members, last)'
                BY <2>0, <3>2, <4>1, <4>2, <4>3 DEF HoldsAt
            <4>. QED  BY <4>2, <4>4 DEF Holds
        <3>. QED  BY <3>2, <3>5, <3>6 DEF LinkInv
    <2>. QED  BY <1>5, <2>1, <2>2 DEF JoinSave
<1>6. ASSUME NEW r \in Requests, EditRead(r) PROVE LinkInv'
    <2>. PICK names \in Edits :
            req' = [req EXCEPT ![r] =
              [Read(r, "edit", Owner) EXCEPT !.pc = "check", !.names = names,
                  !.read = Edited(group.members, names)]]
        BY <1>6 DEF EditRead
    <2>0. group # None /\ UNCHANGED <<group, settled>>
        BY <1>6 DEF EditRead
    <2>1. /\ req'[r].kind = "edit" /\ req'[r].names = names
          /\ req'[r].read = Edited(group.members, names)
          /\ \A s \in Requests \ {r} : req'[s] = req[s]
        BY <1>0 DEF TypeOK, Read, Idle
    <2>2. \A i : Claimed(i)' => Claimed(i)
        BY <2>0, <2>1 DEF Claimed, Current
    <2>3. ASSUME NEW u, NEW list, Holds(u, list) PROVE Holds(u, list)'
        BY <2>0, <2>2, <2>3 DEF Holds, HoldsAt
    <2>4. \A u \in settled : Holds(u, group.members)'
        <3>. TAKE u \in settled
        <3>1. PICK k \in DOMAIN group.members : HoldsAt(u, group.members, k)
            BY <2>0 DEF LinkInv, Holds
        <3>2. HoldsAt(u, group.members, k)'
            BY <2>0, <2>2, <3>1 DEF HoldsAt
        <3>. QED  BY <2>0, <3>2 DEF Holds
    <2>5. ASSUME NEW s \in Requests, Current(req[s], "edit")'
          PROVE  \E list \in Members : /\ SameNames(list)'
                                     /\ req'[s].read = Edited(list, req'[s].names)
                                     /\ \A u \in settled : Holds(u, list)'
        <3>1. CASE s = r
            <4>. PICK list : list = group.members
                OBVIOUS
            <4>1. list \in Members /\ SameNames(list)'
                BY <1>0, <2>0 DEF SameNames
            <4>2. \A u \in settled : Holds(u, list)'
                <5>1. \A u \in settled : Holds(u, list)
                    BY <2>0 DEF LinkInv
                <5>. QED  BY <2>3, <5>1
            <4>. QED  BY <2>1, <3>1, <4>1, <4>2
        <3>2. CASE s # r
            <4>1. req'[s] = req[s] /\ Current(req[s], "edit")
                BY <2>0, <2>1, <2>5, <3>2 DEF Current
            <4>2. PICK list \in Members : /\ SameNames(list)
                                        /\ req[s].read = Edited(list, req[s].names)
                                        /\ \A u \in settled : Holds(u, list)
                BY <2>0, <4>1 DEF LinkInv
            <4>3. SameNames(list)'
                BY <2>0, <4>2 DEF SameNames
            <4>4. \A u \in settled : Holds(u, list)'
                BY <2>3, <4>2
            <4>. QED  BY <4>1, <4>2, <4>3, <4>4
        <3>. QED  BY <3>1, <3>2
    <2>. QED  BY <2>0, <2>4, <2>5 DEF LinkInv
<1>7. ASSUME NEW r \in Requests, EditSave(r) PROVE LinkInv'
    <2>. PICK names, new : names = req[r].names /\ new = req[r].read
        OBVIOUS
    <2>0. Done(r) /\ req[r].kind = "edit" /\ names \in Seq(Written)
        BY <1>0, <1>7 DEF EditSave, Request
    <2>1. CASE UNCHANGED <<group, settled>>
        <3>1. LinksCalm
            BY <2>0, <2>1, DoneStep DEF LinksCalm
        <3>. QED  BY <3>1, CalmKeepsLinks
    <2>2. CASE /\ group # None /\ group.v = req[r].v
               /\ group' = [v |-> group.v + 1, members |-> new]
               /\ settled' = {u \in settled : \A i \in DOMAIN group.members :
                      group.members[i].linked = u =>
                         /\ ~ Missed(names, group.members[i].name)
                         /\ \/ u = Owner
                            \/ \E j \in DOMAIN names :
                                  Fold[names[j]] = Fold[group.members[i].name]}
        <3>1. /\ group'.members = new /\ group'.v = group.v + 1
              /\ \A s \in Requests : ~Current(req[s], "edit")'
              /\ \A i : ~Claimed(i)'
            BY <2>0, <2>2, NoneCurrent
        <3>2. PICK list \in Members : /\ SameNames(list)
                                    /\ new = Edited(list, names)
                                    /\ \A u \in settled : Holds(u, list)
            BY <2>0, <2>2 DEF LinkInv, Current
        <3>3. ASSUME NEW u \in settled' PROVE Holds(u, group.members)'
            <4>1. u \in settled
                BY <2>2, <3>3
            <4>2. PICK k \in DOMAIN group.members : HoldsAt(u, list, k)
                BY <3>2, <4>1 DEF Holds
            <4>. PICK n : n = group.members[k].name
                OBVIOUS
            <4>3. /\ Named(list, n) = Named(group.members, n) /\ Named(list, n) # {}
                  /\ \A i \in Named(list, n) : list[i].linked = u
                  /\ group.members[k].linked = u
                  /\ u = Owner => Yours(n)
                  /\ n \in Names
                BY <1>0, <2>2, MembersType, <3>2, <4>2 DEF SameNames, Named, HoldsAt
            <4>a. ~ Missed(names, n)
                BY <2>2, <3>3, <4>3
            <4>4. PICK x \in DOMAIN new :
                    /\ u = Owner => Yours(new[x].name)
                    /\ \A i \in Named(new, new[x].name) : new[i].linked = u
                <5>1. CASE \E j \in DOMAIN names : Fold[names[j]] = Fold[n]
                    <6>1. PICK j \in DOMAIN names : Fold[names[j]] = Fold[n]
                        BY <5>1
                    <6>2. PICK x \in DOMAIN new :
                            /\ Fold[new[x].name] = Fold[n]
                            /\ \A i \in Named(new, new[x].name) : new[i].linked = u
                        <7>1. Taken(list, n, u)
                            BY <3>2, <4>2, <4>3 DEF Taken, Named, SameNames
                        <7>2. Taken(Edited(list, names), n, u)
                            BY <2>0, <3>2, <4>3, <4>a, <6>1, <7>1, EditedHolds
                        <7>. QED  BY <3>2, <7>2 DEF Taken
                    <6>. QED  BY <4>3, <6>2 DEF Yours
                <5>2. CASE ~\E j \in DOMAIN names : Fold[names[j]] = Fold[n]
                    <6>1. u = Owner /\ \A j \in DOMAIN names : ~Yours(Trim[names[j]])
                        <7>1. u = Owner
                            BY <2>2, <3>3, <4>3, <5>2
                        <7>. QED  BY <4>3, <4>a, <5>2, <7>1 DEF Yours, Missed
                    <6>2. /\ \E x \in DOMAIN new : Yours(new[x].name)
                          /\ \A i \in DOMAIN new : Yours(new[i].name) => new[i].linked = Owner
                        BY <2>0, <3>2, <6>1, EditedPlaces
                    <6>. QED  BY <6>1, <6>2 DEF Named, Yours
                <5>. QED  BY <5>1, <5>2
            <4>5. HoldsAt(u, group.members, x)'
                BY <3>1, <4>4 DEF HoldsAt
            <4>. QED  BY <3>1, <4>4, <4>5 DEF Holds
        <3>. QED  BY <3>1, <3>3 DEF LinkInv
    <2>. QED  BY <1>7, <2>1, <2>2 DEF EditSave
<1>8. ASSUME NEW r \in Requests, EditCheck(r) PROVE LinkInv'
    <2>1. LinksCalm
        <3>1. CASE Done(r)
            BY <1>8, <3>1, DoneStep DEF EditCheck, LinksCalm
        <3>2. CASE req' = [req EXCEPT ![r].pc = "save"]
            BY <1>0, <1>8, <3>2 DEF EditCheck, LinksCalm, TypeOK, Request
        <3>. QED  BY <1>8, <3>1, <3>2 DEF EditCheck
    <2>. QED  BY <2>1, CalmKeepsLinks
<1>9. ASSUME NEW r \in Requests, ExpenseSave(r) \/ Fails(r) PROVE LinkInv'
    <2>1. LinksCalm
        BY <1>9, DoneStep DEF ExpenseSave, Fails, LinksCalm
    <2>. QED  BY <2>1, CalmKeepsLinks
<1>10. ASSUME NEW r \in Requests, RemoveGroup(r) PROVE LinkInv'
    BY <1>10 DEF RemoveGroup, LinkInv
<1>11. CASE DeleteExpense \/ UNCHANGED vars
    <2>1. LinksCalm
        BY <1>11 DEF DeleteExpense, vars, LinksCalm
    <2>. QED  BY <2>1, CalmKeepsLinks
<1>. QED  BY <1>1, <1>2, <1>3, <1>4, <1>5, <1>6, <1>7, <1>8, <1>9, <1>10, <1>11 DEF Next

\* Whoever was linked to a member without anybody contesting it stays linked, through any
\* joins, edits and claims, until the owner leaves the name out or sends it with white
\* space around it: for any lists of names and whatever they are trimmed and folded to.
THEOREM StaysLinked == Spec => []SettledStaysLinked
<1>1. TypeInv /\ LinkInv => SettledStaysLinked
    <2>. SUFFICES ASSUME TypeInv, LinkInv, group # None, NEW u \in settled
                  PROVE  u \in Linked(group.members)
        BY DEF SettledStaysLinked
    <2>1. u # None
        BY GroupMembershipAssumption DEF TypeInv, TypeOK
    <2>2. PICK k \in DOMAIN group.members : HoldsAt(u, group.members, k)
        BY DEF LinkInv, Holds
    <2>3. group.members[k].linked = u
        BY <2>2 DEF HoldsAt, Named
    <2>. QED  BY <2>1, <2>3 DEF Linked
<1>. QED  BY InitType, NextType, InitLinks, NextLinks, <1>1, PTL DEF Spec

=============================================================================
