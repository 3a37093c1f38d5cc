---------------------------- MODULE PlannerProofs ----------------------------
(***************************************************************************)
(* What the user plans with: the tasks, subscriptions and khata with the   *)
(* chat, the wipe of all data and the push tokens (Companion with Records  *)
(* and PushTokens), the bill reminders (Reminders), and what the user is   *)
(* told they can spend (Advice).                                           *)
(*                                                                         *)
(* The invariants, in this order: TokenInv keeps a device's token on one   *)
(* account.  PlannerTypeOK adds to the types that a task the chat is about *)
(* to create is not in the past.  WipeInv relates what a wipe has still to *)
(* delete to the documents that were there.  SubInv says of an update that *)
(* no other overlaps that it has computed the annual cost from the stored  *)
(* subscription. ReminderInv keeps the dates of a bill, and those on their *)
(* way to it, to days there are, and ScheduleInv a bill nobody edits to    *)
(* its schedule. AdviceInv keeps what an adviser has read true of the      *)
(* records, or on the safe side, while nothing spoils it.                  *)
(***************************************************************************)
EXTENDS Companion, Reminders, Advice, FiniteSetTheorems, SequenceTheorems,
        WellFoundedInduction, TLAPS
----------------------------------------------------------------------------
\* What holds of 0, and of a number if of the one before it, holds up to n.
LEMMA UpTo ==
    ASSUME NEW n \in Nat, NEW T,
           \A i \in 0..n : (i = 0 \/ i - 1 \in T) => i \in T
    PROVE  \A i \in 0..n : i \in T
<1>. DEFINE Out == {i \in 0..n : i \notin T}
<1>1. SUFFICES ASSUME Out # {} PROVE FALSE
    OBVIOUS
<1>2. PICK m \in Out : \A k \in Out : m <= k
    <2>. DEFINE R == {ss \in Nat \X Nat : ss[1] < ss[2]}
    <2>1. Out \subseteq Nat /\ IsWellFoundedOn(R, Nat)
        BY NatLessThanWellFounded DEF OpToRel
    <2>2. \A i, k \in Nat : <<k, i>> \in R <=> k < i
        OBVIOUS
    <2>. HIDE DEF R, Out
    <2>3. PICK m \in Out : \A k \in Out : ~ (<<k, m>> \in R)
        BY <1>1, <2>1, WFMin
    <2>4. \A k \in Out : ~ (k < m) /\ k \in Nat /\ m \in Nat
        BY <2>1, <2>2, <2>3
    <2>. QED  BY <2>3, <2>4
<1>3. CASE m = 0
    BY <1>3
<1>4. CASE m # 0
    <2>1. m - 1 \in 0..n /\ m - 1 \notin Out
        BY <1>2, <1>4
    <2>. QED  BY <2>1
<1>. QED  BY <1>3, <1>4

----------------------------------------------------------------------------
(***************************************************************************)
(* The tokens kept of a list.                                              *)
(***************************************************************************)
KeptStep(tokens, S, h, i) ==
    IF i = 0 THEN << >>
    ELSE IF tokens[i] \in S THEN h[i - 1] ELSE Append(h[i - 1], tokens[i])

KeptUpTo(tokens, S, n, h) == h = [i \in 0..n |-> KeptStep(tokens, S, h, i)]

\* The recursion of Pulled.
LEMMA PulledUnfold ==
    ASSUME NEW tokens, NEW S
    PROVE  Pulled(tokens, S) =
               (CHOOSE h : KeptUpTo(tokens, S, Len(tokens), h))[Len(tokens)]
BY DEF Pulled, KeptUpTo, KeptStep

\* There is a function of this kind.
LEMMA KeptExists ==
    ASSUME NEW tokens, NEW S, NEW n \in Nat
    PROVE  \E h : KeptUpTo(tokens, S, n, h)
<1>. DEFINE T == {m \in 0..n : \E h : KeptUpTo(tokens, S, m, h)}
<1>1. ASSUME NEW m \in 0..n, m = 0 \/ m - 1 \in T PROVE m \in T
    <2>1. CASE m = 0
        <3>. DEFINE h == [i \in 0..0 |-> << >>]
        <3>1. \A i \in 0..0 : h[i] = KeptStep(tokens, S, h, i)
            BY DEF KeptStep
        <3>2. h = [i \in 0..0 |-> h[i]]
            OBVIOUS
        <3>. HIDE DEF h
        <3>3. [i \in 0..0 |-> h[i]] = [i \in 0..0 |-> KeptStep(tokens, S, h, i)]
            BY <3>1
        <3>. QED  BY <2>1, <3>2, <3>3 DEF KeptUpTo
    <2>2. CASE m # 0
        <3>1. PICK g : KeptUpTo(tokens, S, m - 1, g)
            BY <1>1, <2>2
        <3>. DEFINE h == [i \in 0..m |-> IF i = m THEN KeptStep(tokens, S, g, m) ELSE g[i]]
        <3>2. ASSUME NEW i \in 0..m PROVE h[i] = KeptStep(tokens, S, h, i)
            <4>1. CASE i = m
                BY <2>2, <4>1 DEF KeptStep
            <4>2. CASE i # m
                <5>1. i \in 0..(m - 1)
                    BY <4>2
                <5>2. g[i] = KeptStep(tokens, S, g, i)
                    BY <3>1, <5>1 DEF KeptUpTo
                <5>3. h[i] = g[i]
                    BY <4>2
                <5>4. i # 0 => h[i - 1] = g[i - 1]
                    BY <5>1
                <5>. QED  BY <5>2, <5>3, <5>4 DEF KeptStep
            <4>. QED  BY <4>1, <4>2
        <3>3. h = [i \in 0..m |-> h[i]]
            OBVIOUS
        <3>. HIDE DEF h
        <3>4. [i \in 0..m |-> h[i]] = [i \in 0..m |-> KeptStep(tokens, S, h, i)]
            BY <3>2
        <3>. QED  BY <3>3, <3>4 DEF KeptUpTo
    <2>. QED  BY <2>1, <2>2
<1>. HIDE DEF T
<1>2. n \in T
    BY <1>1, UpTo
<1>. QED  BY <1>2 DEF T

\* Whether t is in a list at most once.
Once(tokens, t) ==
    \A i, j \in 1..Len(tokens) : tokens[i] = t /\ tokens[j] = t => i = j

In(tokens, t) == \E i \in 1..Len(tokens) : tokens[i] = t

\* Pulling keeps the others, none of them more often than before.
LEMMA PulledKeeps ==
    ASSUME NEW X, NEW tokens \in Seq(X), NEW S
    PROVE  /\ Pulled(tokens, S) \in Seq(X)
           /\ \A t : In(Pulled(tokens, S), t) => In(tokens, t) /\ t \notin S
           /\ \A t : Once(tokens, t) => Once(Pulled(tokens, S), t)
<1>. DEFINE n == Len(tokens)
            h == CHOOSE g : KeptUpTo(tokens, S, n, g)
<1>1. n \in Nat /\ KeptUpTo(tokens, S, n, h)
    BY KeptExists
<1>2. Pulled(tokens, S) = h[n]
    BY PulledUnfold
<1>. HIDE DEF h
<1>. DEFINE Early(i, t) == \E k \in 1..i : tokens[k] = t
            T == {i \in 0..n :
                    /\ h[i] \in Seq(X)
                    /\ \A t : In(h[i], t) => Early(i, t) /\ t \notin S
                    /\ \A t : Once(tokens, t) => Once(h[i], t)}
<1>3. ASSUME NEW i \in 0..n, i = 0 \/ i - 1 \in T PROVE i \in T
    <2>1. h[i] = KeptStep(tokens, S, h, i)
        BY <1>1 DEF KeptUpTo
    <2>2. CASE i = 0
        <3>1. h[i] = << >>
            BY <2>1, <2>2 DEF KeptStep
        <3>2. << >> \in Seq(X) /\ Len(<< >>) = 0
            OBVIOUS
        <3>3. \A t : ~ In(h[i], t) /\ Once(h[i], t)
            BY <3>1, <3>2 DEF In, Once
        <3>. QED  BY <3>1, <3>2, <3>3
    <2>3. CASE i # 0
        <3>1. i - 1 \in T /\ i \in 1..n /\ tokens[i] \in X
            BY <1>3, <2>3
        <3>2. CASE tokens[i] \in S
            <4>1. h[i] = h[i - 1]
                BY <2>1, <2>3, <3>2 DEF KeptStep
            <4>. QED  BY <3>1, <4>1
        <3>3. CASE tokens[i] \notin S
            <4>. DEFINE old == h[i - 1]
            <4>1. h[i] = Append(old, tokens[i]) /\ old \in Seq(X)
                BY <2>1, <2>3, <3>1, <3>3 DEF KeptStep
            <4>2. \A t : In(old, t) => Early(i - 1, t) /\ t \notin S
                BY <3>1
            <4>3. \A t : Once(tokens, t) => Once(old, t)
                BY <3>1
            <4>. HIDE DEF old
            <4>4. h[i] \in Seq(X) /\ Len(h[i]) = Len(old) + 1 /\ Len(old) \in Nat
                  /\ \A k \in 1..Len(old) : h[i][k] = old[k]
                BY <3>1, <4>1
            <4>4a. h[i][Len(old) + 1] = tokens[i]
                BY <3>1, <4>1
            <4>5. ASSUME NEW t, In(h[i], t) PROVE Early(i, t) /\ t \notin S
                <5>1. PICK k \in 1..Len(h[i]) : h[i][k] = t
                    BY <4>5 DEF In
                <5>2. CASE k = Len(old) + 1
                    BY <3>1, <3>3, <4>4a, <5>1, <5>2
                <5>3. CASE k # Len(old) + 1
                    <6>1. In(old, t)
                        BY <4>4, <5>1, <5>3 DEF In
                    <6>. QED  BY <3>1, <4>2, <6>1
                <5>. QED  BY <5>2, <5>3
            <4>6. ASSUME NEW t, Once(tokens, t) PROVE Once(h[i], t)
                <5>1. SUFFICES ASSUME NEW j \in 1..Len(h[i]), NEW k \in 1..Len(h[i]),
                                      h[i][j] = t, h[i][k] = t, j < k
                               PROVE  FALSE
                    BY <4>4 DEF Once
                <5>2. j \in 1..Len(old) /\ old[j] = t
                    BY <4>4, <5>1
                <5>3. CASE k = Len(old) + 1
                    <6>1. tokens[i] = t
                        BY <4>4a, <5>1, <5>3
                    <6>2. PICK l \in 1..(i - 1) : tokens[l] = t
                        BY <4>2, <5>2 DEF In
                    <6>3. i \in 1..Len(tokens) /\ l \in 1..Len(tokens) /\ l # i
                        BY <3>1
                    <6>. QED  BY <4>6, <6>1, <6>2, <6>3 DEF Once
                <5>4. CASE k # Len(old) + 1
                    <6>1. k \in 1..Len(old) /\ old[k] = t
                        BY <4>4, <5>1, <5>4
                    <6>2. Once(old, t)
                        BY <4>3, <4>6
                    <6>. QED  BY <5>1, <5>2, <6>1, <6>2 DEF Once
                <5>. QED  BY <5>3, <5>4
            <4>. QED  BY <4>4, <4>5, <4>6
        <3>. QED  BY <3>2, <3>3
    <2>. QED  BY <2>2, <2>3
<1>4. n \in T
    <2>. HIDE DEF T
    <2>. QED  BY <1>1, <1>3, UpTo
<1>5. \A t : Early(n, t) => In(tokens, t)
    BY DEF In
<1>. QED  BY <1>2, <1>4, <1>5
----------------------------------------------------------------------------
(***************************************************************************)
(* A token that no two registrations overlapped of is, if at all, on the   *)
(* account it was registered for last, and on none while it is about to be *)
(* registered.                                                             *)
(***************************************************************************)
Registering(c, t) == push[c].op = "register" /\ push[c].tokens = {t}

Placed(t) ==
    /\ \A u \in Accounts : Once(fcmTokens[u], t) /\ (In(fcmTokens[u], t) => holder[t] = u)
    /\ \A c, d \in Senders : Registering(c, t) /\ Registering(d, t) => c = d
    /\ \A c \in Senders, u \in Accounts : Registering(c, t) => ~ In(fcmTokens[u], t)

TokenInv ==
    /\ PushTypeOK
    /\ \A c \in Senders :
          /\ push[c].op # "idle" => push[c].user \in Accounts
          /\ push[c].op = "register" => \E t \in Tokens : push[c].tokens = {t}
    /\ \A t \in Tokens \ torn : Placed(t)

\* A list of which some were taken off.
Fewer(old, new) ==
    /\ new \in Seq(Tokens)
    /\ \A t : (In(new, t) => In(old, t)) /\ (Once(old, t) => Once(new, t))

\* Taking off is taking off.
LEMMA PulledFewer ==
    ASSUME NEW tokens \in Seq(Tokens), NEW S PROVE Fewer(tokens, Pulled(tokens, S))
BY PulledKeeps DEF Fewer

\* Only the newest are remembered; the one added is the last.
LEMMA NewestAdds ==
    ASSUME NEW tokens \in Seq(Tokens), NEW t \in Tokens
    PROVE  /\ Newest(Append(tokens, t)) \in Seq(Tokens)
           /\ \A x : In(Newest(Append(tokens, t)), x) => x = t \/ In(tokens, x)
           /\ \A x : Once(tokens, x) /\ (x = t => ~ In(tokens, x))
                        => Once(Newest(Append(tokens, t)), x)
<1>. DEFINE long == Append(tokens, t)
            n == Len(long)
            first == IF n > MaxTokens THEN n - MaxTokens + 1 ELSE 1
            new == SubSeq(long, first, n)
<1>1. /\ long \in Seq(Tokens) /\ n = Len(tokens) + 1 /\ Len(tokens) \in Nat /\ n \in Nat
      /\ \A i \in 1..Len(tokens) : long[i] = tokens[i]
      /\ long[Len(tokens) + 1] = t
    OBVIOUS
<1>2. first \in 1..(n + 1)
    BY <1>1, PushAssumption
<1>3. Newest(long) = new
    BY DEF Newest
<1>. HIDE DEF long, first
<1>4. /\ new \in Seq(Tokens) /\ Len(new) = n - first + 1
      /\ \A i \in 1..Len(new) : new[i] = long[first + i - 1] /\ first + i - 1 \in 1..n
    BY <1>1, <1>2
<1>. HIDE DEF new
<1>5. ASSUME NEW x, In(new, x) PROVE x = t \/ In(tokens, x)
    <2>1. PICK i \in 1..Len(new) : new[i] = x
        BY <1>5 DEF In
    <2>2. PICK k \in 1..n : long[k] = x
        BY <1>4, <2>1
    <2>. QED  BY <1>1, <2>2 DEF In
<1>6. ASSUME NEW x, Once(tokens, x), x = t => ~ In(tokens, x) PROVE Once(new, x)
    <2>1. SUFFICES ASSUME NEW i \in 1..Len(new), NEW j \in 1..Len(new),
                          new[i] = x, new[j] = x, i < j
                   PROVE  FALSE
        BY <1>2, <1>4 DEF Once
    <2>2. PICK k \in 1..n, l \in 1..n : long[k] = x /\ long[l] = x /\ k < l
        <3>1. first + i - 1 < first + j - 1
            BY <1>2, <2>1
        <3>. QED  BY <1>4, <2>1, <3>1
    <2>3. k \in 1..Len(tokens) /\ tokens[k] = x
        BY <1>1, <2>2
    <2>4. In(tokens, x)
        BY <2>3 DEF In
    <2>5. x # t
        BY <1>6, <2>4
    <2>6. l \in 1..Len(tokens) /\ tokens[l] = x
        BY <1>1, <2>2, <2>5
    <2>. QED  BY <1>6, <2>2, <2>3, <2>6 DEF Once
<1>. QED  BY <1>3, <1>4, <1>5, <1>6 DEF long

\* An empty list has nothing.
LEMMA NothingIn == << >> \in Seq(Tokens) /\ \A t : ~ In(<< >>, t) /\ Once(<< >>, t)
<1>1. << >> \in Seq(Tokens) /\ Len(<< >>) = 0
    OBVIOUS
<1>. QED  BY <1>1 DEF In, Once

\* A step that registers nobody and takes tokens off at most.
LEMMA FewerKeeps ==
    ASSUME TokenInv,
           fcmTokens' \in [Accounts -> Seq(Tokens)],
           \A u \in Accounts : Fewer(fcmTokens[u], fcmTokens'[u]),
           UNCHANGED <<holder, torn>>,
           push' \in [Senders -> PushCall],
           \A c \in Senders : \/ push'[c] = push[c]
                              \/ push'[c] = IdlePush
                              \/ push'[c].op = "send" /\ push'[c].user \in Accounts
    PROVE  TokenInv'
<1>1. PushTypeOK'
    BY DEF TokenInv, PushTypeOK
<1>2. \A c \in Senders : \A t : Registering(c, t)' => Registering(c, t)
    BY DEF Registering, IdlePush
<1>3. ASSUME NEW c \in Senders
      PROVE  /\ (push[c].op # "idle" => push[c].user \in Accounts)'
             /\ (push[c].op = "register" => \E t \in Tokens : push[c].tokens = {t})'
    BY DEF TokenInv, IdlePush
<1>4. ASSUME NEW t \in Tokens \ torn PROVE Placed(t)'
    <2>1. Placed(t)
        BY DEF TokenInv
    <2>. QED  BY <1>2, <2>1 DEF Placed, Fewer
<1>. QED  BY <1>1, <1>3, <1>4 DEF TokenInv

\* What the steps do to tokens.
LEMMA TokenSteps ==
    ASSUME TokenInv, NEW c \in Senders, NEW u \in Accounts,
           TokenStart(c) \/ TokenContinue(c) \/ SendRead(c, u)
    PROVE  TokenInv'
<1>. USE DEF TokenInv, PushTypeOK
<1>1. ASSUME NEW user \in Accounts, NEW t \in Tokens, RegisterPull(c, user, t)
      PROVE  TokenInv'
    <2>1. /\ fcmTokens' = [v \in Accounts |-> Pulled(fcmTokens[v], {t})]
          /\ holder' = holder
          /\ push' = [push EXCEPT ![c] = [op |-> "register", user |-> user, tokens |-> {t}]]
          /\ push[c] = IdlePush
        BY <1>1 DEF RegisterPull, PullEverywhere
    <2>2. \A v \in Accounts : Fewer(fcmTokens[v], fcmTokens'[v])
        BY <2>1, PulledFewer
    <2>3. \A v \in Accounts : ~ In(fcmTokens'[v], t)
        BY <2>1, PulledKeeps
    <2>4. torn' \subseteq Tokens
        BY <1>1 DEF RegisterPull
    <2>5. PushTypeOK'
        <3>1. fcmTokens' \in [Accounts -> Seq(Tokens)]
            BY <2>1, <2>2 DEF Fewer
        <3>2. push' \in [Senders -> PushCall]
            BY <2>1 DEF PushCall
        <3>. QED  BY <2>1, <2>4, <3>1, <3>2
    <2>6. \A d \in Senders : \A x :
            Registering(d, x)' => Registering(d, x) \/ (d = c /\ x = t)
        BY <2>1 DEF Registering
    <2>7. ASSUME NEW x \in Tokens \ torn' PROVE Placed(x)'
        <3>1. CASE x # t
            <4>1. x \notin torn
                BY <1>1, <3>1 DEF RegisterPull
            <4>2. Placed(x)
                BY <4>1
            <4>3. \A d \in Senders : Registering(d, x)' => Registering(d, x)
                BY <2>6, <3>1
            <4>4. ASSUME NEW v \in Accounts
                  PROVE  /\ In(fcmTokens'[v], x) => In(fcmTokens[v], x)
                         /\ Once(fcmTokens[v], x) => Once(fcmTokens'[v], x)
                BY <2>2 DEF Fewer
            <4>. QED  BY <2>1, <4>2, <4>3, <4>4 DEF Placed
        <3>2. CASE x = t
            <4>1. {d \in Senders : push[d].op = "register" /\ push[d].tokens = {t}} = {}
                BY <1>1, <2>7, <3>2 DEF RegisterPull
            <4>2. \A d \in Senders : Registering(d, x)' => d = c
                BY <2>6, <3>2, <4>1 DEF Registering
            <4>3. \A v \in Accounts : Once(fcmTokens'[v], t)
                BY <2>3 DEF In, Once
            <4>. QED  BY <2>3, <3>2, <4>2, <4>3 DEF Placed
        <3>. QED  BY <3>1, <3>2
    <2>8. ASSUME NEW d \in Senders
          PROVE  /\ (push[d].op # "idle" => push[d].user \in Accounts)'
                 /\ (push[d].op = "register" => \E x \in Tokens : push[d].tokens = {x})'
        BY <2>1
    <2>. QED  BY <2>5, <2>7, <2>8
<1>2. ASSUME RegisterPush(c) PROVE TokenInv'
    <2>1. PICK t \in push[c].tokens :
            /\ fcmTokens' = [fcmTokens EXCEPT ![push[c].user] = Newest(Append(@, t))]
            /\ holder' = [holder EXCEPT ![t] = push[c].user]
        BY <1>2 DEF RegisterPush
    <2>. DEFINE user == push[c].user
    <2>2. /\ push[c].op = "register" /\ user \in Accounts /\ t \in Tokens
          /\ push[c].tokens = {t}
          /\ push' = [push EXCEPT ![c] = IdlePush] /\ torn' = torn
        BY <1>2, <2>1 DEF RegisterPush
    <2>. HIDE DEF user
    <2>3. /\ \A v \in Accounts : v # user => fcmTokens'[v] = fcmTokens[v]
          /\ fcmTokens'[user] = Newest(Append(fcmTokens[user], t))
        BY <2>1, <2>2 DEF user
    <2>4. /\ fcmTokens'[user] \in Seq(Tokens)
          /\ \A x : In(fcmTokens'[user], x) => x = t \/ In(fcmTokens[user], x)
          /\ \A x : Once(fcmTokens[user], x) /\ (x = t => ~ In(fcmTokens[user], x))
                       => Once(fcmTokens'[user], x)
        <3>1. fcmTokens[user] \in Seq(Tokens)
            BY <2>2
        <3>2. t \in Tokens
            BY <2>2
        <3>3. Newest(Append(fcmTokens[user], t)) \in Seq(Tokens)
            BY <3>1, <3>2, NewestAdds
        <3>4. \A x : In(Newest(Append(fcmTokens[user], t)), x) => x = t \/ In(fcmTokens[user], x)
            BY <3>1, <3>2, NewestAdds
        <3>5. \A x : Once(fcmTokens[user], x) /\ (x = t => ~ In(fcmTokens[user], x))
                        => Once(Newest(Append(fcmTokens[user], t)), x)
            BY <3>1, <3>2, NewestAdds
        <3>. QED  BY <2>3, <3>3, <3>4, <3>5
    <2>5. PushTypeOK'
        <3>1. fcmTokens' \in [Accounts -> Seq(Tokens)]
            BY <2>1, <2>2, <2>4 DEF user
        <3>2. push' \in [Senders -> PushCall]
            BY <2>2 DEF PushCall, IdlePush
        <3>3. holder' \in [Tokens -> Accounts \cup {Nobody}]
            BY <2>1, <2>2 DEF user
        <3>. QED  BY <2>2, <3>1, <3>2, <3>3
    <2>6. \A d \in Senders : \A x : Registering(d, x)' => Registering(d, x) /\ d # c
        BY <2>2 DEF Registering, IdlePush
    <2>7. Registering(c, t)
        BY <2>2 DEF Registering
    <2>8. ASSUME NEW x \in Tokens \ torn PROVE Placed(x)'
        <3>1. Placed(x)
            OBVIOUS
        <3>2. CASE x # t
            BY <2>1, <2>2, <2>3, <2>4, <2>6, <3>1, <3>2 DEF Placed
        <3>3. CASE x = t
            <4>1. \A v \in Accounts : ~ In(fcmTokens[v], t)
                BY <2>7, <3>1, <3>3 DEF Placed
            <4>2. \A d \in Senders : ~ Registering(d, t)'
                BY <2>6, <2>7, <3>1, <3>3 DEF Placed
            <4>3. holder'[t] = user
                BY <2>1, <2>2 DEF user
            <4>4. \A v \in Accounts : Once(fcmTokens'[v], t)
                BY <2>2, <2>3, <2>4, <3>1, <3>3, <4>1 DEF Placed
            <4>5. \A v \in Accounts : In(fcmTokens'[v], t) => v = user
                BY <2>3, <4>1
            <4>. QED  BY <3>3, <4>2, <4>3, <4>4, <4>5 DEF Placed
        <3>. QED  BY <3>2, <3>3
    <2>9. ASSUME NEW d \in Senders
          PROVE  /\ (push[d].op # "idle" => push[d].user \in Accounts)'
                 /\ (push[d].op = "register" => \E x \in Tokens : push[d].tokens = {x})'
        BY <2>2 DEF IdlePush
    <2>. QED  BY <2>2, <2>5, <2>8, <2>9
<1>3. ASSUME NEW v \in Accounts, NEW S,
             fcmTokens' = [fcmTokens EXCEPT ![v] = Pulled(@, S)],
             push' = push \/ push' = [push EXCEPT ![c] = IdlePush],
             UNCHANGED <<holder, torn>>
      PROVE  TokenInv'
    <2>1. /\ fcmTokens' \in [Accounts -> Seq(Tokens)]
          /\ \A w \in Accounts : Fewer(fcmTokens[w], fcmTokens'[w])
        <3>1. Fewer(fcmTokens[v], Pulled(fcmTokens[v], S))
            BY PulledFewer
        <3>. QED  BY <1>3, <3>1 DEF Fewer
    <2>2. push' \in [Senders -> PushCall]
        <3>1. IdlePush \in PushCall
            BY DEF PushCall, IdlePush
        <3>. QED  BY <1>3, <3>1
    <2>3. \A d \in Senders : push'[d] = push[d] \/ push'[d] = IdlePush
        BY <1>3
    <2>. QED  BY <1>3, <2>1, <2>2, <2>3, FewerKeeps
<1>4. ASSUME NEW v \in Accounts, ClearTokens(v) PROVE TokenInv'
    <2>1. /\ fcmTokens' \in [Accounts -> Seq(Tokens)]
          /\ \A w \in Accounts : Fewer(fcmTokens[w], fcmTokens'[w])
        BY <1>4, NothingIn DEF ClearTokens, Fewer
    <2>. QED  BY <1>4, <2>1, FewerKeeps DEF ClearTokens
<1>5. \A w \in Accounts : Fewer(fcmTokens[w], fcmTokens[w])
    BY DEF Fewer
<1>6. ASSUME SendRead(c, u) PROVE TokenInv'
    <2>1. Range(fcmTokens[u]) \subseteq Tokens
        <3>1. fcmTokens[u] \in Seq(Tokens)
            OBVIOUS
        <3>. QED  BY <3>1 DEF Range
    <2>2. push' \in [Senders -> PushCall]
        BY <1>6, <2>1 DEF SendRead, PushCall
    <2>3. \A d \in Senders : \/ push'[d] = push[d]
                             \/ push'[d].op = "send" /\ push'[d].user \in Accounts
        BY <1>6 DEF SendRead
    <2>. QED  BY <1>5, <1>6, <2>2, <2>3, FewerKeeps DEF SendRead
<1>7. ASSUME SenderStops(c) PROVE TokenInv'
    <2>1. push' \in [Senders -> PushCall] /\ \A d \in Senders : push'[d] \in {push[d], IdlePush}
        BY <1>7 DEF SenderStops, PushCall, IdlePush
    <2>. QED  BY <1>5, <1>7, <2>1, FewerKeeps DEF SenderStops
<1>8. ASSUME NEW dead \in SUBSET push[c].tokens, SendAnswer(c, dead) PROVE TokenInv'
    BY <1>3, <1>8 DEF SendAnswer
<1>9. ASSUME NEW v \in Accounts, NEW t \in Tokens, RemoveToken(v, t) PROVE TokenInv'
    BY <1>3, <1>9 DEF RemoveToken
<1>. QED  BY <1>1, <1>2, <1>4, <1>6, <1>7, <1>8, <1>9 DEF TokenStart, TokenContinue

\* The devices there are at first.
LEMMA TokensAtFirst == TokenInit => TokenInv
<1>. SUFFICES ASSUME TokenInit PROVE TokenInv
    OBVIOUS
<1>1. fcmTokens \in [Accounts -> Seq(Tokens)]
    BY PushAssumption DEF TokenInit
<1>2. PushTypeOK
    BY <1>1 DEF TokenInit, PushTypeOK, PushCall, IdlePush
<1>3. ASSUME NEW t \in Tokens PROVE Placed(t)
    <2>1. \A c \in Senders : ~ Registering(c, t)
        BY DEF TokenInit, Registering, IdlePush
    <2>2. ASSUME NEW u \in Accounts
          PROVE  Once(fcmTokens[u], t) /\ (In(fcmTokens[u], t) => holder[t] = u)
        <3>1. /\ IsInjective(fcmTokens[u])
              /\ Range(fcmTokens[u]) = {x \in Tokens : holder[x] = u}
              /\ fcmTokens[u] \in Seq(Tokens)
            BY <1>1 DEF TokenInit
        <3>. QED  BY <3>1 DEF Once, In, Range, IsInjective
    <2>. QED  BY <2>1, <2>2 DEF Placed
<1>. QED  BY <1>2, <1>3 DEF TokenInv, TokenInit, IdlePush
----------------------------------------------------------------------------
(***************************************************************************)
(* Dates.                                                                  *)
(***************************************************************************)
\* A date after another is not before it.
LEMMA BeforeOrder ==
    ASSUME NEW d \in Int \X Int, NEW e \in Int \X Int, NEW f \in Int \X Int
    PROVE  /\ ~ Before(d, d)
           /\ Before(d, e) => ~ Before(e, d)
           /\ Before(d, e) /\ ~ Before(f, e) => Before(d, f)
           /\ ~ Before(d, e) /\ Before(d, f) => ~ Before(f, e)
BY DEF Before

\* Tomorrow is the first day there is after a date.
LEMMA TomorrowNext ==
    ASSUME NEW d \in CalendarDate
    PROVE  /\ Tomorrow(d) \in CalendarDate /\ IsValidDateKey(Tomorrow(d))
           /\ Before(d, Tomorrow(d))
           /\ \A e \in CalendarDate : IsValidDateKey(e) /\ Before(d, e) => ~ Before(e, Tomorrow(d))
<1>. PICK y \in Int, n \in 1..YearDays : d = <<y, n>>
    BY DEF CalendarDate
<1>1. YearDays \in Nat /\ LeapDay \in Nat /\ 1 <= LeapDay /\ LeapDay < YearDays
    BY CompanionAssumption
<1>2. CASE n = YearDays
    BY <1>1, <1>2 DEF Tomorrow, Before, CalendarDate, IsValidDateKey
<1>3. CASE n # YearDays
    BY <1>1, <1>3 DEF Tomorrow, Before, CalendarDate, IsValidDateKey
<1>. QED  BY <1>2, <1>3

DaysStep(d, h, k) == IF k = 0 THEN d ELSE Tomorrow(h[k - 1])

DaysUpTo(d, n, h) == h = [k \in 0..n |-> DaysStep(d, h, k)]

\* The recursion of DaysAfter.
LEMMA DaysAfterUnfold ==
    ASSUME NEW d, NEW n
    PROVE  DaysAfter(d, n) = (CHOOSE h : DaysUpTo(d, n, h))[n]
BY DEF DaysAfter, DaysUpTo, DaysStep

\* There is a function of this kind.
LEMMA DaysExist ==
    ASSUME NEW d, NEW n \in Nat
    PROVE  \E h : DaysUpTo(d, n, h)
<1>. DEFINE T == {m \in 0..n : \E h : DaysUpTo(d, m, h)}
<1>1. ASSUME NEW m \in 0..n, m = 0 \/ m - 1 \in T PROVE m \in T
    <2>1. CASE m = 0
        <3>. DEFINE h == [k \in 0..0 |-> d]
        <3>1. \A k \in 0..0 : h[k] = DaysStep(d, h, k)
            BY DEF DaysStep
        <3>2. h = [k \in 0..0 |-> h[k]]
            OBVIOUS
        <3>. HIDE DEF h
        <3>3. [k \in 0..0 |-> h[k]] = [k \in 0..0 |-> DaysStep(d, h, k)]
            BY <3>1
        <3>. QED  BY <2>1, <3>2, <3>3 DEF DaysUpTo
    <2>2. CASE m # 0
        <3>1. PICK g : DaysUpTo(d, m - 1, g)
            BY <1>1, <2>2
        <3>. DEFINE h == [k \in 0..m |-> IF k = m THEN DaysStep(d, g, m) ELSE g[k]]
        <3>2. ASSUME NEW k \in 0..m PROVE h[k] = DaysStep(d, h, k)
            <4>1. CASE k = m
                BY <2>2, <4>1 DEF DaysStep
            <4>2. CASE k # m
                <5>1. k \in 0..(m - 1)
                    BY <4>2
                <5>2. g[k] = DaysStep(d, g, k)
                    BY <3>1, <5>1 DEF DaysUpTo
                <5>3. h[k] = g[k]
                    BY <4>2
                <5>4. k # 0 => h[k - 1] = g[k - 1]
                    BY <5>1
                <5>. QED  BY <5>2, <5>3, <5>4 DEF DaysStep
            <4>. QED  BY <4>1, <4>2
        <3>3. h = [k \in 0..m |-> h[k]]
            OBVIOUS
        <3>. HIDE DEF h
        <3>4. [k \in 0..m |-> h[k]] = [k \in 0..m |-> DaysStep(d, h, k)]
            BY <3>2
        <3>. QED  BY <3>3, <3>4 DEF DaysUpTo
    <2>. QED  BY <2>1, <2>2
<1>. HIDE DEF T
<1>2. n \in T
    BY <1>1, UpTo
<1>. QED  BY <1>2 DEF T

\* Days after a date there is are dates there are, and not before it.
LEMMA DaysAfterLater ==
    ASSUME NEW d \in CalendarDate, IsValidDateKey(d), NEW n \in Nat
    PROVE  /\ DaysAfter(d, n) \in CalendarDate
           /\ ~ Before(DaysAfter(d, n), d)
<1>. DEFINE h == CHOOSE g : DaysUpTo(d, n, g)
            T == {k \in 0..n : h[k] \in CalendarDate /\ ~ Before(h[k], d)}
<1>1. DaysUpTo(d, n, h) /\ DaysAfter(d, n) = h[n]
    BY DaysExist, DaysAfterUnfold
<1>. HIDE DEF h
<1>2. ASSUME NEW k \in 0..n, k = 0 \/ k - 1 \in T PROVE k \in T
    <2>1. h[k] = DaysStep(d, h, k)
        BY <1>1 DEF DaysUpTo
    <2>2. CASE k = 0
        BY <2>1, <2>2, BeforeOrder DEF DaysStep, CalendarDate
    <2>3. CASE k # 0
        <3>1. h[k] = Tomorrow(h[k - 1])
            BY <2>1, <2>3 DEF DaysStep
        <3>2. h[k - 1] \in CalendarDate /\ ~ Before(h[k - 1], d)
            BY <1>2, <2>3
        <3>3. h[k] \in CalendarDate /\ Before(h[k - 1], h[k])
            BY <3>1, <3>2, TomorrowNext
        <3>4. ~ Before(h[k], d)
            BY <3>2, <3>3, BeforeOrder DEF CalendarDate
        <3>. QED  BY <3>3, <3>4
    <2>. QED  BY <2>2, <2>3
<1>3. n \in T
    <2>. HIDE DEF T
    <2>. QED  BY <1>2, UpTo
<1>. QED  BY <1>1, <1>3

Asked(s, ai, due) ==
    \/ s.date.kind = "explicit"
    \/ s.date.kind = "day" /\ s.date.n = LeapDay
    \/ due = ai /\ Tomorrow(ai) = Today

\* What a sentence is understood to mean is today or later, but for what was asked for.
LEMMA ParsedAhead ==
    ASSUME NEW s \in Sentences, NEW ai \in ModelDates,
           NEW due, due = MergeDate(ai, ExtractDate(s.date))
    PROVE  /\ due \in Int \X Int
           /\ Before(due, Today) => Asked(s, ai, due)
<1>1. /\ Today \in CalendarDate /\ IsValidDateKey(Today)
      /\ YearDays \in Nat /\ LeapDay \in 1..(YearDays - 1)
      /\ ModelDates \subseteq CalendarDate \cup {None}
      /\ s.date.kind \in {"none", "days", "day", "explicit"}
      /\ s.date.n \in Nat /\ s.date.year \in Int
    BY CompanionAssumption
<1>2. CASE ai # None /\ IsValidDateKey(ai) /\ ~ Before(Tomorrow(ai), Today)
    <2>1. due = ai /\ ai \in CalendarDate
        BY <1>1, <1>2 DEF MergeDate
    <2>2. ASSUME Before(ai, Today) PROVE Tomorrow(ai) = Today
        <3>1. /\ Tomorrow(ai) \in CalendarDate
              /\ ~ Before(Today, Tomorrow(ai)) /\ ~ Before(Tomorrow(ai), Today)
            BY <1>1, <1>2, <2>1, <2>2, TomorrowNext
        <3>. QED  BY <1>1, <3>1 DEF Before, CalendarDate
    <2>. QED  BY <2>1, <2>2 DEF Asked, CalendarDate
<1>3. CASE ~ (ai # None /\ IsValidDateKey(ai) /\ ~ Before(Tomorrow(ai), Today))
    <2>1. due = ExtractDate(s.date)
        BY <1>3 DEF MergeDate
    <2>2. Today \in Int \X Int /\ ~ Before(Today, Today)
        BY <1>1, BeforeOrder DEF CalendarDate
    <2>3. CASE s.date.kind = "none"
        BY <2>1, <2>2, <2>3 DEF ExtractDate
    <2>4. CASE s.date.kind = "days"
        <3>1. due = DaysAfter(Today, s.date.n)
            BY <2>1, <2>4 DEF ExtractDate
        <3>. QED  BY <1>1, <3>1, DaysAfterLater DEF CalendarDate
    <2>5. CASE s.date.kind = "day"
        <3>1. due = Pick(s.date.n)
            BY <2>1, <2>5 DEF ExtractDate
        <3>2. PICK y \in Int, n \in Int : Today = <<y, n>>
            BY <1>1 DEF CalendarDate
        <3>. QED  BY <1>1, <2>2, <2>5, <3>1, <3>2 DEF Pick, IsValidDateKey, Before, Asked
    <2>6. CASE s.date.kind = "explicit"
        BY <1>1, <2>1, <2>2, <2>6 DEF ExtractDate, Asked
    <2>. QED  BY <1>1, <2>3, <2>4, <2>5, <2>6
<1>. QED  BY <1>2, <1>3

----------------------------------------------------------------------------
(***************************************************************************)
(* The records and requests there can be.                                  *)
(***************************************************************************)
\* The requests; a task the chat is about to create is due today or later, or asked for.
AnyCall ==
    {x \in Call \cup AssistantCall \cup WipeCall :
        x.op = "chat" /\ Before(x.due, Today) => x.asked}

StoreTypeOK ==
    /\ khata \in [Ids -> {"none", "pending", "settled"}]
    /\ tasks \in [Ids -> Task \cup {None}]
    /\ subs \in [Ids -> Sub \cup {None}]
    /\ mixed \subseteq Ids
    /\ transactions \subseteq Calls /\ notifications \subseteq Calls
    /\ rest \subseteq Rest

PlannerTypeOK == StoreTypeOK /\ call \in [Calls -> AnyCall \cup {None}]

\* What the requests of each kind carry.
LEMMA RequestFields ==
    ASSUME NEW x \in AnyCall
    PROVE  /\ x # None
           /\ x.op = "toggle" => x.id \in Ids /\ x.status \in {"pending", "settled"}
           /\ x.op = "task" => /\ x.id \in Ids /\ x.status \in {"todo", "done"}
                               /\ x.completes \in BOOLEAN
           /\ x.op = "sub" => /\ x.id \in Ids /\ x.annual \in Nat /\ x.alone \in BOOLEAN
                              /\ x.amount \in Amounts \cup {None}
                              /\ x.cycle \in Cycles \cup {None}
           /\ x.op = "chat" => x.topics \subseteq STRING
           /\ x.op = "wipe" => x \in WipeCall
<1>1. x # None
    BY RecordsAssumption, CompanionAssumption DEF AnyCall
<1>2. x \in Call \/ x \in AssistantCall \/ x \in WipeCall
    BY DEF AnyCall
<1>. QED  BY <1>1, <1>2 DEF Call, AssistantCall, WipeCall

\* Requests that an action makes.
LEMMA RequestKinds ==
    /\ [op |-> "ended"] \in AnyCall
    /\ [op |-> "notify"] \in AnyCall
    /\ \A reply \in Replies : [op |-> "replied", reply |-> reply] \in AnyCall
    /\ \A x \in Call \cup WipeCall : x \in AnyCall
<1>1. [op |-> "ended"] \in Call /\ [op |-> "notify"] \in AssistantCall
    BY DEF Call, AssistantCall
<1>2. \A reply \in Replies : [op |-> "replied", reply |-> reply] \in AssistantCall
    BY DEF AssistantCall
<1>3. \A x \in Call \cup WipeCall : x.op # "chat"
    BY DEF Call, WipeCall
<1>. QED  BY <1>1, <1>2, <1>3 DEF AnyCall

\* What is answered is a text.
LEMMA ReplyText ==
    ASSUME NEW topics, NEW model \in BOOLEAN PROVE Reply(topics, model) \in Replies
BY DEF Reply, Replies

\* What an update computes is an amount.
LEMMA AnnualNat ==
    ASSUME NEW old \in Sub, NEW amount \in Amounts \cup {None}, NEW cycle \in Cycles \cup {None}
    PROVE  NewAnnual(old, amount, cycle) \in Nat
<1>1. \A a \in Nat : \A cy : AnnualCost(a, cy) \in Nat
    BY DEF AnnualCost, MONTHS_PER_YEAR
<1>2. (IF amount = None THEN old.amount ELSE amount) \in Nat
    BY RecordsAssumption DEF Sub
<1>. QED  BY <1>1, <1>2 DEF NewAnnual

\* One request goes on.
LEMMA OneCall ==
    ASSUME PlannerTypeOK, NEW c \in Calls, NEW x \in AnyCall,
           call' = [call EXCEPT ![c] = x]
    PROVE  /\ call' \in [Calls -> AnyCall \cup {None}]
           /\ call'[c] = x
           /\ \A d \in Calls : d # c => call'[d] = call[d]
BY DEF PlannerTypeOK

\* What an update reads, and whom it tells that it overlaps them.
LEMMA SubReadCalls ==
    ASSUME PlannerTypeOK, NEW c \in Calls, NEW i \in Ids,
           NEW a \in Amounts \cup {None}, NEW cy \in Cycles \cup {None}, SubRead(c, i, a, cy)
    PROVE  /\ call' = [d \in Calls |-> call'[d]]
           /\ call'[c] \in Call /\ call'[c].op = "sub" /\ call'[c].id = i
           /\ call'[c].amount = a /\ call'[c].cycle = cy
           /\ call'[c].annual = NewAnnual(subs[i], a, cy)
           /\ call'[c].alone => \A d \in Calls : ~ (At(d, "sub") /\ call[d].id = i)
           /\ \A d \in Calls : d # c =>
                 \/ call'[d] = call[d] /\ ~ (At(d, "sub") /\ call[d].id = i)
                 \/ /\ At(d, "sub") /\ call[d].id = i
                    /\ call'[d] \in Call /\ call'[d].op = "sub" /\ call'[d].id = i
                    /\ ~ call'[d].alone
<1>. DEFINE others == {d \in Calls : At(d, "sub") /\ call[d].id = i}
            x == [op |-> "sub", id |-> i, amount |-> a, cycle |-> cy,
                  annual |-> NewAnnual(subs[i], a, cy), alone |-> others = {}]
<1>1. x \in Call
    <2>1. subs[i] \in Sub
        BY DEF SubRead, PlannerTypeOK, StoreTypeOK
    <2>2. NewAnnual(subs[i], a, cy) \in Nat
        BY <2>1, AnnualNat
    <2>. QED  BY <2>2 DEF Call
<1>2. ASSUME NEW d \in others
      PROVE  LET y == [call[d] EXCEPT !.alone = FALSE]
             IN y \in Call /\ y.op = "sub" /\ y.id = i /\ ~ y.alone
    <2>1. call[d] \in [op : {"sub"}, id : Ids, amount : Amounts \cup {None},
                       cycle : Cycles \cup {None}, annual : Nat, alone : BOOLEAN]
        BY DEF PlannerTypeOK, At, AnyCall, Call, AssistantCall, WipeCall
    <2>. QED  BY <2>1 DEF Call
<1>3. call' = [d \in Calls |-> IF d = c THEN x
                               ELSE IF d \in others THEN [call[d] EXCEPT !.alone = FALSE]
                               ELSE call[d]]
    BY DEF SubRead
<1>4. call' = [d \in Calls |-> call'[d]] /\ call'[c] = x
    BY <1>3
<1>5. /\ x.op = "sub" /\ x.id = i /\ x.amount = a /\ x.cycle = cy
      /\ x.annual = NewAnnual(subs[i], a, cy) /\ x.alone = (others = {})
    OBVIOUS
<1>6. ASSUME NEW d \in Calls, d # c
      PROVE  \/ call'[d] = call[d] /\ ~ (At(d, "sub") /\ call[d].id = i)
             \/ /\ At(d, "sub") /\ call[d].id = i
                /\ call'[d] \in Call /\ call'[d].op = "sub" /\ call'[d].id = i
                /\ ~ call'[d].alone
    BY <1>2, <1>3, <1>6
<1>. HIDE DEF x
<1>. QED  BY <1>1, <1>4, <1>5, <1>6

\* The screens keep the types.
LEMMA ScreensTyped == PlannerTypeOK /\ Screens => PlannerTypeOK'
<1>. SUFFICES ASSUME PlannerTypeOK, Screens PROVE PlannerTypeOK'
    OBVIOUS
<1>. USE DEF PlannerTypeOK, StoreTypeOK
<1>0. UNCHANGED <<tokenVars, transactions, notifications, rest>> /\ Calls \subseteq Ids
    BY DEF Screens, Ids
<1>1. ASSUME NEW c \in Calls, Ends(c) PROVE call' \in [Calls -> AnyCall \cup {None}]
    BY <1>1, OneCall, RequestKinds DEF Ends
<1>2. ASSUME NEW c \in Calls, call[c] # None PROVE call[c] \in AnyCall
    BY <1>2
<1>3. ASSUME NEW c \in Calls, NEW i \in Ids, ToggleRead(c, i) PROVE PlannerTypeOK'
    <2>. DEFINE x == [op |-> "toggle", id |-> i, status |->
                    IF khata[i] = "pending" THEN "settled" ELSE "pending"]
    <2>1. x \in Call
        BY DEF Call
    <2>. HIDE DEF x
    <2>2. x \in AnyCall
        BY <2>1, RequestKinds
    <2>3. call' = [call EXCEPT ![c] = x]
        BY <1>3 DEF ToggleRead, x
    <2>. QED  BY <1>0, <1>3, <2>2, <2>3 DEF ToggleRead
<1>4. ASSUME NEW c \in Calls, NEW i \in Ids, NEW status \in {"todo", "done"},
             TaskRead(c, i, status)
      PROVE  PlannerTypeOK'
    <2>. DEFINE x == [op |-> "task", id |-> i, status |-> status,
                    completes |-> status = "done" /\ tasks[i].status = "todo"]
    <2>1. x \in Call
        BY DEF Call
    <2>. HIDE DEF x
    <2>2. x \in AnyCall
        BY <2>1, RequestKinds
    <2>3. call' = [call EXCEPT ![c] = x]
        BY <1>4 DEF TaskRead, x
    <2>. QED  BY <1>0, <1>4, <2>2, <2>3 DEF TaskRead
<1>5. ASSUME NEW c \in Calls, NEW i \in Ids, NEW a \in Amounts \cup {None},
             NEW cy \in Cycles \cup {None}, SubRead(c, i, a, cy)
      PROVE  PlannerTypeOK'
    <2>1. call' = [d \in Calls |-> call'[d]] /\ \A d \in Calls : call'[d] \in AnyCall \cup {None}
        BY <1>5, SubReadCalls, RequestKinds
    <2>2. call' \in [Calls -> AnyCall \cup {None}]
        BY <2>1
    <2>. QED  BY <1>0, <1>5, <2>2 DEF SubRead
<1>6. ASSUME NEW c \in Calls, ToggleSave(c) PROVE PlannerTypeOK'
    <2>1. call[c].id \in Ids /\ call[c].status \in {"pending", "settled"}
        BY <1>2, <1>6, RequestFields DEF ToggleSave, At
    <2>. QED  BY <1>0, <1>1, <1>6, <2>1 DEF ToggleSave
<1>7. ASSUME NEW c \in Calls, TaskSave(c) PROVE PlannerTypeOK'
    <2>. DEFINE t == call[c].id
    <2>1. t \in Ids /\ call[c].status \in {"todo", "done"} /\ call[c].completes \in BOOLEAN
        BY <1>2, <1>7, RequestFields DEF TaskSave, At
    <2>2. tasks' \in [Ids -> Task \cup {None}]
        <3>1. CASE tasks[t] = None
            BY <1>7, <3>1 DEF TaskSave
        <3>2. CASE tasks[t] # None
            <4>1. tasks[t] \in Task
                BY <2>1, <3>2
            <4>2. tasks' = [tasks EXCEPT ![t].status = call[c].status,
                                         ![t].completed = @ \/ call[c].completes]
                BY <1>7, <3>2 DEF TaskSave
            <4>. QED  BY <2>1, <4>1, <4>2 DEF Task
        <3>. QED  BY <3>1, <3>2
    <2>. QED  BY <1>0, <1>1, <1>7, <2>2 DEF TaskSave
<1>8. ASSUME NEW c \in Calls, SubSave(c) PROVE PlannerTypeOK'
    <2>. DEFINE s == call[c].id
    <2>1. /\ s \in Ids /\ call[c].annual \in Nat /\ call[c].amount \in Amounts \cup {None}
          /\ call[c].cycle \in Cycles \cup {None}
        BY <1>2, <1>8, RequestFields DEF SubSave, At
    <2>2. subs' \in [Ids -> Sub \cup {None}]
        <3>1. CASE subs[s] = None
            BY <1>8, <3>1 DEF SubSave
        <3>2. CASE subs[s] # None
            <4>. DEFINE new == [amount |-> IF call[c].amount = None THEN subs[s].amount
                                           ELSE call[c].amount,
                                cycle  |-> IF call[c].cycle = None THEN subs[s].cycle
                                           ELSE call[c].cycle,
                                annual |-> call[c].annual]
            <4>1. new \in Sub
                BY <2>1, <3>2 DEF Sub
            <4>2. subs' = [subs EXCEPT ![s] = new]
                BY <1>8, <3>2 DEF SubSave
            <4>. QED  BY <2>1, <4>1, <4>2
        <3>. QED  BY <3>1, <3>2
    <2>3. mixed' \subseteq Ids
        BY <1>8, <2>1 DEF SubSave
    <2>. QED  BY <1>0, <1>1, <1>8, <2>2, <2>3 DEF SubSave
<1>9. ASSUME NEW c \in Calls, NEW i \in Ids, RemoveEntry(c, i) PROVE PlannerTypeOK'
    BY <1>0, <1>1, <1>9 DEF RemoveEntry
<1>10. ASSUME NEW c \in Calls, NEW i \in Ids, RemoveTask(c, i) PROVE PlannerTypeOK'
    BY <1>0, <1>1, <1>10 DEF RemoveTask
<1>11. ASSUME NEW c \in Calls, NEW i \in Ids, RemoveSub(c, i) PROVE PlannerTypeOK'
    BY <1>0, <1>1, <1>11 DEF RemoveSub
<1>12. ASSUME NEW c \in Calls, SettleAllForPerson(c) PROVE PlannerTypeOK'
    BY <1>0, <1>1, <1>12 DEF SettleAllForPerson
<1>13. ASSUME NEW c \in Calls, CreateEntry(c) PROVE PlannerTypeOK'
    BY <1>0, <1>1, <1>13 DEF CreateEntry
<1>14. ASSUME NEW c \in Calls, CreateTask(c) PROVE PlannerTypeOK'
    <2>1. NewTask \in Task
        BY DEF NewTask, Task
    <2>. QED  BY <1>0, <1>1, <1>14, <2>1 DEF CreateTask
<1>15. ASSUME NEW c \in Calls, NEW a \in Amounts, NEW cy \in Cycles, CreateSub(c, a, cy)
       PROVE  PlannerTypeOK'
    <2>. DEFINE new == [amount |-> a, cycle |-> cy, annual |-> AnnualCost(a, cy)]
    <2>1. new \in Sub
        BY RecordsAssumption DEF Sub, AnnualCost, MONTHS_PER_YEAR
    <2>2. subs' = [subs EXCEPT ![c] = new]
        BY <1>15 DEF CreateSub
    <2>. QED  BY <1>0, <1>1, <1>15, <2>1, <2>2 DEF CreateSub
<1>. QED
    BY <1>3, <1>4, <1>5, <1>6, <1>7, <1>8, <1>9, <1>10, <1>11, <1>12, <1>13, <1>14, <1>15
    DEF Screens, RecordNext

\* What the chat takes a sentence to mean.
LEMMA ChatRequest ==
    ASSUME NEW c \in Calls, NEW s \in Sentences, NEW ai \in ModelDates, ChatParse(c, s, ai)
    PROVE  \E x \in AnyCall : x.op = "chat" /\ call' = [call EXCEPT ![c] = x]
<1>. DEFINE due == MergeDate(ai, ExtractDate(s.date))
            asked == \/ s.date.kind = "explicit"
                     \/ s.date.kind = "day" /\ s.date.n = LeapDay
                     \/ due = ai /\ Tomorrow(ai) = Today
            x == [op |-> "chat", topics |-> s.topics, due |-> due, asked |-> asked]
<1>1. due \in Int \X Int /\ (Before(due, Today) => asked)
    BY ParsedAhead DEF Asked
<1>2. s.topics \subseteq STRING /\ asked \in BOOLEAN
    BY CompanionAssumption
<1>3. call' = [call EXCEPT ![c] = x]
    BY DEF ChatParse
<1>. HIDE DEF due, asked
<1>4. x \in AnyCall /\ x.op = "chat"
    BY <1>1, <1>2 DEF AnyCall, AssistantCall
<1>. QED  BY <1>3, <1>4

\* What a wipe has left to do.
LEMMA WipeGoesOn ==
    ASSUME PlannerTypeOK, NEW c \in Calls, NEW k, WipeDeletes(c, k) \/ WipeDeleteFails(c, k)
    PROVE  \E x \in WipeCall :
              /\ call' = [call EXCEPT ![c] = x] /\ call[c] \in WipeCall
              /\ x.before = call[c].before /\ x.left = call[c].left \ {k}
              /\ x.failed = (call[c].failed \/ ~ WipeDeletes(c, k))
<1>1. call[c] \in WipeCall
    BY RequestFields DEF WipeDeletes, WipeDeleteFails, At, PlannerTypeOK
<1>2. CASE WipeDeletes(c, k)
    <2>. DEFINE x == [call[c] EXCEPT !.left = @ \ {k}]
    <2>1. /\ x \in WipeCall /\ x.before = call[c].before /\ x.left = call[c].left \ {k}
          /\ x.failed = call[c].failed
        BY <1>1 DEF WipeCall
    <2>2. call' = [call EXCEPT ![c] = x]
        BY <1>2 DEF WipeDeletes
    <2>3. call[c].failed \in BOOLEAN
        BY <1>1 DEF WipeCall
    <2>. HIDE DEF x
    <2>. QED  BY <1>1, <1>2, <2>1, <2>2, <2>3
<1>3. CASE ~ WipeDeletes(c, k)
    <2>. DEFINE x == [call[c] EXCEPT !.left = @ \ {k}, !.failed = TRUE]
    <2>1. /\ x \in WipeCall /\ x.before = call[c].before /\ x.left = call[c].left \ {k}
          /\ x.failed = TRUE
        BY <1>1 DEF WipeCall
    <2>2. call' = [call EXCEPT ![c] = x]
        BY <1>3 DEF WipeDeleteFails
    <2>. HIDE DEF x
    <2>. QED  BY <1>1, <1>3, <2>1, <2>2
<1>. QED  BY <1>2, <1>3

\* So does everything else.
LEMMA StepTyped == PlannerTypeOK /\ [Next]_vars => PlannerTypeOK'
<1>. SUFFICES ASSUME PlannerTypeOK, [Next]_vars PROVE PlannerTypeOK'
    OBVIOUS
<1>. USE DEF PlannerTypeOK, StoreTypeOK
<1>0. Calls \subseteq Ids
    BY DEF Ids
<1>1. ASSUME NEW c \in Calls, NEW x \in AnyCall, call' = [call EXCEPT ![c] = x]
      PROVE  call' \in [Calls -> AnyCall \cup {None}]
    BY <1>1, OneCall
<1>2. ASSUME NEW c \in Calls, call[c] # None PROVE call[c] \in AnyCall
    BY <1>2
<1>3. ASSUME NEW c \in Calls, NEW reply \in Replies, Replied(c, reply)
      PROVE  call' \in [Calls -> AnyCall \cup {None}]
    BY <1>1, <1>3, RequestKinds DEF Replied
<1>4. ASSUME NEW c \in Calls, Ends(c) PROVE call' \in [Calls -> AnyCall \cup {None}]
    BY <1>1, <1>4, RequestKinds DEF Ends
<1>5. "saved" \in Replies /\ "reminder_set" \in Replies
    BY DEF Replies
<1>6. CASE Screens
    BY <1>6, ScreensTyped
<1>7. ASSUME NEW c \in Calls, Devices(c) PROVE PlannerTypeOK'
    <2>1. call' \in [Calls -> AnyCall \cup {None}]
        BY <1>4, <1>7 DEF Devices
    <2>. QED  BY <1>7, <2>1 DEF Devices
<1>8. ASSUME NEW c \in Calls, NEW s \in Sentences, NEW ai \in ModelDates, ChatParse(c, s, ai)
      PROVE  PlannerTypeOK'
    <2>1. call' \in [Calls -> AnyCall \cup {None}]
        BY <1>1, <1>8, ChatRequest
    <2>. QED  BY <1>8, <2>1 DEF ChatParse
<1>9. ASSUME NEW c \in Calls, ChatCreate(c) PROVE PlannerTypeOK'
    <2>1. NewTask \in Task
        BY DEF NewTask, Task
    <2>2. call' \in [Calls -> AnyCall \cup {None}]
        BY <1>3, <1>5, <1>9 DEF ChatCreate
    <2>. QED  BY <1>0, <1>9, <2>1, <2>2 DEF ChatCreate
<1>10. ASSUME NEW c \in Calls, NEW model \in BOOLEAN, ChatCreateFails(c, model)
       PROVE  PlannerTypeOK'
    <2>1. call' \in [Calls -> AnyCall \cup {None}]
        BY <1>3, <1>10, ReplyText DEF ChatCreateFails
    <2>. QED  BY <1>10, <2>1 DEF ChatCreateFails
<1>11. ASSUME NEW c \in Calls, NEW s \in Sentences, NEW model \in BOOLEAN,
              ChatReply(c, s, model)
       PROVE  PlannerTypeOK'
    <2>1. call' \in [Calls -> AnyCall \cup {None}]
        BY <1>3, <1>11, ReplyText DEF ChatReply
    <2>. QED  BY <1>11, <2>1 DEF ChatReply
<1>12. ASSUME NEW c \in Calls, NEW mode \in {"expense", "khata"}, VoiceSaves(c, mode)
       PROVE  PlannerTypeOK'
    <2>1. CASE mode = "expense"
        <3>1. call' \in [Calls -> AnyCall \cup {None}]
            BY <1>1, <1>12, <2>1, RequestKinds DEF VoiceSaves
        <3>. QED  BY <1>12, <2>1, <3>1 DEF VoiceSaves
    <2>2. CASE mode # "expense"
        <3>1. call' \in [Calls -> AnyCall \cup {None}]
            BY <1>3, <1>5, <1>12, <2>2 DEF VoiceSaves
        <3>. QED  BY <1>0, <1>12, <2>2, <3>1 DEF VoiceSaves
    <2>. QED  BY <2>1, <2>2
<1>13. ASSUME NEW c \in Calls, VoiceFails(c) PROVE PlannerTypeOK'
    BY <1>4, <1>13 DEF VoiceFails
<1>14. ASSUME NEW c \in Calls, Notify(c) PROVE PlannerTypeOK'
    <2>1. call' \in [Calls -> AnyCall \cup {None}]
        BY <1>3, <1>5, <1>14 DEF Notify
    <2>. QED  BY <1>14, <2>1 DEF Notify
<1>15. ASSUME NEW c \in Calls, NotifyFails(c) PROVE PlannerTypeOK'
    <2>1. call' \in [Calls -> AnyCall \cup {None}]
        BY <1>3, <1>5, <1>15 DEF NotifyFails
    <2>. QED  BY <1>15, <2>1 DEF NotifyFails
<1>16. ASSUME NEW c \in Calls, NEW d \in Calls, WipeStart(c, d) PROVE PlannerTypeOK'
    <2>. DEFINE x == [op |-> "wipe", left |-> Collections, before |-> Documents,
                      failed |-> FALSE]
    <2>1. Documents \subseteq Collections \X (Ids \cup {None})
        BY <1>0 DEF Documents, Collections, Own, Active
    <2>2. x \in WipeCall
        BY <2>1 DEF WipeCall
    <2>3. call' = [call EXCEPT ![d] = [op |-> "ended"], ![c] = x]
        BY <1>16 DEF WipeStart
    <2>. HIDE DEF x
    <2>4. call' \in [Calls -> AnyCall \cup {None}]
        BY <2>2, <2>3, RequestKinds
    <2>. QED  BY <1>16, <2>4 DEF WipeStart
<1>17. ASSUME NEW c \in Calls, NEW k \in Collections,
              WipeDeletes(c, k) \/ WipeDeleteFails(c, k)
       PROVE  call' \in [Calls -> AnyCall \cup {None}]
    BY <1>1, <1>17, WipeGoesOn, RequestKinds
<1>18. ASSUME NEW c \in Calls, NEW k \in Collections, WipeDeletes(c, k) PROVE PlannerTypeOK'
    <2>1. transactions' \subseteq Calls /\ notifications' \subseteq Calls /\ rest' \subseteq Rest
        BY <1>18 DEF WipeDeletes
    <2>2. khata' \in [Ids -> {"none", "pending", "settled"}]
        BY <1>18 DEF WipeDeletes
    <2>3. tasks' \in [Ids -> Task \cup {None}] /\ subs' \in [Ids -> Sub \cup {None}]
        BY <1>18 DEF WipeDeletes
    <2>. QED  BY <1>17, <1>18, <2>1, <2>2, <2>3 DEF WipeDeletes
<1>19. ASSUME NEW c \in Calls, NEW k \in Collections, WipeDeleteFails(c, k)
       PROVE  PlannerTypeOK'
    BY <1>17, <1>19 DEF WipeDeleteFails
<1>20. CASE UNCHANGED vars
    BY <1>20 DEF vars, recordVars
<1>. QED
    BY <1>6, <1>7, <1>8, <1>9, <1>10, <1>11, <1>12, <1>13, <1>14, <1>15, <1>16, <1>18, <1>19,
       <1>20
    DEF Next

\* Every request and record there can be is of its type.
THEOREM PlannerTypeCorrect == Spec => []PlannerTypeOK
<1>1. Init => PlannerTypeOK
    <2>. SUFFICES ASSUME Init PROVE PlannerTypeOK
        OBVIOUS
    <2>1. \A a \in Amounts, cy \in Cycles :
            [amount |-> a, cycle |-> cy, annual |-> AnnualCost(a, cy)] \in Sub
        BY RecordsAssumption DEF Sub, AnnualCost, MONTHS_PER_YEAR
    <2>. DEFINE First == {[amount |-> a, cycle |-> cy, annual |-> AnnualCost(a, cy)] :
                            a \in Amounts, cy \in Cycles}
    <2>2. First \subseteq Sub
        BY <2>1
    <2>3. subs \in [Ids -> {None} \cup First]
        BY DEF Init, RecordInit
    <2>. HIDE DEF First
    <2>4. subs \in [Ids -> Sub \cup {None}]
        BY <2>2, <2>3
    <2>. QED  BY <2>4 DEF Init, RecordInit, PlannerTypeOK, StoreTypeOK
<1>. QED  BY <1>1, StepTyped, PTL DEF Spec

\* TasksAhead, for every calendar and sentence.
THEOREM ChatTasksAhead == Spec => []TasksAhead
<1>1. PlannerTypeOK => TasksAhead
    BY RequestFields DEF PlannerTypeOK, TasksAhead, At, AnyCall
<1>. QED  BY <1>1, PlannerTypeCorrect, PTL

\* TokenOnOneAccount, for every number of accounts, devices and sends.
THEOREM TokensPlaced == Spec => []TokenOnOneAccount
<1>1. Init => TokenInv
    BY TokensAtFirst DEF Init
<1>2. TokenInv /\ [Next]_vars => TokenInv'
    <2>. SUFFICES ASSUME TokenInv, [Next]_vars PROVE TokenInv'
        OBVIOUS
    <2>0. Calls \subseteq Senders /\ Me \in Accounts
        BY CompanionAssumption
    <2>1. CASE UNCHANGED tokenVars
        BY <2>1 DEF tokenVars, TokenInv, PushTypeOK, Placed, Registering
    <2>2. CASE Screens
        BY <2>1, <2>2 DEF Screens
    <2>3. ASSUME NEW c \in Calls, TokenStart(c) \/ TokenContinue(c) \/ SendRead(c, Me)
          PROVE  TokenInv'
        BY <2>0, <2>3, TokenSteps
    <2>4. ASSUME NEW c \in Calls, Devices(c) PROVE TokenInv'
        BY <2>3, <2>4 DEF Devices
    <2>5. ASSUME NEW c \in Calls, Notify(c) PROVE TokenInv'
        BY <2>1, <2>3, <2>5 DEF Notify
    <2>6. ASSUME NEW c \in Calls, ~ Devices(c), ~ Notify(c),
                 \/ \E s \in Sentences, ai \in ModelDates : ChatParse(c, s, ai)
                 \/ ChatCreate(c)
                 \/ \E model \in BOOLEAN : ChatCreateFails(c, model)
                 \/ \E s \in Sentences, model \in BOOLEAN : ChatReply(c, s, model)
                 \/ \E mode \in {"expense", "khata"} : VoiceSaves(c, mode)
                 \/ VoiceFails(c) \/ NotifyFails(c)
                 \/ \E d \in Calls : WipeStart(c, d)
                 \/ \E k \in Collections : WipeDeletes(c, k) \/ WipeDeleteFails(c, k)
          PROVE  UNCHANGED tokenVars
        BY <2>6 DEF ChatParse, ChatCreate, ChatCreateFails, ChatReply, VoiceSaves, VoiceFails,
                    NotifyFails, WipeStart, WipeDeletes, WipeDeleteFails
    <2>7. CASE UNCHANGED vars
        BY <2>1, <2>7 DEF vars
    <2>. QED  BY <2>1, <2>2, <2>4, <2>5, <2>6, <2>7 DEF Next
<1>3. TokenInv => TokenOnOneAccount
    <2>. SUFFICES ASSUME TokenInv, NEW t \in Tokens \ torn, NEW u \in Accounts,
                         t \in Range(fcmTokens[u])
                  PROVE  /\ holder[t] = u
                         /\ Cardinality({i \in DOMAIN fcmTokens[u] : fcmTokens[u][i] = t}) = 1
        BY DEF TokenOnOneAccount
    <2>1. fcmTokens[u] \in Seq(Tokens) /\ Placed(t)
        BY DEF TokenInv, PushTypeOK
    <2>2. DOMAIN fcmTokens[u] = 1..Len(fcmTokens[u])
        BY <2>1
    <2>3. PICK i \in 1..Len(fcmTokens[u]) : fcmTokens[u][i] = t
        BY <2>2 DEF Range
    <2>4. holder[t] = u
        BY <2>1, <2>3 DEF Placed, In
    <2>5. {j \in DOMAIN fcmTokens[u] : fcmTokens[u][j] = t} = {i}
        BY <2>1, <2>2, <2>3 DEF Placed, Once
    <2>. QED  BY <2>4, <2>5, FS_Singleton
<1>. QED  BY <1>1, <1>2, <1>3, PTL DEF Spec

----------------------------------------------------------------------------
(***************************************************************************)
(* A wipe.  A document is coming while its request has not made it, and    *)
(* only then.  What is coming was not there before, so what a wipe found   *)
(* and deleted is not made again.                                          *)
(***************************************************************************)
Coming(k, i) ==
    /\ k \in Own /\ i \in Calls
    /\ Fresh(i) \/ (k = "tasks" /\ At(i, "chat")) \/ (k = "notifications" /\ At(i, "notify"))

WipeInv ==
    /\ \A k, i : Coming(k, i) => <<k, i>> \notin Documents
    /\ \A w \in Calls : At(w, "wipe") =>
          /\ \A k, i : Coming(k, i) => <<k, i>> \notin call[w].before
          /\ ~ call[w].failed => \A x \in Documents \cap call[w].before : x[1] \in call[w].left

There(k, i) ==
    \/ k = "transactions" /\ i \in transactions
    \/ k = "notifications" /\ i \in notifications
    \/ k = "khata" /\ i \in Ids /\ khata[i] # "none"
    \/ k = "tasks" /\ i \in Ids /\ tasks[i] # None
    \/ k = "subscriptions" /\ i \in Ids /\ subs[i] # None
    \/ k \in rest /\ i = None

\* What documents there are, before and after a step.
LEMMA DocumentsAre ==
    /\ \A k, i : <<k, i>> \in Documents <=> There(k, i)
    /\ \A k, i : <<k, i>> \in Documents' <=> There(k, i)'
    /\ \A x \in Documents : \E k, i : x = <<k, i>>
    /\ \A x \in Documents' : \E k, i : x = <<k, i>>
BY DEF Documents, Active, There

\* A request goes on, or two do; documents are made of those coming only, and none is
\* coming that was not.
Quiet ==
    /\ \A x \in Documents' : x \notin Documents
          => \E k, i : x = <<k, i>> /\ Coming(k, i) /\ ~ Coming(k, i)'
    /\ \A k, i : Coming(k, i)' => Coming(k, i)
    /\ \A w \in Calls : At(w, "wipe")' => call'[w] = call[w]

\* Such a step disturbs no wipe.
LEMMA QuietKeeps == WipeInv /\ Quiet => WipeInv'
<1>. SUFFICES ASSUME WipeInv, Quiet PROVE WipeInv'
    OBVIOUS
<1>1. ASSUME NEW k, NEW i, Coming(k, i)' PROVE <<k, i>> \notin Documents'
    <2>1. Coming(k, i) /\ <<k, i>> \notin Documents
        BY <1>1 DEF Quiet, WipeInv
    <2>2. SUFFICES ASSUME <<k, i>> \in Documents' PROVE FALSE
        OBVIOUS
    <2>3. PICK l, j : <<k, i>> = <<l, j>> /\ ~ Coming(l, j)'
        BY <2>1, <2>2 DEF Quiet
    <2>4. k = l /\ i = j
        BY <2>3
    <2>. QED  BY <1>1, <2>3, <2>4
<1>2. ASSUME NEW w \in Calls, At(w, "wipe")'
      PROVE  /\ At(w, "wipe") /\ call'[w] = call[w]
    BY <1>2 DEF Quiet, At
<1>3. ASSUME NEW w \in Calls, At(w, "wipe")', NEW k, NEW i, Coming(k, i)'
      PROVE  <<k, i>> \notin call'[w].before
    BY <1>2, <1>3 DEF Quiet, WipeInv
<1>4. ASSUME NEW w \in Calls, At(w, "wipe")', ~ call'[w].failed,
             NEW x \in Documents' \cap call'[w].before
      PROVE  x[1] \in call'[w].left
    <2>1. x \in Documents
        BY <1>2, <1>4 DEF Quiet, WipeInv
    <2>. QED  BY <1>2, <1>4, <2>1 DEF WipeInv
<1>. QED  BY <1>1, <1>3, <1>4 DEF WipeInv

\* A request goes on that wipes nothing; updates it overlaps may be told.
Moves(c) ==
    /\ call'[c] # None /\ call'[c].op # "wipe"
    /\ \A d \in Calls : d # c => call'[d] = call[d] \/ (At(d, "sub") /\ At(d, "sub")')

\* It makes at most its own document.
LEMMA MovesQuiet ==
    ASSUME NEW c \in Calls, Moves(c), \A k : Coming(k, c)' => Coming(k, c),
           \A k, i : There(k, i)' /\ ~ There(k, i)
                        => i = c /\ Coming(k, c) /\ ~ Coming(k, c)'
    PROVE  Quiet
<1>1. \A k, i : Coming(k, i)' => Coming(k, i)
    <2>. SUFFICES ASSUME NEW k, NEW i, i # c, Coming(k, i)' PROVE Coming(k, i)
        OBVIOUS
    <2>1. i \in Calls
        BY DEF Coming
    <2>2. call'[i] = call[i] \/ At(i, "sub")'
        BY <2>1 DEF Moves
    <2>. QED  BY <2>2 DEF Coming, Fresh, At
<1>2. \A w \in Calls : At(w, "wipe")' => call'[w] = call[w]
    BY DEF Moves, At
<1>3. ASSUME NEW x \in Documents', x \notin Documents
      PROVE  \E k, i : x = <<k, i>> /\ Coming(k, i) /\ ~ Coming(k, i)'
    <2>1. PICK k, i : x = <<k, i>>
        BY DocumentsAre
    <2>2. There(k, i)' /\ ~ There(k, i)
        BY <1>3, <2>1, DocumentsAre
    <2>. QED  BY <2>1, <2>2
<1>. QED  BY <1>1, <1>2, <1>3 DEF Quiet

\* A request that has ended, or waits to write what it has read, brings nothing.
LEMMA EndedBringsNothing ==
    ASSUME NEW c, call'[c] # None, call'[c].op \in {"ended", "toggle", "task", "sub", "replied"}
    PROVE  \A k : ~ Coming(k, c)'
BY DEF Coming, Fresh, At

\* Screens make documents of fresh requests only.
LEMMA ScreensQuiet == PlannerTypeOK /\ Screens => Quiet
<1>. SUFFICES ASSUME PlannerTypeOK, Screens PROVE Quiet
    OBVIOUS
<1>. DEFINE Ended(c) ==
        /\ call'[c] # None /\ call'[c].op \in {"ended", "toggle", "task", "sub", "replied"}
        /\ \A d \in Calls : d # c => call'[d] = call[d] \/ (At(d, "sub") /\ At(d, "sub")')
<1>0. Calls \subseteq Ids /\ UNCHANGED <<transactions, notifications, rest>>
    BY DEF Screens, Ids
<1>1. ASSUME NEW c \in Calls, Ends(c) PROVE Ended(c)
    <2>1. [op |-> "ended"] # None
        BY RequestKinds, RequestFields
    <2>. QED  BY <1>1, <2>1, OneCall, RequestKinds DEF Ends
<1>2. ASSUME NEW c \in Calls, Ended(c),
             \A k, i : There(k, i)' /\ ~ There(k, i) => i = c /\ k \in Own /\ Fresh(c)
      PROVE  Quiet
    <2>1. Moves(c)
        BY <1>2 DEF Moves
    <2>2. \A k : ~ Coming(k, c)'
        BY <1>2, EndedBringsNothing
    <2>. QED  BY <1>2, <2>1, <2>2, MovesQuiet DEF Coming
<1>. HIDE DEF Ended
<1>. USE DEF There, Own
<1>3. ASSUME NEW c \in Calls, NEW x \in Call, call' = [call EXCEPT ![c] = x] PROVE Ended(c)
    <2>1. x # None /\ x.op \in {"ended", "toggle", "task", "sub"}
        BY RecordsAssumption DEF Call
    <2>. QED  BY <1>3, <2>1, OneCall, RequestKinds DEF Ended
<1>4. ASSUME NEW c \in Calls, NEW i \in Ids, ToggleRead(c, i) PROVE Quiet
    <2>. DEFINE x == [op |-> "toggle", id |-> i, status |->
                    IF khata[i] = "pending" THEN "settled" ELSE "pending"]
    <2>1. x \in Call
        BY DEF Call
    <2>2. call' = [call EXCEPT ![c] = x]
        BY <1>4 DEF ToggleRead
    <2>. HIDE DEF x
    <2>. QED  BY <1>0, <1>2, <1>3, <1>4, <2>1, <2>2 DEF ToggleRead
<1>5. ASSUME NEW c \in Calls, NEW i \in Ids, NEW status \in {"todo", "done"},
             TaskRead(c, i, status)
      PROVE  Quiet
    <2>. DEFINE x == [op |-> "task", id |-> i, status |-> status,
                    completes |-> status = "done" /\ tasks[i].status = "todo"]
    <2>1. x \in Call
        BY DEF Call
    <2>2. call' = [call EXCEPT ![c] = x]
        BY <1>5 DEF TaskRead
    <2>. HIDE DEF x
    <2>. QED  BY <1>0, <1>2, <1>3, <1>5, <2>1, <2>2 DEF TaskRead
<1>6. ASSUME NEW c \in Calls, NEW i \in Ids, NEW a \in Amounts \cup {None},
             NEW cy \in Cycles \cup {None}, SubRead(c, i, a, cy)
      PROVE  Quiet
    <2>1. \A d \in Calls : d # c => call'[d] = call[d] \/ (At(d, "sub") /\ At(d, "sub")')
        BY <1>6, SubReadCalls, RecordsAssumption DEF At
    <2>2. Ended(c)
        BY <1>6, <2>1, SubReadCalls, RecordsAssumption DEF Ended
    <2>. QED  BY <1>0, <1>2, <1>6, <2>2 DEF SubRead
<1>7. ASSUME NEW c \in Calls, ToggleSave(c) PROVE Quiet
    <2>1. \A i \in Ids : khata'[i] # "none" => khata[i] # "none"
        BY <1>7 DEF ToggleSave, PlannerTypeOK, StoreTypeOK
    <2>2. Ended(c)
        BY <1>1, <1>7 DEF ToggleSave
    <2>. QED  BY <1>0, <1>2, <1>7, <2>1, <2>2 DEF ToggleSave
<1>8. ASSUME NEW c \in Calls, TaskSave(c) PROVE Quiet
    <2>1. \A i \in Ids : tasks'[i] # None => tasks[i] # None
        BY <1>8 DEF TaskSave, PlannerTypeOK, StoreTypeOK
    <2>2. Ended(c)
        BY <1>1, <1>8 DEF TaskSave
    <2>. QED  BY <1>0, <1>2, <1>8, <2>1, <2>2 DEF TaskSave
<1>9. ASSUME NEW c \in Calls, SubSave(c) PROVE Quiet
    <2>1. \A i \in Ids : subs'[i] # None => subs[i] # None
        BY <1>9 DEF SubSave, PlannerTypeOK, StoreTypeOK
    <2>2. Ended(c)
        BY <1>1, <1>9 DEF SubSave
    <2>. QED  BY <1>0, <1>2, <1>9, <2>1, <2>2 DEF SubSave
<1>10. ASSUME NEW c \in Calls, NEW i \in Ids,
              RemoveEntry(c, i) \/ RemoveTask(c, i) \/ RemoveSub(c, i) \/ SettleAllForPerson(c)
       PROVE  Quiet
    <2>1. Ended(c)
        BY <1>1, <1>10 DEF RemoveEntry, RemoveTask, RemoveSub, SettleAllForPerson
    <2>2. /\ \A j \in Ids : khata'[j] # "none" => khata[j] # "none"
          /\ \A j \in Ids : tasks'[j] # None => tasks[j] # None
          /\ \A j \in Ids : subs'[j] # None => subs[j] # None
        BY <1>10 DEF RemoveEntry, RemoveTask, RemoveSub, SettleAllForPerson, PlannerTypeOK,
                  StoreTypeOK
    <2>. QED  BY <1>0, <1>2, <2>1, <2>2
<1>11. ASSUME NEW c \in Calls, CreateEntry(c) PROVE Quiet
    <2>1. Ended(c)
        BY <1>1, <1>11 DEF CreateEntry
    <2>2. \A j \in Ids : khata'[j] # "none" => khata[j] # "none" \/ j = c
        BY <1>11 DEF CreateEntry, PlannerTypeOK, StoreTypeOK
    <2>. QED  BY <1>0, <1>2, <1>11, <2>1, <2>2 DEF CreateEntry
<1>12. ASSUME NEW c \in Calls, CreateTask(c) PROVE Quiet
    <2>1. Ended(c)
        BY <1>1, <1>12 DEF CreateTask
    <2>2. \A j \in Ids : tasks'[j] # None => tasks[j] # None \/ j = c
        BY <1>12 DEF CreateTask, PlannerTypeOK, StoreTypeOK
    <2>. QED  BY <1>0, <1>2, <1>12, <2>1, <2>2 DEF CreateTask
<1>13. ASSUME NEW c \in Calls, NEW a \in Amounts, NEW cy \in Cycles, CreateSub(c, a, cy)
       PROVE  Quiet
    <2>1. Ended(c)
        BY <1>1, <1>13 DEF CreateSub
    <2>2. \A j \in Ids : subs'[j] # None => subs[j] # None \/ j = c
        BY <1>13 DEF CreateSub, PlannerTypeOK, StoreTypeOK
    <2>. QED  BY <1>0, <1>2, <1>13, <2>1, <2>2 DEF CreateSub
<1>. QED
    BY <1>0, <1>4, <1>5, <1>6, <1>7, <1>8, <1>9, <1>10, <1>11, <1>12, <1>13 DEF Screens, RecordNext

\* So do the others, but for a wipe.
LEMMA OthersQuiet ==
    ASSUME PlannerTypeOK, NEW c \in Calls,
           \/ Devices(c)
           \/ \E s \in Sentences, ai \in ModelDates : ChatParse(c, s, ai)
           \/ ChatCreate(c)
           \/ \E model \in BOOLEAN : ChatCreateFails(c, model)
           \/ \E s \in Sentences, model \in BOOLEAN : ChatReply(c, s, model)
           \/ \E mode \in {"expense", "khata"} : VoiceSaves(c, mode)
           \/ VoiceFails(c) \/ Notify(c) \/ NotifyFails(c)
    PROVE  Quiet
<1>0. c \in Ids
    BY DEF Ids
<1>1. ASSUME NEW x \in AnyCall, call' = [call EXCEPT ![c] = x]
      PROVE  /\ call'[c] = x /\ x # None
             /\ \A d \in Calls : d # c => call'[d] = call[d]
    BY <1>1, OneCall, RequestFields
<1>2. ASSUME Ends(c) \/ \E reply \in Replies : Replied(c, reply)
      PROVE  Moves(c) /\ \A k : ~ Coming(k, c)'
    <2>1. CASE Ends(c)
        <3>1. call'[c] = [op |-> "ended"] /\ [op |-> "ended"] # None
              /\ \A d \in Calls : d # c => call'[d] = call[d]
            BY <1>1, <2>1, RequestKinds DEF Ends
        <3>. QED  BY <3>1, EndedBringsNothing DEF Moves
    <2>2. ASSUME NEW reply \in Replies, Replied(c, reply)
          PROVE  Moves(c) /\ \A k : ~ Coming(k, c)'
        <3>1. call'[c] = [op |-> "replied", reply |-> reply] /\ call'[c] # None
              /\ \A d \in Calls : d # c => call'[d] = call[d]
            BY <1>1, <2>2, RequestKinds DEF Replied
        <3>. QED  BY <3>1, EndedBringsNothing DEF Moves
    <2>. QED  BY <1>2, <2>1, <2>2
<1>3. ASSUME Ends(c) \/ \E reply \in Replies : Replied(c, reply),
             \A k, i : There(k, i)' /\ ~ There(k, i) => i = c /\ Coming(k, c)
      PROVE  Quiet
    BY <1>2, <1>3, MovesQuiet
<1>4. ASSUME call' = call, UNCHANGED <<khata, tasks, subs, transactions, notifications, rest>>
      PROVE  Quiet
    BY <1>4 DEF Quiet, Coming, Fresh, At, Documents, Active
<1>5. "saved" \in Replies /\ "reminder_set" \in Replies
    BY DEF Replies
<1>6. CASE Devices(c)
    BY <1>3, <1>4, <1>6 DEF Devices, There
<1>7. ASSUME NEW s \in Sentences, NEW ai \in ModelDates, ChatParse(c, s, ai) PROVE Quiet
    <2>1. PICK x \in AnyCall : x.op = "chat" /\ call' = [call EXCEPT ![c] = x]
        BY <1>7, ChatRequest
    <2>2. Moves(c)
        BY <1>1, <2>1 DEF Moves
    <2>3. \A k : Coming(k, c)' => Coming(k, c)
        BY <1>7 DEF ChatParse, Coming
    <2>4. \A k, i : There(k, i)' => There(k, i)
        BY <1>7 DEF ChatParse, There
    <2>. QED  BY <2>2, <2>3, <2>4, MovesQuiet
<1>8. CASE ChatCreate(c)
    <2>1. \A i \in Ids : tasks'[i] # None => tasks[i] # None \/ i = c
        BY <1>8 DEF ChatCreate, PlannerTypeOK, StoreTypeOK
    <2>2. Coming("tasks", c)
        BY <1>8 DEF ChatCreate, Coming, Own
    <2>. QED  BY <1>3, <1>5, <1>8, <2>1, <2>2 DEF ChatCreate, There
<1>9. ASSUME NEW model \in BOOLEAN, ChatCreateFails(c, model) PROVE Quiet
    BY <1>3, <1>9, ReplyText DEF ChatCreateFails, There
<1>10. ASSUME NEW s \in Sentences, NEW model \in BOOLEAN, ChatReply(c, s, model) PROVE Quiet
    BY <1>3, <1>10, ReplyText DEF ChatReply, There
<1>11. ASSUME NEW mode \in {"expense", "khata"}, VoiceSaves(c, mode) PROVE Quiet
    <2>1. \A k \in Own : Coming(k, c)
        BY <1>11 DEF VoiceSaves, Coming
    <2>2. CASE mode = "expense"
        <3>1. call'[c] = [op |-> "notify"] /\ call'[c] # None
              /\ \A d \in Calls : d # c => call'[d] = call[d]
            BY <1>1, <1>11, <2>2, RequestKinds DEF VoiceSaves
        <3>2. Moves(c)
            BY <3>1 DEF Moves
        <3>3. \A k : Coming(k, c)' => Coming(k, c) /\ k = "notifications"
            BY <2>1, <3>1 DEF Coming, Fresh, At
        <3>4. \A k, i : There(k, i)' /\ ~ There(k, i) => i = c /\ k = "transactions"
            BY <1>11, <2>2 DEF VoiceSaves, There
        <3>5. \A k, i : There(k, i)' /\ ~ There(k, i)
                => i = c /\ Coming(k, c) /\ ~ Coming(k, c)'
            BY <2>1, <3>3, <3>4 DEF Own
        <3>. QED  BY <3>2, <3>3, <3>5, MovesQuiet
    <2>3. CASE mode # "expense"
        <3>1. \A i \in Ids : khata'[i] # "none" => khata[i] # "none" \/ i = c
            BY <1>11, <2>3 DEF VoiceSaves, PlannerTypeOK, StoreTypeOK
        <3>. QED  BY <1>3, <1>5, <1>11, <2>1, <2>3, <3>1 DEF VoiceSaves, There, Own
    <2>. QED  BY <2>2, <2>3
<1>12. CASE VoiceFails(c)
    BY <1>3, <1>12 DEF VoiceFails, There
<1>13. CASE Notify(c)
    <2>1. Coming("notifications", c)
        BY <1>13 DEF Notify, Coming, Own
    <2>. QED  BY <1>3, <1>5, <1>13, <2>1 DEF Notify, There
<1>14. CASE NotifyFails(c)
    BY <1>3, <1>5, <1>14 DEF NotifyFails, There
<1>. QED  BY <1>6, <1>7, <1>8, <1>9, <1>10, <1>11, <1>12, <1>13, <1>14

\* What a wipe does to what the wipes found.
LEMMA WipeSteps ==
    ASSUME PlannerTypeOK, WipeInv, NEW c \in Calls,
           \/ \E d \in Calls : WipeStart(c, d)
           \/ \E k \in Collections : WipeDeletes(c, k) \/ WipeDeleteFails(c, k)
    PROVE  WipeInv'
<1>1. ASSUME NEW d \in Calls, WipeStart(c, d) PROVE WipeInv'
    <2>. DEFINE x == [op |-> "wipe", left |-> Collections, before |-> Documents, failed |-> FALSE]
                ended == [op |-> "ended"]
    <2>1. /\ call'[c] = x /\ call'[d] = ended
          /\ \A e \in Calls : e \notin {c, d} => call'[e] = call[e]
          /\ Fresh(c) /\ Fresh(d) /\ c # d
        BY <1>1 DEF WipeStart, PlannerTypeOK
    <2>2. Documents' = Documents
        BY <1>1 DEF WipeStart, Documents, Active
    <2>3. ended # None
        BY RequestKinds, RequestFields
    <2>4. call'[c] # None
        <3>1. call'[c] \in WipeCall
            <4>1. \A e \in Documents : e \in Collections \X (Ids \cup {None})
                BY DEF Documents, Collections, Own, Active, PlannerTypeOK, StoreTypeOK, Ids
            <4>. QED  BY <2>1, <4>1 DEF WipeCall
        <3>. QED  BY <3>1, CompanionAssumption
    <2>5. \A k, i : Coming(k, i)' => Coming(k, i)
        BY <2>1, <2>3, <2>4 DEF Coming, Fresh, At
    <2>6. \A e \in Documents : e[1] \in Collections
        BY DEF Documents, Collections, Own, Active, PlannerTypeOK, StoreTypeOK
    <2>7. ASSUME NEW w \in Calls, At(w, "wipe")'
          PROVE  w = c \/ (At(w, "wipe") /\ call'[w] = call[w])
        BY <2>1, <2>7 DEF At
    <2>. QED  BY <2>1, <2>2, <2>5, <2>6, <2>7 DEF WipeInv
<1>2. ASSUME NEW k \in Collections, WipeDeletes(c, k) \/ WipeDeleteFails(c, k) PROVE WipeInv'
    <2>1. PICK x \in WipeCall :
              /\ call' = [call EXCEPT ![c] = x] /\ call[c] \in WipeCall
              /\ x.before = call[c].before /\ x.left = call[c].left \ {k}
              /\ x.failed = (call[c].failed \/ ~ WipeDeletes(c, k))
        BY <1>2, WipeGoesOn
    <2>2. call[c].op = "wipe" /\ At(c, "wipe") /\ x.op = "wipe" /\ x # None
        BY <1>2, <2>1, CompanionAssumption DEF WipeDeletes, WipeDeleteFails, WipeCall
    <2>3. call'[c] = x /\ \A d \in Calls : d # c => call'[d] = call[d]
        BY <2>1 DEF PlannerTypeOK
    <2>4. \A l, i : Coming(l, i)' => Coming(l, i)
        BY <2>2, <2>3 DEF Coming, Fresh, At
    <2>5. \A l, i : There(l, i)' => There(l, i) /\ (WipeDeletes(c, k) => l # k)
        BY <1>2 DEF There, WipeDeletes, WipeDeleteFails, PlannerTypeOK, StoreTypeOK
    <2>6. \A e \in Documents' : e \in Documents /\ (WipeDeletes(c, k) => e[1] # k)
        BY <2>5, DocumentsAre
    <2>7. ASSUME NEW l, NEW i, Coming(l, i)' PROVE <<l, i>> \notin Documents'
        BY <2>4, <2>6, <2>7 DEF WipeInv
    <2>8. ASSUME NEW w \in Calls, At(w, "wipe")'
          PROVE  /\ At(w, "wipe") /\ call'[w].before = call[w].before
                 /\ ~ call'[w].failed => ~ call[w].failed
        BY <2>1, <2>2, <2>3, <2>8 DEF At
    <2>9. ASSUME NEW w \in Calls, At(w, "wipe")', ~ call'[w].failed,
                 NEW e \in Documents' \cap call'[w].before
          PROVE  e[1] \in call'[w].left
        <3>1. e[1] \in call[w].left
            BY <2>6, <2>8, <2>9 DEF WipeInv
        <3>2. CASE w # c
            BY <2>3, <3>1, <3>2
        <3>3. CASE w = c
            BY <2>1, <2>3, <2>6, <2>9, <3>1, <3>3
        <3>. QED  BY <3>2, <3>3
    <2>10. \A w \in Calls : At(w, "wipe")'
             => \A l, i : Coming(l, i)' => <<l, i>> \notin call'[w].before
        BY <2>4, <2>8 DEF WipeInv
    <2>. QED  BY <2>7, <2>9, <2>10 DEF WipeInv
<1>. QED  BY <1>1, <1>2

\* What wipes found and deleted is gone, all along.
LEMMA WipesKeep == Spec => []WipeInv
<1>1. Init => WipeInv
    <2>. SUFFICES ASSUME Init PROVE WipeInv
        OBVIOUS
    <2>1. \A c \in Calls : Fresh(c) /\ ~ At(c, "wipe")
        BY DEF Init, RecordInit, Fresh, At
    <2>2. \A c \in Calls, k \in Own : ~ There(k, c)
        BY CompanionAssumption DEF Init, RecordInit, There, Ids
    <2>. QED  BY <2>1, <2>2, DocumentsAre DEF WipeInv, Coming
<1>2. PlannerTypeOK /\ WipeInv /\ [Next]_vars => WipeInv'
    <2>. SUFFICES ASSUME PlannerTypeOK, WipeInv, [Next]_vars PROVE WipeInv'
        OBVIOUS
    <2>1. CASE Screens
        BY <2>1, ScreensQuiet, QuietKeeps
    <2>2. CASE UNCHANGED vars
        BY <2>2, QuietKeeps DEF vars, recordVars, Quiet, Coming, Fresh, At, Documents, Active
    <2>3. ASSUME Next, ~ Screens PROVE WipeInv'
        <3>1. PICK c \in Calls :
                  \/ Devices(c)
                  \/ \E s \in Sentences, ai \in ModelDates : ChatParse(c, s, ai)
                  \/ ChatCreate(c)
                  \/ \E model \in BOOLEAN : ChatCreateFails(c, model)
                  \/ \E s \in Sentences, model \in BOOLEAN : ChatReply(c, s, model)
                  \/ \E mode \in {"expense", "khata"} : VoiceSaves(c, mode)
                  \/ VoiceFails(c) \/ Notify(c) \/ NotifyFails(c)
                  \/ \E d \in Calls : WipeStart(c, d)
                  \/ \E k \in Collections : WipeDeletes(c, k) \/ WipeDeleteFails(c, k)
            BY <2>3 DEF Next
        <3>2. CASE \/ \E d \in Calls : WipeStart(c, d)
                   \/ \E k \in Collections : WipeDeletes(c, k) \/ WipeDeleteFails(c, k)
            BY <3>2, WipeSteps
        <3>3. CASE ~ (\/ \E d \in Calls : WipeStart(c, d)
                      \/ \E k \in Collections : WipeDeletes(c, k) \/ WipeDeleteFails(c, k))
            BY <3>1, <3>3, OthersQuiet, QuietKeeps
        <3>. QED  BY <3>2, <3>3
    <2>. QED  BY <2>1, <2>2, <2>3
<1>. QED  BY <1>1, <1>2, PlannerTypeCorrect, PTL DEF Spec

\* WipeComplete, for any number of requests, wipes and collections.
THEOREM WipesComplete == Spec => []WipeComplete
<1>1. WipeInv => WipeComplete
    BY DEF WipeInv, WipeComplete, Wiped
<1>. QED  BY <1>1, WipesKeep, PTL

----------------------------------------------------------------------------
(***************************************************************************)
(* Sums.  The library adds up a set by taking out one element after the    *)
(* other; whichever is taken out first the sum is the same.  The induction *)
(* is over the subsets of a finite set: of those a fact fails for, one has *)
(* no smaller one.                                                         *)
(***************************************************************************)
\* Induction over the subsets of a finite set, for a set of subsets.
LEMMA SubsetInduction ==
    ASSUME NEW X, IsFiniteSet(X), NEW T,
           \A s \in SUBSET X : (\A t \in SUBSET s : t # s => t \in T) => s \in T
    PROVE  X \in T
<1>. DEFINE Bad == {s \in SUBSET X : s \notin T}
<1>1. Bad = {}
    <2>. SUFFICES ASSUME Bad # {} PROVE FALSE
        OBVIOUS
    <2>1. IsWellFoundedOn(StrictSubsetOrdering(X), SUBSET X)
        <3>1. FiniteSubsetsOf(X) = SUBSET X
            BY FS_FiniteSubsetsOfFinite
        <3>2. IsWellFoundedOn(StrictSubsetOrdering(X), FiniteSubsetsOf(X))
            BY FS_StrictSubsetOrderingWellFounded
        <3>. QED  BY <3>1, <3>2
    <2>2. \E s \in Bad : \A t \in Bad : ~ (<<t, s>> \in StrictSubsetOrdering(X))
        <3>1. Bad \subseteq SUBSET X
            OBVIOUS
        <3>. HIDE DEF Bad
        <3>. QED  BY <2>1, <3>1, WFMin
    <2>3. PICK s \in Bad : \A t \in Bad : ~ (<<t, s>> \in StrictSubsetOrdering(X))
        BY <2>2
    <2>4. ASSUME NEW t \in SUBSET s, t # s PROVE t \in T
        <3>1. t \in SUBSET X /\ <<t, s>> \in StrictSubsetOrdering(X)
            BY <2>4 DEF StrictSubsetOrdering
        <3>. QED  BY <2>3, <3>1
    <2>. QED  BY <2>4
<1>. QED  BY <1>1

SumOf(f, X) == MapThenSumSet(LAMBDA x : f[x], X)

First(s) == CHOOSE x \in s : TRUE

\* Unfolds the recursion of the library's sum.
Folds(f, X, h) ==
    h = [s \in SUBSET X |-> IF s = {} THEN 0 ELSE f[First(s)] + h[s \ {First(s)}]]

\* The library's sum is the value of the function that takes a first out at a time.
LEMMA SumOfUnfold ==
    ASSUME NEW f, NEW X
    PROVE  SumOf(f, X) = (CHOOSE h : Folds(f, X, h))[X]
BY DEF SumOf, MapThenSumSet, MapThenFoldSet, Folds, First

\* The first of a set that is not empty.
LEMMA FirstIn == ASSUME NEW s, s # {} PROVE First(s) \in s
BY DEF First

\* There is one such function at most.
LEMMA FoldsUnique ==
    ASSUME NEW f, NEW X, IsFiniteSet(X), NEW g, NEW h, Folds(f, X, g), Folds(f, X, h)
    PROVE  g[X] = h[X]
<1>. DEFINE T == {s \in SUBSET X : g[s] = h[s]}
<1>1. ASSUME NEW s \in SUBSET X, \A t \in SUBSET s : t # s => t \in T
      PROVE  s \in T
    <2>1. CASE s = {}
        BY <2>1 DEF Folds
    <2>2. CASE s # {}
        <3>1. First(s) \in s /\ s \ {First(s)} \in SUBSET s /\ s \ {First(s)} # s
            BY <2>2, FirstIn
        <3>2. g[s \ {First(s)}] = h[s \ {First(s)}]
            BY <1>1, <3>1
        <3>3. /\ g[s] = f[First(s)] + g[s \ {First(s)}]
              /\ h[s] = f[First(s)] + h[s \ {First(s)}]
            BY <2>2 DEF Folds
        <3>. QED  BY <3>2, <3>3
    <2>. QED  BY <2>1, <2>2
<1>. HIDE DEF T
<1>2. X \in T
    BY <1>1, SubsetInduction
<1>. QED  BY <1>2 DEF T

\* The sum over a set takes its first out.
Unfolds(f, s) ==
    /\ s = {} => SumOf(f, s) = 0
    /\ s # {} => SumOf(f, s) = f[First(s)] + SumOf(f, s \ {First(s)})

\* Every sum over a finite set unfolds.
LEMMA SumOfUnfolds ==
    ASSUME NEW f, NEW X, IsFiniteSet(X)
    PROVE  Unfolds(f, X)
<1>. DEFINE T == {s \in SUBSET X : Unfolds(f, s)}
<1>1. ASSUME NEW s \in SUBSET X, \A t \in SUBSET s : t # s => t \in T
      PROVE  s \in T
    <2>. DEFINE r == s \ {First(s)}
                h == [t \in SUBSET s |->
                        IF t = {} THEN 0
                        ELSE IF t = s THEN f[First(s)] + SumOf(f, r)
                        ELSE SumOf(f, t)]
    <2>1. IsFiniteSet(s)
        BY FS_Subset
    <2>2. ASSUME NEW t \in SUBSET s
          PROVE  h[t] = IF t = {} THEN 0 ELSE f[First(t)] + h[t \ {First(t)}]
        <3>1. CASE t = {}
            BY <3>1
        <3>2. CASE t # {}
            <4>1. First(t) \in t
                BY <3>2, FirstIn
            <4>2. t \ {First(t)} \in SUBSET s /\ t \ {First(t)} # s
                BY <4>1
            <4>3. h[t \ {First(t)}] = SumOf(f, t \ {First(t)})
                <5>1. CASE t \ {First(t)} = {}
                    <6>1. {} \in T
                        BY <1>1, <3>2
                    <6>2. SumOf(f, {}) = 0
                        BY <6>1 DEF Unfolds
                    <6>. QED  BY <4>2, <5>1, <6>2
                <5>2. CASE t \ {First(t)} # {}
                    BY <4>2, <5>2
                <5>. QED  BY <5>1, <5>2
            <4>4. CASE t = s
                BY <3>2, <4>3, <4>4
            <4>5. CASE t # s
                <5>1. SumOf(f, t) = f[First(t)] + SumOf(f, t \ {First(t)})
                    BY <1>1, <3>2, <4>5 DEF Unfolds
                <5>2. h[t] = SumOf(f, t)
                    BY <3>2, <4>5
                <5>. QED  BY <3>2, <4>3, <5>1, <5>2
            <4>. QED  BY <4>4, <4>5
        <3>. QED  BY <3>1, <3>2
    <2>3. Folds(f, s, h)
        <3>1. h = [t \in SUBSET s |-> h[t]]
            OBVIOUS
        <3>. HIDE DEF h
        <3>2. [t \in SUBSET s |-> h[t]]
              = [t \in SUBSET s |-> IF t = {} THEN 0 ELSE f[First(t)] + h[t \ {First(t)}]]
            BY <2>2
        <3>. QED  BY <3>1, <3>2 DEF Folds
    <2>4. h[s] = IF s = {} THEN 0 ELSE f[First(s)] + SumOf(f, r)
        OBVIOUS
    <2>. HIDE DEF h
    <2>5. SumOf(f, s) = h[s]
        <3>1. Folds(f, s, CHOOSE g : Folds(f, s, g))
            BY <2>3
        <3>. QED  BY <2>1, <2>3, <3>1, FoldsUnique, SumOfUnfold
    <2>. QED  BY <2>4, <2>5 DEF Unfolds
<1>. HIDE DEF T
<1>2. X \in T
    BY <1>1, SubsetInduction
<1>. QED  BY <1>2 DEF T

\* The empty sum.
LEMMA SumOfEmpty == ASSUME NEW f PROVE SumOf(f, {}) = 0
BY SumOfUnfolds, FS_EmptySet DEF Unfolds

\* A sum of integers is one, and of naturals.
LEMMA SumOfType ==
    ASSUME NEW X, IsFiniteSet(X), NEW f, \A x \in X : f[x] \in Int
    PROVE  /\ SumOf(f, X) \in Int
           /\ (\A x \in X : f[x] >= 0) => SumOf(f, X) >= 0
<1>. DEFINE T == {s \in SUBSET X : /\ SumOf(f, s) \in Int
                                   /\ (\A x \in X : f[x] >= 0) => SumOf(f, s) >= 0}
<1>1. ASSUME NEW s \in SUBSET X, \A t \in SUBSET s : t # s => t \in T
      PROVE  s \in T
    <2>1. CASE s = {}
        BY <2>1, SumOfEmpty
    <2>2. CASE s # {}
        <3>1. First(s) \in s /\ s \ {First(s)} \in SUBSET s /\ s \ {First(s)} # s
            BY <2>2, FirstIn
        <3>2. SumOf(f, s) = f[First(s)] + SumOf(f, s \ {First(s)})
            BY <2>2, SumOfUnfolds, FS_Subset DEF Unfolds
        <3>3. s \ {First(s)} \in T /\ First(s) \in X
            BY <1>1, <3>1
        <3>. QED  BY <3>2, <3>3
    <2>. QED  BY <2>1, <2>2
<1>. HIDE DEF T
<1>2. X \in T
    BY <1>1, SubsetInduction
<1>. QED  BY <1>2 DEF T

\* Any element can be taken out of a sum.
LEMMA SumOfStep ==
    ASSUME NEW X, IsFiniteSet(X), NEW f, \A x \in X : f[x] \in Int, NEW y \in X
    PROVE  SumOf(f, X) = f[y] + SumOf(f, X \ {y})
<1>. DEFINE T == {s \in SUBSET X : \A z \in s : SumOf(f, s) = f[z] + SumOf(f, s \ {z})}
<1>1. ASSUME NEW s \in SUBSET X, \A t \in SUBSET s : t # s => t \in T
      PROVE  s \in T
    <2>. SUFFICES ASSUME NEW z \in s PROVE SumOf(f, s) = f[z] + SumOf(f, s \ {z})
        OBVIOUS
    <2>. DEFINE c == First(s)
    <2>1. c \in s /\ s \ {c} \in SUBSET s /\ s \ {c} # s
        BY FirstIn
    <2>2. SumOf(f, s) = f[c] + SumOf(f, s \ {c})
        BY SumOfUnfolds, FS_Subset DEF Unfolds
    <2>. HIDE DEF c
    <2>3. CASE z = c
        BY <2>2, <2>3
    <2>4. CASE z # c
        <3>1. s \ {c} \in T /\ s \ {z} \in T
            BY <1>1, <2>1
        <3>2. /\ SumOf(f, s \ {c}) = f[z] + SumOf(f, (s \ {c}) \ {z})
              /\ SumOf(f, s \ {z}) = f[c] + SumOf(f, (s \ {z}) \ {c})
            BY <2>1, <2>4, <3>1
        <3>3. (s \ {c}) \ {z} = (s \ {z}) \ {c}
            OBVIOUS
        <3>4. f[c] \in Int /\ f[z] \in Int /\ SumOf(f, (s \ {z}) \ {c}) \in Int
            <4>1. IsFiniteSet((s \ {z}) \ {c})
                BY FS_Subset
            <4>. QED  BY <2>1, <4>1, SumOfType
        <3>5. PICK a \in Int, b \in Int, r \in Int :
                  a = f[c] /\ b = f[z] /\ r = SumOf(f, (s \ {z}) \ {c})
            BY <3>4
        <3>6. SumOf(f, s) = a + (b + r) /\ SumOf(f, s \ {z}) = a + r
            BY <2>2, <3>2, <3>3, <3>5
        <3>7. a + (b + r) = b + (a + r)
            OBVIOUS
        <3>. QED  BY <3>5, <3>6, <3>7
    <2>. QED  BY <2>3, <2>4
<1>. HIDE DEF T
<1>2. X \in T
    BY <1>1, SubsetInduction
<1>. QED  BY <1>2 DEF T

\* A sum depends on the values at its set alone.
LEMMA SumOfSame ==
    ASSUME NEW X, IsFiniteSet(X), NEW f, NEW g, \A x \in X : f[x] = g[x]
    PROVE  SumOf(f, X) = SumOf(g, X)
<1>. DEFINE T == {s \in SUBSET X : SumOf(f, s) = SumOf(g, s)}
<1>1. ASSUME NEW s \in SUBSET X, \A t \in SUBSET s : t # s => t \in T
      PROVE  s \in T
    <2>1. CASE s = {}
        BY <2>1, SumOfEmpty
    <2>2. CASE s # {}
        <3>1. First(s) \in s /\ s \ {First(s)} \in SUBSET s /\ s \ {First(s)} # s
            BY <2>2, FirstIn
        <3>2. /\ SumOf(f, s) = f[First(s)] + SumOf(f, s \ {First(s)})
              /\ SumOf(g, s) = g[First(s)] + SumOf(g, s \ {First(s)})
            BY <2>2, SumOfUnfolds, FS_Subset DEF Unfolds
        <3>. QED  BY <1>1, <3>1, <3>2
    <2>. QED  BY <2>1, <2>2
<1>. HIDE DEF T
<1>2. X \in T
    BY <1>1, SubsetInduction
<1>. QED  BY <1>2 DEF T

----------------------------------------------------------------------------
(***************************************************************************)
(* Subscriptions.  An update that no other overlaps has computed from the  *)
(* stored document; documents of a request come from it, once.             *)
(***************************************************************************)
Fits(s) == subs[s].annual = AnnualCost(subs[s].amount, subs[s].cycle)

Computed(c) ==
    call[c].id \in Active
        => call[c].annual = NewAnnual(subs[call[c].id], call[c].amount, call[c].cycle)

Only(c) == \A d \in Calls : At(d, "sub") /\ call[d].id = call[c].id => d = c

\* The request that made the document, if one did, has been made.
Made(c) == call[c].id \in Calls => call[call[c].id] # None

SubInv ==
    /\ \A s \in Active \ mixed : Fits(s)
    /\ \A c \in Calls : At(c, "sub") =>
          /\ Made(c)
          /\ call[c].alone => Only(c) /\ Computed(c)

\* A step that starts no update, and writes no subscription but removes some at most.
Aside ==
    /\ \A s \in Ids : subs'[s] = None \/ subs'[s] = subs[s]
    /\ mixed' = mixed
    /\ \A c \in Calls : At(c, "sub")' => call'[c] = call[c]
    /\ \A c \in Calls : call'[c] = None => call[c] = None

\* It disturbs no figures.
LEMMA AsideKeeps == SubInv /\ Aside => SubInv'
<1>. SUFFICES ASSUME SubInv, Aside PROVE SubInv'
    OBVIOUS
<1>1. \A s \in Active' : s \in Active /\ subs'[s] = subs[s]
    BY DEF Aside, Active
<1>2. \A c \in Calls : At(c, "sub")' => At(c, "sub") /\ call'[c] = call[c]
    BY DEF Aside, At
<1>3. ASSUME NEW s \in (Active \ mixed)' PROVE Fits(s)'
    BY <1>1 DEF SubInv, Aside, Fits
<1>4. ASSUME NEW c \in Calls, At(c, "sub")' PROVE Made(c)'
    BY <1>2, <1>4 DEF SubInv, Aside, Made
<1>5. ASSUME NEW c \in Calls, At(c, "sub")', call'[c].alone PROVE Only(c)' /\ Computed(c)'
    <2>1. At(c, "sub") /\ call'[c] = call[c] /\ Only(c) /\ Computed(c)
        BY <1>2, <1>5 DEF SubInv
    <2>. QED  BY <1>1, <1>2, <2>1 DEF Only, Computed
<1>. QED  BY <1>3, <1>4, <1>5 DEF SubInv

\* A request that goes on, to no update.
LEMMA OneAside ==
    ASSUME PlannerTypeOK, NEW c \in Calls, NEW x \in AnyCall, x.op # "sub",
           call' = [call EXCEPT ![c] = x],
           \A s \in Ids : subs'[s] = None \/ subs'[s] = subs[s],
           mixed' = mixed
    PROVE  Aside
<1>1. x # None
    BY RequestFields
<1>. QED  BY <1>1, OneCall DEF Aside, At

\* What updates read.
LEMMA SubReadFigures ==
    ASSUME PlannerTypeOK, WipeInv, SubInv, NEW c \in Calls, NEW i \in Ids,
           NEW a \in Amounts \cup {None}, NEW cy \in Cycles \cup {None}, SubRead(c, i, a, cy)
    PROVE  SubInv'
<1>1. UNCHANGED <<subs, mixed>> /\ Fresh(c) /\ i \in Active
    BY DEF SubRead, Active
<1>2. \A d \in Calls : call'[d] = None => call[d] = None
    BY <1>1, SubReadCalls, RecordsAssumption DEF Fresh
<1>3. ASSUME NEW s \in (Active \ mixed)' PROVE Fits(s)'
    BY <1>1 DEF SubInv, Fits, Active
<1>4. \A d \in Calls : At(d, "sub")' => d = c \/ (At(d, "sub") /\ call'[d].id = call[d].id)
    BY SubReadCalls DEF At
<1>5. ASSUME NEW d \in Calls, At(d, "sub")' PROVE Made(d)'
    <2>1. CASE d = c
        <3>1. i \in Calls => call[i] # None
            <4>1. ~ Coming("subscriptions", i)
                BY <1>1, DocumentsAre DEF WipeInv, There, Active
            <4>. QED  BY <4>1 DEF Coming, Fresh, Own
        <3>2. call'[d].id = i
            BY <2>1, SubReadCalls
        <3>. QED  BY <1>2, <3>1, <3>2 DEF Made
    <2>2. CASE d # c
        BY <1>2, <1>4, <1>5, <2>2 DEF SubInv, Made
    <2>. QED  BY <2>1, <2>2
<1>6. ASSUME NEW d \in Calls, At(d, "sub")', call'[d].alone PROVE Only(d)' /\ Computed(d)'
    <2>1. CASE d = c
        <3>1. \A e \in Calls : ~ (At(e, "sub") /\ call[e].id = i)
            BY <1>6, <2>1, SubReadCalls
        <3>2. call'[c].id = i /\ call'[c].amount = a /\ call'[c].cycle = cy
              /\ call'[c].annual = NewAnnual(subs[i], a, cy)
            BY SubReadCalls
        <3>. QED  BY <1>1, <1>4, <2>1, <3>1, <3>2 DEF Only, Computed
    <2>2. CASE d # c
        <3>1. call'[d] = call[d] /\ ~ (At(d, "sub") /\ call[d].id = i)
            BY <1>6, <2>2, SubReadCalls
        <3>2. At(d, "sub") /\ call[d].id # i /\ Only(d) /\ Computed(d)
            BY <1>6, <3>1 DEF At, SubInv
        <3>3. call'[c].id = i
            BY SubReadCalls
        <3>. QED  BY <1>1, <1>4, <3>1, <3>2, <3>3 DEF Only, Computed, Active
    <2>. QED  BY <2>1, <2>2
<1>. QED  BY <1>3, <1>5, <1>6 DEF SubInv

\* What updates write.
LEMMA SubSaveFigures ==
    ASSUME PlannerTypeOK, SubInv, NEW c \in Calls, SubSave(c)
    PROVE  SubInv'
<1>. DEFINE s == call[c].id
<1>1. At(c, "sub") /\ s \in Ids
    BY RequestFields DEF SubSave, At, PlannerTypeOK
<1>2. /\ call'[c] = [op |-> "ended"] /\ call'[c] # None
      /\ \A d \in Calls : d # c => call'[d] = call[d]
    BY OneCall, RequestKinds, RequestFields DEF SubSave, Ends
<1>3. /\ \A r \in Ids : r # s => subs'[r] = subs[r]
      /\ subs'[s] = None <=> subs[s] = None
    <2>1. CASE subs[s] = None
        BY <2>1 DEF SubSave
    <2>2. CASE subs[s] # None
        <3>. DEFINE new == [amount |-> IF call[c].amount = None THEN subs[s].amount
                                       ELSE call[c].amount,
                            cycle  |-> IF call[c].cycle = None THEN subs[s].cycle
                                       ELSE call[c].cycle,
                            annual |-> call[c].annual]
        <3>1. subs' = [subs EXCEPT ![s] = new]
            BY <2>2 DEF SubSave
        <3>2. new # None
            <4>1. new \in Sub
                BY <1>1, <2>2, RequestFields DEF PlannerTypeOK, StoreTypeOK, Sub, At
            <4>. QED  BY <4>1, RecordsAssumption
        <3>. HIDE DEF new
        <3>. QED  BY <1>1, <2>2, <3>1, <3>2 DEF PlannerTypeOK, StoreTypeOK
    <2>. QED  BY <2>1, <2>2
<1>4. Active' = Active
    BY <1>1, <1>3 DEF Active
<1>5. \A d \in Calls : At(d, "sub")' => d # c /\ At(d, "sub") /\ call'[d] = call[d]
    BY <1>2 DEF At
<1>6. ASSUME NEW r \in (Active \ mixed)' PROVE Fits(r)'
    <2>1. CASE r # s
        BY <1>3, <1>4, <2>1 DEF SubInv, Fits, SubSave, Active
    <2>2. CASE r = s
        <3>1. call[c].alone /\ s \in Active /\ subs[s] # None
            BY <1>4, <2>2 DEF SubSave, Active
        <3>2. Computed(c)
            BY <1>1, <3>1 DEF SubInv
        <3>3. subs' = [subs EXCEPT ![s] =
                     [amount |-> IF call[c].amount = None THEN subs[s].amount ELSE call[c].amount,
                      cycle  |-> IF call[c].cycle = None THEN subs[s].cycle ELSE call[c].cycle,
                      annual |-> call[c].annual]]
            BY <3>1 DEF SubSave
        <3>4. /\ subs'[s].amount = IF call[c].amount = None THEN subs[s].amount ELSE call[c].amount
              /\ subs'[s].cycle = IF call[c].cycle = None THEN subs[s].cycle ELSE call[c].cycle
              /\ subs'[s].annual = call[c].annual
            BY <1>1, <3>3 DEF PlannerTypeOK, StoreTypeOK
        <3>. QED  BY <2>2, <3>1, <3>2, <3>4 DEF Fits, Computed, NewAnnual
    <2>. QED  BY <2>1, <2>2
<1>7. ASSUME NEW d \in Calls, At(d, "sub")' PROVE Made(d)'
    BY <1>2, <1>5, <1>7 DEF SubInv, Made
<1>8. ASSUME NEW d \in Calls, At(d, "sub")', call'[d].alone PROVE Only(d)' /\ Computed(d)'
    <2>1. At(d, "sub") /\ call'[d] = call[d] /\ d # c /\ Only(d) /\ Computed(d)
        BY <1>5, <1>8 DEF SubInv
    <2>2. call[d].id # s
        BY <1>1, <2>1 DEF Only
    <2>. QED  BY <1>3, <1>4, <1>5, <2>1, <2>2 DEF Only, Computed, Active
<1>. QED  BY <1>6, <1>7, <1>8 DEF SubInv

\* What a creation writes.
LEMMA CreateSubFigures ==
    ASSUME PlannerTypeOK, SubInv, NEW c \in Calls, NEW a \in Amounts, NEW cy \in Cycles,
           CreateSub(c, a, cy)
    PROVE  SubInv'
<1>1. /\ call'[c] = [op |-> "ended"] /\ call'[c] # None /\ Fresh(c) /\ c \in Ids
      /\ \A d \in Calls : d # c => call'[d] = call[d]
    BY OneCall, RequestKinds, RequestFields DEF CreateSub, Ends, Ids
<1>2. /\ \A r \in Ids : r # c => subs'[r] = subs[r]
      /\ subs'[c] = [amount |-> a, cycle |-> cy, annual |-> AnnualCost(a, cy)]
      /\ mixed' = mixed
    BY <1>1 DEF CreateSub, PlannerTypeOK, StoreTypeOK
<1>3. \A d \in Calls : At(d, "sub")' => d # c /\ At(d, "sub") /\ call'[d] = call[d]
    BY <1>1 DEF At
<1>4. ASSUME NEW r \in (Active \ mixed)' PROVE Fits(r)'
    BY <1>2 DEF SubInv, Fits, Active
<1>5. ASSUME NEW d \in Calls, At(d, "sub")' PROVE Made(d)' /\ call[d].id # c
    BY <1>1, <1>3, <1>5 DEF SubInv, Made, Fresh
<1>6. ASSUME NEW d \in Calls, At(d, "sub")', call'[d].alone PROVE Only(d)' /\ Computed(d)'
    <2>1. At(d, "sub") /\ call'[d] = call[d] /\ d # c /\ Only(d) /\ Computed(d)
        BY <1>3, <1>6 DEF SubInv
    <2>. QED  BY <1>2, <1>3, <1>5, <1>6, <2>1 DEF Only, Computed, Active
<1>. QED  BY <1>4, <1>5, <1>6 DEF SubInv

\* What the screens and devices leave of the figures.
LEMMA ScreensFigures == PlannerTypeOK /\ WipeInv /\ SubInv /\ Screens => SubInv'
<1>. SUFFICES ASSUME PlannerTypeOK, WipeInv, SubInv, Screens PROVE SubInv'
    OBVIOUS
<1>1. ASSUME NEW c \in Calls, NEW x \in Call, x.op # "sub", call' = [call EXCEPT ![c] = x],
             \A s \in Ids : subs'[s] = None \/ subs'[s] = subs[s],
             mixed' = mixed
      PROVE  SubInv'
    BY <1>1, OneAside, AsideKeeps, RequestKinds
<1>2. [op |-> "ended"] \in Call
    BY DEF Call
<1>3. ASSUME NEW c \in Calls, NEW i \in Ids, ToggleRead(c, i) PROVE SubInv'
    <2>. DEFINE x == [op |-> "toggle", id |-> i, status |->
                    IF khata[i] = "pending" THEN "settled" ELSE "pending"]
    <2>1. x \in Call /\ x.op # "sub"
        BY DEF Call
    <2>2. call' = [call EXCEPT ![c] = x]
        BY <1>3 DEF ToggleRead
    <2>. HIDE DEF x
    <2>. QED  BY <1>1, <1>3, <2>1, <2>2 DEF ToggleRead
<1>4. ASSUME NEW c \in Calls, NEW i \in Ids, NEW status \in {"todo", "done"},
             TaskRead(c, i, status)
      PROVE  SubInv'
    <2>. DEFINE x == [op |-> "task", id |-> i, status |-> status,
                    completes |-> status = "done" /\ tasks[i].status = "todo"]
    <2>1. x \in Call /\ x.op # "sub"
        BY DEF Call
    <2>2. call' = [call EXCEPT ![c] = x]
        BY <1>4 DEF TaskRead
    <2>. HIDE DEF x
    <2>. QED  BY <1>1, <1>4, <2>1, <2>2 DEF TaskRead
<1>5. ASSUME NEW c \in Calls, Ends(c), \A s \in Ids : subs'[s] = None \/ subs'[s] = subs[s],
             mixed' = mixed
      PROVE  SubInv'
    BY <1>1, <1>2, <1>5 DEF Ends
<1>6. ASSUME NEW c \in Calls, NEW i \in Ids,
             \/ ToggleSave(c) \/ TaskSave(c) \/ RemoveEntry(c, i) \/ RemoveTask(c, i)
             \/ RemoveSub(c, i) \/ SettleAllForPerson(c) \/ CreateEntry(c) \/ CreateTask(c)
      PROVE  SubInv'
    <2>1. Ends(c) /\ mixed' = mixed
        BY <1>6 DEF ToggleSave, TaskSave, RemoveEntry, RemoveTask, RemoveSub,
                    SettleAllForPerson, CreateEntry, CreateTask
    <2>2. \A s \in Ids : subs'[s] = None \/ subs'[s] = subs[s]
        BY <1>6 DEF ToggleSave, TaskSave, RemoveEntry, RemoveTask, RemoveSub,
                    SettleAllForPerson, CreateEntry, CreateTask, PlannerTypeOK, StoreTypeOK
    <2>. QED  BY <1>5, <2>1, <2>2
<1>7. ASSUME NEW c \in Calls,
             ToggleSave(c) \/ TaskSave(c) \/ SettleAllForPerson(c) \/ CreateEntry(c) \/ CreateTask(c)
      PROVE  SubInv'
    BY <1>6, <1>7 DEF Ids
<1>. QED
    BY <1>3, <1>4, <1>6, <1>7, SubReadFigures, SubSaveFigures, CreateSubFigures
    DEF Screens, RecordNext

\* What the others leave of them.
LEMMA OthersFigures ==
    ASSUME PlannerTypeOK, SubInv, NEW c \in Calls,
           \/ Devices(c)
           \/ \E s \in Sentences, ai \in ModelDates : ChatParse(c, s, ai)
           \/ ChatCreate(c)
           \/ \E model \in BOOLEAN : ChatCreateFails(c, model)
           \/ \E s \in Sentences, model \in BOOLEAN : ChatReply(c, s, model)
           \/ \E mode \in {"expense", "khata"} : VoiceSaves(c, mode)
           \/ VoiceFails(c) \/ Notify(c) \/ NotifyFails(c)
           \/ \E d \in Calls : WipeStart(c, d)
           \/ \E k \in Collections : WipeDeletes(c, k) \/ WipeDeleteFails(c, k)
    PROVE  SubInv'
<1>1. ASSUME NEW x \in AnyCall, x.op # "sub", call' = [call EXCEPT ![c] = x],
             UNCHANGED <<subs, mixed>>
      PROVE  SubInv'
    BY <1>1, OneAside, AsideKeeps
<1>2. ASSUME Ends(c) \/ \E reply \in Replies : Replied(c, reply), UNCHANGED <<subs, mixed>>
      PROVE  SubInv'
    <2>1. CASE Ends(c)
        BY <1>1, <1>2, <2>1, RequestKinds DEF Ends
    <2>2. ASSUME NEW reply \in Replies, Replied(c, reply) PROVE SubInv'
        BY <1>1, <1>2, <2>2, RequestKinds DEF Replied
    <2>. QED  BY <1>2, <2>1, <2>2
<1>3. "saved" \in Replies /\ "reminder_set" \in Replies
    BY DEF Replies
<1>4. CASE Devices(c)
    <2>1. CASE Ends(c)
        BY <1>2, <1>4, <2>1 DEF Devices
    <2>2. CASE ~ Ends(c)
        <3>1. UNCHANGED <<call, subs, mixed>>
            BY <1>4, <2>2 DEF Devices
        <3>2. Aside
            BY <3>1 DEF Aside
        <3>. QED  BY <3>2, AsideKeeps
    <2>. QED  BY <2>1, <2>2
<1>5. ASSUME NEW s \in Sentences, NEW ai \in ModelDates, ChatParse(c, s, ai) PROVE SubInv'
    BY <1>1, <1>5, ChatRequest DEF ChatParse
<1>6. CASE ChatCreate(c) \/ Notify(c) \/ NotifyFails(c)
    BY <1>2, <1>3, <1>6 DEF ChatCreate, Notify, NotifyFails
<1>7. ASSUME NEW model \in BOOLEAN, NEW s \in Sentences,
             ChatCreateFails(c, model) \/ ChatReply(c, s, model)
      PROVE  SubInv'
    BY <1>2, <1>7, ReplyText DEF ChatCreateFails, ChatReply
<1>8. ASSUME NEW model \in BOOLEAN, ChatCreateFails(c, model) PROVE SubInv'
    BY <1>2, <1>8, ReplyText DEF ChatCreateFails
<1>9. ASSUME NEW mode \in {"expense", "khata"}, VoiceSaves(c, mode) PROVE SubInv'
    <2>1. CASE mode = "expense"
        BY <1>1, <1>9, <2>1, RequestKinds DEF VoiceSaves
    <2>2. CASE mode # "expense"
        BY <1>2, <1>3, <1>9, <2>2 DEF VoiceSaves
    <2>. QED  BY <2>1, <2>2
<1>10. CASE VoiceFails(c)
    BY <1>2, <1>10 DEF VoiceFails
<1>11. ASSUME NEW d \in Calls, WipeStart(c, d) PROVE SubInv'
    <2>1. /\ UNCHANGED <<subs, mixed>> /\ Fresh(c) /\ Fresh(d)
          /\ call'[c].op = "wipe" /\ call'[d].op = "ended"
          /\ \A e \in Calls : e \notin {c, d} => call'[e] = call[e]
        BY <1>11 DEF WipeStart, PlannerTypeOK
    <2>2. \A e \in Calls : At(e, "sub")' => call'[e] = call[e]
        BY <2>1 DEF At
    <2>3. \A e \in Calls : call'[e] = None => call[e] = None
        BY <2>1 DEF Fresh
    <2>4. Aside
        BY <2>1, <2>2, <2>3 DEF Aside
    <2>. QED  BY <2>4, AsideKeeps
<1>12. ASSUME NEW k \in Collections, WipeDeletes(c, k) \/ WipeDeleteFails(c, k) PROVE SubInv'
    <2>1. PICK x \in WipeCall : call' = [call EXCEPT ![c] = x]
        BY <1>12, WipeGoesOn
    <2>2. x \in AnyCall /\ x.op # "sub"
        BY RequestKinds DEF WipeCall
    <2>3. mixed' = mixed /\ \A s \in Ids : subs'[s] = None \/ subs'[s] = subs[s]
        BY <1>12 DEF WipeDeletes, WipeDeleteFails
    <2>. QED  BY <2>1, <2>2, <2>3, OneAside, AsideKeeps
<1>. QED
    BY <1>4, <1>5, <1>6, <1>7, <1>8, <1>9, <1>10, <1>11, <1>12

----------------------------------------------------------------------------
(***************************************************************************)
(* What is saved without the redundant ones.                               *)
(***************************************************************************)
\* Of a year, as the assistant and, before it rounds, the savings page work it out.
Charged == [s \in Ids |-> IF subs[s].cycle = "Yearly" THEN subs[s].amount
                          ELSE subs[s].amount * MONTHS_PER_YEAR]

Yearly == [s \in Ids |-> IF subs[s].cycle = "Yearly" THEN subs[s].annual
                         ELSE subs[s].amount * MONTHS_PER_YEAR]

FoldsCharged(X, h) ==
    h = [s \in SUBSET X |->
            IF s = {} THEN 0
            ELSE (IF subs[First(s)].cycle = "Yearly" THEN subs[First(s)].amount
                  ELSE subs[First(s)].amount * MONTHS_PER_YEAR) + h[s \ {First(s)}]]

FoldsYearly(X, h) ==
    h = [s \in SUBSET X |->
            IF s = {} THEN 0
            ELSE (IF subs[First(s)].cycle = "Yearly" THEN subs[First(s)].annual
                  ELSE subs[First(s)].amount * MONTHS_PER_YEAR) + h[s \ {First(s)}]]

\* Both are sums over the redundant ones.
LEMMA SavingsTotal ==
    ASSUME NEW k
    PROVE  /\ RedundantSavings(k) = SumOf(Charged, Redundant(k))
           /\ RedundantYearly(k) = SumOf(Yearly, Redundant(k))
<1>. DEFINE X == Redundant(k)
<1>0. X \subseteq Ids
    BY DEF Redundant, Active
<1>1. RedundantSavings(k) = (CHOOSE h : FoldsCharged(X, h))[X]
    BY DEF RedundantSavings, MapThenSumSet, MapThenFoldSet, FoldsCharged, First
<1>2. RedundantYearly(k) = (CHOOSE h : FoldsYearly(X, h))[X]
    BY DEF RedundantYearly, MapThenSumSet, MapThenFoldSet, FoldsYearly, First
<1>. HIDE DEF X
<1>3. ASSUME NEW h PROVE Folds(Charged, X, h) <=> FoldsCharged(X, h)
    <2>. DEFINE A(s) == IF s = {} THEN 0 ELSE Charged[First(s)] + h[s \ {First(s)}]
                B(s) == IF s = {} THEN 0
                        ELSE (IF subs[First(s)].cycle = "Yearly" THEN subs[First(s)].amount
                              ELSE subs[First(s)].amount * MONTHS_PER_YEAR) + h[s \ {First(s)}]
    <2>1. ASSUME NEW s \in SUBSET X PROVE A(s) = B(s)
        <3>1. CASE s = {}
            BY <3>1
        <3>2. CASE s # {}
            <4>1. First(s) \in Ids
                BY <1>0, <3>2, FirstIn
            <4>. QED  BY <4>1 DEF Charged
        <3>. QED  BY <3>1, <3>2
    <2>. HIDE DEF A, B
    <2>2. [s \in SUBSET X |-> A(s)] = [s \in SUBSET X |-> B(s)]
        BY <2>1
    <2>. QED  BY <2>2 DEF A, B, Folds, FoldsCharged
<1>4. ASSUME NEW h PROVE Folds(Yearly, X, h) <=> FoldsYearly(X, h)
    <2>. DEFINE A(s) == IF s = {} THEN 0 ELSE Yearly[First(s)] + h[s \ {First(s)}]
                B(s) == IF s = {} THEN 0
                        ELSE (IF subs[First(s)].cycle = "Yearly" THEN subs[First(s)].annual
                              ELSE subs[First(s)].amount * MONTHS_PER_YEAR) + h[s \ {First(s)}]
    <2>1. ASSUME NEW s \in SUBSET X PROVE A(s) = B(s)
        <3>1. CASE s = {}
            BY <3>1
        <3>2. CASE s # {}
            <4>1. First(s) \in Ids
                BY <1>0, <3>2, FirstIn
            <4>. QED  BY <4>1 DEF Yearly
        <3>. QED  BY <3>1, <3>2
    <2>. HIDE DEF A, B
    <2>2. [s \in SUBSET X |-> A(s)] = [s \in SUBSET X |-> B(s)]
        BY <2>1
    <2>. QED  BY <2>2 DEF A, B, Folds, FoldsYearly
<1>5. (CHOOSE h : Folds(Charged, X, h)) = (CHOOSE h : FoldsCharged(X, h))
    BY <1>3
<1>6. (CHOOSE h : Folds(Yearly, X, h)) = (CHOOSE h : FoldsYearly(X, h))
    BY <1>4
<1>. QED  BY <1>1, <1>2, <1>5, <1>6, SumOfUnfold DEF X

\* Rounding to whole rupees a month takes or adds at most half a one.
LEMMA RoundingBound ==
    ASSUME NEW x \in Int
    PROVE  WithinRounding(x, ((x + MonthlyRupee \div 2) \div MonthlyRupee) * MonthlyRupee)
<1>. DEFINE q == (x + 600) \div 1200
<1>1. q \in Int /\ 1200 * q <= x + 600 /\ x + 600 < 1200 * q + 1200
    OBVIOUS
<1>2. MonthlyRupee = 1200 /\ MonthlyRupee \div 2 = 600
    BY DEF MonthlyRupee, MONTHS_PER_YEAR
<1>3. (x + MonthlyRupee \div 2) \div MonthlyRupee = q
    BY <1>2
<1>. HIDE DEF q
<1>4. WithinRounding(x, q * MonthlyRupee)
    BY <1>1, <1>2 DEF WithinRounding
<1>. QED  BY <1>3, <1>4

\* Where the figures fit, it is the same saving whichever of the cheapest is kept, but for
\* the rounding of the savings page.
LEMMA SameSaving ==
    ASSUME PlannerTypeOK, \A s \in Active : Fits(s),
           NEW k \in Cheapest, NEW l \in Cheapest, subs[k].cycle = subs[l].cycle
    PROVE  WithinRounding(RedundantSavings(k), PotentialSavings(l))
<1>1. /\ Active \subseteq Ids /\ IsFiniteSet(Active) /\ k \in Active /\ l \in Active
    BY RecordsAssumption, FS_Subset DEF Active, Cheapest
<1>2. ASSUME NEW s \in Active
      PROVE  subs[s].amount \in Nat /\ subs[s].cycle \in Cycles /\ subs[s].annual \in Nat
    BY <1>2, RecordsAssumption DEF Active, PlannerTypeOK, StoreTypeOK, Sub
<1>3. ASSUME NEW s \in Active PROVE Charged[s] = Yearly[s] /\ Charged[s] \in Int
    <2>1. s \in Ids /\ Fits(s)
        BY <1>1, <1>3
    <2>. QED  BY <1>2, <2>1 DEF Fits, AnnualCost, Charged, Yearly, Cycles, MONTHS_PER_YEAR
<1>4. subs[k].amount = subs[l].amount
    BY <1>1, <1>2 DEF Cheapest
<1>5. Charged[k] = Charged[l]
    BY <1>1, <1>4 DEF Charged
<1>6. SumOf(Charged, Active) = Charged[k] + SumOf(Charged, Active \ {k})
      /\ SumOf(Charged, Active) = Charged[l] + SumOf(Charged, Active \ {l})
    BY <1>1, <1>3, SumOfStep
<1>7. SumOf(Charged, Active \ {k}) \in Int /\ SumOf(Charged, Active \ {l}) \in Int
    <2>1. IsFiniteSet(Active \ {k}) /\ IsFiniteSet(Active \ {l})
        BY <1>1, FS_Subset
    <2>. QED  BY <1>3, <2>1, SumOfType
<1>8. SumOf(Charged, Active \ {k}) = SumOf(Charged, Active \ {l})
    <2>. DEFINE a == SumOf(Charged, Active \ {k})
                b == SumOf(Charged, Active \ {l})
                v == Charged[k]
    <2>1. v + a = v + b /\ v \in Int /\ a \in Int /\ b \in Int
        BY <1>1, <1>3, <1>5, <1>6, <1>7
    <2>. HIDE DEF a, b, v
    <2>2. a = b
        BY <2>1
    <2>. QED  BY <2>2 DEF a, b
<1>9. SumOf(Charged, Redundant(k)) = SumOf(Charged, Redundant(l))
    BY <1>8 DEF Redundant
<1>10. SumOf(Charged, Redundant(l)) = SumOf(Yearly, Redundant(l))
    <2>1. Redundant(l) \subseteq Active
        BY DEF Redundant
    <2>2. IsFiniteSet(Redundant(l))
        BY <1>1, <2>1, FS_Subset
    <2>. QED  BY <1>3, <2>1, <2>2, SumOfSame
<1>11. RedundantSavings(k) = RedundantYearly(l) /\ RedundantYearly(l) = SumOf(Charged, Redundant(l))
    BY <1>9, <1>10, SavingsTotal
<1>12. RedundantYearly(l) \in Int
    <2>1. Redundant(l) \subseteq Active
        BY DEF Redundant
    <2>2. IsFiniteSet(Redundant(l))
        BY <1>1, <2>1, FS_Subset
    <2>. QED  BY <1>3, <1>11, <2>1, <2>2, SumOfType
<1>. QED  BY <1>11, <1>12, RoundingBound DEF PotentialSavings, AvoidedExpenses

\* SubscriptionFigures, for every number of subscriptions and updates.
THEOREM SubscriptionsFit == Spec => []SubscriptionFigures
<1>1. Init => SubInv
    <2>. SUFFICES ASSUME Init PROVE SubInv
        OBVIOUS
    <2>1. \A c \in Calls : ~ At(c, "sub")
        BY DEF Init, RecordInit, At
    <2>2. ASSUME NEW s \in Active PROVE Fits(s)
        <3>. DEFINE First0 == {[amount |-> a, cycle |-> cy, annual |-> AnnualCost(a, cy)] :
                                a \in Amounts, cy \in Cycles}
        <3>1. s \in Ids /\ subs[s] \in First0
            BY <2>2 DEF Init, RecordInit, Active
        <3>2. PICK a \in Amounts, cy \in Cycles :
                subs[s] = [amount |-> a, cycle |-> cy, annual |-> AnnualCost(a, cy)]
            BY <3>1
        <3>. QED  BY <3>2 DEF Fits
    <2>. QED  BY <2>1, <2>2 DEF SubInv
<1>2. PlannerTypeOK /\ WipeInv /\ SubInv /\ [Next]_vars => SubInv'
    <2>. SUFFICES ASSUME PlannerTypeOK, WipeInv, SubInv, [Next]_vars PROVE SubInv'
        OBVIOUS
    <2>1. CASE Screens
        BY <2>1, ScreensFigures
    <2>2. CASE UNCHANGED vars
        BY <2>2, AsideKeeps DEF vars, recordVars, Aside
    <2>3. ASSUME Next, ~ Screens PROVE SubInv'
        BY <2>3, OthersFigures DEF Next
    <2>. QED  BY <2>1, <2>2, <2>3
<1>3. PlannerTypeOK /\ SubInv => SubscriptionFigures
    <2>. SUFFICES ASSUME PlannerTypeOK, SubInv PROVE SubscriptionFigures
        OBVIOUS
    <2>1. \A s \in Active \ mixed : subs[s].annual = AnnualCost(subs[s].amount, subs[s].cycle)
        BY DEF SubInv, Fits
    <2>2. ASSUME Active \cap mixed = {}, NEW k \in Cheapest, NEW l \in Cheapest
          PROVE  /\ subs[k].cycle = subs[l].cycle
                       => WithinRounding(RedundantSavings(k), PotentialSavings(l))
                 /\ (\A s \in Active : subs[s].cycle = subs[k].cycle)
                       => \A s \in Redundant(k) : subs[k].annual <= subs[s].annual
        <3>1. \A s \in Active : Fits(s)
            BY <2>2 DEF SubInv
        <3>2. ASSUME \A s \in Active : subs[s].cycle = subs[k].cycle, NEW s \in Redundant(k)
              PROVE  subs[k].annual <= subs[s].annual
            <4>1. s \in Active /\ k \in Active /\ subs[k].amount <= subs[s].amount
                BY <3>2 DEF Redundant, Cheapest
            <4>2. subs[k].amount \in Nat /\ subs[s].amount \in Nat
                BY <4>1, RecordsAssumption DEF Active, PlannerTypeOK, StoreTypeOK, Sub
            <4>3. subs[k].cycle = subs[s].cycle /\ Fits(s) /\ Fits(k)
                BY <3>1, <3>2, <4>1
            <4>. QED  BY <4>1, <4>2, <4>3 DEF Fits, AnnualCost, MONTHS_PER_YEAR
        <3>. QED  BY <3>1, <3>2, SameSaving
    <2>. QED  BY <2>1, <2>2 DEF SubscriptionFigures
<1>. QED
    BY <1>1, <1>2, <1>3, PlannerTypeCorrect, WipesKeep, PTL DEF Spec
----------------------------------------------------------------------------
(***************************************************************************)
(* The calendar.                                                           *)
(***************************************************************************)
BeforeStep(h, m) == IF m = 1 THEN 0 ELSE h[m - 1] + MonthLengths[m - 1]

BeforeUpTo(n, h) == h = [m \in 1..n |-> BeforeStep(h, m)]

\* The recursion of DaysBefore.
LEMMA DaysBeforeUnfold == DaysBefore = CHOOSE h : BeforeUpTo(Len(MonthLengths), h)
BY DEF DaysBefore, BeforeUpTo, BeforeStep, Months

\* There is a function of this kind.
LEMMA BeforeExists == ASSUME NEW n \in Nat PROVE \E h : BeforeUpTo(n, h)
<1>. DEFINE T == {m \in 0..n : \E h : BeforeUpTo(m, h)}
<1>1. ASSUME NEW m \in 0..n, m = 0 \/ m - 1 \in T PROVE m \in T
    <2>1. CASE m = 0
        <3>. DEFINE h == [k \in 1..0 |-> 0]
        <3>1. h = [k \in 1..0 |-> BeforeStep(h, k)]
            OBVIOUS
        <3>. HIDE DEF h
        <3>. QED  BY <2>1, <3>1 DEF BeforeUpTo
    <2>2. CASE m # 0
        <3>1. PICK g : BeforeUpTo(m - 1, g)
            BY <1>1, <2>2
        <3>. DEFINE h == [k \in 1..m |-> IF k = m THEN BeforeStep(g, m) ELSE g[k]]
        <3>2. ASSUME NEW k \in 1..m PROVE h[k] = BeforeStep(h, k)
            <4>1. CASE k = m
                BY <2>2, <4>1 DEF BeforeStep
            <4>2. CASE k # m
                <5>1. k \in 1..(m - 1)
                    BY <4>2
                <5>2. g[k] = BeforeStep(g, k)
                    BY <3>1, <5>1 DEF BeforeUpTo
                <5>3. h[k] = g[k]
                    BY <4>2
                <5>4. k # 1 => h[k - 1] = g[k - 1]
                    BY <5>1
                <5>. QED  BY <5>2, <5>3, <5>4 DEF BeforeStep
            <4>. QED  BY <4>1, <4>2
        <3>3. h = [k \in 1..m |-> h[k]]
            OBVIOUS
        <3>. HIDE DEF h
        <3>4. [k \in 1..m |-> h[k]] = [k \in 1..m |-> BeforeStep(h, k)]
            BY <3>2
        <3>. QED  BY <3>3, <3>4 DEF BeforeUpTo
    <2>. QED  BY <2>1, <2>2
<1>. HIDE DEF T
<1>2. n \in T
    BY <1>1, UpTo
<1>. QED  BY <1>2 DEF T

\* The lengths are natural numbers.
LEMMA Lengths ==
    /\ Len(MonthLengths) \in Nat
    /\ \A m \in Months : MonthLengths[m] \in Nat /\ 1 <= MonthLengths[m] /\ MonthLengths[m] <= 31
<1>1. MonthLengths \in Seq(1..31)
    BY RemindersAssumption
<1>2. Len(MonthLengths) \in Nat
    BY <1>1
<1>3. \A m \in Months : MonthLengths[m] \in 1..31
    <2>. DEFINE Short == 1..31
    <2>1. MonthLengths \in Seq(Short)
        BY <1>1
    <2>. HIDE DEF Short
    <2>2. \A m \in 1..Len(MonthLengths) : MonthLengths[m] \in Short
        BY <2>1
    <2>. QED  BY <2>2 DEF Months, Short
<1>4. ASSUME NEW m \in Months
      PROVE  MonthLengths[m] \in Nat /\ 1 <= MonthLengths[m] /\ MonthLengths[m] <= 31
    <2>1. MonthLengths[m] \in 1..31
        BY <1>3
    <2>. QED  BY <2>1
<1>. QED  BY <1>2, <1>4

\* The days before a month are those before the month before it and its own.
LEMMA DaysBeforeStep ==
    \A m \in Months : DaysBefore[m] = IF m = 1 THEN 0
                                      ELSE DaysBefore[m - 1] + MonthLengths[m - 1]
<1>1. \E h : BeforeUpTo(Len(MonthLengths), h)
    BY Lengths, BeforeExists
<1>2. BeforeUpTo(Len(MonthLengths), DaysBefore)
    BY <1>1, DaysBeforeUnfold
<1>. QED  BY <1>2 DEF BeforeUpTo, BeforeStep, Months

\* They are natural numbers.
LEMMA DaysBeforeNat == \A m \in Months : DaysBefore[m] \in Nat
<1>. DEFINE n == Len(MonthLengths)
            T == {m \in 0..n : m # 0 => DaysBefore[m] \in Nat}
<1>1. n \in Nat
    BY Lengths
<1>2. \A m \in 0..n : (m = 0 \/ m - 1 \in T) => m \in T
    BY DaysBeforeStep, Lengths DEF Months
<1>3. \A m \in 0..n : m \in T
    <2>. HIDE DEF T
    <2>. QED  BY <1>1, <1>2, UpTo
<1>. QED  BY <1>3 DEF Months

\* A later month begins after all days of an earlier one.
LEMMA MonthsInOrder ==
    ASSUME NEW m \in Months, NEW k \in Months, m < k
    PROVE  DaysBefore[m] + MonthLengths[m] <= DaysBefore[k]
<1>. DEFINE n == Len(MonthLengths)
            T == {i \in 0..n : m < i => DaysBefore[m] + MonthLengths[m] <= DaysBefore[i]}
<1>1. n \in Nat
    BY Lengths
<1>2. ASSUME NEW i \in 0..n, i = 0 \/ i - 1 \in T PROVE i \in T
    <2>1. SUFFICES ASSUME m < i PROVE DaysBefore[m] + MonthLengths[m] <= DaysBefore[i]
        OBVIOUS
    <2>2. i \in Months /\ i - 1 \in Months /\ i # 1
        BY <2>1 DEF Months
    <2>3. DaysBefore[i] = DaysBefore[i - 1] + MonthLengths[i - 1]
        BY <2>2, DaysBeforeStep
    <2>4. /\ DaysBefore[i - 1] \in Nat /\ MonthLengths[i - 1] \in Nat
          /\ DaysBefore[m] \in Nat /\ MonthLengths[m] \in Nat
        BY <2>2, DaysBeforeNat, Lengths
    <2>5. CASE m = i - 1
        BY <2>3, <2>4, <2>5
    <2>6. CASE m # i - 1
        <3>1. m < i - 1
            BY <2>1, <2>6 DEF Months
        <3>2. DaysBefore[m] + MonthLengths[m] <= DaysBefore[i - 1]
            BY <1>2, <2>1, <2>2, <3>1 DEF Months
        <3>. QED  BY <2>3, <2>4, <3>2
    <2>. QED  BY <2>5, <2>6
<1>3. \A i \in 0..n : i \in T
    <2>. HIDE DEF T
    <2>. QED  BY <1>1, <1>2, UpTo
<1>. QED  BY <1>3 DEF Months

\* A number of days up to the end of a month falls into one up to it.
LEMMA MonthOfNumber ==
    ASSUME NEW k \in Months, NEW number \in Int,
           0 < number, number <= DaysBefore[k] + MonthLengths[k]
    PROVE  \E m \in Months : number - DaysBefore[m] \in 1..MonthLengths[m]
<1>. DEFINE n == Len(MonthLengths)
            T == {i \in 0..n :
                    i # 0 /\ number <= DaysBefore[i] + MonthLengths[i]
                       => \E m \in Months : number - DaysBefore[m] \in 1..MonthLengths[m]}
<1>1. n \in Nat
    BY Lengths
<1>2. ASSUME NEW i \in 0..n, i = 0 \/ i - 1 \in T PROVE i \in T
    <2>1. SUFFICES ASSUME i # 0, number <= DaysBefore[i] + MonthLengths[i]
                   PROVE  \E m \in Months : number - DaysBefore[m] \in 1..MonthLengths[m]
        OBVIOUS
    <2>2. i \in Months /\ DaysBefore[i] \in Nat /\ MonthLengths[i] \in Nat
        BY <2>1, DaysBeforeNat, Lengths DEF Months
    <2>3. CASE number > DaysBefore[i]
        <3>1. number - DaysBefore[i] \in 1..MonthLengths[i]
            BY <2>1, <2>2, <2>3
        <3>. QED  BY <2>2, <3>1
    <2>4. CASE number <= DaysBefore[i]
        <3>1. i # 1
            BY <2>2, <2>4, DaysBeforeStep
        <3>2. i - 1 \in Months /\ DaysBefore[i] = DaysBefore[i - 1] + MonthLengths[i - 1]
            BY <2>2, <3>1, DaysBeforeStep DEF Months
        <3>3. i - 1 # 0 /\ number <= DaysBefore[i - 1] + MonthLengths[i - 1]
            BY <2>4, <3>2 DEF Months
        <3>. QED  BY <1>2, <2>1, <3>3
    <2>. QED  BY <2>2, <2>3, <2>4
<1>3. \A i \in 0..n : i \in T
    <2>. HIDE DEF T
    <2>. QED  BY <1>1, <1>2, UpTo
<1>. QED  BY <1>3 DEF Months

\* Adding days gives a date there is, that many days on, within the calendar.
LEMMA AddDaysNumber ==
    ASSUME NEW d \in Date, Exists(d), NEW n \in Int, n <= 0, DayNumber(d) + n > 0
    PROVE  /\ AddDays(d, n) \in Date
           /\ Exists(AddDays(d, n))
           /\ DayNumber(AddDays(d, n)) = DayNumber(d) + n
<1>. DEFINE number == DayNumber(d) + n
            m == CHOOSE m \in Months : number - DaysBefore[m] \in 1..MonthLengths[m]
<1>1. d.month \in Months /\ d.day \in 1..31 /\ d.day <= MonthLengths[d.month]
    BY DEF Date, Exists
<1>2. DaysBefore[d.month] \in Nat /\ MonthLengths[d.month] \in Nat
    BY <1>1, DaysBeforeNat, Lengths
<1>3. number \in Int /\ 0 < number /\ number <= DaysBefore[d.month] + MonthLengths[d.month]
    BY <1>1, <1>2 DEF DayNumber
<1>4. AddDays(d, n) = [month |-> m, day |-> number - DaysBefore[m]]
    BY DEF AddDays
<1>. HIDE DEF number
<1>5. m \in Months /\ number - DaysBefore[m] \in 1..MonthLengths[m]
    BY <1>1, <1>3, MonthOfNumber
<1>. HIDE DEF m
<1>6. MonthLengths[m] \in Nat /\ MonthLengths[m] <= 31 /\ DaysBefore[m] \in Nat
    BY <1>5, Lengths, DaysBeforeNat
<1>7. number - DaysBefore[m] \in 1..31
    BY <1>5, <1>6
<1>8. DayNumber(AddDays(d, n)) = number
    BY <1>3, <1>4, <1>5, <1>6 DEF DayNumber
<1>. QED  BY <1>4, <1>5, <1>6, <1>7, <1>8 DEF Date, Exists, number

\* A number of months on is a date there is, if it is within the calendar.
LEMMA AddMonthsDate ==
    ASSUME NEW d \in Date, NEW n \in Nat, d.month + n \in Months, NEW anchorDay \in 1..31
    PROVE  AddMonths(d, n, anchorDay) \in Date /\ Exists(AddMonths(d, n, anchorDay))
<1>1. MonthLengths[d.month + n] \in Nat /\ 1 <= MonthLengths[d.month + n]
      /\ MonthLengths[d.month + n] <= 31
    BY Lengths
<1>2. Smaller(anchorDay, MonthLengths[d.month + n]) \in 1..31
      /\ Smaller(anchorDay, MonthLengths[d.month + n]) <= MonthLengths[d.month + n]
    BY <1>1 DEF Smaller
<1>. QED  BY <1>2 DEF AddMonths, Date, Exists

\* Dates have positive numbers; one of a later month has a greater number.
LEMMA DayNumbers ==
    ASSUME NEW d \in Date, Exists(d)
    PROVE  /\ DayNumber(d) \in Nat /\ DayNumber(d) > 0
           /\ \A e \in Date : d.month < e.month => DayNumber(d) < DayNumber(e)
<1>1. d.month \in Months /\ d.day \in 1..31 /\ d.day <= MonthLengths[d.month]
    BY DEF Date, Exists
<1>2. DaysBefore[d.month] \in Nat /\ MonthLengths[d.month] \in Nat
    BY <1>1, DaysBeforeNat, Lengths
<1>3. ASSUME NEW e \in Date, d.month < e.month PROVE DayNumber(d) < DayNumber(e)
    <2>1. e.month \in Months /\ e.day \in 1..31 /\ DaysBefore[e.month] \in Nat
        BY DaysBeforeNat DEF Date
    <2>2. DaysBefore[d.month] + MonthLengths[d.month] <= DaysBefore[e.month]
        BY <1>1, <1>3, <2>1, MonthsInOrder
    <2>. QED  BY <1>1, <1>2, <2>1, <2>2 DEF DayNumber
<1>. QED  BY <1>1, <1>2, <1>3 DEF DayNumber
----------------------------------------------------------------------------
(***************************************************************************)
(* Every date on record, and on its way to it, is one there is.            *)
(***************************************************************************)
GoodPayments(ps) ==
    /\ ps \in Seq(Payment)
    /\ \A i \in 1..Len(ps) : Exists(ps[i].due) /\ Exists(ps[i].reminder)

GoodBill(b) == b \in Bill /\ Exists(b.due) /\ Exists(b.reminder) /\ GoodPayments(b.payments)

GoodBody(body) ==
    /\ body \in Body
    /\ body.due # None => Exists(body.due)
    /\ body.reminder # None => Exists(body.reminder)

\* A request that is one.
Sends(q) ==
    /\ q \in Request
    /\ GoodBody(q.set) /\ GoodPayments(q.payments)
    /\ q # NoRequest => q.op # "idle"
    /\ q.op = "push" => Len(q.payments) = 1

\* An undo that no other save has overtaken takes off the last payment there is.
TakesLast(q) ==
    q.op = "pop" /\ ~ q.stale /\ bill # None =>
        LET n == Len(bill.payments)
        IN n > 0 /\ q.payments = SubSeq(bill.payments, 1, n - 1)

ReminderInv ==
    /\ bill # None => GoodBill(bill)
    /\ req \in [Requests -> Request]
    /\ \A r \in Requests : Sends(req[r]) /\ TakesLast(req[r])
    /\ start # None => start \in Starts

\* A sequence and one element more.
LEMMA OneMore ==
    ASSUME NEW S, NEW s \in Seq(S), NEW t \in Seq(S), Len(t) = 1
    PROVE  /\ t[1] \in S
           /\ s \o t = Append(s, t[1])
           /\ Len(s \o t) = Len(s) + 1
           /\ SubSeq(s \o t, 1, Len(s)) = s
<1>1. Len(s) \in Nat /\ t[1] \in S
    <2>1. Len(s) \in Nat
        BY LenProperties
    <2>2. t \in [1..Len(t) -> S]
        BY LenProperties
    <2>3. 1 \in 1..Len(t)
        OBVIOUS
    <2>. QED  BY <2>1, <2>2, <2>3
<1>. DEFINE c == s \o t
            a == Append(s, t[1])
<1>2. c \in Seq(S) /\ Len(c) = Len(s) + 1
    BY ConcatProperties
<1>3. \A i \in 1..(Len(s) + 1) : c[i] = IF i <= Len(s) THEN s[i] ELSE t[i - Len(s)]
    BY ConcatProperties
<1>4. a \in Seq(S) /\ Len(a) = Len(s) + 1
    BY <1>1, AppendProperties
<1>5. a[Len(s) + 1] = t[1] /\ \A i \in 1..Len(s) : a[i] = s[i]
    BY <1>1, AppendProperties
<1>. HIDE DEF c, a
<1>6. \A i \in 1..(Len(s) + 1) : c[i] = a[i]
    BY <1>1, <1>3, <1>5
<1>7. c = a
    BY <1>2, <1>4, <1>6
<1>8. SubSeq(c, 1, Len(s)) = s
    <2>1. /\ SubSeq(c, 1, Len(s)) \in Seq(S) /\ Len(SubSeq(c, 1, Len(s))) = Len(s)
          /\ \A i \in 1..Len(s) : SubSeq(c, 1, Len(s))[i] = c[i]
        BY <1>1, <1>2
    <2>2. \A i \in 1..Len(s) : c[i] = s[i]
        BY <1>1, <1>3
    <2>. QED  BY <1>1, <2>1, <2>2
<1>. QED  BY <1>1, <1>2, <1>7, <1>8 DEF c, a

\* Payments added and taken off.
LEMMA PaymentsMade ==
    ASSUME NEW ps, GoodPayments(ps)
    PROVE  /\ \A p \in Payment : Exists(p.due) /\ Exists(p.reminder)
                 => GoodPayments(Append(ps, p)) /\ GoodPayments(<<p>>)
           /\ \A n \in 0..Len(ps) : GoodPayments(SubSeq(ps, 1, n))
           /\ \A qs : GoodPayments(qs) => GoodPayments(ps \o qs)
           /\ GoodPayments(<< >>)
<1>1. ps \in Seq(Payment) /\ Len(ps) \in Nat
    BY DEF GoodPayments
<1>2. ASSUME NEW p \in Payment, Exists(p.due), Exists(p.reminder)
      PROVE  GoodPayments(Append(ps, p)) /\ GoodPayments(<<p>>)
    <2>1. /\ Append(ps, p) \in Seq(Payment) /\ Len(Append(ps, p)) = Len(ps) + 1
          /\ \A i \in 1..Len(ps) : Append(ps, p)[i] = ps[i]
          /\ Append(ps, p)[Len(ps) + 1] = p
        BY <1>1
    <2>2. \A i \in 1..(Len(ps) + 1) : i \in 1..Len(ps) \/ i = Len(ps) + 1
        BY <1>1
    <2>3. GoodPayments(Append(ps, p))
        BY <1>2, <2>1, <2>2 DEF GoodPayments
    <2>4. <<p>> \in Seq(Payment) /\ Len(<<p>>) = 1 /\ <<p>>[1] = p
        OBVIOUS
    <2>. QED  BY <1>2, <2>3, <2>4 DEF GoodPayments
<1>3. ASSUME NEW n \in 0..Len(ps) PROVE GoodPayments(SubSeq(ps, 1, n))
    <2>1. /\ SubSeq(ps, 1, n) \in Seq(Payment) /\ Len(SubSeq(ps, 1, n)) = n
          /\ \A i \in 1..n : SubSeq(ps, 1, n)[i] = ps[i] /\ i \in 1..Len(ps)
        BY <1>1
    <2>. QED  BY <2>1 DEF GoodPayments
<1>4. ASSUME NEW qs, GoodPayments(qs) PROVE GoodPayments(ps \o qs)
    <2>1. qs \in Seq(Payment) /\ Len(qs) \in Nat
        BY <1>4 DEF GoodPayments
    <2>2. /\ ps \o qs \in Seq(Payment) /\ Len(ps \o qs) = Len(ps) + Len(qs)
          /\ \A i \in 1..(Len(ps) + Len(qs)) :
                (ps \o qs)[i] = IF i <= Len(ps) THEN ps[i] ELSE qs[i - Len(ps)]
        BY <1>1, <2>1
    <2>3. \A i \in 1..(Len(ps) + Len(qs)) :
            IF i <= Len(ps) THEN i \in 1..Len(ps) ELSE i - Len(ps) \in 1..Len(qs)
        BY <1>1, <2>1
    <2>. QED  BY <1>4, <2>2, <2>3 DEF GoodPayments
<1>5. GoodPayments(<< >>)
    BY DEF GoodPayments
<1>. QED  BY <1>2, <1>3, <1>4, <1>5

\* The next due date of a recurring bill, and its alert.
LEMMA RolledGood ==
    ASSUME NEW b, GoodBill(b), b.freq # "One-time",
           b.due.month + PERIOD_MONTHS[b.freq] < Len(MonthLengths)
    PROVE  LET next == AddMonths(b.due, PERIOD_MONTHS[b.freq], AnchorDay(b))
               last == [due |-> b.due, reminder |-> b.reminder]
           IN /\ GoodBill(Rolled(b))
              /\ Rolled(b).due = next
              /\ Rolled(b).reminder = AddDays(next, -Lead(b))
              /\ Rolled(b).freq = b.freq
              /\ Rolled(b).status = "pending"
              /\ Rolled(b).payments = Append(b.payments, last)
              /\ last \in Payment /\ Exists(last.due) /\ Exists(last.reminder)
              /\ Lead(b) \in Nat /\ Lead(b) < DayNumber(b.due)
<1>. DEFINE n == PERIOD_MONTHS[b.freq]
            next == AddMonths(b.due, n, AnchorDay(b))
            last == [due |-> b.due, reminder |-> b.reminder]
<1>1. b \in Bill /\ b.due \in Date /\ b.reminder \in Date /\ Exists(b.due) /\ Exists(b.reminder)
      /\ b.freq \in Frequencies /\ GoodPayments(b.payments)
    BY DEF GoodBill, Bill
<1>2. n \in Nat /\ n > 0
    BY <1>1 DEF PERIOD_MONTHS, Frequencies
<1>. HIDE DEF n
<1>3. AnchorDay(b) \in 1..31
    <2>1. CASE b.payments = << >>
        BY <1>1, <2>1 DEF AnchorDay, Date
    <2>2. CASE b.payments # << >>
        <3>1. b.payments \in Seq(Payment)
            BY <1>1 DEF GoodPayments
        <3>2. b.payments[1] \in Payment
            BY <2>2, <3>1
        <3>3. b.payments[1].due \in Date
            BY <3>2 DEF Payment
        <3>. QED  BY <2>2, <3>3 DEF AnchorDay, Date
    <2>. QED  BY <2>1, <2>2
<1>4. b.due.month + n \in Months
    BY <1>1, <1>2, Lengths DEF Date, Months, n
<1>5. next \in Date /\ Exists(next)
    BY <1>1, <1>2, <1>3, <1>4, AddMonthsDate
<1>6. next.month = b.due.month + n
    BY DEF AddMonths
<1>. HIDE DEF next
<1>7. /\ DayNumber(b.due) \in Nat /\ DayNumber(b.reminder) \in Nat /\ DayNumber(next) \in Nat
      /\ DayNumber(b.reminder) > 0 /\ DayNumber(b.due) > 0 /\ DayNumber(b.due) < DayNumber(next)
    BY <1>1, <1>2, <1>5, <1>6, DayNumbers DEF Date, Months
<1>8. Lead(b) \in Nat /\ Lead(b) < DayNumber(b.due)
    BY <1>7 DEF Lead, DaysBetween
<1>9. AddDays(next, -Lead(b)) \in Date /\ Exists(AddDays(next, -Lead(b)))
    <2>1. -Lead(b) \in Int /\ -Lead(b) <= 0 /\ DayNumber(next) + (-Lead(b)) > 0
        BY <1>7, <1>8
    <2>. QED  BY <1>5, <2>1, AddDaysNumber
<1>10. last \in Payment /\ Exists(last.due) /\ Exists(last.reminder)
    BY <1>1 DEF Payment
<1>11. /\ Rolled(b).due = next
       /\ Rolled(b).reminder = AddDays(next, -Lead(b))
       /\ Rolled(b).freq = b.freq
       /\ Rolled(b).status = "pending"
       /\ Rolled(b).payments = Append(b.payments, last)
    BY <1>1 DEF Rolled, Bill, next, n
<1>12. GoodPayments(Append(b.payments, last))
    BY <1>1, <1>10, PaymentsMade
<1>13. Rolled(b) \in Bill
    <2>1. Append(b.payments, last) \in Seq(Payment)
        BY <1>12 DEF GoodPayments
    <2>2. Rolled(b) = [b EXCEPT !.payments = Append(b.payments, last), !.due = next,
                                !.reminder = AddDays(next, -Lead(b)), !.status = "pending"]
        BY DEF Rolled, next, n
    <2>. HIDE DEF last
    <2>. QED  BY <1>1, <1>5, <1>9, <2>1, <2>2 DEF Bill
<1>. QED
    BY <1>5, <1>8, <1>9, <1>10, <1>11, <1>12, <1>13 DEF GoodBill, n, next

\* None is no field of a bill.
LEMMA NoneNoField ==
    /\ None \notin Bill /\ None \notin Date /\ None \notin Frequencies
    /\ None \notin {"pending", "paid"}
BY RemindersAssumption

\* What an update makes of a bill.
LEMMA UpdatedGood ==
    ASSUME NEW b, GoodBill(b), NEW body \in Bodies,
           LET edited == Edited(b, body)
           IN Pays(edited, body) => WithinBounds(edited)
    PROVE  LET edited == Edited(b, body)
           IN /\ GoodBill(edited)
              /\ GoodBill(Updated(b, body))
              /\ Pays(edited, body) =>
                    LET new == Updated(b, body)
                    IN /\ Len(new.payments) = Len(edited.payments) + 1
                       /\ new.payments[Len(new.payments)]
                             = [due |-> edited.due, reminder |-> edited.reminder]
                       /\ GoodPayments(<<new.payments[Len(new.payments)]>>)
              /\ ~ Pays(edited, body) => Updated(b, body).payments = b.payments
<1>. DEFINE edited == Edited(b, body)
<1>1. body \in Body /\ (body.due # None => Exists(body.due))
      /\ (body.reminder # None => Exists(body.reminder))
    BY RemindersAssumption
<1>2. b \in Bill /\ Exists(b.due) /\ Exists(b.reminder) /\ GoodPayments(b.payments)
    BY DEF GoodBill
<1>3. /\ Or(body.due, b.due) \in Date /\ Exists(Or(body.due, b.due))
      /\ Or(body.reminder, b.reminder) \in Date /\ Exists(Or(body.reminder, b.reminder))
      /\ Or(body.freq, b.freq) \in Frequencies
    BY <1>1, <1>2 DEF Or, Body, Bill
<1>4. /\ edited \in Bill /\ edited.payments = b.payments /\ edited.status = b.status
      /\ Exists(edited.due) /\ Exists(edited.reminder)
    BY <1>2, <1>3 DEF Edited, Bill
<1>5. GoodBill(edited)
    BY <1>2, <1>4 DEF GoodBill
<1>. HIDE DEF edited
<1>6. CASE Pays(edited, body)
    <2>1. /\ Updated(b, body) = Rolled(edited)
          /\ edited.freq # "One-time"
          /\ edited.due.month + PERIOD_MONTHS[edited.freq] < Len(MonthLengths)
        BY <1>6 DEF Updated, Pays, WithinBounds, edited
    <2>. DEFINE last == [due |-> edited.due, reminder |-> edited.reminder]
    <2>2. /\ GoodBill(Rolled(edited)) /\ Rolled(edited).payments = Append(edited.payments, last)
          /\ last \in Payment /\ Exists(last.due) /\ Exists(last.reminder)
        BY <1>5, <2>1, RolledGood
    <2>. HIDE DEF last
    <2>3. edited.payments \in Seq(Payment) /\ GoodPayments(edited.payments)
        BY <1>5 DEF GoodBill, GoodPayments
    <2>4. /\ Len(Append(edited.payments, last)) = Len(edited.payments) + 1
          /\ Append(edited.payments, last)[Len(edited.payments) + 1] = last
        BY <2>2, <2>3
    <2>5. GoodPayments(<<last>>)
        BY <2>2, <2>3, PaymentsMade
    <2>. QED  BY <1>5, <1>6, <2>1, <2>2, <2>4, <2>5 DEF edited, last
<1>7. CASE ~ Pays(edited, body)
    <2>1. CASE body.status # None /\ body.status # b.status
        <3>1. Updated(b, body) = [edited EXCEPT !.status = body.status]
            BY <1>7, <2>1 DEF Updated, edited
        <3>2. body.status \in {"pending", "paid"}
            BY <1>1, <2>1 DEF Body
        <3>3. /\ Updated(b, body) \in Bill /\ Updated(b, body).payments = b.payments
              /\ Updated(b, body).due = edited.due /\ Updated(b, body).reminder = edited.reminder
            BY <1>4, <3>1, <3>2 DEF Bill
        <3>4. GoodBill(Updated(b, body))
            BY <1>2, <1>4, <3>3 DEF GoodBill
        <3>. QED  BY <1>5, <1>7, <3>3, <3>4 DEF edited
    <2>2. CASE ~ (body.status # None /\ body.status # b.status)
        <3>1. Updated(b, body) = edited
            BY <1>7, <2>2 DEF Updated, edited
        <3>. QED  BY <1>4, <1>5, <1>7, <3>1 DEF edited
    <2>. QED  BY <2>1, <2>2
<1>. QED  BY <1>6, <1>7

\* What an undo makes of one.
LEMMA UndoneGood ==
    ASSUME NEW b, GoodBill(b), b.status = "paid" \/ b.payments # << >>
    PROVE  /\ GoodBill(Undone(b))
           /\ Undone(b).freq = b.freq
           /\ b.status = "paid" => /\ Undone(b).due = b.due /\ Undone(b).reminder = b.reminder
                                   /\ Undone(b).status = "pending"
                                   /\ Undone(b).payments = b.payments
           /\ b.status # "paid" =>
                 LET n == Len(b.payments)
                 IN /\ n \in Nat /\ n > 0
                    /\ Undone(b).payments = SubSeq(b.payments, 1, n - 1)
                    /\ Undone(b).due = b.payments[n].due
                    /\ Undone(b).reminder = b.payments[n].reminder
                    /\ Undone(b).status = b.status
<1>. DEFINE n == Len(b.payments)
<1>1. b \in Bill /\ Exists(b.due) /\ Exists(b.reminder) /\ GoodPayments(b.payments)
      /\ b.payments \in Seq(Payment) /\ n \in Nat
    BY DEF GoodBill, GoodPayments
<1>2. CASE b.status = "paid"
    <2>1. Undone(b) = [b EXCEPT !.status = "pending"]
        BY <1>2 DEF Undone
    <2>. QED  BY <1>1, <1>2, <2>1 DEF GoodBill, Bill
<1>3. CASE b.status # "paid"
    <2>1. n > 0
        BY <1>1, <1>3
    <2>2. b.payments[n] \in Payment
        BY <1>1, <2>1
    <2>3. Exists(b.payments[n].due) /\ Exists(b.payments[n].reminder)
        BY <1>1, <2>1 DEF GoodPayments
    <2>. DEFINE less == SubSeq(b.payments, 1, n - 1)
                due == b.payments[n].due
                reminder == b.payments[n].reminder
    <2>4. Undone(b) = [b EXCEPT !.payments = less, !.due = due, !.reminder = reminder]
        BY <1>3 DEF Undone
    <2>5. GoodPayments(less)
        BY <1>1, <2>1, PaymentsMade
    <2>6. less \in Seq(Payment) /\ due \in Date /\ reminder \in Date
        BY <2>2, <2>5 DEF GoodPayments, Payment
    <2>. HIDE DEF less, due, reminder
    <2>7. /\ Undone(b) \in Bill /\ Undone(b).payments = less /\ Undone(b).due = due
          /\ Undone(b).reminder = reminder /\ Undone(b).freq = b.freq
          /\ Undone(b).status = b.status
        BY <1>1, <2>4, <2>6 DEF Bill
    <2>8. GoodBill(Undone(b))
        BY <2>3, <2>5, <2>7 DEF GoodBill, due, reminder
    <2>. QED  BY <1>1, <1>3, <2>1, <2>7, <2>8 DEF less, due, reminder
<1>. QED  BY <1>2, <1>3

\* What a request that has changed its copy is about to save.
LEMMA Begun ==
    ASSUME ReminderInv, bill # None, NEW r \in Requests, NEW new, GoodBill(new),
           NEW ps, GoodPayments(ps), NEW op \in {"keep", "push", "pop"},
           op = "push" => Len(ps) = 1, Begin(r, op, new, ps)
    PROVE  /\ req' \in [Requests -> Request]
           /\ Sends(req'[r])
           /\ req'[r].op = op /\ req'[r].payments = ps /\ ~ req'[r].stale
           /\ req'[r] # NoRequest /\ req[r] = NoRequest /\ bill' = bill
           /\ \A p \in Requests : p # r => req'[p] = req[p]
           /\ Or(req'[r].set.due, bill.due) = new.due
           /\ Or(req'[r].set.reminder, bill.reminder) = new.reminder
           /\ Or(req'[r].set.freq, bill.freq) = new.freq
           /\ Or(req'[r].set.status, bill.status) = new.status
<1>. DEFINE set == [due      |-> Modified(new.due, bill.due),
                    reminder |-> Modified(new.reminder, bill.reminder),
                    freq     |-> Modified(new.freq, bill.freq),
                    status   |-> Modified(new.status, bill.status)]
            q == [op |-> op, payments |-> ps, stale |-> FALSE, set |-> set]
<1>1. new \in Bill /\ Exists(new.due) /\ Exists(new.reminder) /\ ps \in Seq(Payment)
    BY DEF GoodBill, GoodPayments
<1>2. /\ Modified(new.due, bill.due) \in Date \cup {None}
      /\ Modified(new.reminder, bill.reminder) \in Date \cup {None}
      /\ Modified(new.freq, bill.freq) \in Frequencies \cup {None}
      /\ Modified(new.status, bill.status) \in {"pending", "paid", None}
    BY <1>1 DEF Modified, Bill
<1>3. set \in Body
    BY <1>2 DEF Body
<1>4. GoodBody(set)
    BY <1>1, <1>3 DEF GoodBody, Modified
<1>5. /\ Or(set.due, bill.due) = new.due
      /\ Or(set.reminder, bill.reminder) = new.reminder
      /\ Or(set.freq, bill.freq) = new.freq
      /\ Or(set.status, bill.status) = new.status
    BY <1>1, NoneNoField DEF Or, Modified, Bill
<1>. HIDE DEF set
<1>6. q \in Request /\ q.op = op /\ q.payments = ps /\ q.stale = FALSE /\ q.set = set
    BY <1>1, <1>3 DEF Request
<1>7. q # NoRequest
    BY DEF NoRequest
<1>8. req' = [req EXCEPT ![r] = q] /\ req[r] = NoRequest /\ bill' = bill
    BY DEF Begin, set
<1>. HIDE DEF q
<1>9. Sends(q)
    BY <1>4, <1>6 DEF Sends
<1>. QED  BY <1>5, <1>6, <1>7, <1>8, <1>9 DEF ReminderInv

\* What a save leaves.
LEMMA SavedGood ==
    ASSUME GoodBill(bill), NEW q, Sends(q), q # NoRequest
    PROVE  /\ GoodBill(Saved(q))
           /\ q.op \in {"keep", "push", "pop"}
           /\ Saved(q).due = Or(q.set.due, bill.due)
           /\ Saved(q).reminder = Or(q.set.reminder, bill.reminder)
           /\ Saved(q).freq = Or(q.set.freq, bill.freq)
           /\ Saved(q).status = Or(q.set.status, bill.status)
           /\ q.op = "keep" => Saved(q).payments = bill.payments
           /\ q.op = "push" => Saved(q).payments = bill.payments \o q.payments
           /\ q.op = "pop" => Saved(q).payments = q.payments
<1>1. q \in Request /\ q.op \in {"keep", "push", "pop"} /\ GoodBody(q.set)
      /\ GoodPayments(q.payments) /\ GoodPayments(bill.payments) /\ bill \in Bill
      /\ Exists(bill.due) /\ Exists(bill.reminder)
    BY DEF Sends, Request, GoodBill
<1>2. /\ q.op = "keep" => SavedPayments(q) = bill.payments
      /\ q.op = "push" => SavedPayments(q) = bill.payments \o q.payments
      /\ q.op = "pop" => SavedPayments(q) = q.payments
    BY DEF SavedPayments
<1>3. GoodPayments(SavedPayments(q))
    BY <1>1, <1>2, PaymentsMade
<1>4. /\ Or(q.set.due, bill.due) \in Date /\ Exists(Or(q.set.due, bill.due))
      /\ Or(q.set.reminder, bill.reminder) \in Date /\ Exists(Or(q.set.reminder, bill.reminder))
      /\ Or(q.set.freq, bill.freq) \in Frequencies
      /\ Or(q.set.status, bill.status) \in {"pending", "paid"}
    BY <1>1 DEF Or, GoodBody, Body, Bill
<1>5. Saved(q) \in Bill
    BY <1>3, <1>4 DEF Saved, Bill, GoodPayments
<1>6. /\ Saved(q).due = Or(q.set.due, bill.due)
      /\ Saved(q).reminder = Or(q.set.reminder, bill.reminder)
      /\ Saved(q).freq = Or(q.set.freq, bill.freq)
      /\ Saved(q).status = Or(q.set.status, bill.status)
      /\ Saved(q).payments = SavedPayments(q)
    BY DEF Saved
<1>. QED  BY <1>1, <1>2, <1>3, <1>4, <1>5, <1>6 DEF GoodBill

\* What a request begins with.
LEMMA ReadBegins ==
    ASSUME ReminderInv, NEW r \in Requests, UpdateRead(r) \/ UndoRead(r)
    PROVE  /\ bill # None
           /\ \E new, ps, op :
                /\ GoodBill(new) /\ GoodPayments(ps) /\ op \in {"keep", "push", "pop"}
                /\ op = "push" => Len(ps) = 1
                /\ op = "pop" => /\ Len(bill.payments) > 0
                                 /\ ps = SubSeq(bill.payments, 1, Len(bill.payments) - 1)
                /\ Begin(r, op, new, ps)
           /\ start' = start \/ start' = None
<1>1. bill # None /\ GoodBill(bill)
    BY DEF UpdateRead, UndoRead, ReminderInv
<1>2. start' = start \/ start' = None
    BY DEF UpdateRead, UndoRead
<1>3. GoodPayments(<< >>)
    BY DEF GoodPayments
<1>4. CASE UpdateRead(r)
    <2>1. PICK body \in Bodies :
            LET edited == Edited(bill, body)
                pays == Pays(edited, body)
                new == Updated(bill, body)
            IN /\ pays => WithinBounds(edited)
               /\ IF pays THEN Begin(r, "push", new, <<new.payments[Len(new.payments)]>>)
                          ELSE Begin(r, "keep", new, << >>)
        BY <1>4 DEF UpdateRead
    <2>. DEFINE edited == Edited(bill, body)
                new == Updated(bill, body)
                last == new.payments[Len(new.payments)]
    <2>2. GoodBill(new) /\ (Pays(edited, body) => GoodPayments(<<last>>))
        BY <1>1, <2>1, UpdatedGood
    <2>3. CASE Pays(edited, body)
        <3>1. Begin(r, "push", new, <<last>>)
            BY <2>1, <2>3
        <3>2. Len(<<last>>) = 1
            OBVIOUS
        <3>. HIDE DEF new, last
        <3>. QED  BY <1>1, <1>2, <2>2, <2>3, <3>1, <3>2
    <2>4. CASE ~ Pays(edited, body)
        <3>1. Begin(r, "keep", new, << >>)
            BY <2>1, <2>4
        <3>. HIDE DEF new
        <3>. QED  BY <1>1, <1>2, <1>3, <2>2, <3>1
    <2>. QED  BY <2>3, <2>4
<1>5. CASE UndoRead(r)
    <2>1. GoodBill(Undone(bill)) /\ GoodPayments(Undone(bill).payments)
        BY <1>1, <1>5, UndoneGood DEF UndoRead, GoodBill
    <2>2. CASE bill.status = "paid"
        <3>1. Begin(r, "keep", Undone(bill), << >>)
            BY <1>5, <2>2 DEF UndoRead
        <3>. QED  BY <1>1, <1>2, <1>3, <2>1, <3>1
    <2>3. CASE bill.status # "paid"
        <3>1. Begin(r, "pop", Undone(bill), Undone(bill).payments)
            BY <1>5, <2>3 DEF UndoRead
        <3>2. /\ Len(bill.payments) > 0
              /\ Undone(bill).payments = SubSeq(bill.payments, 1, Len(bill.payments) - 1)
            BY <1>1, <1>5, <2>3, UndoneGood DEF UndoRead
        <3>. QED  BY <1>1, <1>2, <2>1, <3>1, <3>2
    <2>. QED  BY <2>2, <2>3
<1>. QED  BY <1>4, <1>5

\* What a save does to the other requests.
LEMMA SaveOthers ==
    ASSUME ReminderInv, NEW r \in Requests, Save(r)
    PROVE  /\ start' = start /\ req[r] # NoRequest
           /\ req' \in [Requests -> Request] /\ req'[r] = NoRequest
           /\ \A p \in Requests : Sends(req'[p])
           /\ \A p \in Requests : req[p] = NoRequest => req'[p] = NoRequest
           /\ \/ bill' = bill /\ \A p \in Requests : p # r => req'[p] = req[p]
              \/ /\ bill # None /\ ~ Conflict(req[r]) /\ bill' = Saved(req[r])
                 /\ \A p \in Requests : p # r =>
                       \/ req'[p] = req[p]
                             /\ (req[r].op \in {"push", "pop"} => req[p] = NoRequest)
                       \/ req'[p].stale
<1>. DEFINE q == req[r]
<1>1. start' = start /\ q # NoRequest
    BY DEF Save
<1>2. NoRequest \in Request /\ Sends(NoRequest)
    <2>1. << >> \in Seq(Payment) /\ Len(<< >>) = 0
        OBVIOUS
    <2>2. Nothing \in Body /\ Nothing.due = None /\ Nothing.reminder = None
        BY DEF Nothing, Body
    <2>. QED  BY <2>1, <2>2 DEF NoRequest, Request, Sends, GoodBody, GoodPayments
<1>3. ASSUME NEW p \in Requests, req[p] # NoRequest
      PROVE  LET x == [req[p] EXCEPT !.stale = TRUE]
             IN x \in Request /\ Sends(x) /\ x.stale
    <2>1. req[p] \in Request /\ Sends(req[p])
        BY DEF ReminderInv
    <2>. DEFINE x == [req[p] EXCEPT !.stale = TRUE]
    <2>2. x \in Request /\ x.op = req[p].op /\ x.set = req[p].set
          /\ x.payments = req[p].payments /\ x.stale = TRUE
        BY <2>1 DEF Request
    <2>. HIDE DEF x
    <2>3. Sends(x)
        BY <1>3, <2>1, <2>2 DEF Sends
    <2>. QED  BY <2>2, <2>3 DEF x
<1>4. CASE /\ bill # None
           /\ ~Conflict(q)
           /\ bill' = Saved(q)
           /\ req' = [p \in Requests |->
                        IF p = r THEN NoRequest
                        ELSE IF p \in InFlight /\ q.op \in {"push", "pop"}
                        THEN [req[p] EXCEPT !.stale = TRUE]
                        ELSE req[p]]
    <2>1. ASSUME NEW p \in Requests
          PROVE  /\ req'[p] \in Request /\ Sends(req'[p])
                 /\ p = r => req'[p] = NoRequest
                 /\ req[p] = NoRequest => req'[p] = NoRequest
                 /\ p # r => \/ req'[p] = req[p]
                                  /\ (q.op \in {"push", "pop"} => req[p] = NoRequest)
                             \/ req'[p].stale
        <3>1. CASE p = r
            BY <1>1, <1>2, <1>4, <3>1
        <3>2. CASE p # r /\ req[p] = NoRequest
            BY <1>2, <1>4, <3>2 DEF InFlight
        <3>3. CASE p # r /\ req[p] # NoRequest /\ q.op \in {"push", "pop"}
            <4>1. req'[p] = [req[p] EXCEPT !.stale = TRUE]
                BY <1>4, <3>3 DEF InFlight
            <4>. QED  BY <1>3, <3>3, <4>1
        <3>4. CASE p # r /\ q.op \notin {"push", "pop"}
            <4>1. req'[p] = req[p]
                BY <1>4, <3>4
            <4>. QED  BY <3>4, <4>1 DEF ReminderInv
        <3>. QED  BY <3>1, <3>2, <3>3, <3>4
    <2>2. req' \in [Requests -> Request]
        <3>1. req' = [p \in Requests |-> req'[p]]
            BY <1>4
        <3>. QED  BY <2>1, <3>1
    <2>. QED  BY <1>1, <1>4, <2>1, <2>2
<1>5. CASE /\ bill = None \/ Conflict(q)
           /\ req' = [req EXCEPT ![r] = NoRequest]
           /\ UNCHANGED bill
    BY <1>1, <1>2, <1>5 DEF ReminderInv
<1>. QED  BY <1>4, <1>5 DEF Save

\* Each step keeps to dates there are, and to the last payment.
LEMMA NextReminders == ReminderInv /\ [RemindersNext]_reminderVars => ReminderInv'
<1>. SUFFICES ASSUME ReminderInv, [RemindersNext]_reminderVars PROVE ReminderInv'
    OBVIOUS
<1>1. NoRequest \in Request /\ Sends(NoRequest) /\ NoRequest.op = "idle"
    <2>1. << >> \in Seq(Payment) /\ Len(<< >>) = 0
        OBVIOUS
    <2>2. Nothing \in Body /\ Nothing.due = None /\ Nothing.reminder = None
        BY DEF Nothing, Body
    <2>. QED  BY <2>1, <2>2 DEF NoRequest, Request, Sends, GoodBody, GoodPayments
<1>2. CASE Create
    <2>1. PICK b \in Starts : bill' = b /\ start' = b /\ req' = req /\ InFlight = {}
        BY <1>2 DEF Create
    <2>2. GoodBill(b)
        <3>1. b \in Bill /\ Exists(b.due) /\ Exists(b.reminder) /\ b.payments = << >>
            BY RemindersAssumption
        <3>2. << >> \in Seq(Payment) /\ Len(<< >>) = 0
            OBVIOUS
        <3>. QED  BY <3>1, <3>2 DEF GoodBill, GoodPayments
    <2>3. \A r \in Requests : req'[r] = NoRequest
        BY <2>1 DEF InFlight
    <2>. QED  BY <1>1, <2>1, <2>2, <2>3 DEF ReminderInv, TakesLast
<1>3. CASE Remove
    BY <1>3 DEF Remove, ReminderInv, TakesLast
<1>4. ASSUME NEW r \in Requests, UpdateRead(r) \/ UndoRead(r) PROVE ReminderInv'
    <2>1. bill # None /\ GoodBill(bill) /\ (start' = start \/ start' = None)
        BY <1>4, ReadBegins DEF ReminderInv
    <2>2. PICK new, ps, op :
                /\ GoodBill(new) /\ GoodPayments(ps) /\ op \in {"keep", "push", "pop"}
                /\ op = "push" => Len(ps) = 1
                /\ op = "pop" => /\ Len(bill.payments) > 0
                                 /\ ps = SubSeq(bill.payments, 1, Len(bill.payments) - 1)
                /\ Begin(r, op, new, ps)
        BY <1>4, ReadBegins
    <2>3. /\ req' \in [Requests -> Request] /\ Sends(req'[r]) /\ bill' = bill
          /\ req'[r].op = op /\ req'[r].payments = ps
          /\ \A p \in Requests : p # r => req'[p] = req[p]
        BY <2>1, <2>2, Begun
    <2>. QED  BY <2>1, <2>2, <2>3 DEF ReminderInv, TakesLast
<1>5. ASSUME NEW r \in Requests, Save(r) PROVE ReminderInv'
    <2>1. /\ start' = start /\ req' \in [Requests -> Request]
          /\ req[r] # NoRequest /\ Sends(req[r])
          /\ \A p \in Requests : Sends(req'[p])
          /\ req'[r] = NoRequest
        BY <1>5, SaveOthers DEF ReminderInv
    <2>2. CASE bill' = bill /\ \A p \in Requests : p # r => req'[p] = req[p]
        BY <1>1, <2>1, <2>2 DEF ReminderInv, TakesLast
    <2>3. CASE /\ bill # None /\ ~ Conflict(req[r]) /\ bill' = Saved(req[r])
               /\ \A p \in Requests : p # r =>
                     \/ req'[p] = req[p]
                           /\ (req[r].op \in {"push", "pop"} => req[p] = NoRequest)
                     \/ req'[p].stale
        <3>1. /\ GoodBill(bill')
              /\ req[r].op \notin {"push", "pop"} => bill'.payments = bill.payments
            BY <2>1, <2>3, SavedGood DEF ReminderInv
        <3>2. ASSUME NEW p \in Requests PROVE TakesLast(req[p])'
            <4>1. CASE p = r
                BY <1>1, <2>1, <4>1 DEF TakesLast
            <4>2. CASE p # r /\ req'[p].stale
                BY <4>2 DEF TakesLast
            <4>3. CASE p # r /\ req'[p] = req[p] /\ req[r].op \in {"push", "pop"}
                       /\ req[p] = NoRequest
                BY <1>1, <4>3 DEF TakesLast
            <4>4. CASE p # r /\ req'[p] = req[p] /\ req[r].op \notin {"push", "pop"}
                BY <2>3, <3>1, <4>4 DEF TakesLast, ReminderInv
            <4>. QED  BY <2>3, <4>1, <4>2, <4>3, <4>4
        <3>. QED  BY <2>1, <3>1, <3>2 DEF ReminderInv
    <2>. QED  BY <1>5, <2>2, <2>3, SaveOthers
<1>6. ASSUME NEW r \in Requests, Fails(r) PROVE ReminderInv'
    BY <1>1, <1>6 DEF Fails, ReminderInv, TakesLast
<1>7. CASE UNCHANGED reminderVars
    BY <1>7 DEF reminderVars, ReminderInv, TakesLast
<1>. QED  BY <1>2, <1>3, <1>4, <1>5, <1>6, <1>7 DEF RemindersNext

\* ... at first and ever after.
LEMMA RemindersKeep == RemindersSpec => []ReminderInv
<1>1. RemindersInit => ReminderInv
    <2>. SUFFICES ASSUME RemindersInit PROVE ReminderInv
        OBVIOUS
    <2>1. << >> \in Seq(Payment) /\ Len(<< >>) = 0
        OBVIOUS
    <2>2. Nothing \in Body /\ Nothing.due = None /\ Nothing.reminder = None
        BY DEF Nothing, Body
    <2>3. NoRequest \in Request /\ Sends(NoRequest) /\ NoRequest.op = "idle"
        BY <2>1, <2>2 DEF NoRequest, Request, Sends, GoodBody, GoodPayments
    <2>. QED  BY <2>3 DEF RemindersInit, ReminderInv, TakesLast
<1>. QED  BY <1>1, NextReminders, PTL DEF RemindersSpec

\* RemindersTypeOK, for every calendar: no bill is ever due, or alerted, on a day that its
\* month does not have.
THEOREM RemindersTypeCorrect == RemindersSpec => []RemindersTypeOK
<1>1. ReminderInv => RemindersTypeOK
    BY RemindersAssumption DEF ReminderInv, RemindersTypeOK, GoodBill
<1>. QED  BY <1>1, RemindersKeep, PTL

\* PaymentsKept, for any number of requests in flight and payments.
THEOREM PaymentsStay == RemindersSpec => PaymentsKept
<1>. DEFINE Kept ==
        bill # None /\ bill' # None =>
            LET n == Len(bill.payments) IN
            \/ bill'.payments = bill.payments
            \/ Len(bill'.payments) = n + 1 /\ SubSeq(bill'.payments, 1, n) = bill.payments
            \/ n > 0 /\ bill'.payments = SubSeq(bill.payments, 1, n - 1)
<1>1. ReminderInv /\ [RemindersNext]_reminderVars => [Kept]_reminderVars
    <2>. SUFFICES ASSUME ReminderInv, RemindersNext, bill # None, bill' # None
                  PROVE  LET n == Len(bill.payments) IN
                         \/ bill'.payments = bill.payments
                         \/ /\ Len(bill'.payments) = n + 1
                            /\ SubSeq(bill'.payments, 1, n) = bill.payments
                         \/ n > 0 /\ bill'.payments = SubSeq(bill.payments, 1, n - 1)
        OBVIOUS
    <2>1. CASE bill' = bill
        BY <2>1
    <2>2. ASSUME NEW r \in Requests, Save(r), bill' # bill
          PROVE  LET n == Len(bill.payments) IN
                 \/ bill'.payments = bill.payments
                 \/ /\ Len(bill'.payments) = n + 1
                    /\ SubSeq(bill'.payments, 1, n) = bill.payments
                 \/ n > 0 /\ bill'.payments = SubSeq(bill.payments, 1, n - 1)
        <3>. DEFINE q == req[r]
        <3>1. bill' = Saved(q) /\ ~ Conflict(q) /\ q # NoRequest /\ Sends(q) /\ TakesLast(q)
            BY <2>2, SaveOthers DEF ReminderInv
        <3>2. GoodBill(bill)
            BY DEF ReminderInv
        <3>3. /\ q.op \in {"keep", "push", "pop"}
              /\ q.op = "keep" => bill'.payments = bill.payments
              /\ q.op = "push" => bill'.payments = bill.payments \o q.payments
              /\ q.op = "pop" => bill'.payments = q.payments
            BY <3>1, <3>2, SavedGood
        <3>4. CASE q.op = "push"
            <4>1. /\ bill.payments \in Seq(Payment) /\ q.payments \in Seq(Payment)
                  /\ Len(q.payments) = 1
                BY <3>1, <3>2, <3>4 DEF Sends, GoodBill, GoodPayments
            <4>2. /\ Len(bill.payments \o q.payments) = Len(bill.payments) + 1
                  /\ SubSeq(bill.payments \o q.payments, 1, Len(bill.payments)) = bill.payments
                BY <4>1, OneMore
            <4>. QED  BY <3>3, <3>4, <4>2
        <3>5. CASE q.op = "pop"
            BY <3>1, <3>3, <3>5 DEF Conflict, TakesLast
        <3>. QED  BY <3>3, <3>4, <3>5
    <2>3. ASSUME NEW r \in Requests, UpdateRead(r) \/ UndoRead(r) \/ Fails(r) PROVE bill' = bill
        <3>1. CASE UpdateRead(r) \/ UndoRead(r)
            BY <3>1, ReadBegins DEF Begin
        <3>. QED  BY <2>3, <3>1 DEF Fails
    <2>. QED  BY <2>1, <2>2, <2>3 DEF RemindersNext, Create, Remove
<1>. QED  BY <1>1, RemindersKeep, PTL DEF RemindersSpec, PaymentsKept

----------------------------------------------------------------------------
(***************************************************************************)
(* The schedule.                                                           *)
(***************************************************************************)
\* The n-th period counted from a bill as created: DueAfter and ReminderAfter.
DueFrom(s, n) == AddMonths(s.due, n * PERIOD_MONTHS[s.freq], s.due.day)

ReminderFrom(s, n) == IF n = 0 THEN s.reminder ELSE AddDays(DueFrom(s, n), -Lead(s))

\* The payments are those of the periods before the bill's.
Recorded(s, ps) ==
    \A i \in 1..Len(ps) : ps[i].due = DueFrom(s, i - 1) /\ ps[i].reminder = ReminderFrom(s, i - 1)

\* A bill is where its payments take the one created.
Scheduled(s, b) ==
    /\ b.freq = s.freq
    /\ b.freq = "One-time" => b.due = s.due /\ b.reminder = s.reminder /\ b.payments = << >>
    /\ b.freq # "One-time" =>
          /\ b.status = "pending"
          /\ b.due = DueFrom(s, Len(b.payments))
          /\ b.reminder = ReminderFrom(s, Len(b.payments))
          /\ Recorded(s, b.payments)

\* What a save of q makes of a bill, if it does not throw.
Arrives(b, q) ==
    [due |-> Or(q.set.due, b.due), reminder |-> Or(q.set.reminder, b.reminder),
     freq |-> Or(q.set.freq, b.freq), status |-> Or(q.set.status, b.status),
     payments |-> IF q.op = "push" THEN b.payments \o q.payments
                  ELSE IF q.op = "pop" THEN q.payments ELSE b.payments]

\* So is what the only request there can be is about to make of it.
ScheduleInv ==
    start # None =>
        /\ bill # None
        /\ Scheduled(start, bill)
        /\ \A r, p \in Requests : req[r] # NoRequest /\ req[p] # NoRequest => r = p
        /\ \A r \in Requests : req[r] # NoRequest => Scheduled(start, Arrives(bill, req[r]))

\* The smaller of two numbers.
LEMMA SmallerLeft == ASSUME NEW x \in Nat, NEW y \in Nat, x <= y PROVE Smaller(x, y) = x
BY DEF Smaller

\* A bill as created, and its first period.
LEMMA FirstPeriod ==
    ASSUME NEW s, GoodBill(s), s.status = "pending", s.payments = << >>
    PROVE  Scheduled(s, s) /\ (s.freq # "One-time" => DueFrom(s, 0) = s.due)
<1>1. s \in Bill /\ s.due \in Date /\ Exists(s.due) /\ s.freq \in Frequencies
    BY DEF GoodBill, Bill
<1>2. s.due.month \in Months /\ s.due.day \in 1..31 /\ s.due.day <= MonthLengths[s.due.month]
    BY <1>1 DEF Date, Exists
<1>3. s.due = [month |-> s.due.month, day |-> s.due.day]
    BY <1>1 DEF Date
<1>4. MonthLengths[s.due.month] \in Nat
    BY <1>2, Lengths
<1>5. AddMonths(s.due, 0, s.due.day) = s.due
    <2>. DEFINE d == s.due
    <2>1. d.month + 0 = d.month
        BY <1>2 DEF Months
    <2>2. Smaller(d.day, MonthLengths[d.month]) = d.day
        <3>1. s.due.day \in Nat
            <4>1. s.due.day \in 1..31
                BY <1>1 DEF Date
            <4>2. \A y \in 1..31 : y \in Nat
                OBVIOUS
            <4>. QED  BY <4>1, <4>2
        <3>2. s.due.day <= MonthLengths[s.due.month]
            BY <1>1 DEF Exists
        <3>3. \A y \in Nat : s.due.day <= y => Smaller(s.due.day, y) = s.due.day
            BY <3>1, SmallerLeft
        <3>. QED  BY <1>4, <3>2, <3>3
    <2>3. AddMonths(d, 0, d.day) = [month |-> d.month, day |-> Smaller(d.day, MonthLengths[d.month])]
        BY <2>1 DEF AddMonths
    <2>. QED  BY <1>3, <2>2, <2>3
<1>6. s.freq # "One-time" => DueFrom(s, 0) = s.due
    <2>1. s.freq # "One-time" => 0 * PERIOD_MONTHS[s.freq] = 0
        BY <1>1 DEF PERIOD_MONTHS, Frequencies
    <2>. QED  BY <1>5, <2>1 DEF DueFrom
<1>7. Len(s.payments) = 0
    OBVIOUS
<1>. QED  BY <1>6, <1>7 DEF Scheduled, Recorded, ReminderFrom

\* The lead is a number of days before the due date.
LEMMA Leads ==
    ASSUME NEW b, GoodBill(b)
    PROVE  Lead(b) \in Nat /\ Lead(b) < DayNumber(b.due)
<1>1. b.due \in Date /\ b.reminder \in Date /\ Exists(b.due) /\ Exists(b.reminder)
    BY DEF GoodBill, Bill
<1>2. /\ DayNumber(b.due) \in Nat /\ DayNumber(b.reminder) \in Nat
      /\ DayNumber(b.reminder) > 0 /\ DayNumber(b.due) > 0
    BY <1>1, DayNumbers
<1>. QED  BY <1>2 DEF Lead, DaysBetween

\* A recurring bill on its schedule keeps the day it was first due and its lead.
LEMMA ScheduleKept ==
    ASSUME NEW s, GoodBill(s), s.status = "pending", s.payments = << >>,
           NEW b, GoodBill(b), Scheduled(s, b), b.freq # "One-time"
    PROVE  AnchorDay(b) = s.due.day /\ Lead(b) = Lead(s)
<1>. DEFINE n == Len(b.payments)
<1>1. /\ s.freq = b.freq /\ s.freq # "One-time" /\ s.freq \in Frequencies
      /\ b.due = DueFrom(s, n) /\ b.reminder = ReminderFrom(s, n) /\ Recorded(s, b.payments)
    BY DEF Scheduled, GoodBill, Bill
<1>2. /\ b.payments \in Seq(Payment) /\ n \in Nat
      /\ b.due \in Date /\ b.reminder \in Date /\ s.due \in Date
      /\ Exists(b.due) /\ Exists(s.due)
    BY DEF GoodBill, GoodPayments, Bill
<1>3. DueFrom(s, 0) = s.due
    BY <1>1, FirstPeriod
<1>4. CASE n = 0
    <2>1. b.payments = << >> /\ b.due = s.due /\ b.reminder = s.reminder
        BY <1>1, <1>2, <1>3, <1>4 DEF ReminderFrom
    <2>. QED  BY <2>1 DEF AnchorDay, Lead, DaysBetween
<1>5. CASE n # 0
    <2>1. AnchorDay(b) = s.due.day
        <3>1. 1 \in 1..Len(b.payments) /\ b.payments # << >> /\ 1 - 1 = 0
            BY <1>2, <1>5
        <3>2. b.payments[1].due = DueFrom(s, 0)
            BY <1>1, <3>1 DEF Recorded
        <3>. QED  BY <1>3, <3>1, <3>2 DEF AnchorDay
    <2>2. b.due.month = s.due.month + n * PERIOD_MONTHS[s.freq]
        BY <1>1 DEF DueFrom, AddMonths
    <2>3. s.due.month < b.due.month
        <3>1. s.due.month \in Nat
            BY <1>2 DEF Date, Months
        <3>2. s.freq \in {"Monthly", "Quarterly", "Yearly"}
            BY <1>1 DEF Frequencies
        <3>3. n * PERIOD_MONTHS[s.freq] \in Nat /\ n * PERIOD_MONTHS[s.freq] > 0
            BY <1>2, <1>5, <3>2 DEF PERIOD_MONTHS
        <3>. QED  BY <2>2, <3>1, <3>3
    <2>4. /\ Lead(s) \in Nat /\ Lead(s) < DayNumber(s.due)
          /\ DayNumber(s.due) \in Nat /\ DayNumber(b.due) \in Nat
          /\ DayNumber(s.due) < DayNumber(b.due)
        BY <1>2, <2>3, Leads, DayNumbers
    <2>5. DayNumber(b.reminder) = DayNumber(b.due) + (-Lead(s))
        <3>1. b.reminder = AddDays(b.due, -Lead(s))
            BY <1>1, <1>5 DEF ReminderFrom
        <3>2. -Lead(s) \in Int /\ -Lead(s) <= 0 /\ DayNumber(b.due) + (-Lead(s)) > 0
            BY <2>4
        <3>. QED  BY <1>2, <3>1, <3>2, AddDaysNumber
    <2>6. Lead(b) = Lead(s)
        BY <2>4, <2>5 DEF Lead, DaysBetween
    <2>. QED  BY <2>1, <2>6
<1>. QED  BY <1>4, <1>5

\* A payment takes it one period on.
LEMMA NextPeriod ==
    ASSUME NEW s, GoodBill(s), s.status = "pending", s.payments = << >>,
           NEW b, GoodBill(b), Scheduled(s, b), b.freq # "One-time",
           b.due.month + PERIOD_MONTHS[b.freq] < Len(MonthLengths)
    PROVE  Scheduled(s, Rolled(b))
<1>. DEFINE n == Len(b.payments)
            ps == Rolled(b).payments
            last == [due |-> b.due, reminder |-> b.reminder]
<1>1. /\ s.freq = b.freq /\ s.freq \in {"Monthly", "Quarterly", "Yearly"}
      /\ b.due = DueFrom(s, n) /\ b.reminder = ReminderFrom(s, n) /\ Recorded(s, b.payments)
    BY DEF Scheduled, GoodBill, Bill, Frequencies
<1>2. b.payments \in Seq(Payment) /\ n \in Nat /\ s.due \in Date /\ s.due.month \in Nat
    BY DEF GoodBill, GoodPayments, Bill, Date, Months
<1>3. AnchorDay(b) = s.due.day /\ Lead(b) = Lead(s)
    BY ScheduleKept
<1>4. /\ Rolled(b).due = AddMonths(b.due, PERIOD_MONTHS[b.freq], AnchorDay(b))
      /\ Rolled(b).reminder = AddDays(Rolled(b).due, -Lead(b))
      /\ Rolled(b).freq = b.freq /\ Rolled(b).status = "pending"
      /\ ps = Append(b.payments, last) /\ last \in Payment
    BY RolledGood
<1>5. /\ ps \in Seq(Payment) /\ Len(ps) = n + 1 /\ ps[n + 1] = last
      /\ \A i \in 1..n : ps[i] = b.payments[i]
    <2>. HIDE DEF last
    <2>. QED  BY <1>2, <1>4
<1>6. b.due.month + PERIOD_MONTHS[b.freq] = s.due.month + (n + 1) * PERIOD_MONTHS[s.freq]
    <2>1. b.due.month = s.due.month + n * PERIOD_MONTHS[s.freq]
        BY <1>1 DEF DueFrom, AddMonths
    <2>2. (n + 1) * PERIOD_MONTHS[s.freq] = n * PERIOD_MONTHS[s.freq] + PERIOD_MONTHS[s.freq]
          /\ n * PERIOD_MONTHS[s.freq] \in Nat /\ PERIOD_MONTHS[s.freq] \in Nat
        BY <1>1, <1>2 DEF PERIOD_MONTHS
    <2>. QED  BY <1>1, <1>2, <2>1, <2>2
<1>7. Rolled(b).due = DueFrom(s, n + 1)
    BY <1>3, <1>4, <1>6 DEF DueFrom, AddMonths
<1>8. Rolled(b).reminder = ReminderFrom(s, n + 1)
    <2>1. n + 1 # 0
        BY <1>2
    <2>. QED  BY <1>3, <1>4, <1>7, <2>1 DEF ReminderFrom
<1>9. Recorded(s, ps)
    <2>1. \A i \in 1..Len(ps) : i \in 1..n \/ (i = n + 1 /\ i - 1 = n)
        BY <1>2, <1>5
    <2>2. last.due = b.due /\ last.reminder = b.reminder
        OBVIOUS
    <2>. HIDE DEF last
    <2>. QED  BY <1>1, <1>5, <2>1, <2>2 DEF Recorded
<1>. QED
    <2>1. Len(ps) = n + 1 /\ Rolled(b).freq = s.freq /\ Rolled(b).status = "pending"
        BY <1>1, <1>4, <1>5
    <2>. HIDE DEF last, n
    <2>. QED  BY <1>1, <1>7, <1>8, <1>9, <2>1 DEF Scheduled

\* What an update that edits nothing leaves is on the schedule.
LEMMA UpdatedScheduled ==
    ASSUME NEW s, GoodBill(s), s.status = "pending", s.payments = << >>,
           NEW b, GoodBill(b), Scheduled(s, b), NEW body \in Bodies,
           Edited(b, body) = b, Pays(b, body) => WithinBounds(b)
    PROVE  Scheduled(s, Updated(b, body))
<1>1. body \in Body /\ b \in Bill
    BY RemindersAssumption DEF GoodBill
<1>2. CASE Pays(b, body)
    <2>1. /\ Updated(b, body) = Rolled(b) /\ b.freq # "One-time"
          /\ b.due.month + PERIOD_MONTHS[b.freq] < Len(MonthLengths)
        BY <1>2 DEF Updated, Pays, WithinBounds
    <2>. QED  BY <2>1, NextPeriod
<1>3. CASE ~ Pays(b, body) /\ body.status # None /\ body.status # b.status
    <2>1. Updated(b, body) = [b EXCEPT !.status = body.status]
        BY <1>3 DEF Updated
    <2>2. /\ Updated(b, body).freq = b.freq /\ Updated(b, body).due = b.due
          /\ Updated(b, body).reminder = b.reminder
          /\ Updated(b, body).payments = b.payments
        BY <1>1, <2>1 DEF Bill
    <2>3. b.freq = "One-time"
        BY <1>1, <1>3 DEF Scheduled, Pays, Body, Bill
    <2>. QED  BY <2>2, <2>3 DEF Scheduled
<1>4. CASE ~ Pays(b, body) /\ ~ (body.status # None /\ body.status # b.status)
    BY <1>4 DEF Updated
<1>. QED  BY <1>2, <1>3, <1>4

\* So is what an undo leaves.
LEMMA UndoneScheduled ==
    ASSUME NEW s, GoodBill(s), s.status = "pending", s.payments = << >>,
           NEW b, GoodBill(b), Scheduled(s, b), b.status = "paid" \/ b.payments # << >>
    PROVE  Scheduled(s, Undone(b))
<1>1. CASE b.status = "paid"
    <2>1. b.freq = "One-time"
        BY <1>1 DEF Scheduled
    <2>. QED  BY <1>1, <2>1, UndoneGood DEF Scheduled
<1>2. CASE b.status # "paid"
    <2>. DEFINE n == Len(b.payments)
                ps == SubSeq(b.payments, 1, n - 1)
    <2>1. /\ Undone(b).freq = b.freq /\ Undone(b).payments = ps
          /\ Undone(b).due = b.payments[n].due /\ Undone(b).reminder = b.payments[n].reminder
          /\ Undone(b).status = b.status /\ n \in Nat /\ n > 0
        BY <1>2, UndoneGood
    <2>2. b.freq # "One-time" /\ b.status = "pending" /\ Recorded(s, b.payments)
          /\ b.freq = s.freq
        BY <1>2 DEF Scheduled
    <2>3. b.payments \in Seq(Payment)
        BY DEF GoodBill, GoodPayments
    <2>4. Len(ps) = n - 1 /\ \A i \in 1..(n - 1) : ps[i] = b.payments[i]
        BY <2>1, <2>3
    <2>5. n \in 1..Len(b.payments) /\ \A i \in 1..(n - 1) : i \in 1..Len(b.payments)
        BY <2>1
    <2>6. Recorded(s, ps)
        BY <2>2, <2>4, <2>5 DEF Recorded
    <2>7. /\ Undone(b).due = DueFrom(s, n - 1)
          /\ Undone(b).reminder = ReminderFrom(s, n - 1)
        BY <2>1, <2>2, <2>5 DEF Recorded
    <2>. HIDE DEF ps, n
    <2>. QED  BY <2>1, <2>2, <2>4, <2>6, <2>7 DEF Scheduled
<1>. QED  BY <1>1, <1>2

\* A bill created is good, pending and unpaid.
LEMMA CreatedGood ==
    ASSUME NEW b \in Starts
    PROVE  GoodBill(b) /\ b.status = "pending" /\ b.payments = << >>
<1>1. /\ b \in Bill /\ Exists(b.due) /\ Exists(b.reminder) /\ b.payments = << >>
      /\ b.status = "pending"
    BY RemindersAssumption
<1>2. << >> \in Seq(Payment) /\ Len(<< >>) = 0
    OBVIOUS
<1>. QED  BY <1>1, <1>2 DEF GoodBill, GoodPayments

\* Only the fields of a bill decide whether it is on its schedule.
LEMMA SameScheduled ==
    ASSUME NEW s, NEW b, Scheduled(s, b), NEW c,
           c.due = b.due, c.reminder = b.reminder, c.freq = b.freq, c.status = b.status,
           c.payments = b.payments
    PROVE  Scheduled(s, c)
BY DEF Scheduled

\* The fields of a save.
LEMMA ArrivesFields ==
    \A b, q :
        /\ Arrives(b, q).due = Or(q.set.due, b.due)
        /\ Arrives(b, q).reminder = Or(q.set.reminder, b.reminder)
        /\ Arrives(b, q).freq = Or(q.set.freq, b.freq)
        /\ Arrives(b, q).status = Or(q.set.status, b.status)
        /\ q.op = "push" => Arrives(b, q).payments = b.payments \o q.payments
        /\ q.op = "pop" => Arrives(b, q).payments = q.payments
        /\ q.op = "keep" => Arrives(b, q).payments = b.payments
BY DEF Arrives

\* A request that is alone, and has changed its copy into a bill on the schedule, is
\* about to save that bill.
LEMMA BeginsScheduled ==
    ASSUME ReminderInv, bill # None, NEW r \in Requests, InFlight = {},
           NEW new, GoodBill(new),
           NEW ps, GoodPayments(ps), NEW op \in {"keep", "push", "pop"},
           op = "push" => Len(ps) = 1, Begin(r, op, new, ps),
           op = "keep" => new.payments = bill.payments,
           op = "push" => new.payments = bill.payments \o ps,
           op = "pop" => new.payments = ps,
           NEW s, Scheduled(s, bill), Scheduled(s, new)
    PROVE  /\ bill' = bill
           /\ \A p, q \in Requests : req'[p] # NoRequest /\ req'[q] # NoRequest => p = q
           /\ \A p \in Requests : req'[p] # NoRequest => Scheduled(s, Arrives(bill', req'[p]))
<1>. DEFINE q == req'[r]
<1>1. /\ q.op = op /\ q.payments = ps /\ bill' = bill
      /\ \A p \in Requests : p # r => req'[p] = req[p]
      /\ Or(q.set.due, bill.due) = new.due
      /\ Or(q.set.reminder, bill.reminder) = new.reminder
      /\ Or(q.set.freq, bill.freq) = new.freq
      /\ Or(q.set.status, bill.status) = new.status
    BY Begun
<1>2. \A p \in Requests : p # r => req'[p] = NoRequest
    BY <1>1 DEF InFlight
<1>. HIDE DEF q
<1>3. /\ Arrives(bill, q).due = new.due
      /\ Arrives(bill, q).reminder = new.reminder
      /\ Arrives(bill, q).freq = new.freq
      /\ Arrives(bill, q).status = new.status
    BY <1>1, ArrivesFields
<1>4. Arrives(bill, q).payments = new.payments
    BY <1>1, ArrivesFields
<1>5. Scheduled(s, Arrives(bill, q))
    BY <1>3, <1>4, SameScheduled
<1>. QED  BY <1>1, <1>2, <1>5 DEF q

\* Each step keeps to the schedule.
LEMMA NextSchedule ==
    ReminderInv /\ ScheduleInv /\ [RemindersNext]_reminderVars => ScheduleInv'
<1>. SUFFICES ASSUME ReminderInv, ScheduleInv, [RemindersNext]_reminderVars, start' # None
              PROVE  ScheduleInv'
    BY DEF ScheduleInv
<1>1. CASE Create
    <2>1. PICK b \in Starts : bill' = b /\ start' = b /\ req' = req /\ InFlight = {}
        BY <1>1 DEF Create
    <2>2. Scheduled(b, b)
        BY CreatedGood, FirstPeriod
    <2>3. b # None
        BY RemindersAssumption
    <2>. QED  BY <2>1, <2>2, <2>3 DEF ScheduleInv, InFlight
<1>2. CASE Remove
    BY <1>2 DEF Remove
<1>3. ASSUME start' = start
      PROVE  /\ start # None /\ start \in Starts /\ GoodBill(start) /\ start.status = "pending"
             /\ start.payments = << >> /\ bill # None /\ GoodBill(bill) /\ Scheduled(start, bill)
    BY <1>3, CreatedGood DEF ReminderInv, ScheduleInv
<1>4. ASSUME NEW r \in Requests, UpdateRead(r) PROVE ScheduleInv'
    <2>1. PICK body \in Bodies :
            /\ Pays(Edited(bill, body), body) => WithinBounds(Edited(bill, body))
            /\ IF Pays(Edited(bill, body), body)
               THEN Begin(r, "push", Updated(bill, body),
                          <<Updated(bill, body).payments[Len(Updated(bill, body).payments)]>>)
               ELSE Begin(r, "keep", Updated(bill, body), << >>)
            /\ start' = IF InFlight = {} /\ Edited(bill, body) = bill THEN start ELSE None
        BY <1>4 DEF UpdateRead
    <2>2. InFlight = {} /\ Edited(bill, body) = bill /\ start' = start
        BY <2>1
    <2>. DEFINE new == Updated(bill, body)
                last == new.payments[Len(new.payments)]
    <2>3. /\ start # None /\ start \in Starts /\ GoodBill(start) /\ start.status = "pending"
          /\ start.payments = << >> /\ bill # None /\ GoodBill(bill) /\ Scheduled(start, bill)
        BY <1>3, <2>2
    <2>4. Scheduled(start, new)
        BY <2>1, <2>2, <2>3, UpdatedScheduled
    <2>5. /\ GoodBill(new)
          /\ Pays(bill, body) => GoodPayments(<<last>>)
          /\ ~ Pays(bill, body) => new.payments = bill.payments
        BY <2>1, <2>2, <2>3, UpdatedGood
    <2>6. CASE Pays(bill, body)
        <3>1. Begin(r, "push", new, <<last>>)
            BY <2>1, <2>2, <2>6
        <3>2. Len(<<last>>) = 1
            OBVIOUS
        <3>3. new.payments = bill.payments \o <<last>>
            <4>1. new = Rolled(bill)
                BY <2>2, <2>6 DEF Updated
            <4>. DEFINE made == [due |-> bill.due, reminder |-> bill.reminder]
            <4>2. new.payments = Append(bill.payments, made) /\ made \in Payment
                BY <2>1, <2>2, <2>3, <2>6, <4>1, RolledGood DEF Pays, WithinBounds
            <4>3. bill.payments \in Seq(Payment)
                BY <2>3 DEF GoodBill, GoodPayments
            <4>. HIDE DEF made, new
            <4>4. last = made
                BY <4>2, <4>3
            <4>5. Append(bill.payments, made) = bill.payments \o <<made>>
                BY <4>2, <4>3, AppendIsConcat
            <4>. QED  BY <4>2, <4>4, <4>5
        <3>. HIDE DEF new, last
        <3>4. /\ bill' = bill
              /\ \A p, q \in Requests : req'[p] # NoRequest /\ req'[q] # NoRequest => p = q
              /\ \A p \in Requests :
                    req'[p] # NoRequest => Scheduled(start, Arrives(bill', req'[p]))
            BY <2>2, <2>3, <2>4, <2>5, <2>6, <3>1, <3>2, <3>3, BeginsScheduled
        <3>. QED  BY <2>2, <2>3, <3>4 DEF ScheduleInv
    <2>7. CASE ~ Pays(bill, body)
        <3>1. Begin(r, "keep", new, << >>)
            BY <2>1, <2>2, <2>7
        <3>2. GoodPayments(<< >>)
            BY DEF GoodPayments
        <3>. HIDE DEF new, last
        <3>3. /\ bill' = bill
              /\ \A p, q \in Requests : req'[p] # NoRequest /\ req'[q] # NoRequest => p = q
              /\ \A p \in Requests :
                    req'[p] # NoRequest => Scheduled(start, Arrives(bill', req'[p]))
            BY <2>2, <2>3, <2>4, <2>5, <2>7, <3>1, <3>2, BeginsScheduled
        <3>. QED  BY <2>2, <2>3, <3>3 DEF ScheduleInv
    <2>. QED  BY <2>6, <2>7
<1>5. ASSUME NEW r \in Requests, UndoRead(r) PROVE ScheduleInv'
    <2>1. /\ bill.status = "paid" \/ bill.payments # << >>
          /\ IF bill.status = "paid"
             THEN Begin(r, "keep", Undone(bill), << >>)
             ELSE Begin(r, "pop", Undone(bill), Undone(bill).payments)
          /\ InFlight = {} /\ start' = start
        BY <1>5 DEF UndoRead
    <2>2. /\ start # None /\ start \in Starts /\ GoodBill(start) /\ start.status = "pending"
          /\ start.payments = << >> /\ bill # None /\ GoodBill(bill) /\ Scheduled(start, bill)
        BY <1>3, <2>1
    <2>3. Scheduled(start, Undone(bill))
        BY <2>1, <2>2, UndoneScheduled
    <2>4. /\ GoodBill(Undone(bill))
          /\ bill.status = "paid" => Undone(bill).payments = bill.payments
        BY <2>1, <2>2, UndoneGood
    <2>. DEFINE new == Undone(bill)
    <2>5. GoodPayments(new.payments) /\ GoodPayments(<< >>)
        BY <2>4 DEF GoodBill, GoodPayments
    <2>. HIDE DEF new
    <2>6. /\ bill' = bill
          /\ \A p, q \in Requests : req'[p] # NoRequest /\ req'[q] # NoRequest => p = q
          /\ \A p \in Requests :
                req'[p] # NoRequest => Scheduled(start, Arrives(bill', req'[p]))
        <3>1. CASE bill.status = "paid"
            <4>1. Begin(r, "keep", new, << >>) /\ new.payments = bill.payments
                BY <2>1, <2>4, <3>1 DEF new
            <4>. QED  BY <2>1, <2>2, <2>3, <2>4, <2>5, <4>1, BeginsScheduled DEF new
        <3>2. CASE bill.status # "paid"
            <4>1. Begin(r, "pop", new, new.payments)
                BY <2>1, <3>2 DEF new
            <4>. QED  BY <2>1, <2>2, <2>3, <2>4, <2>5, <4>1, BeginsScheduled DEF new
        <3>. QED  BY <3>1, <3>2
    <2>. QED  BY <2>1, <2>2, <2>6 DEF ScheduleInv
<1>6. ASSUME NEW r \in Requests, Save(r) PROVE ScheduleInv'
    <2>1. /\ start' = start /\ req[r] # NoRequest /\ req'[r] = NoRequest /\ Sends(req[r])
          /\ \A p \in Requests : req[p] = NoRequest => req'[p] = NoRequest
        BY <1>6, SaveOthers DEF ReminderInv
    <2>2. start # None /\ bill # None /\ GoodBill(bill) /\ Scheduled(start, bill)
        BY <1>3, <2>1
    <2>3. \A p \in Requests : req'[p] = NoRequest
        BY <2>1, <2>2 DEF ScheduleInv
    <2>4. CASE bill' = bill
        BY <2>1, <2>2, <2>3, <2>4 DEF ScheduleInv
    <2>5. CASE bill' = Saved(req[r])
        <3>1. Scheduled(start, Arrives(bill, req[r]))
            BY <2>1, <2>2 DEF ScheduleInv
        <3>2. /\ GoodBill(bill')
              /\ bill'.due = Arrives(bill, req[r]).due
              /\ bill'.reminder = Arrives(bill, req[r]).reminder
              /\ bill'.freq = Arrives(bill, req[r]).freq
              /\ bill'.status = Arrives(bill, req[r]).status
              /\ bill'.payments = Arrives(bill, req[r]).payments
            <4>. DEFINE q == req[r]
            <4>1. Sends(q) /\ q # NoRequest
                BY <2>1
            <4>. HIDE DEF q
            <4>2. /\ GoodBill(Saved(q))
                  /\ q.op \in {"keep", "push", "pop"}
                  /\ Saved(q).due = Or(q.set.due, bill.due)
                  /\ Saved(q).reminder = Or(q.set.reminder, bill.reminder)
                  /\ Saved(q).freq = Or(q.set.freq, bill.freq)
                  /\ Saved(q).status = Or(q.set.status, bill.status)
                BY <2>2, <4>1, SavedGood
            <4>3. /\ q.op = "keep" => Saved(q).payments = bill.payments
                  /\ q.op = "push" => Saved(q).payments = bill.payments \o q.payments
                  /\ q.op = "pop" => Saved(q).payments = q.payments
                BY <2>2, <4>1, SavedGood
            <4>4. Saved(q).payments = Arrives(bill, q).payments
                BY <4>2, <4>3, ArrivesFields
            <4>5. bill' = Saved(q)
                BY <2>5 DEF q
            <4>. QED  BY <4>2, <4>4, <4>5, ArrivesFields DEF q
        <3>3. Scheduled(start, bill')
            BY <3>1, <3>2, SameScheduled
        <3>4. bill' # None
            BY <3>2, NoneNoField DEF GoodBill
        <3>. QED  BY <2>1, <2>2, <2>3, <3>3, <3>4 DEF ScheduleInv
    <2>. QED  BY <1>6, <2>4, <2>5, SaveOthers
<1>7. ASSUME NEW r \in Requests, Fails(r) PROVE ScheduleInv'
    BY <1>7 DEF Fails, ScheduleInv, ReminderInv
<1>8. CASE UNCHANGED reminderVars
    BY <1>8 DEF reminderVars, ScheduleInv
<1>. QED  BY <1>1, <1>2, <1>4, <1>5, <1>6, <1>7, <1>8 DEF RemindersNext

\* Two bills with the same fields are the same.
LEMMA SameBill ==
    ASSUME NEW b \in Bill, NEW c \in Bill,
           c.due = b.due, c.reminder = b.reminder, c.freq = b.freq, c.status = b.status,
           c.payments = b.payments
    PROVE  c = b
BY DEF Bill

\* OnSchedule, for every calendar and any number of payments and undos: a bill nobody
\* edits never drifts from the day of the month it was first due.
THEOREM BillsOnSchedule == RemindersSpec => []OnSchedule
<1>1. RemindersInit => ScheduleInv
    BY DEF RemindersInit, ScheduleInv
<1>2. RemindersSpec => []ScheduleInv
    BY <1>1, RemindersKeep, NextSchedule, PTL DEF RemindersSpec
<1>3. ReminderInv /\ ScheduleInv => OnSchedule
    <2>. SUFFICES ASSUME ReminderInv, ScheduleInv, start # None PROVE OnSchedule
        BY DEF OnSchedule
    <2>1. /\ GoodBill(start) /\ start.status = "pending" /\ start.payments = << >>
          /\ bill # None /\ GoodBill(bill) /\ Scheduled(start, bill)
        BY CreatedGood DEF ReminderInv, ScheduleInv
    <2>2. bill.freq = start.freq
        BY <2>1 DEF Scheduled
    <2>3. ASSUME bill.freq = "One-time" PROVE [bill EXCEPT !.status = "pending"] = start
        <3>. DEFINE b == [bill EXCEPT !.status = "pending"]
        <3>1. bill \in Bill /\ start \in Bill
            BY <2>1 DEF GoodBill
        <3>2. /\ b \in Bill /\ b.due = bill.due /\ b.reminder = bill.reminder
              /\ b.freq = bill.freq /\ b.status = "pending" /\ b.payments = bill.payments
            BY <3>1 DEF Bill
        <3>. HIDE DEF b
        <3>3. b = start
            BY <2>1, <2>3, <3>1, <3>2, SameBill DEF Scheduled
        <3>. QED  BY <3>3 DEF b
    <2>4. \A n : DueFrom(start, n) = DueAfter(n) /\ ReminderFrom(start, n) = ReminderAfter(n)
        BY DEF DueFrom, ReminderFrom, DueAfter, ReminderAfter
    <2>5. ASSUME bill.freq # "One-time"
          PROVE  LET n == Len(bill.payments) IN
                 /\ bill.status = "pending"
                 /\ bill.due = DueAfter(n)
                 /\ bill.reminder = ReminderAfter(n)
                 /\ \A i \in 1..n : bill.payments[i] = [due |-> DueAfter(i - 1),
                                                        reminder |-> ReminderAfter(i - 1)]
        <3>1. /\ bill.status = "pending" /\ bill.due = DueAfter(Len(bill.payments))
              /\ bill.reminder = ReminderAfter(Len(bill.payments))
              /\ Recorded(start, bill.payments)
            BY <2>1, <2>4, <2>5 DEF Scheduled
        <3>2. ASSUME NEW i \in 1..Len(bill.payments)
              PROVE  bill.payments[i] = [due |-> DueAfter(i - 1), reminder |-> ReminderAfter(i - 1)]
            <4>1. bill.payments \in Seq(Payment)
                BY <2>1 DEF GoodBill, GoodPayments
            <4>2. bill.payments[i] \in Payment
                BY <4>1
            <4>3. /\ bill.payments[i].due = DueAfter(i - 1)
                  /\ bill.payments[i].reminder = ReminderAfter(i - 1)
                BY <2>4, <3>1 DEF Recorded
            <4>. QED  BY <4>2, <4>3 DEF Payment
        <3>. QED  BY <3>1, <3>2
    <2>. QED  BY <2>2, <2>3, <2>5 DEF OnSchedule
<1>. QED  BY <1>2, <1>3, RemindersKeep, PTL
----------------------------------------------------------------------------
(***************************************************************************)
(* Advice.  What an adviser has read stays true of the records, or may     *)
(* only err on the safe side, until something spoils it.                   *)
(***************************************************************************)
\* The figures of a history t of transactions.
Amount(t) == [i \in 1..Len(t) |-> t[i].amount]

TypeIn(t, type) == {i \in 1..Len(t) : t[i].type = type}

Balance(t) == SumOf(Amount(t), TypeIn(t, "income")) - SumOf(Amount(t), TypeIn(t, "expense"))

SpentIn(t, m, C) == {i \in 1..Len(t) : /\ t[i].type = "expense" /\ t[i].month = m
                                       /\ t[i].category \in C}

SpentOn(t, m, C) == SumOf(Amount(t), SpentIn(t, m, C))

\* What a question nothing has spoiled has read.
Knows(q, t, b, m) ==
    /\ q.net <= Balance(t)
    /\ q.from = "chat" => /\ q.spent = SpentOn(t, m, Categories)
                          /\ q.budget # None => q.budget = SumOf(b, Categories)
    /\ q.from = "deal" => /\ q.category \in Categories
                          /\ q.spent >= SpentOn(t, m, {q.category})
                          /\ q.regular => q.spent = SpentOn(t, m, {q.category})
                          /\ q.budget # None => q.budget = b[q.category]

\* What the user is told.
Right(a, t, b, m, owed) ==
    /\ a.upTo > 0 => Balance(t) - a.upTo >= SumOf(owed, Bills)
    /\ a.from = "chat" /\ a.upTo > 0 /\ SumOf(b, Categories) > 0
          => SpentOn(t, m, Categories) + a.upTo <= SumOf(b, Categories)
    /\ a.from = "deal" =>
          /\ a.category \in Categories
          /\ b[a.category] > 0 =>
                LET exceeded == SpentOn(t, m, {a.category}) + a.price > b[a.category]
                IN (a.verdict = "SAFE" => ~ exceeded) /\ (a.overBudget => exceeded)

AdviceInv ==
    /\ AdviceTypeOK
    /\ question # None /\ sound => Knows(question, txs, budget, month)
    /\ answer # None => Right(answer, txs, budget, month, bills)

\* Sums over parts of a history are sums of natural numbers.
LEMMA AmountsNat ==
    ASSUME NEW t \in Seq(Transaction), NEW X \in SUBSET (1..Len(t))
    PROVE  /\ IsFiniteSet(X)
           /\ \A i \in X : Amount(t)[i] = t[i].amount /\ t[i].amount \in Nat
           /\ SumOf(Amount(t), X) \in Nat
<1>1. Len(t) \in Nat
    BY LenProperties
<1>2. IsFiniteSet(X)
    <2>1. IsFiniteSet(1..Len(t))
        BY <1>1, FS_Interval
    <2>. QED  BY <2>1, FS_Subset
<1>3. ASSUME NEW i \in X PROVE Amount(t)[i] = t[i].amount /\ t[i].amount \in Nat
    <2>1. t[i] \in Transaction
        BY LenProperties
    <2>2. t[i].amount \in Prices \cup Incomes
        BY <2>1 DEF Transaction
    <2>. QED  BY <2>2, AdviceAssumption DEF Amount
<1>4. \A i \in X : Amount(t)[i] \in Int /\ Amount(t)[i] >= 0
    BY <1>3
<1>5. SumOf(Amount(t), X) \in Int /\ SumOf(Amount(t), X) >= 0
    BY <1>2, <1>4, SumOfType
<1>. QED  BY <1>2, <1>3, <1>5

\* The figures are numbers.
LEMMA FiguresNumbers ==
    ASSUME NEW t \in Seq(Transaction)
    PROVE  Balance(t) \in Int /\ \A m, C : SpentOn(t, m, C) \in Nat
<1>1. /\ SumOf(Amount(t), TypeIn(t, "income")) \in Nat
      /\ SumOf(Amount(t), TypeIn(t, "expense")) \in Nat
    BY AmountsNat DEF TypeIn
<1>2. ASSUME NEW m, NEW C PROVE SpentOn(t, m, C) \in Nat
    BY AmountsNat DEF SpentOn, SpentIn
<1>. QED  BY <1>1, <1>2 DEF Balance

\* Income raises the balance and leaves what was spent.
LEMMA Earned ==
    ASSUME NEW t \in Seq(Transaction), NEW tx \in Transaction, tx.type = "income"
    PROVE  /\ Balance(Append(t, tx)) >= Balance(t)
           /\ \A m, C : SpentOn(Append(t, tx), m, C) = SpentOn(t, m, C)
<1>. DEFINE u == Append(t, tx)
            n == Len(t) + 1
<1>1. /\ u \in Seq(Transaction) /\ Len(u) = n /\ u[n] = tx /\ Len(t) \in Nat
      /\ \A i \in 1..Len(t) : u[i] = t[i]
    BY LenProperties, AppendProperties
<1>2. /\ n \in 1..n /\ n \notin 1..Len(t) /\ 1..n = 1..Len(t) \cup {n}
    BY <1>1
<1>. HIDE DEF u, n
<1>3. ASSUME NEW X \in SUBSET (1..Len(t)) PROVE SumOf(Amount(u), X) = SumOf(Amount(t), X)
    <2>1. IsFiniteSet(X)
        BY AmountsNat
    <2>2. \A i \in X : Amount(u)[i] = Amount(t)[i]
        BY <1>1, <1>2 DEF Amount
    <2>. QED  BY <2>1, <2>2, SumOfSame
<1>4. SumOf(Amount(u), TypeIn(u, "income")) >= SumOf(Amount(t), TypeIn(t, "income"))
    <2>. DEFINE X == TypeIn(t, "income")
    <2>1. TypeIn(u, "income") = X \cup {n} /\ X \subseteq 1..Len(t)
        BY <1>1, <1>2 DEF TypeIn
    <2>2. X \cup {n} \subseteq 1..Len(u) /\ (X \cup {n}) \ {n} = X
        BY <1>1, <1>2, <2>1
    <2>. HIDE DEF X
    <2>3. /\ IsFiniteSet(X \cup {n})
          /\ \A i \in X \cup {n} : Amount(u)[i] = u[i].amount /\ u[i].amount \in Nat
        BY <1>1, <2>2, AmountsNat
    <2>4. SumOf(Amount(u), X \cup {n})
            = Amount(u)[n] + SumOf(Amount(u), (X \cup {n}) \ {n})
        BY <2>3, SumOfStep
    <2>5. SumOf(Amount(t), X) \in Nat
        BY <2>1, AmountsNat
    <2>6. SumOf(Amount(u), X) = SumOf(Amount(t), X)
        BY <1>3, <2>1
    <2>7. Amount(u)[n] \in Nat
        BY <2>3
    <2>8. SumOf(Amount(u), X \cup {n}) >= SumOf(Amount(t), X)
        <3>1. PICK a \in Nat, b \in Nat : a = Amount(u)[n] /\ b = SumOf(Amount(t), X)
            BY <2>5, <2>7
        <3>2. SumOf(Amount(u), X \cup {n}) = a + b
            BY <2>2, <2>4, <2>6, <3>1
        <3>. QED  BY <3>1, <3>2
    <2>. QED  BY <2>1, <2>8 DEF X
<1>5. SumOf(Amount(u), TypeIn(u, "expense")) = SumOf(Amount(t), TypeIn(t, "expense"))
    <2>1. TypeIn(u, "expense") = TypeIn(t, "expense") /\ TypeIn(t, "expense") \subseteq 1..Len(t)
        BY <1>1, <1>2 DEF TypeIn
    <2>. QED  BY <1>3, <2>1
<1>6. ASSUME NEW m, NEW C PROVE SpentOn(u, m, C) = SpentOn(t, m, C)
    <2>1. SpentIn(u, m, C) = SpentIn(t, m, C) /\ SpentIn(t, m, C) \subseteq 1..Len(t)
        BY <1>1, <1>2 DEF SpentIn
    <2>. QED  BY <1>3, <2>1 DEF SpentOn
<1>7. /\ SumOf(Amount(t), TypeIn(t, "income")) \in Nat
      /\ SumOf(Amount(u), TypeIn(u, "income")) \in Nat
      /\ SumOf(Amount(t), TypeIn(t, "expense")) \in Nat
    BY <1>1, AmountsNat DEF TypeIn
<1>8. Balance(u) >= Balance(t)
    BY <1>4, <1>5, <1>7 DEF Balance
<1>. QED  BY <1>6, <1>8 DEF u

\* Settling a bill leaves no more to pay.
LEMMA Settled ==
    ASSUME NEW f \in [Bills -> Nat], NEW x \in Bills
    PROVE  /\ SumOf(f, Bills) \in Nat
           /\ SumOf([f EXCEPT ![x] = 0], Bills) <= SumOf(f, Bills)
<1>. DEFINE g == [f EXCEPT ![x] = 0]
<1>1. IsFiniteSet(Bills) /\ IsFiniteSet(Bills \ {x})
    BY AdviceAssumption, FS_Subset
<1>2. /\ \A y \in Bills : f[y] \in Int /\ g[y] \in Int /\ f[y] >= 0
      /\ g[x] = 0 /\ \A y \in Bills \ {x} : g[y] = f[y]
    OBVIOUS
<1>. HIDE DEF g
<1>3. SumOf(f, Bills) = f[x] + SumOf(f, Bills \ {x})
    BY <1>1, <1>2, SumOfStep
<1>4. SumOf(g, Bills) = g[x] + SumOf(g, Bills \ {x})
    BY <1>1, <1>2, SumOfStep
<1>5. SumOf(g, Bills \ {x}) = SumOf(f, Bills \ {x})
    BY <1>1, <1>2, SumOfSame
<1>6. SumOf(f, Bills \ {x}) \in Int /\ SumOf(f, Bills \ {x}) >= 0
    BY <1>1, <1>2, SumOfType
<1>. QED  BY <1>2, <1>3, <1>4, <1>5, <1>6 DEF g

\* A history no longer than what is read is read in full.
LEMMA ListedAll ==
    ASSUME txs \in Seq(Transaction), NEW limit \in Nat, Len(txs) <= limit
    PROVE  Listed(limit) = DOMAIN txs
<1>1. DOMAIN txs = 1..Len(txs) /\ Len(txs) \in Nat
    BY LenProperties
<1>2. \A i \in 1..Len(txs) : txs[i].month \in Nat
    <2>1. \A i \in 1..Len(txs) : txs[i] \in Transaction
        BY LenProperties
    <2>2. \A x \in 1..LastMonth : x \in Nat
        BY AdviceAssumption
    <2>. QED  BY <2>1, <2>2 DEF Transaction
<1>3. ASSUME NEW i \in DOMAIN txs
      PROVE  Cardinality({j \in DOMAIN txs : Newer(j, i)}) < limit
    <2>. DEFINE D == 1..Len(txs)
                N == {j \in DOMAIN txs : Newer(j, i)}
    <2>1. ~ Newer(i, i)
        BY <1>1, <1>2 DEF Newer
    <2>2. N \subseteq D \ {i} /\ i \in D
        BY <1>1, <2>1
    <2>3. IsFiniteSet(D) /\ Cardinality(D) = Len(txs)
        <3>1. /\ IsFiniteSet(1..Len(txs))
              /\ Cardinality(1..Len(txs)) = IF 1 > Len(txs) THEN 0 ELSE Len(txs) - 1 + 1
            BY <1>1, FS_Interval
        <3>2. Cardinality(1..Len(txs)) = Len(txs)
            BY <1>1, <3>1
        <3>. QED  BY <3>1, <3>2
    <2>. HIDE DEF D, N
    <2>4. IsFiniteSet(D \ {i}) /\ Cardinality(D \ {i}) = Len(txs) - 1
        BY <2>2, <2>3, FS_RemoveElement
    <2>5. Cardinality(N) <= Len(txs) - 1 /\ Cardinality(N) \in Nat
        BY <2>2, <2>4, FS_Subset, FS_CardinalityType
    <2>. QED  BY <1>1, <2>5 DEF N
<1>. QED  BY <1>3 DEF Listed

\* The recursion of Total.
FoldsTotal(I, h) ==
    h = [s \in SUBSET I |-> IF s = {} THEN 0 ELSE txs[First(s)].amount + h[s \ {First(s)}]]

\* Total is the sum of the amounts.
LEMMA TotalIs ==
    ASSUME txs \in Seq(Transaction), NEW I \in SUBSET DOMAIN txs
    PROVE  Total(I) = SumOf(Amount(txs), I)
<1>. DEFINE f == Amount(txs)
<1>1. Total(I) = (CHOOSE h : FoldsTotal(I, h))[I]
    BY DEF Total, MapThenSumSet, MapThenFoldSet, FoldsTotal, First
<1>2. ASSUME NEW h PROVE Folds(f, I, h) <=> FoldsTotal(I, h)
    <2>. DEFINE A(s) == IF s = {} THEN 0 ELSE f[First(s)] + h[s \ {First(s)}]
                B(s) == IF s = {} THEN 0 ELSE txs[First(s)].amount + h[s \ {First(s)}]
    <2>1. ASSUME NEW s \in SUBSET I PROVE A(s) = B(s)
        <3>1. CASE s = {}
            BY <3>1
        <3>2. CASE s # {}
            <4>1. First(s) \in 1..Len(txs)
                BY <3>2, FirstIn, LenProperties
            <4>2. f[First(s)] = txs[First(s)].amount
                BY <4>1 DEF Amount
            <4>. QED  BY <4>2
        <3>. QED  BY <3>1, <3>2
    <2>. HIDE DEF A, B
    <2>2. [s \in SUBSET I |-> A(s)] = [s \in SUBSET I |-> B(s)]
        BY <2>1
    <2>. QED  BY <2>2 DEF A, B, Folds, FoldsTotal
<1>3. (CHOOSE h : Folds(f, I, h)) = (CHOOSE h : FoldsTotal(I, h))
    BY <1>2
<1>. QED  BY <1>1, <1>3, SumOfUnfold

\* What the properties are about.
LEMMA FiguresAre ==
    ASSUME AdviceTypeOK
    PROVE  /\ Net = Balance(txs)
           /\ \A C : SpentThisMonth(C) = SpentOn(txs, month, C)
           /\ UpcomingBills = SumOf(bills, Bills)
           /\ SumOver(budget) = SumOf(budget, Categories)
<1>1. txs \in Seq(Transaction) /\ DOMAIN txs = 1..Len(txs)
    BY LenProperties DEF AdviceTypeOK
<1>2. \A type : Of(DOMAIN txs, type) = TypeIn(txs, type)
                /\ Of(DOMAIN txs, type) \in SUBSET DOMAIN txs
    BY <1>1 DEF Of, TypeIn
<1>3. Net = Balance(txs)
    BY <1>1, <1>2, TotalIs DEF Net, NetOf, Balance
<1>4. ASSUME NEW C PROVE SpentThisMonth(C) = SpentOn(txs, month, C)
    <2>. DEFINE X == {i \in InMonth(Of(DOMAIN txs, "expense")) : txs[i].category \in C}
    <2>1. X = SpentIn(txs, month, C) /\ X \in SUBSET DOMAIN txs
        BY <1>1 DEF InMonth, Of, SpentIn
    <2>2. Total(X) = SumOf(Amount(txs), X)
        BY <1>1, <2>1, TotalIs
    <2>. QED  BY <2>1, <2>2 DEF SpentThisMonth, SpentOn
<1>5. DOMAIN bills = Bills /\ DOMAIN budget = Categories
    BY DEF AdviceTypeOK
<1>6. UpcomingBills = SumOf(bills, Bills)
    BY <1>5 DEF UpcomingBills, SumOver, SumOf
<1>7. SumOver(budget) = SumOf(budget, Categories)
    BY <1>5 DEF SumOver, SumOf
<1>. QED  BY <1>3, <1>4, <1>6, <1>7

\* What is read of the transactions are figures, whatever the limit.
LEMMA PartsNat ==
    ASSUME AdviceTypeOK, NEW I \in SUBSET DOMAIN txs
    PROVE  Total(I) \in Nat
BY TotalIs, AmountsNat, LenProperties DEF AdviceTypeOK

\* What an adviser has read of the transactions.
LEMMA Questions ==
    ASSUME AdviceTypeOK, NEW price \in Prices
    PROVE  LET q == SnapshotQuestion(price) IN
           /\ q \in Question /\ q.budget = None
           /\ Len(txs) <= SnapshotLimit => Knows(q, txs, budget, month)
<1>. DEFINE seen == Listed(SnapshotLimit)
            in == Total(Of(seen, "income"))
            out == Total(Of(seen, "expense"))
            income == Total(InMonth(Of(seen, "income")))
            spent == Total(InMonth(Of(seen, "expense")))
            q == SnapshotQuestion(price)
<1>1. seen \subseteq DOMAIN txs
    BY DEF Listed
<1>2. in \in Nat /\ out \in Nat /\ income \in Nat /\ spent \in Nat
    BY <1>1, PartsNat DEF Of, InMonth
<1>3. /\ q = [from |-> "chat", price |-> price, category |-> None, net |-> in - out,
              income |-> income, spent |-> spent, budget |-> None, regular |-> TRUE]
    BY DEF SnapshotQuestion, NetOf
<1>4. Len(txs) <= SnapshotLimit
        => in - out = Balance(txs) /\ spent = SpentOn(txs, month, Categories)
    <2>. SUFFICES ASSUME Len(txs) <= SnapshotLimit
                  PROVE  in - out = Balance(txs) /\ spent = SpentOn(txs, month, Categories)
        OBVIOUS
    <2>1. seen = DOMAIN txs
        BY AdviceAssumption, ListedAll DEF AdviceTypeOK
    <2>2. in - out = Net
        BY <2>1 DEF Net, NetOf
    <2>3. spent = SpentThisMonth(Categories)
        <3>1. \A i \in InMonth(Of(seen, "expense")) : txs[i].category \in Categories
            <4>1. \A i \in DOMAIN txs : txs[i] \in Transaction
                BY LenProperties DEF AdviceTypeOK
            <4>. QED  BY <1>1, <4>1 DEF InMonth, Of, Transaction
        <3>2. InMonth(Of(seen, "expense"))
              = {i \in InMonth(Of(DOMAIN txs, "expense")) : txs[i].category \in Categories}
            BY <2>1, <3>1
        <3>. QED  BY <3>2 DEF SpentThisMonth
    <2>. QED  BY <2>2, <2>3, FiguresAre
<1>. HIDE DEF in, out, income, spent, q
<1>5. q \in Question
    BY <1>2, <1>3 DEF Question, QuestionFrom
<1>6. /\ q.from = "chat" /\ q.budget = None /\ q.net = in - out /\ q.spent = spent
    BY <1>3
<1>7. Len(txs) <= SnapshotLimit => Knows(q, txs, budget, month)
    <2>1. in - out \in Int
        BY <1>2
    <2>. QED  BY <1>4, <1>6, <2>1 DEF Knows
<1>. QED  BY <1>5, <1>6, <1>7 DEF q

\* So for a deal.
LEMMA DealQuestions ==
    ASSUME AdviceTypeOK, NEW price \in Prices, NEW c \in Categories
    PROVE  LET q == ProfileQuestion(price, c) IN
           /\ q \in Question /\ q.budget = None
           /\ Len(txs) <= ProfileLimit => Knows(q, txs, budget, month)
<1>. DEFINE seen == Listed(ProfileLimit)
            in == Total(Of(seen, "income"))
            out == Total(Of(seen, "expense"))
            mine == {i \in Of(seen, "expense") : txs[i].category = c}
            own == Total(InMonth(mine))
            few == Cardinality(InMonth(Of(seen, "expense"))) < FewExpenses
            habits == Total(mine)
            spent == CategorySpend(c)
            regular == Cardinality(InMonth(Of(seen, "expense"))) >= FewExpenses
            q == ProfileQuestion(price, c)
<1>1. seen \subseteq DOMAIN txs
    BY DEF Listed
<1>2. in \in Nat /\ out \in Nat /\ own \in Nat /\ habits \in Nat
    BY <1>1, PartsNat DEF Of, InMonth
<1>3. q = [from |-> "deal", price |-> price, category |-> c, net |-> in - out,
           income |-> 0, spent |-> spent, budget |-> None, regular |-> regular]
    BY DEF ProfileQuestion, NetOf
<1>4. spent = own + (IF few THEN habits ELSE 0)
    BY DEF CategorySpend
<1>5. regular => ~ few
    <2>1. Cardinality(InMonth(Of(seen, "expense"))) \in Nat
        <3>1. InMonth(Of(seen, "expense")) \in SUBSET (1..Len(txs))
            BY <1>1, LenProperties DEF InMonth, Of, AdviceTypeOK
        <3>. QED  BY <3>1, AmountsNat, FS_CardinalityType DEF AdviceTypeOK
    <2>. QED  BY <2>1, AdviceAssumption
<1>6. Len(txs) <= ProfileLimit
        => in - out = Balance(txs) /\ own = SpentOn(txs, month, {c})
    <2>. SUFFICES ASSUME Len(txs) <= ProfileLimit
                  PROVE  in - out = Balance(txs) /\ own = SpentOn(txs, month, {c})
        OBVIOUS
    <2>1. seen = DOMAIN txs
        BY AdviceAssumption, ListedAll DEF AdviceTypeOK
    <2>2. in - out = Net
        BY <2>1 DEF Net, NetOf
    <2>3. own = SpentThisMonth({c})
        <3>1. InMonth(mine)
              = {i \in InMonth(Of(DOMAIN txs, "expense")) : txs[i].category \in {c}}
            BY <2>1 DEF InMonth, Of
        <3>. QED  BY <3>1 DEF SpentThisMonth
    <2>. QED  BY <2>2, <2>3, FiguresAre
<1>. HIDE DEF in, out, own, few, habits, spent, regular, q
<1>7. spent \in Nat /\ spent >= own /\ (regular => spent = own)
    BY <1>2, <1>4, <1>5
<1>8. regular \in BOOLEAN
    BY DEF regular
<1>9. q \in Question
    BY <1>2, <1>3, <1>7, <1>8 DEF Question, QuestionFrom
<1>10. /\ q.from = "deal" /\ q.category = c /\ q.budget = None /\ q.net = in - out
       /\ q.spent = spent /\ q.regular = regular
    BY <1>3
<1>11. Len(txs) <= ProfileLimit => Knows(q, txs, budget, month)
    <2>1. in - out \in Int
        BY <1>2
    <2>. QED  BY <1>6, <1>7, <1>10, <2>1 DEF Knows
<1>. QED  BY <1>9, <1>10, <1>11 DEF q

\* A number, or 0 if it is negative.
LEMMA AtLeast ==
    ASSUME NEW n \in Int
    PROVE  AtLeastZero(n) \in Nat /\ (AtLeastZero(n) > 0 => AtLeastZero(n) = n)
BY DEF AtLeastZero

\* What is left after the bills.
LEMMA Remaining ==
    ASSUME NEW q \in Question, UpcomingBills \in Nat
    PROVE  /\ CurrentBalance(q) \in Nat /\ AfterBills(q) \in Nat
           /\ AfterBills(q) > 0 => q.net - UpcomingBills = AfterBills(q)
<1>. DEFINE due == UpcomingBills
<1>1. q.net \in Int /\ due \in Nat
    BY DEF Question, QuestionFrom
<1>. HIDE DEF due
<1>2. /\ CurrentBalance(q) \in Nat
      /\ CurrentBalance(q) > 0 => CurrentBalance(q) = q.net
    BY <1>1, AtLeast DEF CurrentBalance
<1>3. CurrentBalance(q) - due \in Int
    BY <1>1, <1>2
<1>4. /\ AfterBills(q) \in Nat
      /\ AfterBills(q) > 0 => AfterBills(q) = CurrentBalance(q) - due
    BY <1>3, AtLeast DEF AfterBills, due
<1>. QED  BY <1>1, <1>2, <1>4 DEF due

\* What the assistant calls safe is within what is left, and within the budget.
LEMMA ButtonSafe ==
    ASSUME NEW q \in Question, q.budget # None, UpcomingBills \in Nat
    PROVE  /\ ButtonPrice(q) \in Nat
           /\ ButtonPrice(q) > 0 => /\ AfterBills(q) > 0 /\ ButtonPrice(q) <= AfterBills(q)
                                    /\ q.budget > 0 => ButtonPrice(q) <= q.budget - q.spent
<1>. DEFINE S == SafeSpendingLimit(q)
<1>1. /\ q.budget \in Nat /\ q.spent \in Nat /\ q.income \in Nat /\ q.price \in Nat
    BY AdviceAssumption DEF Question, QuestionFrom
<1>2. AfterBills(q) \in Nat /\ CurrentBalance(q) \in Nat
    BY Remaining
<1>3. EffectiveBudget(q) \in Nat /\ (q.budget > 0 => EffectiveBudget(q) = q.budget)
    BY <1>1 DEF EffectiveBudget
<1>4. EffectiveBudget(q) - q.spent \in Int
    BY <1>1, <1>3
<1>5. /\ BudgetRemaining(q) \in Nat
      /\ BudgetRemaining(q) > 0 => BudgetRemaining(q) = EffectiveBudget(q) - q.spent
    BY <1>4, AtLeast DEF BudgetRemaining
<1>6. S \in Nat /\ S <= AfterBills(q) /\ (EffectiveBudget(q) > 0 => S <= BudgetRemaining(q))
    BY <1>2, <1>3, <1>5 DEF SafeSpendingLimit
<1>7. ButtonPrice(q) \in Nat /\ (ButtonPrice(q) > 0 => ButtonPrice(q) <= S)
    <2>1. Verdict(q) = "safe" => CurrentBalance(q) = 0 \/ q.price <= S
        BY <1>1, <1>2, <1>6 DEF Verdict
    <2>. HIDE DEF S
    <2>2. ButtonPrice(q) = IF CurrentBalance(q) = 0 \/ S = 0 THEN 0
                           ELSE IF Verdict(q) = "safe" THEN q.price ELSE S
        BY DEF ButtonPrice, S
    <2>. QED  BY <1>1, <1>2, <1>6, <2>1, <2>2
<1>. HIDE DEF S
<1>8. ButtonPrice(q) > 0 => AfterBills(q) > 0 /\ ButtonPrice(q) <= AfterBills(q)
    BY <1>2, <1>6, <1>7
<1>9. ButtonPrice(q) > 0 /\ q.budget > 0 => ButtonPrice(q) <= q.budget - q.spent
    BY <1>1, <1>3, <1>5, <1>6, <1>7
<1>. QED  BY <1>7, <1>8, <1>9

\* The sums of the records are numbers.
LEMMA RecordNumbers ==
    ASSUME AdviceTypeOK
    PROVE  /\ Balance(txs) \in Int /\ \A C : SpentOn(txs, month, C) \in Nat
           /\ SumOf(bills, Bills) \in Nat /\ UpcomingBills = SumOf(bills, Bills)
           /\ SumOf(budget, Categories) \in Nat
<1>1. IsFiniteSet(Bills) /\ IsFiniteSet(Categories)
    BY AdviceAssumption
<1>2. /\ \A b \in Bills : bills[b] \in Int /\ bills[b] >= 0
      /\ \A c \in Categories : budget[c] \in Int /\ budget[c] >= 0
    BY DEF AdviceTypeOK
<1>3. SumOf(bills, Bills) \in Int /\ SumOf(bills, Bills) >= 0
    BY <1>1, <1>2, SumOfType
<1>4. SumOf(budget, Categories) \in Int /\ SumOf(budget, Categories) >= 0
    BY <1>1, <1>2, SumOfType
<1>5. Balance(txs) \in Int /\ \A C : SpentOn(txs, month, C) \in Nat
    BY FiguresNumbers DEF AdviceTypeOK
<1>. QED  BY <1>3, <1>4, <1>5, FiguresAre

\* The assistant's answer to a question that nothing has spoiled.
LEMMA ChatRight ==
    ASSUME AdviceTypeOK, question # None, question.budget # None, question.from = "chat",
           Knows(question, txs, budget, month)
    PROVE  LET a == ReplyAffordability(question)
           IN a \in Answer /\ Right(a, txs, budget, month, bills)
<1>. DEFINE q == question
            a == ReplyAffordability(q)
            due == SumOf(bills, Bills)
            limit == SumOf(budget, Categories)
            spent == SpentOn(txs, month, Categories)
<1>1. q \in Question /\ q.price \in Prices
    BY DEF AdviceTypeOK, Question, QuestionFrom
<1>2. /\ due \in Nat /\ limit \in Nat /\ spent \in Nat /\ Balance(txs) \in Int
      /\ UpcomingBills = due
    BY RecordNumbers
<1>3. q.net <= Balance(txs) /\ q.spent = spent /\ q.budget = limit /\ q.net \in Int
    BY <1>1 DEF Knows, Question, QuestionFrom
<1>. HIDE DEF q, due, limit, spent
<1>4. /\ ButtonPrice(q) \in Nat
      /\ ButtonPrice(q) > 0 => /\ AfterBills(q) > 0 /\ ButtonPrice(q) <= AfterBills(q)
                               /\ limit > 0 => ButtonPrice(q) <= limit - spent
    <2>1. UpcomingBills \in Nat /\ q.budget # None
        BY <1>2 DEF q
    <2>. QED  BY <1>1, <1>3, <2>1, ButtonSafe
<1>5. AfterBills(q) \in Nat /\ (AfterBills(q) > 0 => q.net - due = AfterBills(q))
    BY <1>1, <1>2, Remaining
<1>6. a.from = "chat" /\ a.upTo = ButtonPrice(q)
    BY DEF ReplyAffordability
<1>7. a \in Answer
    <2>1. Verdict(q) \in {"safe", "caution", "danger", "SAFE", "WAIT"}
        BY DEF Verdict
    <2>. QED  BY <1>1, <1>4, <2>1 DEF ReplyAffordability, Answer
<1>. HIDE DEF a
<1>8. a.upTo > 0 => Balance(txs) - a.upTo >= due
    BY <1>2, <1>3, <1>4, <1>5, <1>6
<1>9. a.upTo > 0 /\ limit > 0 => spent + a.upTo <= limit
    BY <1>2, <1>4, <1>6
<1>10. Right(a, txs, budget, month, bills)
    BY <1>6, <1>8, <1>9 DEF Right, due, limit, spent
<1>. QED  BY <1>7, <1>10 DEF a, q

\* The purchase check of a deal that nothing has spoiled.
LEMMA DealRight ==
    ASSUME AdviceTypeOK, question # None, question.budget # None, question.from = "deal",
           Knows(question, txs, budget, month)
    PROVE  LET a == PurchaseCheck(question)
           IN a \in Answer /\ Right(a, txs, budget, month, bills)
<1>. DEFINE q == question
            c == q.category
            a == PurchaseCheck(q)
            due == SumOf(bills, Bills)
            spent == SpentOn(txs, month, {c})
            affordable == q.price <= CurrentBalance(q) /\ q.price <= AfterBills(q)
            over == affordable /\ q.budget > 0 /\ q.spent + q.price > q.budget
<1>1. /\ q \in Question /\ q.price \in Nat /\ q.price \in Prices /\ q.regular \in BOOLEAN
      /\ q.spent \in Nat
    BY AdviceAssumption DEF AdviceTypeOK, Question, QuestionFrom
<1>2. due \in Nat /\ spent \in Nat /\ Balance(txs) \in Int /\ UpcomingBills = due
    BY RecordNumbers
<1>3. /\ q.net <= Balance(txs) /\ q.net \in Int /\ c \in Categories
      /\ q.spent >= spent /\ (q.regular => q.spent = spent) /\ q.budget = budget[c]
      /\ budget[c] \in Nat
    BY <1>1 DEF Knows, Question, QuestionFrom, AdviceTypeOK
<1>4. /\ CurrentBalance(q) \in Nat /\ AfterBills(q) \in Nat
      /\ AfterBills(q) > 0 => q.net - due = AfterBills(q)
    BY <1>1, <1>2, Remaining
<1>5. a = [from |-> "deal", price |-> q.price, category |-> c,
           verdict |-> IF affordable /\ ~ over THEN "SAFE" ELSE "WAIT",
           upTo |-> IF affordable /\ ~ over THEN q.price ELSE 0,
           overBudget |-> over /\ q.regular]
    BY DEF PurchaseCheck
<1>6. /\ affordable \in BOOLEAN /\ over \in BOOLEAN
      /\ affordable => q.price <= AfterBills(q)
      /\ over <=> affordable /\ budget[c] > 0 /\ q.spent + q.price > budget[c]
    BY <1>3
<1>. HIDE DEF q, c, a, due, spent, affordable, over
<1>7. a \in Answer
    <2>1. (over /\ q.regular) \in BOOLEAN
        OBVIOUS
    <2>2. (IF affordable /\ ~ over THEN q.price ELSE 0) \in Nat
        BY <1>1
    <2>. QED  BY <1>1, <1>3, <1>5, <2>1, <2>2 DEF Answer
<1>8. /\ a.from = "deal" /\ a.price = q.price /\ a.category = c
      /\ a.verdict = "SAFE" => affordable /\ ~ over
      /\ a.upTo > 0 => affordable /\ ~ over /\ a.upTo = q.price
      /\ a.overBudget => over /\ q.regular
    <2>1. a.from = "deal" /\ a.price = q.price /\ a.category = c
        BY <1>5
    <2>2. /\ a.verdict = IF affordable /\ ~ over THEN "SAFE" ELSE "WAIT"
          /\ a.upTo = IF affordable /\ ~ over THEN q.price ELSE 0
        BY <1>5
    <2>3. a.overBudget = (over /\ q.regular)
        BY <1>5
    <2>4. a.upTo > 0 => affordable /\ ~ over /\ a.upTo = q.price
        BY <1>1, <2>2
    <2>5. a.verdict = "SAFE" => affordable /\ ~ over
        BY <2>2
    <2>6. a.overBudget => over /\ q.regular
        BY <2>3
    <2>. QED  BY <2>1, <2>4, <2>5, <2>6
<1>9. a.upTo > 0 => Balance(txs) - a.upTo >= due
    BY <1>1, <1>2, <1>3, <1>4, <1>6, <1>8
<1>10. budget[c] > 0 => /\ a.verdict = "SAFE" => ~ (spent + a.price > budget[c])
                        /\ a.overBudget => spent + a.price > budget[c]
    BY <1>1, <1>2, <1>3, <1>6, <1>8
<1>11. Right(a, txs, budget, month, bills)
    BY <1>3, <1>8, <1>9, <1>10 DEF Right, due, spent
<1>. QED  BY <1>7, <1>11 DEF a, q

\* Each step keeps what the advisers know, and what they have said, right.
LEMMA NextAdvice == AdviceInv /\ [AdviceNext]_adviceVars => AdviceInv'
<1>. SUFFICES ASSUME AdviceInv, [AdviceNext]_adviceVars PROVE AdviceInv'
    OBVIOUS
<1>1. /\ AdviceTypeOK
      /\ txs \in Seq(Transaction) /\ budget \in [Categories -> Nat] /\ bills \in [Bills -> Nat]
      /\ month \in 1..LastMonth /\ question \in Question \cup {None}
      /\ answer \in Answer \cup {None} /\ sound \in BOOLEAN
      /\ question # None /\ sound => Knows(question, txs, budget, month)
      /\ answer # None => Right(answer, txs, budget, month, bills)
    BY DEF AdviceInv, AdviceTypeOK
<1>2. /\ Balance(txs) \in Int /\ \A C : SpentOn(txs, month, C) \in Nat
      /\ SumOf(bills, Bills) \in Nat /\ SumOf(budget, Categories) \in Nat
    BY <1>1, RecordNumbers
<1>3. ASSUME NEW a \in Incomes, Earn(a) PROVE AdviceInv'
    <2>. DEFINE tx == [type |-> "income", category |-> None, amount |-> a, month |-> month]
    <2>1. tx \in Transaction /\ tx.type = "income"
        BY <1>1 DEF Transaction
    <2>2. txs' = Append(txs, tx) /\ UNCHANGED <<budget, bills, month, question, answer, sound>>
        BY <1>3 DEF Earn
    <2>. HIDE DEF tx
    <2>3. /\ Balance(txs') >= Balance(txs)
          /\ \A m, C : SpentOn(txs', m, C) = SpentOn(txs, m, C)
        BY <1>1, <2>1, <2>2, Earned
    <2>4. txs' \in Seq(Transaction)
        BY <1>1, <2>1, <2>2, AppendProperties
    <2>5. Balance(txs') \in Int
        BY <2>4, FiguresNumbers
    <2>6. AdviceTypeOK'
        BY <1>1, <2>2, <2>4 DEF AdviceTypeOK
    <2>7. question # None /\ sound => Knows(question, txs', budget, month)
        <3>1. question # None => question.net \in Int
            BY <1>1 DEF Question, QuestionFrom
        <3>. QED  BY <1>1, <1>2, <2>3, <2>5, <3>1 DEF Knows
    <2>8. answer # None => Right(answer, txs', budget, month, bills)
        <3>1. answer # None => answer.upTo \in Nat
            BY <1>1 DEF Answer
        <3>. QED  BY <1>1, <1>2, <2>3, <2>5, <3>1 DEF Right
    <2>. QED  BY <2>2, <2>6, <2>7, <2>8 DEF AdviceInv
<1>4. ASSUME AdviceTypeOK', sound' = FALSE, answer' = None PROVE AdviceInv'
    BY <1>4 DEF AdviceInv
<1>5. ASSUME NEW c \in Categories, NEW a \in Prices, Spend(c, a) PROVE AdviceInv'
    <2>. DEFINE tx == [type |-> "expense", category |-> c, amount |-> a, month |-> month]
    <2>1. tx \in Transaction
        BY <1>1 DEF Transaction
    <2>2. /\ txs' = Append(txs, tx) /\ answer' = None /\ sound' = FALSE
          /\ UNCHANGED <<budget, bills, month, question>>
        BY <1>5 DEF Spend, Spoils
    <2>. HIDE DEF tx
    <2>3. txs' \in Seq(Transaction)
        BY <1>1, <2>1, <2>2, AppendProperties
    <2>. QED  BY <1>1, <1>4, <2>2, <2>3 DEF AdviceTypeOK
<1>6. ASSUME NEW i \in DOMAIN txs, Delete(i) PROVE AdviceInv'
    <2>1. /\ txs' = SubSeq(txs, 1, i - 1) \o SubSeq(txs, i + 1, Len(txs))
          /\ answer' = None /\ sound' = FALSE /\ UNCHANGED <<budget, bills, month, question>>
        BY <1>6 DEF Delete, Spoils
    <2>2. /\ i \in 1..Len(txs) /\ Len(txs) \in Nat
          /\ \A j \in 1..Len(txs) : txs[j] \in Transaction
        BY <1>1, LenProperties
    <2>3. SubSeq(txs, 1, i - 1) \in Seq(Transaction)
        BY <2>2, SubSeqProperties
    <2>4. SubSeq(txs, i + 1, Len(txs)) \in Seq(Transaction)
        BY <2>2, SubSeqProperties
    <2>5. txs' \in Seq(Transaction)
        BY <2>1, <2>3, <2>4, ConcatProperties
    <2>. QED  BY <1>1, <1>4, <2>1, <2>5 DEF AdviceTypeOK
<1>7. ASSUME NEW c \in Categories, NEW limit \in Limits \cup {0}, SetBudget(c, limit)
      PROVE  AdviceInv'
    <2>1. /\ budget' = [budget EXCEPT ![c] = limit] /\ answer' = None /\ sound' = FALSE
          /\ UNCHANGED <<txs, bills, month, question>>
        BY <1>7 DEF SetBudget, Spoils
    <2>2. budget' \in [Categories -> Nat]
        BY <1>1, <2>1, AdviceAssumption
    <2>. QED  BY <1>1, <1>4, <2>1, <2>2 DEF AdviceTypeOK
<1>8. ASSUME NEW b \in Bills, NEW a \in Dues, AddBill(b, a) PROVE AdviceInv'
    <2>1. /\ bills' = [bills EXCEPT ![b] = a] /\ answer' = None
          /\ UNCHANGED <<txs, budget, month, question, sound>>
        BY <1>8 DEF AddBill
    <2>2. bills' \in [Bills -> Nat]
        BY <1>1, <2>1, AdviceAssumption
    <2>3. AdviceTypeOK'
        BY <1>1, <2>1, <2>2 DEF AdviceTypeOK
    <2>. QED  BY <1>1, <2>1, <2>3 DEF AdviceInv
<1>9. ASSUME NEW b \in Bills, SettleBill(b) PROVE AdviceInv'
    <2>1. /\ bills' = [bills EXCEPT ![b] = 0]
          /\ UNCHANGED <<txs, budget, month, question, answer, sound>>
        BY <1>9 DEF SettleBill
    <2>2. bills' \in [Bills -> Nat]
        BY <1>1, <2>1
    <2>3. AdviceTypeOK'
        BY <1>1, <2>1, <2>2 DEF AdviceTypeOK
    <2>4. SumOf(bills', Bills) \in Nat /\ SumOf(bills', Bills) <= SumOf(bills, Bills)
        BY <1>1, <2>1, <2>2, Settled
    <2>5. answer # None => Right(answer, txs, budget, month, bills')
        <3>1. answer # None => answer.upTo \in Nat
            BY <1>1 DEF Answer
        <3>. QED  BY <1>1, <1>2, <2>4, <3>1 DEF Right
    <2>. QED  BY <1>1, <2>1, <2>3, <2>5 DEF AdviceInv
<1>10. CASE NextMonth
    <2>1. /\ month' = month + 1 /\ month < LastMonth /\ answer' = None /\ sound' = FALSE
          /\ UNCHANGED <<txs, budget, bills, question>>
        BY <1>10 DEF NextMonth, Spoils
    <2>2. month' \in 1..LastMonth
        BY <1>1, <2>1, AdviceAssumption
    <2>. QED  BY <1>1, <1>4, <2>1, <2>2 DEF AdviceTypeOK
<1>11. ASSUME NEW q \in Question, NEW limit,
              Len(txs) <= limit => Knows(q, txs, budget, month),
              (Len(txs) <= limit) \in BOOLEAN, Ask(q, limit)
       PROVE  AdviceInv'
    <2>1. /\ question' = q /\ answer' = None /\ sound' = (Len(txs) <= limit)
          /\ UNCHANGED <<txs, budget, bills, month>>
        BY <1>11 DEF Ask
    <2>2. AdviceTypeOK'
        BY <1>1, <1>11, <2>1 DEF AdviceTypeOK
    <2>. QED  BY <1>11, <2>1, <2>2 DEF AdviceInv
<1>12. CASE ReadBudgets
    <2>. DEFINE b == IF question.from = "chat" THEN SumOver(budget) ELSE budget[question.category]
    <2>1. /\ question # None /\ question.budget = None
          /\ question' = [question EXCEPT !.budget = b]
          /\ UNCHANGED <<txs, budget, bills, month, answer, sound>>
        BY <1>12 DEF ReadBudgets
    <2>2. question \in Question
        BY <1>1, <2>1
    <2>3. question.from = "deal" => question.category \in Categories
        BY <2>2 DEF Question, QuestionFrom
    <2>4. b \in Nat
        BY <1>1, <1>2, <2>2, <2>3, FiguresAre DEF Question, QuestionFrom
    <2>5. /\ question.from = "chat" => b = SumOf(budget, Categories)
          /\ question.from = "deal" => b = budget[question.category]
        BY <1>1, FiguresAre
    <2>. HIDE DEF b
    <2>6. question' \in Question
        BY <2>1, <2>2, <2>4 DEF Question, QuestionFrom
    <2>7. AdviceTypeOK'
        BY <1>1, <2>1, <2>6 DEF AdviceTypeOK
    <2>8. sound => Knows(question', txs, budget, month)
        <3>1. /\ question'.from = question.from /\ question'.net = question.net
              /\ question'.spent = question.spent /\ question'.category = question.category
              /\ question'.regular = question.regular /\ question'.budget = b
            BY <2>1, <2>2 DEF Question, QuestionFrom
        <3>. QED  BY <1>1, <2>1, <2>5, <3>1 DEF Knows
    <2>. QED  BY <1>1, <2>1, <2>7, <2>8 DEF AdviceInv
<1>13. CASE ReadBills
    <2>1. /\ question # None /\ question.budget # None
          /\ answer' = IF ~ sound THEN None
                       ELSE IF question.from = "chat" THEN ReplyAffordability(question)
                       ELSE PurchaseCheck(question)
          /\ question' = None /\ sound' = FALSE
          /\ UNCHANGED <<txs, budget, bills, month>>
        BY <1>13 DEF ReadBills
    <2>2. question.from \in {"chat", "deal"}
        BY <1>1, <2>1 DEF Question, QuestionFrom
    <2>3. answer' \in Answer \cup {None}
          /\ (answer' # None => Right(answer', txs, budget, month, bills))
        <3>1. CASE ~ sound
            BY <2>1, <3>1
        <3>2. CASE sound /\ question.from = "chat"
            BY <1>1, <2>1, <3>2, ChatRight
        <3>3. CASE sound /\ question.from = "deal"
            BY <1>1, <2>1, <3>3, DealRight
        <3>. QED  BY <2>2, <3>1, <3>2, <3>3
    <2>4. AdviceTypeOK'
        BY <1>1, <2>1, <2>3 DEF AdviceTypeOK
    <2>. QED  BY <2>1, <2>3, <2>4 DEF AdviceInv
<1>14. CASE UNCHANGED adviceVars
    BY <1>14 DEF adviceVars, AdviceInv, AdviceTypeOK
<1>15. ASSUME NEW price \in Prices, Ask(SnapshotQuestion(price), SnapshotLimit) PROVE AdviceInv'
    <2>1. (Len(txs) <= SnapshotLimit) \in BOOLEAN
        OBVIOUS
    <2>. QED  BY <1>1, <1>11, <1>15, <2>1, Questions
<1>16. ASSUME NEW price \in Prices, NEW c \in Categories,
              Ask(ProfileQuestion(price, c), ProfileLimit)
       PROVE  AdviceInv'
    <2>1. (Len(txs) <= ProfileLimit) \in BOOLEAN
        OBVIOUS
    <2>. QED  BY <1>1, <1>11, <1>16, <2>1, DealQuestions
<1>. QED
    BY <1>3, <1>5, <1>6, <1>7, <1>8, <1>9, <1>10, <1>12, <1>13, <1>14, <1>15, <1>16 DEF AdviceNext

\* ... at first and ever after.
LEMMA AdviceKeeps == AdviceSpec => []AdviceInv
<1>1. AdviceInit => AdviceInv
    <2>. SUFFICES ASSUME AdviceInit PROVE AdviceInv
        OBVIOUS
    <2>1. << >> \in Seq(Transaction)
        OBVIOUS
    <2>2. 1 \in 1..LastMonth
        BY AdviceAssumption
    <2>. QED  BY <2>1, <2>2 DEF AdviceInit, AdviceInv, AdviceTypeOK
<1>. QED  BY <1>1, NextAdvice, PTL DEF AdviceSpec

\* The types of the advisers, whatever the limits: AdviceTypeOK.
THEOREM AdviceTypeCorrect == AdviceSpec => []AdviceTypeOK
<1>1. AdviceInv => AdviceTypeOK
    BY DEF AdviceInv
<1>. QED  BY <1>1, AdviceKeeps, PTL

\* BillsStayPayable, for any records, limits and number of transactions: what either
\* adviser calls safe never takes the money for a pending bill.
THEOREM BillsPayable == AdviceSpec => []BillsStayPayable
<1>1. AdviceInv => BillsStayPayable
    <2>. SUFFICES ASSUME AdviceInv PROVE BillsStayPayable
        OBVIOUS
    <2>1. Net = Balance(txs) /\ UpcomingBills = SumOf(bills, Bills)
        BY FiguresAre DEF AdviceInv
    <2>. QED  BY <2>1 DEF AdviceInv, Right, BillsStayPayable
<1>. QED  BY <1>1, AdviceKeeps, PTL

\* BudgetAdviceRight, for any records: neither adviser calls safe what breaks a budget,
\* and a budget is given as the reason to wait only if it would be broken.
THEOREM AdviceWithinBudget == AdviceSpec => []BudgetAdviceRight
<1>1. AdviceInv => BudgetAdviceRight
    <2>. SUFFICES ASSUME AdviceInv PROVE BudgetAdviceRight
        OBVIOUS
    <2>1. /\ \A C : SpentThisMonth(C) = SpentOn(txs, month, C)
          /\ SumOver(budget) = SumOf(budget, Categories)
        BY FiguresAre DEF AdviceInv
    <2>. QED  BY <2>1 DEF AdviceInv, Right, BudgetAdviceRight
<1>. QED  BY <1>1, AdviceKeeps, PTL
=============================================================================
