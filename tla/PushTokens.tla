----------------------------- MODULE PushTokens -----------------------------
(***************************************************************************)
(* The push tokens of devices (NotificationsService,                       *)
(* src/src/modules/notifications/notifications.service.ts, and             *)
(* clearPushTokens of src/src/modules/users/users.service.ts).             *)
(*                                                                         *)
(* A device belongs to whoever signed in on it last.  Registering takes    *)
(* its token off every account and then adds it to one: two awaited        *)
(* updates, between which other registrations, sign-outs and sends run.    *)
(* A send reads the tokens, hands them to FCM and forgets those FCM calls  *)
(* dead.  Platforms and times of registration are left out.                *)
(***************************************************************************)
EXTENDS Integers, Sequences, FiniteSets, Functions

CONSTANTS
    Accounts,
    Tokens,      \* of devices
    MaxTokens,   \* MAX_TOKENS, devices remembered per account
    Senders,     \* registrations and sends that can be in flight
    Nobody       \* no account

ASSUME PushAssumption == MaxTokens \in Nat

VARIABLES
    fcmTokens,   \* of each account, newest last
    push,        \* what each registration or send is about to do
    holder,      \* history: the account the token was last registered for
    torn         \* history: tokens two registrations of which overlapped

tokenVars == <<fcmTokens, push, holder, torn>>

PushCall == [op : {"idle", "register", "send"}, user : Accounts \cup {Nobody},
             tokens : SUBSET Tokens]

PushTypeOK ==
    /\ fcmTokens \in [Accounts -> Seq(Tokens)]
    /\ push \in [Senders -> PushCall]
    /\ holder \in [Tokens -> Accounts \cup {Nobody}]
    /\ torn \subseteq Tokens

IdlePush == [op |-> "idle", user |-> Nobody, tokens |-> {}]

\* Devices registered before, each for one account.
TokenInit ==
    /\ holder \in [Tokens -> Accounts \cup {Nobody}]
    /\ fcmTokens \in [Accounts -> UNION {[1..n -> Tokens] : n \in 0..MaxTokens}]
    /\ \A u \in Accounts :
          IsInjective(fcmTokens[u]) /\ Range(fcmTokens[u]) = {t \in Tokens : holder[t] = u}
    /\ push = [c \in Senders |-> IdlePush]
    /\ torn = {}

\* The tokens that are not in S, in their order.
Pulled(tokens, S) ==
    LET kept[i \in 0..Len(tokens)] ==
            IF i = 0 THEN << >>
            ELSE IF tokens[i] \in S THEN kept[i - 1] ELSE Append(kept[i - 1], tokens[i])
    IN kept[Len(tokens)]

\* Mutant: only the account's own copy is taken off.
PullEverywhereOwn(t, user) == [fcmTokens EXCEPT ![user] = Pulled(@, {t})]

PullEverywhere(t, user) == [u \in Accounts |-> Pulled(fcmTokens[u], {t})]

Newest(tokens) == SubSeq(tokens, IF Len(tokens) > MaxTokens THEN Len(tokens) - MaxTokens + 1
                                 ELSE 1, Len(tokens))

\* registerPushToken, its two updates.
RegisterPull(c, user, t) ==
    LET others == {d \in Senders : push[d].op = "register" /\ push[d].tokens = {t}}
    IN /\ push[c] = IdlePush
       /\ fcmTokens' = PullEverywhere(t, user)
       /\ push' = [push EXCEPT ![c] = [op |-> "register", user |-> user, tokens |-> {t}]]
       /\ torn' = IF others = {} THEN torn \ {t} ELSE torn \cup {t}
       /\ UNCHANGED holder

RegisterPush(c) ==
    /\ push[c].op = "register"
    /\ \E t \in push[c].tokens :
        /\ fcmTokens' = [fcmTokens EXCEPT ![push[c].user] = Newest(Append(@, t))]
        /\ holder' = [holder EXCEPT ![t] = push[c].user]
    /\ push' = [push EXCEPT ![c] = IdlePush]
    /\ UNCHANGED torn

\* removePushToken: the device signs out or turns notifications off.
RemoveToken(user, t) ==
    /\ t \in Range(fcmTokens[user])
    /\ fcmTokens' = [fcmTokens EXCEPT ![user] = Pulled(@, {t})]
    /\ UNCHANGED <<push, holder, torn>>

\* clearPushTokens: log out of all devices.
ClearTokens(user) ==
    /\ fcmTokens[user] # << >>
    /\ fcmTokens' = [fcmTokens EXCEPT ![user] = << >>]
    /\ UNCHANGED <<push, holder, torn>>

\* dispatchPushToUser: the tokens are read and sent to.
SendRead(c, user) ==
    /\ push[c] = IdlePush
    /\ fcmTokens[user] # << >>
    /\ push' = [push EXCEPT ![c] = [op |-> "send", user |-> user,
                                    tokens |-> Range(fcmTokens[user])]]
    /\ UNCHANGED <<fcmTokens, holder, torn>>

\* FCM's answer: some of them are dead and forgotten, or the call failed.
SendAnswer(c, dead) ==
    /\ push[c].op = "send" /\ dead \subseteq push[c].tokens
    /\ fcmTokens' = [fcmTokens EXCEPT ![push[c].user] = Pulled(@, dead)]
    /\ push' = [push EXCEPT ![c] = IdlePush]
    /\ UNCHANGED <<holder, torn>>

\* The instance stops between the two calls of either.
SenderStops(c) ==
    /\ push[c] # IdlePush
    /\ push' = [push EXCEPT ![c] = IdlePush]
    /\ UNCHANGED <<fcmTokens, holder, torn>>

\* What a request begins with, and what the instance goes on with.
TokenStart(c) ==
    \/ \E u \in Accounts, t \in Tokens : RegisterPull(c, u, t) \/ RemoveToken(u, t)
    \/ \E u \in Accounts : ClearTokens(u)

TokenContinue(c) ==
    \/ RegisterPush(c)
    \/ \E dead \in SUBSET push[c].tokens : SendAnswer(c, dead)
    \/ SenderStops(c)

----------------------------------------------------------------------------
\* A device's token is on the account that registered it last and on no other, once; so
\* nobody receives the pushes of who was signed in on the device before.  Two
\* registrations of it that overlap can break this, until the next one of that device.
TokenOnOneAccount ==
    \A t \in Tokens \ torn, u \in Accounts :
        t \in Range(fcmTokens[u]) =>
            /\ holder[t] = u
            /\ Cardinality({i \in DOMAIN fcmTokens[u] : fcmTokens[u][i] = t}) = 1
=============================================================================
