------------------------------ MODULE Sessions ------------------------------
(***************************************************************************)
(* The sessions of one registered account (AuthService,                    *)
(* src/src/modules/auth/auth.service.ts): refresh tokens in families, one  *)
(* family per login, and the codes that reset a forgotten password.        *)
(*                                                                         *)
(* A refresh reads the token's record, stores a child of the same family,  *)
(* marks the record revoked and answers with the child.  Every database    *)
(* call is a step; requests interleave and may be cut off between them.    *)
(* Tokens and codes that expire are removed by the database (a TTL index); *)
(* a save of a record that is gone throws.                                 *)
(*                                                                         *)
(* Access tokens, which are not stored, are left out, and so are the push  *)
(* tokens that logoutAll clears.                                           *)
(***************************************************************************)
EXTENDS Naturals, FiniteSets

CONSTANTS
    Tokens,               \* ids for refresh tokens, never reused
    Codes,                \* ids for reset codes, never reused
    Requests,             \* requests that can be in flight at the same time
    MAX_VERIFY_ATTEMPTS,  \* wrong attempts a code allows
    MaxResets,            \* bound: passwords after that many resets are not told apart
    None                  \* "undefined"

ASSUME NoneAssumption == None \notin Tokens \cup Codes \cup Requests
ASSUME BoundsAssumption == MAX_VERIFY_ATTEMPTS \in Nat \ {0} /\ MaxResets \in Nat

VARIABLES
    token,     \* the refresh token collection
    code,      \* the reset code collection
    password,  \* the account's password, by how often it was reset
    req,       \* the in-memory state of each request
    out,       \* history: families that were signed out
    loose,     \* history: families that a request in flight then went on with
    forked,    \* history: families of which two refreshes overlapped or one was cut off
    cut        \* history: a reset has not come to its sign-out

vars == <<token, code, password, req, out, loose, forked, cut>>
history == <<out, loose, forked, cut>>

Passwords == 0..MaxResets

\* A family goes by its first token.  password is history: the one the login knew.
\* held: the answer with the token was sent.
Token == [status : {"unused", "live", "revoked", "gone"}, family : Tokens \cup {None},
          password : Passwords, held : BOOLEAN]

\* tries, uses, alone are history: that the requests with the code came one after the
\* other to the end, and while they did the wrong attempts and the resets by it (either
\* up to one more than are allowed).
Code == [status : {"unused", "live", "gone"}, attempts : 0..MAX_VERIFY_ATTEMPTS,
         tries : 0..(MAX_VERIFY_ATTEMPTS + 1), uses : 0..2, alone : BOOLEAN]

\* straddles is history: there was a sign-out while the request was under way.
Request == [pc : {"idle", "login_issue", "refresh_issue", "refresh_mark", "refresh_kill",
                  "forgot_create", "reset_drop", "reset_count", "reset_save",
                  "reset_delete", "reset_revoke"},
            token : Tokens \cup {None}, child : Tokens \cup {None},
            code : Codes \cup {None}, attempts : 0..MAX_VERIFY_ATTEMPTS,
            password : Passwords, straddles : BOOLEAN]

TypeOK ==
    /\ token \in [Tokens -> Token]
    /\ code \in [Codes -> Code]
    /\ password \in Passwords
    /\ req \in [Requests -> Request]
    /\ out \subseteq Tokens /\ loose \subseteq Tokens /\ forked \subseteq Tokens
    /\ cut \in BOOLEAN

----------------------------------------------------------------------------
Idle == [pc |-> "idle", token |-> None, child |-> None, code |-> None, attempts |-> 0,
         password |-> 0, straddles |-> FALSE]

Init ==
    /\ token = [t \in Tokens |-> [status |-> "unused", family |-> None,
                                  password |-> 0, held |-> FALSE]]
    /\ code = [c \in Codes |-> [status |-> "unused", attempts |-> 0, tries |-> 0,
                                uses |-> 0, alone |-> TRUE]]
    /\ password = 0
    /\ req = [r \in Requests |-> Idle]
    /\ out = {} /\ loose = {} /\ forked = {}
    /\ cut = FALSE

UpTo(limit, n) == IF n > limit THEN limit ELSE n

Live(t) == token[t].status = "live"

\* The tokens their holders can present.
Held == {t \in Tokens : token[t].held /\ token[t].status # "gone"}

Refreshing(f) ==
    {r \in Requests : /\ req[r].pc \in {"refresh_issue", "refresh_mark"}
                      /\ token[req[r].token].family = f}

Begin(r, local) ==
    /\ req[r].pc = "idle"
    /\ req' = [req EXCEPT ![r] = local]

\* issueTokenPair: t in a family, with the password its login was made with.
Issued(t, f, p) == [token EXCEPT ![t] = [status |-> "live", family |-> f,
                                         password |-> p, held |-> FALSE]]

\* login up to the comparison of the password.
LoginRead(r) ==
    /\ Begin(r, [Idle EXCEPT !.pc = "login_issue", !.password = password])
    /\ UNCHANGED <<token, code, password, history>>

LoginIssue(r) ==
    \E t \in Tokens :
        LET q == req[r] IN
        /\ q.pc = "login_issue"
        /\ token[t].status = "unused"
        /\ token' = [Issued(t, t, q.password) EXCEPT ![t].held = TRUE]
        /\ req' = [req EXCEPT ![r] = Idle]
        /\ loose' = IF q.straddles THEN loose \cup {t} ELSE loose
        /\ UNCHANGED <<code, password, out, forked, cut>>

\* refresh up to its decision on the record; one that is gone or expired is refused.
RefreshRead(r) ==
    \E t \in Held :
        LET f == token[t].family IN
        /\ Begin(r, [Idle EXCEPT !.pc = IF Live(t) THEN "refresh_issue" ELSE "refresh_kill",
                                 !.token = t])
        /\ forked' = IF Live(t) /\ Refreshing(f) # {} THEN forked \cup {f} ELSE forked
        /\ UNCHANGED <<token, code, password, out, loose, cut>>

RefreshIssue(r) ==
    \E t \in Tokens :
        LET q == req[r]
            old == token[q.token]
        IN
        /\ q.pc = "refresh_issue"
        /\ token[t].status = "unused"
        /\ token' = Issued(t, old.family, old.password)
        /\ req' = [req EXCEPT ![r] = [q EXCEPT !.pc = "refresh_mark", !.child = t]]
        /\ loose' = IF q.straddles THEN loose \cup {old.family} ELSE loose
        /\ UNCHANGED <<code, password, out, forked, cut>>

\* Mutant: the presented token stays valid.
MarkedReplaced(t) == token

\* The presented token has been replaced.
Marked(t) == [token EXCEPT ![t].status = "revoked"]

\* The save of the record, and the answer; it throws if the record has expired.
RefreshMark(r) ==
    LET q == req[r] IN
    /\ q.pc = "refresh_mark"
    /\ req' = [req EXCEPT ![r] = Idle]
    /\ \/ /\ token[q.token].status # "gone"
          /\ token' = [Marked(q.token) EXCEPT ![q.child].held = TRUE]
          /\ UNCHANGED forked
       \/ /\ token[q.token].status = "gone"
          /\ forked' = forked \cup {token[q.token].family}
          /\ UNCHANGED token
    /\ UNCHANGED <<code, password, out, loose, cut>>

\* Mutant: only tokens that have been handed out are looked for.
SignedOutHeld(families) ==
    [t \in Tokens |-> IF Live(t) /\ token[t].family \in families /\ token[t].held
                      THEN [token[t] EXCEPT !.status = "revoked"]
                      ELSE token[t]]

\* updateMany: every token of the families is revoked.
SignedOut(families) ==
    [t \in Tokens |-> IF Live(t) /\ token[t].family \in families
                      THEN [token[t] EXCEPT !.status = "revoked"]
                      ELSE token[t]]

\* The refreshes that have accepted a token of the families but stored no child yet.
Accepted(families) ==
    {r \in Requests : /\ req[r].pc = "refresh_issue"
                      /\ token[req[r].token].family \in families}

\* The sign-out of families, by which r is over and which others in flight straddle.
SignOut(r, families, straddling) ==
    /\ token' = SignedOut(families)
    /\ out' = out \cup families
    /\ req' = [q \in Requests |->
                  IF q = r THEN Idle
                  ELSE IF q \in straddling THEN [req[q] EXCEPT !.straddles = TRUE]
                  ELSE req[q]]

\* A token that had been revoked was presented: its whole family goes.
RefreshKill(r) ==
    LET families == {token[req[r].token].family} IN
    /\ req[r].pc = "refresh_kill"
    /\ SignOut(r, families, Accepted(families))
    /\ UNCHANGED <<code, password, loose, forked, cut>>

Logout ==
    \E t \in Held :
        /\ token' = [token EXCEPT ![t].status = "revoked"]
        /\ UNCHANGED <<code, password, req, history>>

Families == {token[t].family : t \in Tokens} \ {None}

LogoutAll ==
    /\ SignOut(None, Families, Accepted(Families))
    /\ UNCHANGED <<code, password, loose, forked, cut>>

----------------------------------------------------------------------------
LiveCodes == {c \in Codes : code[c].status = "live"}

Gone(codes) ==
    [c \in Codes |-> IF c \in codes THEN [code[c] EXCEPT !.status = "gone", !.attempts = 0]
                                    ELSE code[c]]

\* forgotPassword up to the deletion of the codes there are.
ForgotDelete(r) ==
    /\ Begin(r, [Idle EXCEPT !.pc = "forgot_create"])
    /\ code' = Gone(LiveCodes)
    /\ UNCHANGED <<token, password, history>>

ForgotCreate(r) ==
    \E c \in Codes :
        /\ req[r].pc = "forgot_create"
        /\ code[c].status = "unused"
        /\ code' = [code EXCEPT ![c].status = "live"]
        /\ req' = [req EXCEPT ![r] = Idle]
        /\ UNCHANGED <<token, password, history>>

WorkingOn(c) == {r \in Requests : req[r].code = c}

\* Mutant: one attempt more.
ExhaustedAfter(c) == code[c].attempts > MAX_VERIFY_ATTEMPTS

Exhausted(c) == code[c].attempts >= MAX_VERIFY_ATTEMPTS

Disturbed(c) == [code[c] EXCEPT !.alone = FALSE, !.tries = 0, !.uses = 0]

\* How a reset goes on with a code and a right or wrong guess at it.
Verdict(c, right) ==
    IF Exhausted(c) THEN "reset_drop" ELSE IF right THEN "reset_save" ELSE "reset_count"

\* resetPassword up to its verdict, with one of the codes there are.
ResetRead(r) ==
    \E c \in LiveCodes, right \in BOOLEAN :
        LET verdict == Verdict(c, right)
            seen == IF WorkingOn(c) = {} THEN code[c] ELSE Disturbed(c)
        IN
        /\ Begin(r, [Idle EXCEPT !.pc = verdict, !.code = c, !.attempts = code[c].attempts])
        /\ code' = [code EXCEPT ![c] =
                       [seen EXCEPT !.tries = IF verdict = "reset_count" /\ seen.alone
                                              THEN UpTo(MAX_VERIFY_ATTEMPTS + 1, @ + 1)
                                              ELSE @]]
        /\ UNCHANGED <<token, password, history>>

ResetDrop(r) ==
    /\ req[r].pc = "reset_drop"
    /\ code' = Gone({req[r].code})
    /\ req' = [req EXCEPT ![r] = Idle]
    /\ UNCHANGED <<token, password, history>>

\* The attempts are saved as read plus one; the save throws if the code is gone.
ResetCount(r) ==
    LET q == req[r] IN
    /\ q.pc = "reset_count"
    /\ req' = [req EXCEPT ![r] = Idle]
    /\ code' = IF q.code \in LiveCodes
               THEN [code EXCEPT ![q.code].attempts = q.attempts + 1] ELSE code
    /\ UNCHANGED <<token, password, history>>

\* The new password; the code is deleted next, the sessions are signed out last.
ResetSave(r) ==
    LET q == req[r] IN
    /\ q.pc = "reset_save"
    /\ password' = UpTo(MaxResets, password + 1)
    /\ code' = [code EXCEPT ![q.code].uses = IF code[q.code].alone THEN UpTo(2, @ + 1)
                                                               ELSE @]
    /\ req' = [req EXCEPT ![r].pc = "reset_delete"]
    /\ UNCHANGED <<token, history>>

\* Mutant: the code is left to expire.
SpentLater(c) == code

Spent(c) == Gone({c})

ResetDelete(r) ==
    /\ req[r].pc = "reset_delete"
    /\ code' = Spent(req[r].code)
    /\ req' = [req EXCEPT ![r].pc = "reset_revoke"]
    /\ UNCHANGED <<token, password, history>>

ResetRevoke(r) ==
    /\ req[r].pc = "reset_revoke"
    /\ SignOut(r, Families, Accepted(Families) \cup {q \in Requests : req[q].pc = "login_issue"})
    /\ cut' = FALSE
    /\ UNCHANGED <<code, password, loose, forked>>

----------------------------------------------------------------------------
\* The TTL indexes.
ExpireToken ==
    \E t \in Tokens :
        /\ token[t].status \in {"live", "revoked"}
        /\ token' = [token EXCEPT ![t].status = "gone", ![t].held = FALSE]
        /\ UNCHANGED <<code, password, req, history>>

ExpireCode ==
    \E c \in LiveCodes :
        /\ code' = Gone({c})
        /\ UNCHANGED <<token, password, req, history>>

\* A database call throws or the instance is stopped.
Fails(r) ==
    LET q == req[r] IN
    /\ q.pc # "idle"
    /\ req' = [req EXCEPT ![r] = Idle]
    /\ code' = [c \in Codes |-> IF c = q.code THEN Disturbed(c) ELSE code[c]]
    /\ forked' = IF q.pc = "refresh_mark" THEN forked \cup {token[q.token].family} ELSE forked
    /\ cut' = (cut \/ q.pc \in {"reset_delete", "reset_revoke"})
    /\ UNCHANGED <<token, password, out, loose>>

Next ==
    \/ Logout
    \/ LogoutAll
    \/ ExpireToken
    \/ ExpireCode
    \/ \E r \in Requests :
        \/ LoginRead(r) \/ LoginIssue(r)
        \/ RefreshRead(r) \/ RefreshIssue(r) \/ RefreshMark(r) \/ RefreshKill(r)
        \/ ForgotDelete(r) \/ ForgotCreate(r)
        \/ ResetRead(r) \/ ResetDrop(r) \/ ResetCount(r)
        \/ ResetSave(r) \/ ResetDelete(r) \/ ResetRevoke(r)
        \/ Fails(r)

Spec == Init /\ [][Next]_vars

----------------------------------------------------------------------------
\* A session has one valid token at a time: as long as the refreshes of a family came
\* one after the other and none was cut off before it marked the token it replaces, no
\* two tokens of it are live, whatever sign-outs and expiries came in between.
OneTokenPerSession ==
    \A t, u \in Tokens :
        /\ Live(t) /\ Live(u)
        /\ token[t].family = token[u].family
        /\ token[t].family \notin forked
        /\ Refreshing(token[t].family) = {}
        => t = u

\* A family that was signed out, by logoutAll, by a reset or because a revoked token was
\* presented, stays so: no token of it is live again, unless a refresh had been accepted
\* before and went on to store its child.
SignedOutStaysOut ==
    \A t \in Tokens : Live(t) => token[t].family \notin out \ loose

\* A reset ends every session begun with an earlier password: one is left only before
\* the reset has come to its sign-out, or by a login or refresh that straddled it.
ResetEndsSessions ==
    \A t \in Tokens : Live(t) /\ token[t].password # password =>
        \/ token[t].family \in loose
        \/ cut
        \/ \E r \in Requests : req[r].pc \in {"reset_delete", "reset_revoke"}

\* Where the attempts at a code came one after the other and none was cut off, no more
\* of them were wrong than the limit and one at most changed the password.
CodeLimits ==
    \A c \in Codes : code[c].alone =>
        code[c].tries <= MAX_VERIFY_ATTEMPTS /\ code[c].uses <= 1
============================================================================
