--------------------------- MODULE SessionsProofs ---------------------------
(***************************************************************************)
(* Proofs about Sessions, for any numbers of tokens, codes and requests    *)
(* and any limit of attempts: the types, then one invariant per property   *)
(* (Sealed, Rotating, Renewed, Counted), each with the steps that keep it. *)
(***************************************************************************)
EXTENDS Sessions, TLAPS

USE NoneAssumption, BoundsAssumption

RefreshPcs == {"refresh_issue", "refresh_mark", "refresh_kill"}
ResetPcs == {"reset_drop", "reset_count", "reset_save", "reset_delete", "reset_revoke"}

\* What a request holds at its place in the handler.
WellFormed(q) ==
    /\ q \in Request
    /\ q.pc \in RefreshPcs => q.token \in Tokens
    /\ q.pc = "refresh_mark" => q.child \in Tokens
    /\ q.pc \in ResetPcs => q.code \in Codes
    /\ q.pc = "reset_count" => q.attempts < MAX_VERIFY_ATTEMPTS

TypeInv ==
    /\ TypeOK
    /\ \A r \in Requests : WellFormed(req[r])

\* The token was issued.
Used(t) == token[t].status # "unused"

\* A token that was issued stays known: it is in the family of a token that was issued,
\* and a refresh works on such tokens only.
Traced ==
    /\ \A t \in Tokens : IF Used(t) THEN /\ token[t].family \in Tokens
                                         /\ Used(token[t].family)
                                    ELSE /\ token[t].family = None
                                         /\ ~token[t].held
    /\ \A r \in Requests : /\ req[r].pc \in RefreshPcs => Used(req[r].token)
                           /\ req[r].pc = "refresh_mark" => Used(req[r].child)

----------------------------------------------------------------------------
\* A counter that stops at its bound.
LEMMA UpToBounded ==
    ASSUME NEW limit \in Nat, NEW n \in Nat
    PROVE  UpTo(limit, n) \in 0..limit
BY DEF UpTo

\* A request that is over is well formed.
LEMMA IdleFormed == WellFormed(Idle)
BY DEF WellFormed, Idle, Request, Passwords, RefreshPcs, ResetPcs

\* Deleted and disturbed codes are codes.
LEMMA CodesTyped ==
    ASSUME code \in [Codes -> Code]
    PROVE  /\ \A codes : Gone(codes) \in [Codes -> Code]
           /\ \A c \in Codes : Disturbed(c) \in Code
<1>1. ASSUME NEW c \in Codes
      PROVE  /\ [code[c] EXCEPT !.status = "gone", !.attempts = 0] \in Code
             /\ Disturbed(c) \in Code
  <2>1. code[c] \in Code
    OBVIOUS
  <2>2. 0 \in 0..MAX_VERIFY_ATTEMPTS /\ 0 \in 0..(MAX_VERIFY_ATTEMPTS + 1) /\ 0 \in 0..2
    OBVIOUS
  <2>3. [code[c] EXCEPT !.status = "gone", !.attempts = 0] \in Code
    BY <2>1, <2>2, Zenon DEF Code
  <2>4. Disturbed(c) \in Code
    BY <2>1, <2>2, Zenon DEF Code, Disturbed
  <2> QED BY <2>3, <2>4
<1> QED BY <1>1, Zenon DEF Gone

\* A token that is issued, marked or signed out is a token.
LEMMA TokensTyped ==
    ASSUME TypeOK
    PROVE  /\ \A t, f \in Tokens, p \in Passwords : Issued(t, f, p) \in [Tokens -> Token]
           /\ \A t \in Tokens : Marked(t) \in [Tokens -> Token]
           /\ \A families : SignedOut(families) \in [Tokens -> Token]
BY DEF TypeOK, Issued, Marked, SignedOut, Token

\* The answer of a login or refresh hands the token out.
LEMMA HeldTyped ==
    ASSUME NEW tokens \in [Tokens -> Token], NEW t \in Tokens
    PROVE  [tokens EXCEPT ![t].held = TRUE] \in [Tokens -> Token]
<1>1. tokens[t] \in Token
  OBVIOUS
<1>2. [tokens[t] EXCEPT !.held = TRUE] \in Token
  BY <1>1, Zenon DEF Token
<1>3. QED
  BY <1>2

\* One request moves, to a well-formed state.
LEMMA OneMoves ==
    ASSUME TypeInv, NEW r \in Requests, NEW local, WellFormed(local),
           req' = [req EXCEPT ![r] = local]
    PROVE  /\ req' \in [Requests -> Request]
           /\ \A q \in Requests : WellFormed(req'[q])
BY DEF TypeInv, TypeOK, WellFormed

\* A sign-out leaves the requests in their types.
LEMMA SignOutTyped ==
    ASSUME TypeInv, NEW r, NEW families, NEW straddling, SignOut(r, families, straddling),
           families \subseteq Tokens
    PROVE  /\ token' \in [Tokens -> Token]
           /\ out' \subseteq Tokens
           /\ req' \in [Requests -> Request]
           /\ \A q \in Requests : WellFormed(req'[q])
<1>1. ASSUME NEW q \in Requests
      PROVE  WellFormed([req[q] EXCEPT !.straddles = TRUE])
  BY DEF TypeInv, WellFormed, Request
<1>2. \A q \in Requests : WellFormed(req'[q])
  BY <1>1, IdleFormed DEF SignOut, TypeInv
<1>3. req' \in [Requests -> Request]
  BY <1>2 DEF SignOut, WellFormed
<1>4. QED
  BY <1>2, <1>3, TokensTyped DEF SignOut, TypeInv, TypeOK

\* The families a sign-out of everything is of.
LEMMA FamiliesTyped == TypeOK => Families \subseteq Tokens
BY DEF TypeOK, Families, Token

----------------------------------------------------------------------------
\* The initial state is well typed.
LEMMA TypeInit == Init => TypeInv
<1> SUFFICES ASSUME Init PROVE TypeInv
  OBVIOUS
<1>1. /\ 0 \in 0..MAX_VERIFY_ATTEMPTS /\ 0 \in 0..(MAX_VERIFY_ATTEMPTS + 1)
      /\ 0 \in 0..2 /\ 0 \in Passwords
  BY DEF Passwords
<1>2. token \in [Tokens -> Token]
  BY <1>1, Zenon DEF Init, Token
<1>3. code \in [Codes -> Code]
  BY <1>1, Zenon DEF Init, Code
<1>4. \A r \in Requests : WellFormed(req[r])
  BY IdleFormed, Zenon DEF Init
<1>5. req \in [Requests -> Request]
  BY IdleFormed, Zenon DEF Init, WellFormed
<1>6. QED
  BY <1>1, <1>2, <1>3, <1>4, <1>5, Zenon DEF Init, TypeInv, TypeOK

\* Every step keeps the types, one case per action.
LEMMA TypeStep == TypeInv /\ Traced /\ [Next]_vars => TypeInv'
<1> SUFFICES ASSUME TypeInv, Traced, [Next]_vars PROVE TypeInv'
  OBVIOUS
<1> TypeOK /\ \A r \in Requests : WellFormed(req[r])
  BY DEF TypeInv
<1>a. ASSUME req' \in [Requests -> Request], \A r \in Requests : WellFormed(req'[r]),
             token' \in [Tokens -> Token], code' \in [Codes -> Code],
             password' \in Passwords, out' \subseteq Tokens, loose' \subseteq Tokens,
             forked' \subseteq Tokens, cut' \in BOOLEAN
      PROVE  TypeInv'
  BY <1>a DEF TypeInv, TypeOK, WellFormed, Request
<1>1. CASE Logout
  <2>1. PICK t \in Held :
          /\ token' = [token EXCEPT ![t].status = "revoked"]
          /\ UNCHANGED <<code, password, req, history>>
    BY <1>1, Zenon DEF Logout
  <2>2. token' \in [Tokens -> Token]
    BY <2>1 DEF Held, TypeOK, Token
  <2> QED BY <2>1, <2>2, <1>a DEF history, TypeOK
<1>2. CASE LogoutAll
  BY <1>2, <1>a, SignOutTyped, FamiliesTyped DEF LogoutAll, TypeOK
<1>3. CASE ExpireToken
  <2>1. PICK t \in Tokens :
          /\ token' = [token EXCEPT ![t].status = "gone", ![t].held = FALSE]
          /\ UNCHANGED <<code, password, req, history>>
    BY <1>3, Zenon DEF ExpireToken
  <2>2. [[token[t] EXCEPT !.status = "gone"] EXCEPT !.held = FALSE] \in Token
    BY Zenon DEF TypeOK, Token
  <2>3. token' = [token EXCEPT ![t] = [[token[t] EXCEPT !.status = "gone"] EXCEPT !.held = FALSE]]
    BY <2>1 DEF TypeOK
  <2>4. token' \in [Tokens -> Token]
    BY <2>2, <2>3 DEF TypeOK
  <2> QED BY <2>1, <2>4, <1>a DEF history, TypeOK
<1>4. CASE ExpireCode
  BY <1>4, <1>a, CodesTyped DEF ExpireCode, history, TypeOK
<1>5. ASSUME NEW r \in Requests, LoginRead(r) PROVE TypeInv'
  <2> DEFINE local == [Idle EXCEPT !.pc = "login_issue", !.password = password]
  <2>1. local \in Request /\ local.pc = "login_issue"
    BY IdleFormed, Zenon DEF WellFormed, Idle, Request, TypeOK
  <2>2. WellFormed(local)
    BY <2>1 DEF WellFormed, RefreshPcs, ResetPcs
  <2>3. req' = [req EXCEPT ![r] = local]
    BY <1>5 DEF LoginRead, Begin
  <2> HIDE DEF local
  <2> QED BY <1>5, <2>2, <2>3, OneMoves, <1>a DEF LoginRead, history, TypeOK
<1>6. ASSUME NEW r \in Requests, LoginIssue(r) PROVE TypeInv'
  <2>1. PICK t \in Tokens :
          /\ token' = [Issued(t, t, req[r].password) EXCEPT ![t].held = TRUE]
          /\ req' = [req EXCEPT ![r] = Idle]
          /\ loose' = IF req[r].straddles THEN loose \cup {t} ELSE loose
          /\ UNCHANGED <<code, password, out, forked, cut>>
    BY <1>6, Zenon DEF LoginIssue
  <2>2. req[r].password \in Passwords
    BY DEF TypeOK, Request
  <2>3. token' \in [Tokens -> Token]
    BY <2>1, <2>2, TokensTyped, HeldTyped
  <2>4. loose' \subseteq Tokens
    BY <2>1 DEF TypeOK
  <2> QED BY <2>1, <2>3, <2>4, OneMoves, IdleFormed, <1>a DEF TypeOK
<1>7. ASSUME NEW r \in Requests, RefreshRead(r) PROVE TypeInv'
  <2>1. PICK t \in Held :
          /\ Begin(r, [Idle EXCEPT !.pc = IF Live(t) THEN "refresh_issue" ELSE "refresh_kill",
                                   !.token = t])
          /\ forked' = IF Live(t) /\ Refreshing(token[t].family) # {}
                       THEN forked \cup {token[t].family} ELSE forked
          /\ UNCHANGED <<token, code, password, out, loose, cut>>
    BY <1>7, Zenon DEF RefreshRead
  <2> DEFINE local == [Idle EXCEPT !.pc = IF Live(t) THEN "refresh_issue" ELSE "refresh_kill",
                                   !.token = t]
  <2>2. t \in Tokens /\ Used(t)
    BY DEF Held, Traced
  <2>3. /\ local.pc \in {"refresh_issue", "refresh_kill"}
        /\ local.token = t
    BY DEF Idle
  <2>4. local \in Request
    <3>1. ASSUME NEW pc \in {"refresh_issue", "refresh_kill"}
          PROVE  [Idle EXCEPT !.pc = pc, !.token = t] \in Request
      BY <2>2, <3>1, IdleFormed, Zenon DEF WellFormed, Request
    <3> QED BY <3>1
  <2>5. WellFormed(local)
    <3> HIDE DEF local
    <3> QED BY <2>2, <2>3, <2>4 DEF WellFormed, RefreshPcs, ResetPcs
  <2>6. req' = [req EXCEPT ![r] = local]
    BY <2>1 DEF Begin
  <2> HIDE DEF local
  <2>7. forked' \subseteq Tokens
    BY <2>1, <2>2 DEF TypeOK, Traced, Used
  <2> QED BY <2>1, <2>5, <2>6, <2>7, OneMoves, <1>a DEF TypeOK
<1>8. ASSUME NEW r \in Requests, RefreshIssue(r) PROVE TypeInv'
  <2> DEFINE old == token[req[r].token]
             local(t) == [req[r] EXCEPT !.pc = "refresh_mark", !.child = t]
  <2>1. /\ req[r].pc = "refresh_issue"
        /\ \E t \in Tokens :
             /\ token' = Issued(t, old.family, old.password)
             /\ req' = [req EXCEPT ![r] = local(t)]
             /\ loose' = IF req[r].straddles THEN loose \cup {old.family} ELSE loose
             /\ UNCHANGED <<code, password, out, forked, cut>>
    BY <1>8, Zenon DEF RefreshIssue
  <2>2. req[r] \in Request /\ req[r].token \in Tokens
    BY <2>1 DEF WellFormed, RefreshPcs
  <2>3. old.family \in Tokens /\ old.password \in Passwords
    BY <2>1, <2>2 DEF Traced, RefreshPcs, TypeOK, Token
  <2>4. PICK t \in Tokens :
             /\ token' = Issued(t, old.family, old.password)
             /\ req' = [req EXCEPT ![r] = local(t)]
             /\ loose' = IF req[r].straddles THEN loose \cup {old.family} ELSE loose
             /\ UNCHANGED <<code, password, out, forked, cut>>
    BY <2>1
  <2>5. local(t) \in Request
    BY <2>2, Zenon DEF Request
  <2>6. local(t).pc = "refresh_mark" /\ local(t).token \in Tokens /\ local(t).child = t
    BY <2>2 DEF Request
  <2>7. WellFormed(local(t))
    <3> HIDE DEF local
    <3> QED BY <2>5, <2>6 DEF WellFormed, RefreshPcs, ResetPcs
  <2>8. token' \in [Tokens -> Token]
    BY <2>3, <2>4, TokensTyped
  <2>9. loose' \subseteq Tokens
    BY <2>3, <2>4 DEF TypeOK
  <2> HIDE DEF local, old
  <2> QED BY <2>4, <2>7, <2>8, <2>9, OneMoves, <1>a DEF TypeOK
<1>9. ASSUME NEW r \in Requests, RefreshMark(r) PROVE TypeInv'
  <2> DEFINE q == req[r]
  <2>1. q.pc = "refresh_mark" /\ req' = [req EXCEPT ![r] = Idle]
    BY <1>9 DEF RefreshMark
  <2>2. q.token \in Tokens /\ q.child \in Tokens
    BY <2>1 DEF WellFormed, RefreshPcs
  <2>3. token[q.token].family \in Tokens
    BY <2>1, <2>2 DEF Traced, RefreshPcs
  <2>4. \/ token' = [Marked(q.token) EXCEPT ![q.child].held = TRUE] /\ UNCHANGED forked
        \/ forked' = forked \cup {token[q.token].family} /\ UNCHANGED token
    BY <1>9 DEF RefreshMark
  <2>5. UNCHANGED <<code, password, out, loose, cut>>
    BY <1>9 DEF RefreshMark
  <2>6. token' \in [Tokens -> Token]
    <3>1. Marked(q.token) \in [Tokens -> Token]
      BY <2>2, TokensTyped
    <3>2. [Marked(q.token) EXCEPT ![q.child].held = TRUE] \in [Tokens -> Token]
      BY <2>2, <3>1, HeldTyped, Zenon
    <3> QED BY <2>4, <3>2 DEF TypeOK
  <2>7. forked' \subseteq Tokens
    BY <2>3, <2>4 DEF TypeOK
  <2> QED BY <2>1, <2>5, <2>6, <2>7, OneMoves, IdleFormed, <1>a DEF TypeOK
<1>10. ASSUME NEW r \in Requests, RefreshKill(r) PROVE TypeInv'
  <2>1. {token[req[r].token].family} \subseteq Tokens
    BY <1>10 DEF RefreshKill, WellFormed, RefreshPcs, Traced
  <2> QED BY <1>10, <2>1, <1>a, SignOutTyped DEF RefreshKill, TypeOK
<1>11. ASSUME NEW r \in Requests, ForgotDelete(r) PROVE TypeInv'
  <2> DEFINE local == [Idle EXCEPT !.pc = "forgot_create"]
  <2>1. local \in Request /\ local.pc = "forgot_create"
    BY IdleFormed, Zenon DEF WellFormed, Idle, Request
  <2>2. WellFormed(local)
    BY <2>1 DEF WellFormed, RefreshPcs, ResetPcs
  <2>3. req' = [req EXCEPT ![r] = local]
    BY <1>11 DEF ForgotDelete, Begin
  <2> HIDE DEF local
  <2> QED BY <1>11, <2>2, <2>3, OneMoves, CodesTyped, <1>a DEF ForgotDelete, history, TypeOK
<1>12. ASSUME NEW r \in Requests, ForgotCreate(r) PROVE TypeInv'
  <2>1. PICK c \in Codes : code' = [code EXCEPT ![c].status = "live"]
    BY <1>12, Zenon DEF ForgotCreate
  <2>2. req' = [req EXCEPT ![r] = Idle] /\ UNCHANGED <<token, password, history>>
    BY <1>12 DEF ForgotCreate
  <2>3. [code[c] EXCEPT !.status = "live"] \in Code
    BY Zenon DEF TypeOK, Code
  <2>4. code' \in [Codes -> Code]
    BY <2>1, <2>3 DEF TypeOK
  <2> QED BY <2>2, <2>4, OneMoves, IdleFormed, <1>a DEF history, TypeOK
<1>13. ASSUME NEW r \in Requests, ResetRead(r) PROVE TypeInv'
  <2>1. PICK c \in LiveCodes, right \in BOOLEAN :
          LET seen == IF WorkingOn(c) = {} THEN code[c] ELSE Disturbed(c)
          IN  /\ Begin(r, [Idle EXCEPT !.pc = Verdict(c, right), !.code = c,
                                       !.attempts = code[c].attempts])
              /\ code' = [code EXCEPT ![c] =
                     [seen EXCEPT !.tries = IF Verdict(c, right) = "reset_count" /\ seen.alone
                                            THEN UpTo(MAX_VERIFY_ATTEMPTS + 1, @ + 1)
                                            ELSE @]]
              /\ UNCHANGED <<token, password, history>>
    BY <1>13, Zenon DEF ResetRead
  <2> DEFINE pc == Verdict(c, right)
             local == [Idle EXCEPT !.pc = pc, !.code = c, !.attempts = code[c].attempts]
             seen == IF WorkingOn(c) = {} THEN code[c] ELSE Disturbed(c)
             tries == IF pc = "reset_count" /\ seen.alone
                      THEN UpTo(MAX_VERIFY_ATTEMPTS + 1, seen.tries + 1) ELSE seen.tries
  <2>2. c \in Codes /\ code[c] \in Code /\ seen \in Code
    BY CodesTyped DEF LiveCodes, TypeOK
  <2>3. /\ pc \in {"reset_drop", "reset_save", "reset_count"}
        /\ pc = "reset_count" => code[c].attempts < MAX_VERIFY_ATTEMPTS
    BY <2>2 DEF Verdict, Exhausted, Code
  <2>4. local \in Request /\ local.pc = pc /\ local.code = c /\ local.attempts = code[c].attempts
    <3> HIDE DEF pc
    <3>1. code[c].attempts \in 0..MAX_VERIFY_ATTEMPTS
      BY <2>2 DEF Code
    <3>2. local \in Request
      BY <2>2, <2>3, <3>1, IdleFormed, Zenon DEF WellFormed, Request
    <3> QED BY <3>2 DEF Idle
  <2>5. WellFormed(local)
    <3> HIDE DEF local, pc
    <3> QED BY <2>2, <2>3, <2>4 DEF WellFormed, RefreshPcs, ResetPcs
  <2>6. req' = [req EXCEPT ![r] = local]
    BY <2>1 DEF Begin
  <2>7. tries \in 0..(MAX_VERIFY_ATTEMPTS + 1)
    <3> HIDE DEF pc, seen
    <3>1. seen.tries \in 0..(MAX_VERIFY_ATTEMPTS + 1)
      BY <2>2 DEF Code
    <3>2. /\ MAX_VERIFY_ATTEMPTS + 1 \in Nat /\ seen.tries + 1 \in Nat
      BY <3>1
    <3> QED BY <3>1, <3>2, UpToBounded
  <2>8. [seen EXCEPT !.tries = tries] \in Code
    <3> HIDE DEF tries, seen
    <3> QED BY <2>2, <2>7, Zenon DEF Code
  <2>9. code' = [code EXCEPT ![c] = [seen EXCEPT !.tries = tries]]
    BY <2>1
  <2>10. code' \in [Codes -> Code]
    <3> HIDE DEF tries, seen
    <3> QED BY <2>8, <2>9 DEF TypeOK
  <2> HIDE DEF local, tries, seen, pc
  <2> QED BY <2>1, <2>5, <2>6, <2>10, OneMoves, <1>a DEF history, TypeOK
<1>14. ASSUME NEW r \in Requests, ResetDrop(r) PROVE TypeInv'
  BY <1>14, OneMoves, IdleFormed, CodesTyped, <1>a DEF ResetDrop, history, TypeOK
<1>15. ASSUME NEW r \in Requests, ResetCount(r) PROVE TypeInv'
  <2> DEFINE q == req[r]
  <2>1. /\ q.pc = "reset_count" /\ req' = [req EXCEPT ![r] = Idle]
        /\ UNCHANGED <<token, password, history>>
    BY <1>15 DEF ResetCount
  <2>2. q.code \in Codes /\ q.attempts + 1 \in 0..MAX_VERIFY_ATTEMPTS
    BY <2>1 DEF WellFormed, ResetPcs, Request
  <2>3. [code[q.code] EXCEPT !.attempts = q.attempts + 1] \in Code
    <3>1. code[q.code] \in Code
      BY <2>2 DEF TypeOK
    <3> HIDE DEF q
    <3> QED BY <2>2, <3>1, Zenon DEF Code
  <2>4. \/ code' = code
        \/ code' = [code EXCEPT ![q.code] = [code[q.code] EXCEPT !.attempts = q.attempts + 1]]
    BY <1>15 DEF ResetCount
  <2>5. code' \in [Codes -> Code]
    BY <2>3, <2>4 DEF TypeOK
  <2> QED BY <2>1, <2>5, OneMoves, IdleFormed, <1>a DEF history, TypeOK
<1>16. ASSUME NEW r \in Requests, ResetSave(r) PROVE TypeInv'
  <2> DEFINE q == req[r]
             local == [q EXCEPT !.pc = "reset_delete"]
             uses == IF code[q.code].alone THEN UpTo(2, code[q.code].uses + 1)
                                           ELSE code[q.code].uses
  <2>1. /\ q.pc = "reset_save" /\ req' = [req EXCEPT ![r] = local]
        /\ password' = UpTo(MaxResets, password + 1)
        /\ code' = [code EXCEPT ![q.code] = [code[q.code] EXCEPT !.uses = uses]]
        /\ UNCHANGED <<token, history>>
    BY <1>16 DEF ResetSave
  <2>2. q \in Request /\ q.code \in Codes /\ code[q.code] \in Code
    BY <2>1 DEF WellFormed, ResetPcs, TypeOK
  <2>3. password' \in Passwords
    BY <2>1, UpToBounded DEF TypeOK, Passwords
  <2>4. uses \in 0..2
    <3>1. code[q.code].uses \in 0..2
      BY <2>2 DEF Code
    <3>2. code[q.code].uses + 1 \in Nat
      BY <3>1
    <3> QED BY <3>1, <3>2, UpToBounded
  <2>5. [code[q.code] EXCEPT !.uses = uses] \in Code
    <3> HIDE DEF uses, q
    <3> QED BY <2>2, <2>4, Zenon DEF Code
  <2>6. code' \in [Codes -> Code]
    <3> HIDE DEF uses
    <3> QED BY <2>1, <2>5 DEF TypeOK
  <2>7. local \in Request /\ local.pc = "reset_delete" /\ local.code = q.code
    <3>1. local \in Request
      <4> HIDE DEF q
      <4> QED BY <2>2, Zenon DEF Request
    <3> QED BY <2>2, <3>1 DEF Request
  <2>8. WellFormed(local)
    <3> HIDE DEF local
    <3> QED BY <2>2, <2>7 DEF WellFormed, RefreshPcs, ResetPcs
  <2> HIDE DEF local, uses
  <2> QED BY <2>1, <2>3, <2>6, <2>8, OneMoves, <1>a DEF history, TypeOK
<1>17. ASSUME NEW r \in Requests, ResetDelete(r) PROVE TypeInv'
  <2> DEFINE q == req[r]
             local == [q EXCEPT !.pc = "reset_revoke"]
  <2>1. q.pc = "reset_delete" /\ req' = [req EXCEPT ![r] = local]
    BY <1>17 DEF ResetDelete
  <2>2. q \in Request /\ q.code \in Codes
    BY <2>1 DEF WellFormed, ResetPcs
  <2>3. local \in Request /\ local.pc = "reset_revoke" /\ local.code = q.code
    <3>1. local \in Request
      <4> HIDE DEF q
      <4> QED BY <2>2, Zenon DEF Request
    <3> QED BY <2>2, <3>1 DEF Request
  <2>4. WellFormed(local)
    <3> HIDE DEF local
    <3> QED BY <2>2, <2>3 DEF WellFormed, RefreshPcs, ResetPcs
  <2> HIDE DEF local
  <2> QED BY <1>17, <2>1, <2>4, OneMoves, CodesTyped, <1>a DEF ResetDelete, Spent, history, TypeOK
<1>18. ASSUME NEW r \in Requests, ResetRevoke(r) PROVE TypeInv'
  BY <1>18, <1>a, SignOutTyped, FamiliesTyped DEF ResetRevoke, TypeOK
<1>19. ASSUME NEW r \in Requests, Fails(r) PROVE TypeInv'
  <2> DEFINE q == req[r]
  <2>1. /\ req' = [req EXCEPT ![r] = Idle]
        /\ code' = [c \in Codes |-> IF c = q.code THEN Disturbed(c) ELSE code[c]]
        /\ forked' = IF q.pc = "refresh_mark" THEN forked \cup {token[q.token].family} ELSE forked
        /\ cut' = (cut \/ q.pc \in {"reset_delete", "reset_revoke"})
        /\ UNCHANGED <<token, password, out, loose>>
    BY <1>19, Zenon DEF Fails
  <2>2. code' \in [Codes -> Code]
    BY <2>1, CodesTyped DEF TypeOK
  <2>3. forked' \subseteq Tokens
    BY <2>1 DEF TypeOK, WellFormed, RefreshPcs, Traced
  <2>4. cut' \in BOOLEAN
    BY <2>1
  <2> QED BY <2>1, <2>2, <2>3, <2>4, OneMoves, IdleFormed, <1>a DEF TypeOK
<1>20. CASE UNCHANGED vars
  BY <1>20, <1>a DEF vars, history, TypeOK
<1> QED
  BY <1>1, <1>2, <1>3, <1>4, <1>5, <1>6, <1>7, <1>8, <1>9, <1>10, <1>11, <1>12, <1>13,
     <1>14, <1>15, <1>16, <1>17, <1>18, <1>19, <1>20 DEF Next

----------------------------------------------------------------------------
\* Why a family that was signed out stays so: a login takes a token nothing knew, and a
\* refresh of a family that is out, which was accepted before, straddles the sign-out.
Sealed ==
    /\ \A f \in out : Used(f)
    /\ SignedOutStaysOut
    /\ \A r \in Requests :
          req[r].pc = "refresh_issue" /\ token[req[r].token].family \in out \ loose
          => req[r].straddles

\* The inductive invariant.
Inv == TypeInv /\ Traced /\ Sealed

\* Nothing is issued or out at first.
LEMMA InvInit == Init => Inv
<1>1. ASSUME Init PROVE Traced
  BY <1>1 DEF Init, Traced, Used, Idle, RefreshPcs
<1>2. ASSUME Init PROVE Sealed
  BY <1>2 DEF Init, Sealed, SignedOutStaysOut
<1> QED BY <1>1, <1>2, TypeInit DEF Inv

\* What a step may do that neither issues a token nor signs a family out.
Gentle ==
    /\ \A t \in Tokens : /\ token'[t].family = token[t].family
                         /\ (token'[t].status # "unused") <=> Used(t)
                         /\ token'[t].status = "live" => Live(t)
                         /\ token'[t].held => Used(t)
    /\ out' = out /\ loose' = loose
    /\ \A r \in Requests :
          \/ req'[r] = req[r]
          \/ req'[r].pc \notin RefreshPcs
          \/ /\ req'[r].token \in Tokens /\ Used(req'[r].token)
             /\ req'[r].pc # "refresh_mark"
             /\ req'[r].pc = "refresh_issue" => Live(req'[r].token)

\* A gentle step keeps what is out out.
LEMMA GentleKeeps ==
    ASSUME Inv, Gentle
    PROVE  Traced' /\ Sealed'
<1>1. \A r \in Requests : 
          /\ req[r].pc \in RefreshPcs => req[r].token \in Tokens /\ Used(req[r].token)
          /\ req[r].pc = "refresh_mark" => req[r].child \in Tokens /\ Used(req[r].child)
  BY DEF Inv, TypeInv, WellFormed, Traced
<1>2. Traced'
  BY <1>1 DEF Inv, Traced, Gentle, Used, RefreshPcs
<1>3. (\A f \in out : Used(f))'
  BY DEF Inv, TypeInv, TypeOK, Sealed, Gentle, Used
<1>4. SignedOutStaysOut'
  BY DEF Inv, Sealed, Gentle, SignedOutStaysOut, Live
<1>5. ASSUME NEW r \in Requests, req'[r].pc = "refresh_issue",
             token'[req'[r].token].family \in out' \ loose'
      PROVE  req'[r].straddles
  <2>1. CASE req'[r] = req[r]
    BY <1>1, <1>5, <2>1 DEF Inv, Sealed, Gentle, RefreshPcs
  <2>2. CASE req'[r] # req[r]
    BY <1>5, <2>2 DEF Inv, Sealed, Gentle, RefreshPcs, SignedOutStaysOut
  <2> QED BY <2>1, <2>2
<1> QED BY <1>2, <1>3, <1>4, <1>5 DEF Sealed

\* What a sign-out does to the requests.
LEMMA SignOutRequests ==
    ASSUME TypeInv, NEW r, NEW families, NEW straddling, SignOut(r, families, straddling)
    PROVE  \A q \in Requests :
              \/ req'[q].pc = "idle" /\ req'[q].code = None /\ q = r
              \/ req'[q] = req[q] /\ q \notin straddling
              \/ /\ req'[q].pc = req[q].pc /\ req'[q].token = req[q].token
                 /\ req'[q].child = req[q].child /\ req'[q].code = req[q].code
                 /\ req'[q].attempts = req[q].attempts
                 /\ req'[q].straddles
<1>1. \A q \in Requests : \/ req'[q] = Idle /\ q = r
                          \/ req'[q] = req[q] /\ q \notin straddling
                          \/ req'[q] = [req[q] EXCEPT !.straddles = TRUE]
  BY DEF SignOut
<1>2. Idle.pc = "idle" /\ Idle.code = None
  BY DEF Idle
<1>3. ASSUME NEW q \in Requests, req'[q] = [req[q] EXCEPT !.straddles = TRUE]
      PROVE  /\ req'[q].pc = req[q].pc /\ req'[q].token = req[q].token
             /\ req'[q].child = req[q].child /\ req'[q].code = req[q].code
             /\ req'[q].attempts = req[q].attempts /\ req'[q].straddles
  <2> DEFINE x == req[q]
             y == [x EXCEPT !.straddles = TRUE]
  <2>1. x \in Request
    BY DEF TypeInv, TypeOK
  <2>2. /\ y.pc = x.pc /\ y.token = x.token /\ y.child = x.child /\ y.code = x.code
        /\ y.attempts = x.attempts /\ y.straddles = TRUE
    <3> HIDE DEF x
    <3> QED BY <2>1, Zenon DEF Request
  <2> HIDE DEF y
  <2>3. req'[q] = y
    BY <1>3 DEF y
  <2> QED BY <2>2, <2>3, Zenon
<1> QED BY <1>1, <1>2, <1>3, Zenon

\* A sign-out leaves no token of its families live, and marks who was about to issue one.
LEMMA SignOutKeeps ==
    ASSUME Inv, NEW r, NEW families, NEW straddling, SignOut(r, families, straddling),
           families \subseteq Families, Accepted(families) \subseteq straddling,
           loose' = loose
    PROVE  Traced' /\ Sealed'
<1>1. \A q \in Requests : 
          /\ req[q].pc \in RefreshPcs => req[q].token \in Tokens /\ Used(req[q].token)
          /\ req[q].pc = "refresh_mark" => req[q].child \in Tokens /\ Used(req[q].child)
  BY DEF Inv, TypeInv, WellFormed, Traced
<1>2. \A t \in Tokens : /\ token'[t].family = token[t].family
                        /\ token'[t].held = token[t].held
                        /\ (token'[t].status # "unused") <=> Used(t)
                        /\ token'[t].status = "live" => Live(t) /\ token[t].family \notin families
  BY DEF SignOut, SignedOut, Inv, TypeInv, TypeOK, Token, Used, Live
<1>4. \A q \in Requests : \/ req'[q].pc = "idle"
                          \/ req'[q] = req[q] /\ q \notin straddling
                          \/ /\ req'[q].pc = req[q].pc /\ req'[q].token = req[q].token
                             /\ req'[q].child = req[q].child
                             /\ req'[q].straddles
  BY SignOutRequests DEF Inv
<1>5. Traced'
  BY <1>1, <1>2, <1>4 DEF Inv, Traced, Used, RefreshPcs
<1>6. \A f \in families : f \in Tokens /\ Used(f)
  BY DEF Families, Inv, Traced
<1>7. (\A f \in out : Used(f))'
  BY <1>2, <1>6 DEF SignOut, Inv, TypeInv, TypeOK, Sealed, Used
<1>8. SignedOutStaysOut'
  BY <1>2 DEF SignOut, Inv, Sealed, SignedOutStaysOut, Live
<1>9. ASSUME NEW q \in Requests, req'[q].pc = "refresh_issue",
             token'[req'[q].token].family \in out' \ loose'
      PROVE  req'[q].straddles
  <2>1. CASE req'[q] = req[q] /\ q \notin straddling
    <3>1. req[q].token \in Tokens /\ token[req[q].token].family \notin families
      BY <1>1, <1>9, <2>1 DEF Accepted, RefreshPcs
    <3> QED BY <1>2, <1>9, <2>1, <3>1 DEF SignOut, Inv, Sealed
  <2> QED BY <1>4, <1>9, <2>1
<1> QED BY <1>5, <1>7, <1>8, <1>9 DEF Sealed

\* A token is issued in a family that is not out, or that is loose from now on.
LEMMA IssueKeeps ==
    ASSUME Inv, NEW t \in Tokens, ~Used(t), NEW f \in Tokens, f = t \/ Used(f),
           token' \in [Tokens -> Token],
           token'[t].status = "live", token'[t].family = f,
           \A u \in Tokens \ {t} : token'[u] = token[u],
           out' = out, loose \subseteq loose', f \notin out \ loose',
           \A r \in Requests :
              \/ req'[r] = req[r]
              \/ req'[r].pc \notin RefreshPcs
              \/ /\ req'[r].pc = "refresh_mark" /\ req'[r].child = t
                 /\ req'[r].token \in Tokens /\ Used(req'[r].token)
    PROVE  Traced' /\ Sealed'
<1>1. \A r \in Requests : 
          /\ req[r].pc \in RefreshPcs => req[r].token \in Tokens /\ Used(req[r].token)
          /\ req[r].pc = "refresh_mark" => req[r].child \in Tokens /\ Used(req[r].child)
  BY DEF Inv, TypeInv, WellFormed, Traced
<1>2. \A r \in Requests : req'[r].pc \in RefreshPcs =>
          /\ req'[r].token \in Tokens /\ Used(req'[r].token)
          /\ \/ req'[r] = req[r]
             \/ req'[r].pc = "refresh_mark" /\ req'[r].child = t
  BY <1>1
<1>3. \A u \in Tokens : Used(u) => u # t /\ token'[u] = token[u]
  OBVIOUS
<1>4. \A u \in Tokens \ {t} : Used(u) => Used(token[u].family) /\ token[u].family \in Tokens
  BY DEF Inv, Traced
<1>5. Traced'
  BY <1>1, <1>2, <1>3, <1>4 DEF Inv, Traced, Used, RefreshPcs
<1>6. (\A g \in out : Used(g))'
  BY <1>3 DEF Inv, TypeInv, TypeOK, Sealed, Used
<1>7. SignedOutStaysOut'
  BY DEF Inv, Sealed, SignedOutStaysOut, Live
<1>8. ASSUME NEW r \in Requests, req'[r].pc = "refresh_issue",
             token'[req'[r].token].family \in out' \ loose'
      PROVE  req'[r].straddles
  BY <1>2, <1>3, <1>8 DEF Inv, Sealed, RefreshPcs
<1> QED BY <1>5, <1>6, <1>7, <1>8 DEF Sealed

\* Every step is gentle, signs out or issues.
LEMMA InvStep == Inv /\ [Next]_vars => Inv'
<1> SUFFICES ASSUME Inv, [Next]_vars PROVE Traced' /\ Sealed'
  BY TypeStep DEF Inv
<1> TypeOK /\ Traced /\ \A r \in Requests : WellFormed(req[r])
  BY DEF Inv, TypeInv
<1>a. ASSUME UNCHANGED <<token, out, loose>>,
             \A r \in Requests : req'[r] = req[r] \/ req'[r].pc \notin RefreshPcs
      PROVE  Traced' /\ Sealed'
  BY <1>a, GentleKeeps DEF Gentle, Traced, Used, Live
<1>1. CASE Logout
  <2>1. PICK t \in Held : /\ token' = [token EXCEPT ![t].status = "revoked"]
                          /\ UNCHANGED <<code, password, req, history>>
    BY <1>1, Zenon DEF Logout
  <2>2. t \in Tokens /\ Used(t)
    BY DEF Held, Traced
  <2> QED BY <2>1, <2>2, GentleKeeps DEF Gentle, Traced, Used, Live, TypeOK, Token, history
<1>2. CASE LogoutAll
  BY <1>2, SignOutKeeps DEF LogoutAll
<1>3. CASE ExpireToken
  <2>1. PICK t \in Tokens :
          /\ token[t].status \in {"live", "revoked"}
          /\ token' = [token EXCEPT ![t].status = "gone", ![t].held = FALSE]
          /\ UNCHANGED <<code, password, req, history>>
    BY <1>3, Zenon DEF ExpireToken
  <2>2. token'[t].status = "gone" /\ token'[t].family = token[t].family /\ ~token'[t].held
    BY <2>1 DEF TypeOK, Token
  <2>3. \A u \in Tokens \ {t} : token'[u] = token[u]
    BY <2>1 DEF TypeOK
  <2> QED BY <2>1, <2>2, <2>3, GentleKeeps DEF Gentle, Traced, Used, Live, history
<1>4. CASE ExpireCode
  BY <1>4, <1>a DEF ExpireCode, history
<1>5. ASSUME NEW r \in Requests, LoginRead(r) PROVE Traced' /\ Sealed'
  BY <1>5, <1>a DEF LoginRead, Begin, history, Idle, RefreshPcs, TypeOK
<1>6. ASSUME NEW r \in Requests, LoginIssue(r) PROVE Traced' /\ Sealed'
  <2>1. PICK t \in Tokens :
          /\ token[t].status = "unused"
          /\ token' = [Issued(t, t, req[r].password) EXCEPT ![t].held = TRUE]
          /\ req' = [req EXCEPT ![r] = Idle]
          /\ loose' = IF req[r].straddles THEN loose \cup {t} ELSE loose
          /\ UNCHANGED <<code, password, out, forked, cut>>
    BY <1>6, Zenon DEF LoginIssue
  <2>2. /\ token'[t].status = "live" /\ token'[t].family = t
        /\ \A u \in Tokens \ {t} : token'[u] = token[u]
    BY <2>1 DEF Issued, TypeOK
  <2>3. t \notin out
    BY <2>1 DEF Inv, Sealed, Used
  <2>4. token' \in [Tokens -> Token]
    BY TypeStep DEF Inv, TypeInv, TypeOK
  <2> QED BY <2>1, <2>2, <2>3, <2>4, IssueKeeps DEF Used, Idle, RefreshPcs, TypeOK
<1>7. ASSUME NEW r \in Requests, RefreshRead(r) PROVE Traced' /\ Sealed'
  <2>1. PICK t \in Held :
          /\ req' = [req EXCEPT ![r] =
               [Idle EXCEPT !.pc = IF Live(t) THEN "refresh_issue" ELSE "refresh_kill",
                            !.token = t]]
          /\ UNCHANGED <<token, code, password, out, loose, cut>>
    BY <1>7, Zenon DEF RefreshRead, Begin
  <2>2. t \in Tokens /\ Used(t)
    BY DEF Held, Traced
  <2>3. req'[r].token = t /\ (req'[r].pc = "refresh_issue" => Live(t))
    BY <2>1 DEF Idle, TypeOK
  <2>4. \A q \in Requests \ {r} : req'[q] = req[q]
    BY <2>1 DEF TypeOK
  <2> QED BY <2>1, <2>2, <2>3, <2>4, GentleKeeps DEF Gentle, Traced, Used, Live
<1>8. ASSUME NEW r \in Requests, RefreshIssue(r) PROVE Traced' /\ Sealed'
  <2> DEFINE q == req[r]
             f == token[q.token].family
  <2>1. PICK t \in Tokens :
          /\ token[t].status = "unused"
          /\ token' = Issued(t, f, token[q.token].password)
          /\ req' = [req EXCEPT ![r] = [q EXCEPT !.pc = "refresh_mark", !.child = t]]
          /\ loose' = IF q.straddles THEN loose \cup {f} ELSE loose
          /\ UNCHANGED <<code, password, out, forked, cut>>
    BY <1>8, Zenon DEF RefreshIssue
  <2>2. q.pc = "refresh_issue" /\ q.token \in Tokens /\ Used(q.token) /\ q \in Request
    BY <1>8 DEF RefreshIssue, WellFormed, Traced, RefreshPcs
  <2>3. f \in Tokens /\ Used(f)
    BY <2>2 DEF Traced
  <2>4. /\ token'[t].status = "live" /\ token'[t].family = f
        /\ \A u \in Tokens \ {t} : token'[u] = token[u]
    BY <2>1 DEF Issued, TypeOK
  <2>5. f \notin out \ loose'
    BY <2>1, <2>2 DEF Inv, Sealed
  <2>6. token' \in [Tokens -> Token]
    BY TypeStep DEF Inv, TypeInv, TypeOK
  <2>7. req'[r].pc = "refresh_mark" /\ req'[r].token = q.token /\ req'[r].child = t
    BY <2>1, <2>2 DEF Request, TypeOK
  <2>8. \A p \in Requests \ {r} : req'[p] = req[p]
    BY <2>1 DEF TypeOK
  <2>9. ~Used(t)
    BY <2>1 DEF Used
  <2>10. out' = out /\ loose \subseteq loose'
    BY <2>1
  <2> HIDE DEF q, f
  <2> QED BY <2>2, <2>3, <2>4, <2>5, <2>6, <2>7, <2>8, <2>9, <2>10, IssueKeeps
<1>9. ASSUME NEW r \in Requests, RefreshMark(r) PROVE Traced' /\ Sealed'
  <2> DEFINE q == req[r]
  <2>1. /\ q.pc = "refresh_mark" /\ req' = [req EXCEPT ![r] = Idle]
        /\ \/ /\ token[q.token].status # "gone"
              /\ token' = [Marked(q.token) EXCEPT ![q.child].held = TRUE]
           \/ UNCHANGED token
        /\ UNCHANGED <<out, loose>>
    BY <1>9 DEF RefreshMark
  <2>2. /\ q.token \in Tokens /\ Used(q.token)
        /\ q.child \in Tokens
    BY <2>1 DEF WellFormed, Traced, RefreshPcs
  <2>3. Used(q.child)
    BY <2>1 DEF Traced
  <2>4. ASSUME token' = [Marked(q.token) EXCEPT ![q.child].held = TRUE], NEW t \in Tokens
        PROVE  /\ token'[t].family = token[t].family
               /\ (token'[t].status # "unused") <=> Used(t)
               /\ token'[t].status = "live" => Live(t)
               /\ token'[t].held => Used(t)
    <3> DEFINE marked == Marked(q.token)
    <3>1. /\ marked[t].family = token[t].family /\ marked[t].held = token[t].held
          /\ (marked[t].status # "unused") <=> Used(t)
          /\ marked[t].status = "live" => Live(t)
      BY <2>2 DEF Marked, TypeOK, Token, Used, Live
    <3>2. marked \in [Tokens -> Token]
      BY <2>2, TokensTyped
    <3>3. token' = [marked EXCEPT ![q.child].held = TRUE]
      BY <2>4
    <3> HIDE DEF marked
    <3>4. token'[t].family = marked[t].family /\ token'[t].status = marked[t].status
      BY <2>2, <3>2, <3>3 DEF Token
    <3>5. t # q.child => token'[t].held = marked[t].held
      BY <2>2, <3>2, <3>3 DEF Token
    <3>6. token'[t].held => Used(t)
      BY <2>3, <3>1, <3>5 DEF Traced
    <3> QED BY <3>1, <3>4, <3>6
  <2>5. \A p \in Requests : req'[p] = req[p] \/ req'[p].pc \notin RefreshPcs
    BY <2>1 DEF Idle, RefreshPcs, TypeOK
  <2>6. CASE UNCHANGED token
    BY <2>1, <2>5, <2>6, <1>a
  <2>7. CASE token' = [Marked(q.token) EXCEPT ![q.child].held = TRUE]
    BY <2>1, <2>4, <2>5, <2>7, GentleKeeps DEF Gentle
  <2> QED BY <2>1, <2>6, <2>7
<1>10. ASSUME NEW r \in Requests, RefreshKill(r) PROVE Traced' /\ Sealed'
  <2> DEFINE f == token[req[r].token].family
  <2>1. /\ req[r].pc = "refresh_kill" /\ SignOut(r, {f}, Accepted({f})) /\ loose' = loose
    BY <1>10 DEF RefreshKill
  <2>2. {f} \subseteq Families
    BY <2>1 DEF WellFormed, Traced, RefreshPcs, Families
  <2> HIDE DEF f
  <2> QED BY <2>1, <2>2, SignOutKeeps
<1>11. ASSUME NEW r \in Requests, ForgotDelete(r) PROVE Traced' /\ Sealed'
  BY <1>11, <1>a DEF ForgotDelete, Begin, history, Idle, RefreshPcs, TypeOK
<1>12. ASSUME NEW r \in Requests, ForgotCreate(r) PROVE Traced' /\ Sealed'
  BY <1>12, <1>a DEF ForgotCreate, history, Idle, RefreshPcs, TypeOK
<1>13. ASSUME NEW r \in Requests, ResetRead(r) PROVE Traced' /\ Sealed'
  <2>1. PICK c \in LiveCodes, right \in BOOLEAN :
          /\ Begin(r, [Idle EXCEPT !.pc = Verdict(c, right), !.code = c,
                                   !.attempts = code[c].attempts])
          /\ UNCHANGED <<token, password, history>>
    BY <1>13, Zenon DEF ResetRead
  <2>2. Verdict(c, right) \notin RefreshPcs
    BY DEF Verdict, RefreshPcs
  <2> QED BY <2>1, <2>2, <1>a DEF Begin, history, Idle, TypeOK
<1>14. ASSUME NEW r \in Requests, ResetDrop(r) PROVE Traced' /\ Sealed'
  BY <1>14, <1>a DEF ResetDrop, history, Idle, RefreshPcs, TypeOK
<1>15. ASSUME NEW r \in Requests, ResetCount(r) PROVE Traced' /\ Sealed'
  BY <1>15, <1>a DEF ResetCount, history, Idle, RefreshPcs, TypeOK
<1>16. ASSUME NEW r \in Requests, ResetSave(r) PROVE Traced' /\ Sealed'
  BY <1>16, <1>a DEF ResetSave, history, Request, RefreshPcs, TypeOK
<1>17. ASSUME NEW r \in Requests, ResetDelete(r) PROVE Traced' /\ Sealed'
  BY <1>17, <1>a DEF ResetDelete, history, Request, RefreshPcs, TypeOK
<1>18. ASSUME NEW r \in Requests, ResetRevoke(r) PROVE Traced' /\ Sealed'
  BY <1>18, SignOutKeeps DEF ResetRevoke
<1>19. ASSUME NEW r \in Requests, Fails(r) PROVE Traced' /\ Sealed'
  BY <1>19, <1>a DEF Fails, Idle, RefreshPcs, TypeOK
<1>20. CASE UNCHANGED vars
  BY <1>20, <1>a DEF vars, history
<1> QED
  BY <1>1, <1>2, <1>3, <1>4, <1>5, <1>6, <1>7, <1>8, <1>9, <1>10, <1>11, <1>12, <1>13,
     <1>14, <1>15, <1>16, <1>17, <1>18, <1>19, <1>20 DEF Next

\* The inductive invariant holds of every behaviour.
LEMMA InvHolds == Spec => []Inv
BY InvInit, InvStep, PTL DEF Spec

\* Type correctness, whatever order the calls of the requests come in.
THEOREM TypeCorrect == Spec => []TypeOK
<1>1. Inv => TypeOK
  BY DEF Inv, TypeInv
<1> QED BY <1>1, InvHolds, PTL

\* A family of refresh tokens that logoutAll, a reset or a reused token signed out has
\* no live token again, but for a refresh that had been accepted before the sign-out.
THEOREM SignedOutHolds == Spec => []SignedOutStaysOut
<1>1. Inv => SignedOutStaysOut
  BY DEF Inv, Sealed
<1> QED BY <1>1, InvHolds, PTL

----------------------------------------------------------------------------
RotatePcs == {"refresh_issue", "refresh_mark"}

\* Request r rotates a token of family f.
Rotates(r, f) == req[r].pc \in RotatePcs /\ token[req[r].token].family = f

\* Why a session has one valid token: until a family is forked one request at a time
\* rotates it, and the live tokens are then the one it replaces and the child it stored.
Rotating ==
    \A f \in Tokens \ forked :
        /\ \A r, s \in Requests : Rotates(r, f) /\ Rotates(s, f) => r = s
        /\ \A t \in Tokens, r \in Requests :
              Live(t) /\ token[t].family = f /\ Rotates(r, f) =>
                  t = req[r].token \/ (req[r].pc = "refresh_mark" /\ t = req[r].child)
        /\ (\A r \in Requests : ~Rotates(r, f)) =>
              \A t, u \in Tokens : /\ Live(t) /\ token[t].family = f
                                   /\ Live(u) /\ token[u].family = f
                                   => t = u

\* What a step may do that rotates no token.
Still ==
    /\ forked \subseteq forked'
    /\ \A t \in Tokens : /\ token'[t].family = token[t].family
                         /\ token'[t].status = "live" => Live(t)
    /\ \A r \in Requests :
          \/ /\ req'[r].pc = req[r].pc /\ req'[r].token = req[r].token
             /\ req'[r].child = req[r].child
          \/ req[r].pc \notin RotatePcs /\ req'[r].pc \notin RotatePcs

\* A step that rotates no token leaves the rotations as they are.
LEMMA StillKeeps ==
    ASSUME Inv, Rotating, Still
    PROVE  Rotating'
<1>1. \A r \in Requests : req[r].pc \in RotatePcs => req[r].token \in Tokens
  BY DEF Inv, TypeInv, WellFormed, RefreshPcs, RotatePcs
<1>2. ASSUME NEW f \in Tokens, NEW r \in Requests
      PROVE  /\ Rotates(r, f)' <=> Rotates(r, f)
             /\ Rotates(r, f) => /\ req'[r].pc = req[r].pc /\ req'[r].token = req[r].token
                                 /\ req'[r].child = req[r].child
  BY <1>1 DEF Still, Rotates
<1>3. \A t \in Tokens : Live(t)' => Live(t) /\ token'[t].family = token[t].family
  BY DEF Still, Live
<1> QED BY <1>2, <1>3 DEF Rotating, Still

\* Nothing rotates at first.
LEMMA RotatingInit == Init => Rotating
BY DEF Init, Rotating, Rotates, Live, Idle, RotatePcs

\* Every step keeps the rotations apart.
LEMMA RotatingStep == Inv /\ Rotating /\ [Next]_vars => Rotating'
<1> SUFFICES ASSUME Inv, Rotating, [Next]_vars PROVE Rotating'
  OBVIOUS
<1> TypeOK /\ Traced /\ \A r \in Requests : WellFormed(req[r])
  BY DEF Inv, TypeInv
<1>a. ASSUME UNCHANGED <<token, forked>>,
             \A r \in Requests : \/ req'[r] = req[r]
                                 \/ req[r].pc \notin RotatePcs /\ req'[r].pc \notin RotatePcs
      PROVE  Rotating'
  BY <1>a, StillKeeps DEF Still, Live
<1>b. ASSUME NEW r, NEW families, NEW straddling, SignOut(r, families, straddling),
             forked' = forked, r \in Requests => req[r].pc \notin RotatePcs
      PROVE  Rotating'
  <2>1. \A t \in Tokens : /\ token'[t].family = token[t].family
                          /\ token'[t].status = "live" => Live(t)
    BY <1>b DEF SignOut, SignedOut, TypeOK, Token, Live
  <2>2. \A q \in Requests : \/ req'[q].pc = "idle" /\ q = r
                            \/ /\ req'[q].pc = req[q].pc /\ req'[q].token = req[q].token
                               /\ req'[q].child = req[q].child
    BY <1>b, SignOutRequests DEF Inv
  <2> QED BY <1>b, <2>1, <2>2, StillKeeps DEF Still, RotatePcs
<1>c. ASSUME NEW r \in Requests, NEW g \in Tokens, \A f \in Tokens : Rotates(r, f) <=> f = g,
             \A q \in Requests : IF q = r THEN req'[q].pc = "idle" ELSE req'[q] = req[q],
             \A t \in Tokens : /\ token'[t].family = token[t].family
                               /\ token'[t].status = "live" => Live(t),
             forked \subseteq forked',
             \/ g \in forked'
             \/ req[r].pc = "refresh_issue"
             \/ req[r].pc = "refresh_mark" /\ token'[req[r].token].status # "live"
      PROVE  Rotating'
  <2>1. \A q \in Requests : req[q].pc \in RotatePcs => req[q].token \in Tokens
    BY DEF WellFormed, RefreshPcs, RotatePcs
  <2>2. \A q \in Requests, f \in Tokens :
            /\ Rotates(q, f)' <=> Rotates(q, f) /\ q # r
            /\ Rotates(q, f) /\ q # r => req'[q] = req[q]
    BY <1>c, <2>1 DEF Rotates, RotatePcs
  <2>3. \A t \in Tokens : Live(t)' => Live(t) /\ token'[t].family = token[t].family
    BY <1>c DEF Live
  <2>4. ASSUME NEW f \in Tokens \ forked',
               NEW u \in Tokens, NEW v \in Tokens, \A q \in Requests : ~Rotates(q, f)',
               Live(u)', token'[u].family = f, Live(v)', token'[v].family = f
        PROVE  u = v
    <3>1. f \notin forked /\ Live(u) /\ token[u].family = f /\ Live(v) /\ token[v].family = f
      BY <1>c, <2>3, <2>4
    <3>2. CASE f = g
      <4>1. Rotates(r, f)
        BY <1>c, <3>2
      <4>2. CASE req[r].pc = "refresh_issue"
        BY <3>1, <4>1, <4>2 DEF Rotating
      <4>3. CASE req[r].pc = "refresh_mark" /\ token'[req[r].token].status # "live"
        <5>1. u # req[r].token /\ v # req[r].token
          BY <2>4, <4>3 DEF Live
        <5> QED BY <3>1, <4>1, <4>3, <5>1 DEF Rotating
      <4> QED BY <1>c, <2>4, <3>2, <4>2, <4>3
    <3>3. CASE f # g
      BY <1>c, <2>2, <2>4, <3>1, <3>3 DEF Rotating
    <3> QED BY <3>2, <3>3
  <2>5. ASSUME NEW f \in Tokens \ forked', NEW q \in Requests, NEW s \in Requests,
               Rotates(q, f)', Rotates(s, f)'
        PROVE  q = s
    BY <1>c, <2>2, <2>5 DEF Rotating
  <2>6. ASSUME NEW f \in Tokens \ forked', NEW t \in Tokens, NEW q \in Requests,
               Live(t)', token'[t].family = f, Rotates(q, f)'
        PROVE  t = req'[q].token \/ (req'[q].pc = "refresh_mark" /\ t = req'[q].child)
    BY <1>c, <2>2, <2>3, <2>6 DEF Rotating
  <2> QED BY <2>4, <2>5, <2>6 DEF Rotating
<1>1. CASE Logout
  <2>1. PICK t \in Held : /\ token' = [token EXCEPT ![t].status = "revoked"]
                          /\ UNCHANGED <<code, password, req, history>>
    BY <1>1, Zenon DEF Logout
  <2> QED BY <2>1, StillKeeps DEF Still, Live, TypeOK, Token, history
<1>2. CASE LogoutAll
  <2>1. None \notin Requests
    OBVIOUS
  <2> QED BY <1>2, <1>b, <2>1 DEF LogoutAll
<1>3. CASE ExpireToken
  <2>1. PICK t \in Tokens :
          /\ token' = [token EXCEPT ![t].status = "gone", ![t].held = FALSE]
          /\ UNCHANGED <<code, password, req, history>>
    BY <1>3, Zenon DEF ExpireToken
  <2>2. token'[t].status = "gone" /\ token'[t].family = token[t].family
    BY <2>1 DEF TypeOK, Token
  <2>3. \A u \in Tokens \ {t} : token'[u] = token[u]
    BY <2>1 DEF TypeOK
  <2> QED BY <2>1, <2>2, <2>3, StillKeeps DEF Still, Live, history
<1>4. CASE ExpireCode
  BY <1>4, <1>a DEF ExpireCode, history
<1>5. ASSUME NEW r \in Requests, LoginRead(r) PROVE Rotating'
  BY <1>5, <1>a DEF LoginRead, Begin, history, Idle, RotatePcs, TypeOK
<1>6. ASSUME NEW r \in Requests, LoginIssue(r) PROVE Rotating'
  <2>1. PICK t \in Tokens :
          /\ token[t].status = "unused"
          /\ token' = [Issued(t, t, req[r].password) EXCEPT ![t].held = TRUE]
          /\ req' = [req EXCEPT ![r] = Idle]
          /\ UNCHANGED <<code, password, out, forked, cut>>
    BY <1>6, Zenon DEF LoginIssue
  <2>2. /\ token'[t].status = "live" /\ token'[t].family = t /\ ~Used(t)
        /\ \A u \in Tokens \ {t} : token'[u] = token[u]
    BY <2>1 DEF Issued, TypeOK, Used
  <2>3. req[r].pc = "login_issue"
    BY <1>6 DEF LoginIssue
  <2>4. \A q \in Requests : IF q = r THEN req'[q].pc = "idle" ELSE req'[q] = req[q]
    BY <2>1 DEF Idle, TypeOK
  <2>5. \A q \in Requests : req[q].pc \in RotatePcs => /\ req[q].token \in Tokens
                                                      /\ Used(req[q].token)
                                                      /\ req[q].token # t
    BY <2>2 DEF WellFormed, Traced, RefreshPcs, RotatePcs
  <2>6. \A u \in Tokens : Used(u) => token[u].family # t
    BY <2>2 DEF Traced
  <2>7. \A q \in Requests, f \in Tokens :
            /\ Rotates(q, f)' <=> Rotates(q, f)
            /\ Rotates(q, f) => req'[q] = req[q] /\ f # t
    BY <2>2, <2>3, <2>4, <2>5, <2>6 DEF Rotates, RotatePcs
  <2>8. \A u \in Tokens : Live(u)' => \/ u = t /\ token'[u].family = t
                                      \/ /\ Live(u) /\ token'[u].family = token[u].family
                                         /\ token[u].family # t
    BY <2>2, <2>6 DEF Live, Used
  <2>9. ASSUME NEW f \in Tokens \ forked
        PROVE  (/\ \A q, s \in Requests : Rotates(q, f) /\ Rotates(s, f) => q = s
                /\ \A u \in Tokens, q \in Requests :
                      Live(u) /\ token[u].family = f /\ Rotates(q, f) =>
                          u = req[q].token \/ (req[q].pc = "refresh_mark" /\ u = req[q].child)
                /\ (\A q \in Requests : ~Rotates(q, f)) =>
                      \A u, v \in Tokens : /\ Live(u) /\ token[u].family = f
                                           /\ Live(v) /\ token[v].family = f
                                           => u = v)'
    BY <2>7, <2>8 DEF Rotating
  <2> QED BY <2>1, <2>9 DEF Rotating
<1>7. ASSUME NEW r \in Requests, RefreshRead(r) PROVE Rotating'
  <2>1. PICK t \in Held :
          /\ req[r].pc = "idle"
          /\ req' = [req EXCEPT ![r] =
               [Idle EXCEPT !.pc = IF Live(t) THEN "refresh_issue" ELSE "refresh_kill",
                            !.token = t]]
          /\ forked' = IF Live(t) /\ Refreshing(token[t].family) # {}
                       THEN forked \cup {token[t].family} ELSE forked
          /\ UNCHANGED <<token, code, password, out, loose, cut>>
    BY <1>7, Zenon DEF RefreshRead, Begin
  <2>2. t \in Tokens
    BY DEF Held
  <2>3. req'[r].token = t /\ req'[r].pc = IF Live(t) THEN "refresh_issue" ELSE "refresh_kill"
    BY <2>1 DEF Idle, TypeOK
  <2>4. \A q \in Requests \ {r} : req'[q] = req[q]
    BY <2>1 DEF TypeOK
  <2>5. CASE ~Live(t)
    BY <2>1, <2>3, <2>4, <2>5, StillKeeps DEF Still, Live, RotatePcs
  <2>6. CASE Live(t)
    <3> DEFINE g == token[t].family
    <3>1. \A f \in Tokens, q \in Requests : Rotates(q, f)' <=> (IF q = r THEN f = g ELSE Rotates(q, f))
      BY <2>1, <2>3, <2>4, <2>6 DEF Rotates, RotatePcs
    <3>2. \A f : ~Rotates(r, f)
      BY <2>1 DEF Rotates, RotatePcs
    <3>3. g \notin forked' => \A q \in Requests : ~Rotates(q, g)
      BY <2>1, <2>6 DEF Refreshing, Rotates, RotatePcs
    <3>4. forked \subseteq forked'
      BY <2>1
    <3>5. \A u \in Tokens : Live(u)' <=> Live(u)
      BY <2>1 DEF Live
    <3>6. ASSUME NEW f \in Tokens \ forked', f = g
          PROVE  (/\ \A q, s \in Requests : Rotates(q, f) /\ Rotates(s, f) => q = s
                  /\ \A u \in Tokens, q \in Requests :
                        Live(u) /\ token[u].family = f /\ Rotates(q, f) => u = req[q].token
                  /\ Rotates(r, f))'
      BY <2>1, <2>2, <2>3, <2>6, <3>1, <3>3, <3>4, <3>5, <3>6 DEF Rotating
    <3>7. ASSUME NEW f \in Tokens \ forked', f # g
          PROVE  (/\ \A q, s \in Requests : Rotates(q, f) /\ Rotates(s, f) => q = s
                  /\ \A u \in Tokens, q \in Requests :
                        Live(u) /\ token[u].family = f /\ Rotates(q, f) =>
                            u = req[q].token \/ (req[q].pc = "refresh_mark" /\ u = req[q].child)
                  /\ (\A q \in Requests : ~Rotates(q, f)) =>
                        \A u, v \in Tokens : /\ Live(u) /\ token[u].family = f
                                             /\ Live(v) /\ token[v].family = f
                                             => u = v)'
      BY <2>1, <2>4, <3>1, <3>2, <3>4, <3>5, <3>7 DEF Rotating
    <3> QED
      <4> SUFFICES ASSUME NEW f \in Tokens \ forked'
                   PROVE  (/\ \A q, s \in Requests : Rotates(q, f) /\ Rotates(s, f) => q = s
                           /\ \A u \in Tokens, q \in Requests :
                                 Live(u) /\ token[u].family = f /\ Rotates(q, f) =>
                                     \/ u = req[q].token
                                     \/ req[q].pc = "refresh_mark" /\ u = req[q].child
                           /\ (\A q \in Requests : ~Rotates(q, f)) =>
                                 \A u, v \in Tokens : /\ Live(u) /\ token[u].family = f
                                                      /\ Live(v) /\ token[v].family = f
                                                      => u = v)'
        BY DEF Rotating
      <4> HIDE DEF g
      <4>1. CASE f = g
        BY <3>6, <4>1, Zenon
      <4>2. CASE f # g
        BY <3>7, <4>2, Zenon
      <4> QED BY <4>1, <4>2
  <2> QED BY <2>5, <2>6
<1>8. ASSUME NEW r \in Requests, RefreshIssue(r) PROVE Rotating'
  <2> DEFINE g == token[req[r].token].family
  <2>1. PICK t \in Tokens :
          /\ token[t].status = "unused"
          /\ token' = Issued(t, g, token[req[r].token].password)
          /\ req' = [req EXCEPT ![r] = [req[r] EXCEPT !.pc = "refresh_mark", !.child = t]]
          /\ UNCHANGED <<code, password, out, forked, cut>>
    BY <1>8, Zenon DEF RefreshIssue
  <2>2. /\ req[r].pc = "refresh_issue" /\ req[r].token \in Tokens /\ Used(req[r].token)
        /\ req[r] \in Request
    BY <1>8 DEF RefreshIssue, WellFormed, Traced, RefreshPcs
  <2>3. /\ token'[t].status = "live" /\ token'[t].family = g /\ ~Used(t)
        /\ \A u \in Tokens \ {t} : token'[u] = token[u]
    BY <2>1 DEF Issued, TypeOK, Used
  <2>4. /\ req'[r].pc = "refresh_mark" /\ req'[r].token = req[r].token /\ req'[r].child = t
        /\ \A q \in Requests \ {r} : req'[q] = req[q]
    BY <2>1, <2>2 DEF Request, TypeOK
  <2>5. \A q \in Requests : req[q].pc \in RotatePcs => req[q].token \in Tokens /\ req[q].token # t
    BY <2>3 DEF WellFormed, Traced, RefreshPcs, RotatePcs
  <2>6. \A f \in Tokens, q \in Requests : Rotates(q, f)' <=> Rotates(q, f)
    BY <2>2, <2>3, <2>4, <2>5 DEF Rotates, RotatePcs
  <2>7. \A f : Rotates(r, f) <=> f = g
    BY <2>2 DEF Rotates, RotatePcs
  <2>8. \A u \in Tokens : Live(u)' => \/ u = t /\ token'[u].family = g
                                      \/ Live(u) /\ token'[u].family = token[u].family
    BY <2>3 DEF Live
  <2> HIDE DEF g
  <2>9. ASSUME NEW f \in Tokens \ forked
        PROVE  (/\ \A q, s \in Requests : Rotates(q, f) /\ Rotates(s, f) => q = s
                /\ \A u \in Tokens, q \in Requests :
                      Live(u) /\ token[u].family = f /\ Rotates(q, f) =>
                          u = req[q].token \/ (req[q].pc = "refresh_mark" /\ u = req[q].child)
                /\ (\A q \in Requests : ~Rotates(q, f)) =>
                      \A u, v \in Tokens : /\ Live(u) /\ token[u].family = f
                                           /\ Live(v) /\ token[v].family = f
                                           => u = v)'
    <3>1. \A q, s \in Requests : Rotates(q, f)' /\ Rotates(s, f)' => q = s
      BY <2>6, <2>9 DEF Rotating
    <3>2. ASSUME NEW u \in Tokens, NEW q \in Requests,
                 Live(u)', token'[u].family = f, Rotates(q, f)'
          PROVE  u = req'[q].token \/ (req'[q].pc = "refresh_mark" /\ u = req'[q].child)
      <4>1. CASE f = g
        BY <2>2, <2>4, <2>6, <2>7, <2>8, <2>9, <3>1, <3>2, <4>1 DEF Rotating
      <4>2. CASE f # g
        BY <2>4, <2>6, <2>7, <2>8, <2>9, <3>2, <4>2 DEF Rotating
      <4> QED BY <4>1, <4>2
    <3>3. ASSUME NEW u \in Tokens, NEW v \in Tokens, \A q \in Requests : ~Rotates(q, f)',
                 Live(u)', token'[u].family = f, Live(v)', token'[v].family = f
          PROVE  u = v
      BY <2>6, <2>7, <2>8, <2>9, <3>3 DEF Rotating
    <3> QED BY <3>1, <3>2, <3>3, Zenon
  <2> QED BY <2>1, <2>9 DEF Rotating
<1>9. ASSUME NEW r \in Requests, RefreshMark(r) PROVE Rotating'
  <2> DEFINE old == req[r].token
             new == req[r].child
             g == token[old].family
  <2>1. /\ req[r].pc = "refresh_mark" /\ req' = [req EXCEPT ![r] = Idle]
        /\ \/ /\ token' = [Marked(old) EXCEPT ![new].held = TRUE]
              /\ forked' = forked
           \/ /\ token' = token
              /\ forked' = forked \cup {g}
    BY <1>9 DEF RefreshMark
  <2>2. /\ old \in Tokens /\ new \in Tokens /\ g \in Tokens
    BY <2>1 DEF WellFormed, Traced, RefreshPcs
  <2>3. /\ \A t \in Tokens : /\ token'[t].family = token[t].family
                             /\ token'[t].status = "live" => Live(t)
        /\ g \in forked' \/ token'[old].status # "live"
    <3>1. CASE token' = [Marked(old) EXCEPT ![new].held = TRUE]
      <4> DEFINE marked == Marked(old)
      <4>1. marked \in [Tokens -> Token]
        BY <2>2, TokensTyped
      <4>2. /\ marked[old].status = "revoked"
            /\ \A t \in Tokens : /\ marked[t].family = token[t].family
                                 /\ marked[t].status = "live" => Live(t)
        BY <2>2 DEF Marked, TypeOK, Token, Live
      <4>3. token' = [marked EXCEPT ![new].held = TRUE]
        BY <3>1
      <4> HIDE DEF marked, old, new, g
      <4>4. \A t \in Tokens : /\ token'[t].family = marked[t].family
                              /\ token'[t].status = marked[t].status
        BY <2>2, <4>1, <4>3 DEF Token
      <4> QED BY <2>2, <4>2, <4>4
    <3>2. CASE token' = token /\ forked' = forked \cup {g}
      BY <3>2 DEF Live
    <3> QED BY <2>1, <3>1, <3>2
  <2>4. \A q \in Requests : IF q = r THEN req'[q].pc = "idle" ELSE req'[q] = req[q]
    BY <2>1 DEF Idle, TypeOK
  <2>5. forked \subseteq forked'
    BY <2>1
  <2>6. \A f \in Tokens : Rotates(r, f) <=> f = g
    BY <2>1 DEF Rotates, RotatePcs
  <2> HIDE DEF g
  <2> QED BY <2>1, <2>2, <2>3, <2>4, <2>5, <2>6, <1>c
<1>10. ASSUME NEW r \in Requests, RefreshKill(r) PROVE Rotating'
  BY <1>10, <1>b DEF RefreshKill, RotatePcs
<1>11. ASSUME NEW r \in Requests, ForgotDelete(r) PROVE Rotating'
  BY <1>11, <1>a DEF ForgotDelete, Begin, history, Idle, RotatePcs, TypeOK
<1>12. ASSUME NEW r \in Requests, ForgotCreate(r) PROVE Rotating'
  BY <1>12, <1>a DEF ForgotCreate, history, Idle, RotatePcs, TypeOK
<1>13. ASSUME NEW r \in Requests, ResetRead(r) PROVE Rotating'
  <2>1. PICK c \in LiveCodes, right \in BOOLEAN :
          /\ Begin(r, [Idle EXCEPT !.pc = Verdict(c, right), !.code = c,
                                   !.attempts = code[c].attempts])
          /\ UNCHANGED <<token, password, history>>
    BY <1>13, Zenon DEF ResetRead
  <2>2. Verdict(c, right) \notin RotatePcs
    BY DEF Verdict, RotatePcs
  <2> QED BY <2>1, <2>2, <1>a DEF Begin, history, Idle, RotatePcs, TypeOK
<1>14. ASSUME NEW r \in Requests, ResetDrop(r) PROVE Rotating'
  BY <1>14, <1>a DEF ResetDrop, history, Idle, RotatePcs, TypeOK
<1>15. ASSUME NEW r \in Requests, ResetCount(r) PROVE Rotating'
  BY <1>15, <1>a DEF ResetCount, history, Idle, RotatePcs, TypeOK
<1>16. ASSUME NEW r \in Requests, ResetSave(r) PROVE Rotating'
  BY <1>16, <1>a DEF ResetSave, history, Request, RotatePcs, TypeOK
<1>17. ASSUME NEW r \in Requests, ResetDelete(r) PROVE Rotating'
  BY <1>17, <1>a DEF ResetDelete, history, Request, RotatePcs, TypeOK
<1>18. ASSUME NEW r \in Requests, ResetRevoke(r) PROVE Rotating'
  BY <1>18, <1>b DEF ResetRevoke, RotatePcs
<1>19. ASSUME NEW r \in Requests, Fails(r) PROVE Rotating'
  <2> DEFINE old == req[r].token
             g == token[old].family
  <2>1. /\ req' = [req EXCEPT ![r] = Idle]
        /\ forked' = IF req[r].pc = "refresh_mark" THEN forked \cup {g} ELSE forked
        /\ UNCHANGED token
    BY <1>19 DEF Fails
  <2>2. \A q \in Requests : IF q = r THEN req'[q].pc = "idle" ELSE req'[q] = req[q]
    BY <2>1 DEF Idle, TypeOK
  <2>3. forked \subseteq forked'
    BY <2>1
  <2>4. CASE req[r].pc \notin RotatePcs
    BY <2>1, <2>2, <2>4, <1>a DEF RotatePcs
  <2>5. CASE req[r].pc \in RotatePcs
    <3>1. old \in Tokens /\ g \in Tokens
      BY <2>5 DEF WellFormed, Traced, RefreshPcs, RotatePcs
    <3>2. \A f \in Tokens : Rotates(r, f) <=> f = g
      BY <2>5 DEF Rotates
    <3> HIDE DEF g
    <3>3. /\ \A t \in Tokens : /\ token'[t].family = token[t].family
                               /\ token'[t].status = "live" => Live(t)
          /\ g \in forked' \/ req[r].pc = "refresh_issue"
      BY <2>1, <2>5 DEF Live, RotatePcs
    <3> QED BY <2>2, <2>3, <3>1, <3>2, <3>3, <1>c
  <2> QED BY <2>4, <2>5
<1>20. CASE UNCHANGED vars
  BY <1>20, <1>a DEF vars, history
<1> QED
  BY <1>1, <1>2, <1>3, <1>4, <1>5, <1>6, <1>7, <1>8, <1>9, <1>10, <1>11, <1>12, <1>13,
     <1>14, <1>15, <1>16, <1>17, <1>18, <1>19, <1>20 DEF Next

\* Two tokens of one session are valid only where two refreshes of it overlapped or one
\* was cut off before it marked the token it replaces.
THEOREM OneTokenHolds == Spec => []OneTokenPerSession
<1>1. Inv /\ Rotating => OneTokenPerSession
  <2> SUFFICES ASSUME Inv, Rotating, NEW t \in Tokens, NEW u \in Tokens, Live(t), Live(u),
                      token[t].family = token[u].family, token[t].family \notin forked,
                      Refreshing(token[t].family) = {}
               PROVE  t = u
    BY DEF OneTokenPerSession
  <2>1. token[t].family \in Tokens
    BY DEF Inv, Traced, Used, Live
  <2>2. \A r \in Requests : ~Rotates(r, token[t].family)
    BY DEF Refreshing, Rotates, RotatePcs
  <2> QED BY <2>1, <2>2 DEF Rotating
<1> QED BY <1>1, InvHolds, RotatingInit, RotatingStep, PTL DEF Spec

----------------------------------------------------------------------------
\* A reset has changed the password and is still to sign the sessions out, or never will.
Pending == cut \/ \E r \in Requests : req[r].pc \in {"reset_delete", "reset_revoke"}

\* Why a reset ends the earlier sessions: with none pending, what is live or will be
\* has the password of now, or straddled the sign-out.
Renewed ==
    \/ Pending
    \/ /\ \A t \in Tokens : Live(t) => token[t].password = password \/ token[t].family \in loose
       /\ \A r \in Requests :
             /\ req[r].pc = "login_issue" => req[r].password = password \/ req[r].straddles
             /\ req[r].pc = "refresh_issue" =>
                   \/ req[r].straddles
                   \/ token[req[r].token].password = password
                   \/ token[req[r].token].family \in loose

\* A step that signs nothing out by a reset keeps that so.
LEMMA RenewedKeeps ==
    ASSUME Inv, Renewed, Pending => Pending',
           Pending \/ /\ password' = password /\ loose \subseteq loose'
                      /\ \A t \in Tokens : Live(t)' =>
                            \/ /\ Live(t) /\ token'[t].family = token[t].family
                               /\ token'[t].password = token[t].password
                            \/ token'[t].password = password'
                            \/ token'[t].family \in loose'
                      /\ \A t \in Tokens : Used(t) =>
                            /\ token'[t].family = token[t].family
                            /\ token'[t].password = token[t].password
                      /\ \A r \in Requests :
                            \/ req'[r] = req[r]
                            \/ req'[r].pc \notin {"login_issue", "refresh_issue"}
                            \/ req'[r].straddles
                            \/ req'[r].pc = "login_issue" /\ req'[r].password = password
                            \/ /\ req'[r].pc = "refresh_issue" /\ req'[r].token \in Tokens
                               /\ Live(req'[r].token)
    PROVE  Renewed'
<1>1. CASE Pending
  BY <1>1 DEF Renewed
<1>2. CASE ~Pending
  <2>1. \A r \in Requests : req[r].pc = "refresh_issue" => req[r].token \in Tokens /\ Used(req[r].token)
    BY DEF Inv, TypeInv, WellFormed, Traced, RefreshPcs
  <2>2. \A t \in Tokens : Live(t) => Used(t)
    BY DEF Live, Used
  <2>3. \A t \in Tokens : Live(t)' => token'[t].password = password' \/ token'[t].family \in loose'
    BY <1>2 DEF Renewed
  <2>4. ASSUME NEW r \in Requests, req'[r].pc = "login_issue"
        PROVE  req'[r].password = password' \/ req'[r].straddles
    BY <1>2, <2>4 DEF Renewed
  <2>5. ASSUME NEW r \in Requests, req'[r].pc = "refresh_issue"
        PROVE  \/ req'[r].straddles
               \/ token'[req'[r].token].password = password'
               \/ token'[req'[r].token].family \in loose'
    BY <1>2, <2>1, <2>2, <2>5 DEF Renewed
  <2> QED BY <2>3, <2>4, <2>5 DEF Renewed
<1> QED BY <1>1, <1>2

\* Nothing is live at first.
LEMMA RenewedInit == Init => Renewed
BY DEF Init, Renewed, Live, Idle

\* Every step keeps the sessions renewed.
LEMMA RenewedStep == Inv /\ Renewed /\ [Next]_vars => Renewed'
<1> SUFFICES ASSUME Inv, Renewed, [Next]_vars PROVE Renewed'
  OBVIOUS
<1> TypeOK /\ Traced /\ \A r \in Requests : WellFormed(req[r])
  BY DEF Inv, TypeInv
<1> DEFINE pending == {"reset_delete", "reset_revoke"}
<1>p. ASSUME cut' = cut,
             \A r \in Requests : req[r].pc \in pending => req'[r].pc \in pending
      PROVE  Pending => Pending'
  BY <1>p, Zenon DEF Pending
<1>a. ASSUME UNCHANGED <<token, password, loose, cut>>,
             \A r \in Requests :
                 \/ req'[r] = req[r]
                 \/ /\ req[r].pc \in pending => req'[r].pc \in pending
                    /\ req'[r].pc \notin {"login_issue", "refresh_issue"}
      PROVE  Renewed'
  <2>1. Pending => Pending'
    BY <1>a, <1>p
  <2> QED BY <1>a, <2>1, RenewedKeeps DEF Live
<1>b. ASSUME NEW r, NEW families, NEW straddling, SignOut(r, families, straddling),
             UNCHANGED <<password, loose, cut>>, r \in Requests => req[r].pc \notin pending
      PROVE  Renewed'
  <2>1. \A t \in Tokens : /\ token'[t].family = token[t].family
                          /\ token'[t].password = token[t].password
                          /\ token'[t].status = "live" => Live(t)
    BY <1>b DEF SignOut, SignedOut, TypeOK, Token, Live
  <2>2. \A q \in Requests : \/ req'[q].pc = "idle" /\ q = r
                            \/ req'[q] = req[q]
                            \/ req'[q].pc = req[q].pc /\ req'[q].straddles
    BY <1>b, SignOutRequests DEF Inv
  <2>3. Pending => Pending'
    BY <1>b, <1>p, <2>2
  <2>4. \A q \in Requests : \/ req'[q] = req[q]
                            \/ req'[q].pc \notin {"login_issue", "refresh_issue"}
                            \/ req'[q].straddles
    BY <2>2
  <2> QED BY <1>b, <2>1, <2>3, <2>4, RenewedKeeps DEF Live
<1>1. CASE Logout
  <2>1. PICK t \in Held : /\ token' = [token EXCEPT ![t].status = "revoked"]
                          /\ UNCHANGED <<code, password, req, history>>
    BY <1>1, Zenon DEF Logout
  <2>2. \A u \in Tokens : /\ token'[u].family = token[u].family
                          /\ token'[u].password = token[u].password
                          /\ token'[u].status = "live" => Live(u)
    BY <2>1 DEF Live, TypeOK, Token
  <2>3. Pending => Pending'
    BY <2>1, <1>p DEF history
  <2> QED BY <2>1, <2>2, <2>3, RenewedKeeps DEF Live, history
<1>2. CASE LogoutAll
  <2>1. None \notin Requests
    OBVIOUS
  <2> QED BY <1>2, <1>b, <2>1 DEF LogoutAll
<1>3. CASE ExpireToken
  <2>1. PICK t \in Tokens :
          /\ token' = [token EXCEPT ![t].status = "gone", ![t].held = FALSE]
          /\ UNCHANGED <<code, password, req, history>>
    BY <1>3, Zenon DEF ExpireToken
  <2>2. /\ token'[t].status = "gone" /\ token'[t].family = token[t].family
        /\ token'[t].password = token[t].password
        /\ \A u \in Tokens \ {t} : token'[u] = token[u]
    BY <2>1 DEF TypeOK, Token
  <2>3. Pending => Pending'
    BY <2>1, <1>p DEF history
  <2>4. \A u \in Tokens : /\ token'[u].family = token[u].family
                          /\ token'[u].password = token[u].password
                          /\ token'[u].status = "live" => Live(u)
    BY <2>2 DEF Live
  <2> QED BY <2>1, <2>3, <2>4, RenewedKeeps DEF Live, history
<1>4. CASE ExpireCode
  BY <1>4, <1>a DEF ExpireCode, history
<1>5. ASSUME NEW r \in Requests, LoginRead(r) PROVE Renewed'
  <2>1. /\ req[r].pc = "idle" /\ UNCHANGED <<token, code, password, history>>
        /\ req' = [req EXCEPT ![r] = [Idle EXCEPT !.pc = "login_issue", !.password = password]]
    BY <1>5 DEF LoginRead, Begin
  <2>2. \A q \in Requests : IF q = r THEN req'[q].pc = "login_issue" /\ req'[q].password = password
                                     ELSE req'[q] = req[q]
    BY <2>1 DEF Idle, TypeOK
  <2>3. Pending => Pending'
    BY <2>1, <2>2, <1>p DEF history
  <2> QED BY <2>1, <2>2, <2>3, RenewedKeeps DEF Live, history
<1>6. ASSUME NEW r \in Requests, LoginIssue(r) PROVE Renewed'
  <2>1. PICK t \in Tokens :
          /\ req[r].pc = "login_issue"
          /\ token[t].status = "unused"
          /\ token' = [Issued(t, t, req[r].password) EXCEPT ![t].held = TRUE]
          /\ req' = [req EXCEPT ![r] = Idle]
          /\ loose' = IF req[r].straddles THEN loose \cup {t} ELSE loose
          /\ UNCHANGED <<code, password, out, forked, cut>>
    BY <1>6, Zenon DEF LoginIssue
  <2>2. /\ token'[t].family = t /\ token'[t].password = req[r].password /\ ~Used(t)
        /\ \A u \in Tokens \ {t} : token'[u] = token[u]
    BY <2>1 DEF Issued, TypeOK, Used
  <2>3. \A q \in Requests : IF q = r THEN req'[q].pc = "idle" ELSE req'[q] = req[q]
    BY <2>1 DEF Idle, TypeOK
  <2>4. Pending => Pending'
    BY <2>1, <2>3, <1>p
  <2>5. Pending \/ token'[t].password = password' \/ token'[t].family \in loose'
    BY <2>1, <2>2 DEF Renewed
  <2>6. password' = password /\ loose \subseteq loose'
    BY <2>1
  <2> QED BY <2>2, <2>3, <2>4, <2>5, <2>6, RenewedKeeps DEF Live, Used
<1>7. ASSUME NEW r \in Requests, RefreshRead(r) PROVE Renewed'
  <2>1. PICK t \in Held :
          /\ req[r].pc = "idle"
          /\ req' = [req EXCEPT ![r] =
               [Idle EXCEPT !.pc = IF Live(t) THEN "refresh_issue" ELSE "refresh_kill",
                            !.token = t]]
          /\ UNCHANGED <<token, code, password, out, loose, cut>>
    BY <1>7, Zenon DEF RefreshRead, Begin
  <2>2. t \in Tokens
    BY DEF Held
  <2>3. /\ req'[r].token = t /\ req'[r].pc = IF Live(t) THEN "refresh_issue" ELSE "refresh_kill"
        /\ \A q \in Requests \ {r} : req'[q] = req[q]
    BY <2>1 DEF Idle, TypeOK
  <2>4. Pending => Pending'
    BY <2>1, <2>3, <1>p
  <2> QED BY <2>1, <2>2, <2>3, <2>4, RenewedKeeps DEF Live
<1>8. ASSUME NEW r \in Requests, RefreshIssue(r) PROVE Renewed'
  <2> DEFINE old == token[req[r].token]
  <2>1. PICK t \in Tokens :
          /\ req[r].pc = "refresh_issue"
          /\ token[t].status = "unused"
          /\ token' = Issued(t, old.family, old.password)
          /\ req' = [req EXCEPT ![r] = [req[r] EXCEPT !.pc = "refresh_mark", !.child = t]]
          /\ loose' = IF req[r].straddles THEN loose \cup {old.family} ELSE loose
          /\ UNCHANGED <<code, password, out, forked, cut>>
    BY <1>8, Zenon DEF RefreshIssue
  <2>2. /\ token'[t].family = old.family /\ token'[t].password = old.password /\ ~Used(t)
        /\ \A u \in Tokens \ {t} : token'[u] = token[u]
    BY <2>1 DEF Issued, TypeOK, Used
  <2>3. \A q \in Requests : IF q = r THEN req'[q].pc = "refresh_mark" ELSE req'[q] = req[q]
    BY <2>1 DEF Request, TypeOK
  <2>4. Pending => Pending'
    BY <2>1, <2>3, <1>p
  <2>5. Pending \/ token'[t].password = password' \/ token'[t].family \in loose'
    BY <2>1, <2>2 DEF Renewed
  <2>6. password' = password /\ loose \subseteq loose'
    BY <2>1
  <2> QED BY <2>2, <2>3, <2>4, <2>5, <2>6, RenewedKeeps DEF Live, Used
<1>9. ASSUME NEW r \in Requests, RefreshMark(r) PROVE Renewed'
  <2> DEFINE old == req[r].token
             new == req[r].child
  <2>1. /\ req[r].pc = "refresh_mark" /\ req' = [req EXCEPT ![r] = Idle]
        /\ token' = [Marked(old) EXCEPT ![new].held = TRUE] \/ token' = token
        /\ UNCHANGED <<password, loose, cut>>
    BY <1>9 DEF RefreshMark
  <2>2. old \in Tokens /\ new \in Tokens
    BY <2>1 DEF WellFormed, RefreshPcs
  <2>3. \A t \in Tokens : /\ token'[t].family = token[t].family
                          /\ token'[t].password = token[t].password
                          /\ token'[t].status = "live" => Live(t)
    <3>1. CASE token' = [Marked(old) EXCEPT ![new].held = TRUE]
      <4> DEFINE marked == Marked(old)
      <4>1. marked \in [Tokens -> Token]
        BY <2>2, TokensTyped
      <4>2. \A t \in Tokens : /\ marked[t].family = token[t].family
                              /\ marked[t].password = token[t].password
                              /\ marked[t].status = "live" => Live(t)
        BY <2>2 DEF Marked, TypeOK, Token, Live
      <4>3. token' = [marked EXCEPT ![new].held = TRUE]
        BY <3>1
      <4> HIDE DEF marked, old, new
      <4>4. \A t \in Tokens : /\ token'[t].family = marked[t].family
                              /\ token'[t].password = marked[t].password
                              /\ token'[t].status = marked[t].status
        BY <2>2, <4>1, <4>3 DEF Token
      <4> QED BY <4>2, <4>4
    <3>2. CASE token' = token
      BY <3>2 DEF Live
    <3> QED BY <2>1, <3>1, <3>2
  <2>4. \A q \in Requests : IF q = r THEN req'[q].pc = "idle" ELSE req'[q] = req[q]
    BY <2>1 DEF Idle, TypeOK
  <2>5. Pending => Pending'
    BY <2>1, <2>4, <1>p
  <2>6. \A q \in Requests : req'[q] = req[q] \/ req'[q].pc \notin {"login_issue", "refresh_issue"}
    BY <2>4
  <2> QED BY <2>1, <2>3, <2>5, <2>6, RenewedKeeps DEF Live
<1>10. ASSUME NEW r \in Requests, RefreshKill(r) PROVE Renewed'
  BY <1>10, <1>b DEF RefreshKill
<1>11. ASSUME NEW r \in Requests, ForgotDelete(r) PROVE Renewed'
  BY <1>11, <1>a DEF ForgotDelete, Begin, history, Idle, TypeOK
<1>12. ASSUME NEW r \in Requests, ForgotCreate(r) PROVE Renewed'
  BY <1>12, <1>a DEF ForgotCreate, history, Idle, TypeOK
<1>13. ASSUME NEW r \in Requests, ResetRead(r) PROVE Renewed'
  <2>1. PICK c \in LiveCodes, right \in BOOLEAN :
          /\ Begin(r, [Idle EXCEPT !.pc = Verdict(c, right), !.code = c,
                                   !.attempts = code[c].attempts])
          /\ UNCHANGED <<token, password, history>>
    BY <1>13, Zenon DEF ResetRead
  <2>2. Verdict(c, right) \in {"reset_drop", "reset_save", "reset_count"}
    BY DEF Verdict
  <2> QED BY <2>1, <2>2, <1>a DEF Begin, history, Idle, TypeOK
<1>14. ASSUME NEW r \in Requests, ResetDrop(r) PROVE Renewed'
  BY <1>14, <1>a DEF ResetDrop, history, Idle, TypeOK
<1>15. ASSUME NEW r \in Requests, ResetCount(r) PROVE Renewed'
  BY <1>15, <1>a DEF ResetCount, history, Idle, TypeOK
<1>16. ASSUME NEW r \in Requests, ResetSave(r) PROVE Renewed'
  <2>1. req'[r].pc = "reset_delete"
    BY <1>16 DEF ResetSave, TypeOK, Request
  <2> QED BY <2>1 DEF Renewed, Pending
<1>17. ASSUME NEW r \in Requests, ResetDelete(r) PROVE Renewed'
  BY <1>17, <1>a DEF ResetDelete, history, Request, TypeOK
<1>18. ASSUME NEW r \in Requests, ResetRevoke(r) PROVE Renewed'
  <2> DEFINE straddling == Accepted(Families) \cup {q \in Requests : req[q].pc = "login_issue"}
  <2>1. SignOut(r, Families, straddling)
    BY <1>18 DEF ResetRevoke
  <2>2. ASSUME NEW t \in Tokens PROVE ~Live(t)'
    <3>1. Live(t) => token[t].family \in Families
      BY DEF Traced, Used, Live, Families
    <3> QED BY <2>1, <3>1 DEF SignOut, SignedOut, TypeOK, Token, Live
  <2>3. \A q \in Requests : req[q].pc = "refresh_issue" => q \in straddling
    BY DEF Accepted, Families, WellFormed, Traced, RefreshPcs
  <2>4. \A q \in Requests : req[q].pc = "login_issue" => q \in straddling
    OBVIOUS
  <2> HIDE DEF straddling
  <2>5. \A q \in Requests : \/ req'[q].pc = "idle" /\ q = r
                            \/ req'[q] = req[q] /\ q \notin straddling
                            \/ req'[q].pc = req[q].pc /\ req'[q].straddles
    BY <2>1, SignOutRequests DEF Inv
  <2>6. \A q \in Requests : req'[q].pc \in {"login_issue", "refresh_issue"} => req'[q].straddles
    BY <2>3, <2>4, <2>5
  <2> QED BY <2>2, <2>6 DEF Renewed
<1>19. ASSUME NEW r \in Requests, Fails(r) PROVE Renewed'
  <2>1. /\ req' = [req EXCEPT ![r] = Idle]
        /\ cut' = (cut \/ req[r].pc \in pending)
        /\ UNCHANGED <<token, password, loose>>
    BY <1>19 DEF Fails
  <2>2. \A q \in Requests : IF q = r THEN req'[q].pc = "idle" ELSE req'[q] = req[q]
    BY <2>1 DEF Idle, TypeOK
  <2>3. CASE req[r].pc \in pending
    <3>1. cut'
      BY <2>1, <2>3, Zenon
    <3> QED BY <3>1, Zenon DEF Renewed, Pending
  <2>4. CASE req[r].pc \notin pending
    <3>1. cut' = cut
      BY <2>1, <2>4, Zenon DEF TypeOK
    <3> QED BY <2>1, <2>2, <2>4, <3>1, <1>a
  <2> QED BY <2>3, <2>4
<1>20. CASE UNCHANGED vars
  BY <1>20, <1>a DEF vars, history
<1> QED
  BY <1>1, <1>2, <1>3, <1>4, <1>5, <1>6, <1>7, <1>8, <1>9, <1>10, <1>11, <1>12, <1>13,
     <1>14, <1>15, <1>16, <1>17, <1>18, <1>19, <1>20 DEF Next

\* A session begun with an earlier password is valid only while a reset is pending or
\* was cut off, or where a login or refresh of it straddled a sign-out.
THEOREM ResetHolds == Spec => []ResetEndsSessions
<1>1. Renewed => ResetEndsSessions
  BY Zenon DEF Renewed, Pending, ResetEndsSessions
<1> QED BY <1>1, InvHolds, RenewedInit, RenewedStep, PTL DEF Spec

----------------------------------------------------------------------------
\* Why a code is good for few attempts and one reset: while its attempts come one after
\* the other, what is stored has counted those that are over, and the one that saves a
\* password deletes the code next.
CodeLine(c) ==
    /\ \A r, s \in WorkingOn(c) : r = s
    /\ code[c].status = "unused" => WorkingOn(c) = {} /\ code[c].tries = 0 /\ code[c].uses = 0
    /\ code[c].tries <= MAX_VERIFY_ATTEMPTS
    /\ code[c].uses <= 1
    /\ code[c].status = "live" =>
          /\ WorkingOn(c) = {} => code[c].tries <= code[c].attempts /\ code[c].uses = 0
          /\ \A r \in WorkingOn(c) :
                /\ req[r].attempts = code[c].attempts
                /\ code[c].tries <= IF req[r].pc = "reset_count" THEN req[r].attempts + 1
                                                                  ELSE req[r].attempts
                /\ code[c].uses = 0 \/ req[r].pc = "reset_delete"
    /\ \A r \in WorkingOn(c) : req[r].pc = "reset_save" => code[c].uses = 0

Counted ==
    /\ \A r \in Requests : req[r].pc \notin ResetPcs => req[r].code = None
    /\ \A c \in Codes : code[c].alone => CodeLine(c)

\* A step that touches neither the code nor who works on it.
LEMMA LineKept ==
    ASSUME NEW c \in Codes, CodeLine(c), code'[c] = code[c],
           \A r \in Requests : \/ req'[r] = req[r]
                               \/ /\ req[r].code # c /\ req'[r].code # c
                               \/ /\ req'[r].code = req[r].code /\ req'[r].pc = req[r].pc
                                  /\ req'[r].attempts = req[r].attempts
    PROVE  CodeLine(c)'
<1>1. /\ WorkingOn(c)' = WorkingOn(c)
      /\ \A r \in WorkingOn(c) : req'[r].pc = req[r].pc /\ req'[r].attempts = req[r].attempts
  BY DEF WorkingOn
<1> QED BY <1>1 DEF CodeLine

\* A code is deleted; the request that did may be over with it.
LEMMA LineGone ==
    ASSUME NEW c \in Codes, CodeLine(c),
           code'[c].status = "gone", code'[c].tries = code[c].tries, code'[c].uses = code[c].uses,
           \A r \in Requests : \/ req'[r].code # c
                               \/ /\ req'[r].code = req[r].code
                                  /\ req'[r].pc = "reset_save" => req[r].pc = "reset_save"
    PROVE  CodeLine(c)'
<1>1. /\ WorkingOn(c)' \subseteq WorkingOn(c)
      /\ \A r \in WorkingOn(c)' : req'[r].pc = "reset_save" => req[r].pc = "reset_save"
  BY DEF WorkingOn
<1> QED BY <1>1 DEF CodeLine

\* No code is used at first.
LEMMA CountedInit == Init => Counted
<1> SUFFICES ASSUME Init PROVE Counted
  OBVIOUS
<1>1. \A r \in Requests : req[r].code = None
  BY DEF Init, Idle
<1>2. ASSUME NEW c \in Codes PROVE CodeLine(c)
  <2>1. /\ code[c].status = "unused" /\ code[c].tries = 0 /\ code[c].uses = 0
    BY DEF Init
  <2>2. WorkingOn(c) = {}
    BY <1>1 DEF WorkingOn
  <2> QED BY <2>1, <2>2 DEF CodeLine
<1> QED BY <1>1, <1>2 DEF Counted

\* Every step keeps the attempts counted.
LEMMA CountedStep == Inv /\ Counted /\ [Next]_vars => Counted'
<1> SUFFICES ASSUME Inv, Counted, [Next]_vars PROVE Counted'
  OBVIOUS
<1> TypeOK /\ \A r \in Requests : WellFormed(req[r])
  BY DEF Inv, TypeInv
<1> None \notin Codes
  OBVIOUS
<1>a. ASSUME UNCHANGED code,
             \A r \in Requests : \/ req'[r] = req[r]
                                 \/ /\ req'[r].code = req[r].code /\ req[r].code = None
                                    /\ req'[r].pc \notin ResetPcs
      PROVE  Counted'
  <2>1. \A c \in Codes : CodeLine(c) => CodeLine(c)'
    BY <1>a, LineKept
  <2>2. \A r \in Requests : req'[r].pc \notin ResetPcs => req'[r].code = None
    BY <1>a DEF Counted
  <2> QED BY <1>a, <2>1, <2>2 DEF Counted
<1>b. ASSUME NEW r, NEW families, NEW straddling, SignOut(r, families, straddling),
             UNCHANGED code,
             r \in Requests => req[r].pc = "reset_revoke" \/ req[r].code = None
      PROVE  Counted'
  <2>1. \A q \in Requests : \/ req'[q].pc = "idle" /\ req'[q].code = None /\ q = r
                            \/ req'[q] = req[q]
                            \/ /\ req'[q].pc = req[q].pc /\ req'[q].code = req[q].code
                               /\ req'[q].attempts = req[q].attempts
    BY <1>b, SignOutRequests DEF Inv
  <2>2. \A q \in Requests : req'[q].pc \notin ResetPcs => req'[q].code = None
    BY <2>1 DEF Counted
  <2>3. ASSUME NEW c \in Codes, CodeLine(c)
        PROVE  CodeLine(c)'
    <3>1. CASE r \in Requests /\ req[r].code = c /\ req'[r].code = None
      <4>1. req[r].pc = "reset_revoke" /\ WorkingOn(c) = {r}
        BY <1>b, <2>3, <3>1 DEF CodeLine, WorkingOn
      <4>2. WorkingOn(c)' = {}
        BY <2>1, <3>1, <4>1 DEF WorkingOn
      <4> QED BY <1>b, <2>3, <4>1, <4>2 DEF CodeLine
    <3>2. CASE ~(r \in Requests /\ req[r].code = c /\ req'[r].code = None)
      <4>1. \A q \in Requests : \/ req'[q] = req[q]
                                \/ req[q].code # c /\ req'[q].code # c
                                \/ /\ req'[q].code = req[q].code /\ req'[q].pc = req[q].pc
                                   /\ req'[q].attempts = req[q].attempts
        BY <2>1, <3>2
      <4> QED BY <1>b, <2>3, <4>1, LineKept
    <3> QED BY <3>1, <3>2
  <2> QED BY <1>b, <2>2, <2>3 DEF Counted
<1>g. ASSUME NEW codes, code' = Gone(codes), NEW r,
             \A q \in Requests : q # r => req'[q] = req[q],
             r \in Requests =>
                 /\ req[r].code \in codes \cup {None}
                 /\ \/ req'[r].code = None
                    \/ req'[r].code = req[r].code /\ req'[r].pc = "reset_revoke"
      PROVE  Counted'
  <2>1. ASSUME NEW c \in Codes, c \in codes
        PROVE  /\ code'[c].status = "gone" /\ code'[c].tries = code[c].tries
               /\ code'[c].uses = code[c].uses /\ code'[c].alone = code[c].alone
    BY <1>g, <2>1 DEF Gone, TypeOK, Code
  <2>2. ASSUME NEW c \in Codes, c \notin codes
        PROVE  code'[c] = code[c]
    BY <1>g, <2>2 DEF Gone
  <2>3. ASSUME NEW c \in Codes, CodeLine(c)
        PROVE  CodeLine(c)'
    <3>1. CASE c \in codes
      BY <1>g, <2>1, <2>3, <3>1, LineGone
    <3>2. CASE c \notin codes
      <4>1. \A q \in Requests : req'[q] = req[q] \/ (req[q].code # c /\ req'[q].code # c)
        BY <1>g, <3>2
      <4> QED BY <2>2, <2>3, <3>2, <4>1, LineKept
    <3> QED BY <3>1, <3>2
  <2>4. \A q \in Requests : req'[q].pc \notin ResetPcs => req'[q].code = None
    BY <1>g DEF Counted, ResetPcs
  <2>5. \A c \in Codes : code'[c].alone => code[c].alone
    <3> TAKE c \in Codes
    <3>1. CASE c \in codes
      BY <2>1, <3>1
    <3>2. CASE c \notin codes
      BY <2>2, <3>2
    <3> QED BY <3>1, <3>2
  <2> QED BY <2>3, <2>4, <2>5 DEF Counted
<1>i. Idle.pc = "idle" /\ Idle.code = None /\ "idle" \notin ResetPcs
  BY DEF Idle, ResetPcs
<1>1. CASE Logout
  <2>1. UNCHANGED <<code, req>>
    BY <1>1 DEF Logout
  <2> QED BY <2>1, <1>a
<1>2. CASE LogoutAll
  <2>1. None \notin Requests
    OBVIOUS
  <2> QED BY <1>2, <1>b, <2>1 DEF LogoutAll
<1>3. CASE ExpireToken
  <2>1. UNCHANGED <<code, req>>
    BY <1>3 DEF ExpireToken
  <2> QED BY <2>1, <1>a
<1>4. CASE ExpireCode
  <2>1. PICK c \in LiveCodes : code' = Gone({c}) /\ UNCHANGED req
    BY <1>4 DEF ExpireCode
  <2>2. None \notin Requests
    OBVIOUS
  <2> QED BY <2>1, <2>2, <1>g
<1>5. ASSUME NEW r \in Requests, LoginRead(r) PROVE Counted'
  <2>1. /\ req[r].pc = "idle" /\ UNCHANGED code
        /\ req' = [req EXCEPT ![r] = [Idle EXCEPT !.pc = "login_issue", !.password = password]]
    BY <1>5 DEF LoginRead, Begin
  <2>2. \A q \in Requests : IF q = r THEN req'[q].pc = "login_issue" /\ req'[q].code = None
                                     ELSE req'[q] = req[q]
    BY <2>1 DEF Idle, TypeOK
  <2>3. req[r].code = None
    BY <2>1 DEF Counted, ResetPcs
  <2> QED BY <2>1, <2>2, <2>3, <1>a DEF ResetPcs
<1>6. ASSUME NEW r \in Requests, LoginIssue(r) PROVE Counted'
  <2>1. req[r].pc = "login_issue" /\ req' = [req EXCEPT ![r] = Idle] /\ UNCHANGED code
    BY <1>6 DEF LoginIssue
  <2>2. \A q \in Requests : IF q = r THEN req'[q] = Idle ELSE req'[q] = req[q]
    BY <2>1 DEF TypeOK
  <2>3. req[r].code = None
    BY <2>1 DEF Counted, ResetPcs
  <2> QED BY <2>1, <2>2, <2>3, <1>i, <1>a
<1>7. ASSUME NEW r \in Requests, RefreshRead(r) PROVE Counted'
  <2>1. PICK t \in Held :
          /\ req[r].pc = "idle"
          /\ req' = [req EXCEPT ![r] =
               [Idle EXCEPT !.pc = IF Live(t) THEN "refresh_issue" ELSE "refresh_kill",
                            !.token = t]]
          /\ UNCHANGED <<token, code, password, out, loose, cut>>
    BY <1>7, Zenon DEF RefreshRead, Begin
  <2>2. \A q \in Requests : IF q = r THEN /\ req'[q].pc \in {"refresh_issue", "refresh_kill"}
                                          /\ req'[q].code = None
                                     ELSE req'[q] = req[q]
    BY <2>1 DEF Idle, TypeOK
  <2>3. req[r].code = None
    BY <2>1 DEF Counted, ResetPcs
  <2> QED BY <2>1, <2>2, <2>3, <1>a DEF ResetPcs
<1>8. ASSUME NEW r \in Requests, RefreshIssue(r) PROVE Counted'
  <2>1. PICK t \in Tokens :
          /\ req[r].pc = "refresh_issue"
          /\ req' = [req EXCEPT ![r] = [req[r] EXCEPT !.pc = "refresh_mark", !.child = t]]
          /\ UNCHANGED code
    BY <1>8, Zenon DEF RefreshIssue
  <2>2. \A q \in Requests : IF q = r THEN req'[q].pc = "refresh_mark" /\ req'[q].code = req[q].code
                                     ELSE req'[q] = req[q]
    BY <2>1 DEF Request, TypeOK
  <2>3. req[r].code = None
    BY <2>1 DEF Counted, ResetPcs
  <2> QED BY <2>1, <2>2, <2>3, <1>a DEF ResetPcs
<1>9. ASSUME NEW r \in Requests, RefreshMark(r) PROVE Counted'
  <2>1. req[r].pc = "refresh_mark" /\ req' = [req EXCEPT ![r] = Idle] /\ UNCHANGED code
    BY <1>9 DEF RefreshMark
  <2>2. \A q \in Requests : IF q = r THEN req'[q] = Idle ELSE req'[q] = req[q]
    BY <2>1 DEF TypeOK
  <2>3. req[r].code = None
    BY <2>1 DEF Counted, ResetPcs
  <2> QED BY <2>1, <2>2, <2>3, <1>i, <1>a
<1>10. ASSUME NEW r \in Requests, RefreshKill(r) PROVE Counted'
  <2>1. req[r].code = None
    BY <1>10 DEF RefreshKill, Counted, ResetPcs
  <2> QED BY <1>10, <2>1, <1>b DEF RefreshKill
<1>11. ASSUME NEW r \in Requests, ForgotDelete(r) PROVE Counted'
  <2>1. /\ req[r].pc = "idle" /\ code' = Gone(LiveCodes)
        /\ req' = [req EXCEPT ![r] = [Idle EXCEPT !.pc = "forgot_create"]]
    BY <1>11 DEF ForgotDelete, Begin
  <2>2. \A q \in Requests : IF q = r THEN req'[q].code = None ELSE req'[q] = req[q]
    BY <2>1 DEF Idle, TypeOK
  <2>3. req[r].code = None
    BY <2>1 DEF Counted, ResetPcs
  <2> QED BY <2>1, <2>2, <2>3, <1>g
<1>12. ASSUME NEW r \in Requests, ForgotCreate(r) PROVE Counted'
  <2>1. PICK c \in Codes :
          /\ req[r].pc = "forgot_create"
          /\ code[c].status = "unused"
          /\ code' = [code EXCEPT ![c].status = "live"]
          /\ req' = [req EXCEPT ![r] = Idle]
    BY <1>12, Zenon DEF ForgotCreate
  <2>2. \A q \in Requests : IF q = r THEN req'[q] = Idle ELSE req'[q] = req[q]
    BY <2>1 DEF TypeOK
  <2>3. req[r].code = None
    BY <2>1 DEF Counted, ResetPcs
  <2>4. /\ code'[c].status = "live" /\ code'[c].tries = code[c].tries
        /\ code'[c].uses = code[c].uses /\ code'[c].attempts = code[c].attempts
        /\ code'[c].alone = code[c].alone
        /\ \A d \in Codes \ {c} : code'[d] = code[d]
    BY <2>1 DEF TypeOK, Code
  <2>5. \A q \in Requests : /\ req'[q].code = req[q].code
                            /\ req'[q].pc \notin ResetPcs => req'[q].code = None
    BY <2>2, <2>3, <1>i DEF Counted
  <2>6. CodeLine(c) => CodeLine(c)'
    <3>1. WorkingOn(c)' = WorkingOn(c)
      BY <2>5 DEF WorkingOn
    <3>2. code[c].attempts >= 0 /\ code[c].attempts \in Nat
      BY DEF TypeOK, Code
    <3> QED BY <2>1, <2>4, <3>1, <3>2 DEF CodeLine
  <2>7. ASSUME NEW d \in Codes \ {c}, CodeLine(d)
        PROVE  CodeLine(d)'
    <3>1. \A q \in Requests : req'[q] = req[q] \/ (req[q].code # d /\ req'[q].code # d)
      BY <2>2, <2>3, <1>i
    <3> QED BY <2>4, <2>7, <3>1, LineKept
  <2>8. \A d \in Codes : code'[d].alone => code[d].alone
    BY <2>4
  <2> QED BY <2>5, <2>6, <2>7, <2>8 DEF Counted
<1>13. ASSUME NEW r \in Requests, ResetRead(r) PROVE Counted'
  <2>1. PICK c \in LiveCodes, right \in BOOLEAN :
          LET seen == IF WorkingOn(c) = {} THEN code[c] ELSE Disturbed(c)
          IN  /\ req[r].pc = "idle"
              /\ req' = [req EXCEPT ![r] =
                            [Idle EXCEPT !.pc = Verdict(c, right), !.code = c,
                                         !.attempts = code[c].attempts]]
              /\ code' = [code EXCEPT ![c] =
                     [seen EXCEPT !.tries = IF Verdict(c, right) = "reset_count" /\ seen.alone
                                            THEN UpTo(MAX_VERIFY_ATTEMPTS + 1, @ + 1)
                                            ELSE @]]
    BY <1>13, Zenon DEF ResetRead, Begin
  <2> DEFINE pc == Verdict(c, right)
             seen == IF WorkingOn(c) = {} THEN code[c] ELSE Disturbed(c)
             tries == IF pc = "reset_count" /\ seen.alone
                      THEN UpTo(MAX_VERIFY_ATTEMPTS + 1, seen.tries + 1) ELSE seen.tries
  <2>2. c \in Codes /\ code[c].status = "live" /\ code[c] \in Code
    BY DEF LiveCodes, TypeOK
  <2>3. /\ pc \in {"reset_drop", "reset_save", "reset_count"}
        /\ pc = "reset_count" => code[c].attempts < MAX_VERIFY_ATTEMPTS
    BY <2>2 DEF Verdict, Exhausted, Code
  <2>4. /\ \A q \in Requests \ {r} : req'[q] = req[q]
        /\ req'[r].pc = pc /\ req'[r].code = c /\ req'[r].attempts = code[c].attempts
    BY <2>1 DEF TypeOK, Idle
  <2>5. req[r].code = None
    BY <2>1 DEF Counted, ResetPcs
  <2>6. code'[c] = [seen EXCEPT !.tries = tries] /\ \A d \in Codes \ {c} : code'[d] = code[d]
    BY <2>1, <2>2 DEF TypeOK
  <2>7. \A q \in Requests : req'[q].pc \notin ResetPcs => req'[q].code = None
    BY <2>3, <2>4 DEF Counted, ResetPcs
  <2>8. ASSUME NEW d \in Codes \ {c}, CodeLine(d)
        PROVE  CodeLine(d)'
    <3>1. \A q \in Requests : req'[q] = req[q] \/ (req[q].code # d /\ req'[q].code # d)
      BY <2>4, <2>5
    <3> QED BY <2>6, <2>8, <3>1, LineKept
  <2>9. CASE WorkingOn(c) # {}
    <3>1. seen = Disturbed(c) /\ seen \in Code
      BY <2>2, <2>9, CodesTyped DEF TypeOK
    <3>2. seen.alone = FALSE
      BY <2>2, <3>1 DEF Disturbed, Code
    <3>3. code'[c].alone = FALSE
      <4> HIDE DEF seen, tries
      <4> QED BY <2>6, <3>1, <3>2 DEF Code
    <3> QED BY <2>6, <2>7, <2>8, <3>3 DEF Counted
  <2>10. CASE WorkingOn(c) = {}
    <3>1. seen = code[c]
      BY <2>10
    <3>2. /\ code'[c].status = "live" /\ code'[c].tries = tries
          /\ code'[c].uses = code[c].uses /\ code'[c].attempts = code[c].attempts
          /\ code'[c].alone = code[c].alone
      <4> HIDE DEF tries, seen
      <4> QED BY <2>2, <2>6, <3>1 DEF Code
    <3>3. WorkingOn(c)' = {r}
      BY <2>4, <2>10 DEF WorkingOn
    <3>4. ASSUME code[c].alone, CodeLine(c)
          PROVE  CodeLine(c)'
      <4>1. /\ code[c].tries <= code[c].attempts /\ code[c].uses = 0
            /\ code[c].attempts \in 0..MAX_VERIFY_ATTEMPTS /\ code[c].tries \in Nat
        BY <2>2, <2>10, <3>4 DEF CodeLine, Code
      <4>2. tries = IF pc = "reset_count" THEN code[c].tries + 1 ELSE code[c].tries
        BY <3>1, <3>4, <4>1 DEF UpTo
      <4> HIDE DEF tries, seen, pc
      <4>3. tries <= MAX_VERIFY_ATTEMPTS
        BY <2>3, <4>1, <4>2
      <4> QED BY <2>3, <2>4, <3>2, <3>3, <4>1, <4>2, <4>3 DEF CodeLine
    <3> QED BY <2>6, <2>7, <2>8, <3>2, <3>4 DEF Counted
  <2> QED BY <2>9, <2>10
<1>14. ASSUME NEW r \in Requests, ResetDrop(r) PROVE Counted'
  <2>1. code' = Gone({req[r].code}) /\ req' = [req EXCEPT ![r] = Idle]
    BY <1>14 DEF ResetDrop
  <2>2. \A q \in Requests : IF q = r THEN req'[q].code = None ELSE req'[q] = req[q]
    BY <2>1, <1>i DEF TypeOK
  <2> QED BY <2>1, <2>2, <1>g
<1>15. ASSUME NEW r \in Requests, ResetCount(r) PROVE Counted'
  <2>0. PICK c \in Codes : c = req[r].code
    BY <1>15 DEF ResetCount, WellFormed, ResetPcs
  <2>1. /\ req[r].pc = "reset_count" /\ req' = [req EXCEPT ![r] = Idle]
        /\ code' = IF c \in LiveCodes THEN [code EXCEPT ![c].attempts = req[r].attempts + 1]
                                      ELSE code
    BY <1>15, <2>0 DEF ResetCount
  <2>2. \A q \in Requests : IF q = r THEN req'[q] = Idle ELSE req'[q] = req[q]
    BY <2>1 DEF TypeOK
  <2>3. /\ code'[c].status = code[c].status /\ code'[c].tries = code[c].tries
        /\ code'[c].uses = code[c].uses /\ code'[c].alone = code[c].alone
        /\ code[c].status = "live" => code'[c].attempts = req[r].attempts + 1
        /\ \A d \in Codes \ {c} : code'[d] = code[d]
    BY <2>1 DEF TypeOK, Code, LiveCodes
  <2>4. \A q \in Requests : req'[q].pc \notin ResetPcs => req'[q].code = None
    BY <2>2, <1>i DEF Counted
  <2>5. ASSUME NEW d \in Codes \ {c}, CodeLine(d)
        PROVE  CodeLine(d)'
    <3>1. \A q \in Requests : req'[q] = req[q] \/ (req[q].code # d /\ req'[q].code # d)
      BY <2>0, <2>2, <1>i
    <3> QED BY <2>3, <2>5, <3>1, LineKept
  <2>6. ASSUME CodeLine(c) PROVE CodeLine(c)'
    <3>1. WorkingOn(c) = {r} /\ WorkingOn(c)' = {}
      BY <2>0, <2>2, <2>6, <1>i DEF CodeLine, WorkingOn
    <3>2. /\ code[c].status = "live" => code[c].tries <= req[r].attempts + 1 /\ code[c].uses = 0
          /\ code[c].status # "unused"
      BY <2>1, <2>6, <3>1 DEF CodeLine
    <3> QED BY <2>3, <2>6, <3>1, <3>2 DEF CodeLine
  <2> QED BY <2>3, <2>4, <2>5, <2>6 DEF Counted
<1>16. ASSUME NEW r \in Requests, ResetSave(r) PROVE Counted'
  <2>0. PICK c \in Codes : c = req[r].code
    BY <1>16 DEF ResetSave, WellFormed, ResetPcs
  <2> DEFINE uses == IF code[c].alone THEN UpTo(2, code[c].uses + 1) ELSE code[c].uses
  <2>1. /\ req[r].pc = "reset_save"
        /\ req' = [req EXCEPT ![r] = [req[r] EXCEPT !.pc = "reset_delete"]]
        /\ code' = [code EXCEPT ![c] = [code[c] EXCEPT !.uses = uses]]
    BY <1>16, <2>0 DEF ResetSave
  <2>2. /\ \A q \in Requests \ {r} : req'[q] = req[q]
        /\ req'[r].pc = "reset_delete" /\ req'[r].code = c /\ req'[r].attempts = req[r].attempts
    BY <2>0, <2>1 DEF TypeOK, Request
  <2>3. /\ code'[c].status = code[c].status /\ code'[c].tries = code[c].tries
        /\ code'[c].uses = uses /\ code'[c].alone = code[c].alone
        /\ code'[c].attempts = code[c].attempts
        /\ \A d \in Codes \ {c} : code'[d] = code[d]
    <3> HIDE DEF uses
    <3> QED BY <2>1 DEF TypeOK, Code
  <2>4. \A q \in Requests : req'[q].pc \notin ResetPcs => req'[q].code = None
    BY <2>2 DEF Counted, ResetPcs
  <2>5. ASSUME NEW d \in Codes \ {c}, CodeLine(d)
        PROVE  CodeLine(d)'
    <3>1. \A q \in Requests : req'[q] = req[q] \/ (req[q].code # d /\ req'[q].code # d)
      BY <2>0, <2>2
    <3> QED BY <2>3, <2>5, <3>1, LineKept
  <2>6. ASSUME CodeLine(c), code[c].alone PROVE CodeLine(c)'
    <3>1. WorkingOn(c) = {r} /\ WorkingOn(c)' = {r}
      BY <2>0, <2>2, <2>6 DEF CodeLine, WorkingOn
    <3>2. code[c].uses = 0 /\ code[c].status # "unused"
      BY <2>1, <2>6, <3>1 DEF CodeLine
    <3>3. uses <= 1
      BY <3>2 DEF UpTo
    <3>4. /\ code[c].tries <= MAX_VERIFY_ATTEMPTS
          /\ code[c].status = "live" => /\ req[r].attempts = code[c].attempts
                                        /\ code[c].tries <= req[r].attempts
      BY <2>1, <2>6, <3>1 DEF CodeLine
    <3> HIDE DEF uses
    <3> QED BY <2>2, <2>3, <3>1, <3>2, <3>3, <3>4 DEF CodeLine
  <2> QED BY <2>3, <2>4, <2>5, <2>6 DEF Counted
<1>17. ASSUME NEW r \in Requests, ResetDelete(r) PROVE Counted'
  <2>1. /\ code' = Gone({req[r].code})
        /\ req' = [req EXCEPT ![r] = [req[r] EXCEPT !.pc = "reset_revoke"]]
    BY <1>17 DEF ResetDelete, Spent
  <2>2. \A q \in Requests : IF q = r THEN /\ req'[q].code = req[q].code
                                          /\ req'[q].pc = "reset_revoke"
                                     ELSE req'[q] = req[q]
    BY <2>1 DEF TypeOK, Request
  <2> QED BY <2>1, <2>2, <1>g
<1>18. ASSUME NEW r \in Requests, ResetRevoke(r) PROVE Counted'
  BY <1>18, <1>b DEF ResetRevoke
<1>19. ASSUME NEW r \in Requests, Fails(r) PROVE Counted'
  <2>1. /\ req' = [req EXCEPT ![r] = Idle]
        /\ code' = [c \in Codes |-> IF c = req[r].code THEN Disturbed(c) ELSE code[c]]
    BY <1>19 DEF Fails
  <2>2. \A q \in Requests : IF q = r THEN req'[q] = Idle ELSE req'[q] = req[q]
    BY <2>1 DEF TypeOK
  <2>3. \A q \in Requests : req'[q].pc \notin ResetPcs => req'[q].code = None
    BY <2>2, <1>i DEF Counted
  <2>4. ASSUME NEW d \in Codes, d = req[r].code
        PROVE  code'[d].alone = FALSE
    BY <2>1, <2>4 DEF Disturbed, TypeOK, Code
  <2>5. ASSUME NEW d \in Codes, d # req[r].code, CodeLine(d)
        PROVE  code'[d] = code[d] /\ CodeLine(d)'
    <3>1. \A q \in Requests : req'[q] = req[q] \/ (req[q].code # d /\ req'[q].code # d)
      BY <2>2, <2>5, <1>i
    <3>2. code'[d] = code[d]
      BY <2>1, <2>5
    <3> QED BY <2>5, <3>1, <3>2, LineKept
  <2>6. \A d \in Codes : d # req[r].code => code'[d] = code[d]
    BY <2>1
  <2> QED BY <2>3, <2>4, <2>5, <2>6 DEF Counted
<1>20. CASE UNCHANGED vars
  BY <1>20, <1>a DEF vars
<1> QED
  BY <1>1, <1>2, <1>3, <1>4, <1>5, <1>6, <1>7, <1>8, <1>9, <1>10, <1>11, <1>12, <1>13,
     <1>14, <1>15, <1>16, <1>17, <1>18, <1>19, <1>20 DEF Next

\* Attempts at a code made one after the other are wrong no more often than the limit
\* allows, and change the password once at most.
THEOREM CodeLimitsHold == Spec => []CodeLimits
<1>1. Counted => CodeLimits
  BY DEF Counted, CodeLine, CodeLimits
<1> QED BY <1>1, InvHolds, CountedInit, CountedStep, PTL DEF Spec
============================================================================
