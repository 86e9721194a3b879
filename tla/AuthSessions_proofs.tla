------------------------ MODULE AuthSessions_proofs ------------------------
(***************************************************************************)
(* Proofs about AuthSessions, for every number of tokens, of calls and of   *)
(* changes to the account in flight.                                       *)
(***************************************************************************)
EXTENDS AuthSessions, TLAPS

(* What a call in flight knows: its token has a row, which it has revoked   *)
(* once it is past that step.                                               *)
CallsKnow ==
  \A c \in Calls :
    /\ call[c].at = "idle" => call[c] = Idle
    /\ call[c].at \in {"revoke", "load"} => call[c].token # NoToken
    /\ call[c].token # NoToken => Issued(call[c].token)
    /\ call[c].token # NoToken /\ call[c].at # "revoke" => token[call[c].token] = "revoked"

(* Of a token no two refreshes have raced for, there is one holder or one   *)
(* successor at most.                                                       *)
OneInLine ==
  \A p \in Tokens \ raced :
    /\ \A c, d \in Calls : Holds(c, p) /\ Holds(d, p) => c = d
    /\ \A c \in Calls, t \in Tokens : ~(Holds(c, p) /\ Succeeds(t, p))

(* After a revocation that met nobody: nothing is live, nothing in flight. *)
QuietIsEmpty ==
  quiet => /\ sealed
           /\ \A c \in Calls : call[c] = Idle
           /\ \A t \in Tokens : token[t] # "live"

(* What is in flight on a sealed account will issue what the account says.  *)
SealedCallsAreCurrent ==
  sealed => \A c \in Calls : call[c] # Idle =>
    active /\ call[c].proof = password /\ (call[c].at = "save" => call[c].scope = scope)

Sealed == SealedAccountHasNoStaleSession /\ QuietIsEmpty /\ SealedCallsAreCurrent
Families == CallsKnow /\ RotationRetiresTheParent /\ OneInLine /\ OneSuccessorUnlessRaced

IInv == TypeOK /\ Families /\ Sealed

LEMMA IdleIsACall == Idle \in CallStates /\ AdminIdle \in AdminStates
  BY SeedIsAnAccount DEF Idle, AdminIdle, CallStates, AdminStates

LEMMA InitIInv == Init => IInv
  <1> SUFFICES ASSUME Init PROVE IInv
    OBVIOUS
  <1> USE DEF Init
  <1>1. TypeOK
    BY SeedIsAnAccount, NoSessionIsNone, IdleIsACall DEF TypeOK
  <1>2. Families
    BY SeedIsAnAccount DEF Families, CallsKnow, RotationRetiresTheParent, OneInLine,
       OneSuccessorUnlessRaced, Succeeds, Issued, Holds, Idle
  <1>3. Sealed
    BY DEF Sealed, SealedAccountHasNoStaleSession, QuietIsEmpty, SealedCallsAreCurrent
  <1>4. QED
    BY <1>1, <1>2, <1>3 DEF IInv

-----------------------------------------------------------------------------
(* Type correctness *)

LEMMA TypeStep == IInv /\ [Next]_vars => TypeOK'
  <1> SUFFICES ASSUME IInv, [Next]_vars PROVE TypeOK'
    OBVIOUS
  <1> USE DEF IInv
  <1>1. ASSUME NEW c \in Calls, SessionStep(c) PROVE TypeOK'
    <2> USE DEF account, rows
    <2>1. CASE Login(c)
      BY <2>1 DEF Login, TypeOK, CallStates
    <2>2. ASSUME NEW t \in Tokens, RefreshFind(c, t) PROVE TypeOK'
      <3>1. session[t].proof \in Passwords
        BY <2>2 DEF RefreshFind, Usable, TypeOK, Sessions
      <3>2. call' \in [Calls -> CallStates]
        BY <2>2, <3>1, SeedIsAnAccount DEF RefreshFind, TypeOK, CallStates
      <3>3. QED
        BY <2>2, <3>2 DEF RefreshFind, TypeOK
    <2>3. CASE RefreshRevoke(c)
      <3>1. call' \in [Calls -> CallStates]
        BY <2>3 DEF RefreshRevoke, TypeOK, CallStates
      <3>2. QED
        BY <2>3, <3>1 DEF RefreshRevoke, RevokeRows, TypeOK
    <2>4. CASE RefreshLoad(c)
      BY <2>4 DEF RefreshLoad, TypeOK, CallStates
    <2>5. ASSUME NEW t \in Tokens, SaveRefreshToken(c, t) PROVE TypeOK'
      <3> DEFINE s == [scope |-> call[c].scope, proof |-> call[c].proof]
      <3>1. call[c] \in CallStates
        BY DEF TypeOK
      <3>2. s \in Sessions /\ s # NoSession /\ call[c].token \in Tokens \cup {NoToken}
        BY <3>1, NoSessionIsNone DEF CallStates, Sessions
      <3> HIDE DEF s
      <3>3. session' = [session EXCEPT ![t] = s]
        BY <2>5 DEF SaveRefreshToken, s
      <3>4. QED
        BY <2>5, <3>2, <3>3, IdleIsACall DEF SaveRefreshToken, TypeOK
    <2>6. CASE StopCall(c)
      BY <2>6, IdleIsACall DEF StopCall, TypeOK
    <2>7. QED
      BY <1>1, <2>1, <2>2, <2>3, <2>4, <2>5, <2>6 DEF SessionStep
  <1>2. ASSUME NEW a \in Admins, AccountStep(a) PROVE TypeOK'
    <2> USE DEF account, rows, AccountChanges
    <2>1. CASE LockUser(a)
      BY <2>1 DEF LockUser, TypeOK, AdminStates
    <2>2. CASE UnlockUser(a)
      BY <2>2 DEF UnlockUser, TypeOK
    <2>3. ASSUME NEW new \in Scopes, NEW named \in BOOLEAN, UpdateUser(a, new, named)
          PROVE  TypeOK'
      BY <2>3 DEF UpdateUser, TypeOK, AdminStates
    <2>4. CASE RevokeAll(a)
      BY <2>4, IdleIsACall DEF RevokeAll, RevokeAllUserTokens, RevokeRows, TypeOK
    <2>5. ASSUME NEW new \in Passwords, StartPassword(a, new) PROVE TypeOK'
      BY <2>5 DEF StartPassword, TypeOK, AdminStates
    <2>6. CASE RevokeFirst(a)
      <3>1. admin' \in [Admins -> AdminStates]
        BY <2>6 DEF RevokeFirst, TypeOK, AdminStates
      <3>2. QED
        BY <2>6, <3>1 DEF RevokeFirst, RevokeAllUserTokens, RevokeRows, TypeOK
    <2>7. CASE RevokeFails(a)
      BY <2>7 DEF RevokeFails, TypeOK, AdminStates
    <2>8. CASE UpdatePassword(a)
      <3>1. admin[a].new \in Passwords
        BY DEF TypeOK, AdminStates
      <3>2. QED
        BY <2>8, <3>1, IdleIsACall DEF UpdatePassword, TypeOK
    <2>9. CASE StopAdmin(a)
      BY <2>9, IdleIsACall DEF StopAdmin, TypeOK
    <2>10. QED
      BY <1>2, <2>1, <2>2, <2>3, <2>4, <2>5, <2>6, <2>7, <2>8, <2>9 DEF AccountStep
  <1>3. ASSUME NEW t \in Tokens, Logout(t) PROVE TypeOK'
    BY <1>3 DEF Logout, RevokeRows, TypeOK, account
  <1>4. ASSUME NEW t \in Tokens, TokenExpires(t) PROVE TypeOK'
    BY <1>4 DEF TokenExpires, TypeOK, account
  <1>5. CASE UNCHANGED vars
    BY <1>5 DEF vars, account, rows, TypeOK
  <1>6. QED
    BY <1>1, <1>2, <1>3, <1>4, <1>5 DEF Next

-----------------------------------------------------------------------------
(* Families of tokens *)

(* Statements that revoke rows and touch no call leave the families alone:  *)
(* more is revoked than before, nothing is issued.                          *)
LEMMA RevokingFamilies ==
  ASSUME IInv, UNCHANGED <<call, raced, parent>>,
         \A t \in Tokens : token'[t] = token[t]
                           \/ (Issued(t) /\ token'[t] = "revoked")
  PROVE  Families'
  <1> USE DEF IInv, Families
  <1>1. \A t \in Tokens : Issued(t)' <=> Issued(t)
    BY DEF Issued
  <1>2. \A t \in Tokens : token[t] = "revoked" => token'[t] = "revoked"
    OBVIOUS
  <1>3. \A c \in Calls : call[c].token # NoToken => call[c].token \in Tokens
    BY DEF TypeOK, CallStates
  <1>4. CallsKnow'
    BY <1>1, <1>2, <1>3 DEF CallsKnow
  <1>5. RotationRetiresTheParent'
    BY <1>1, <1>2 DEF RotationRetiresTheParent, Succeeds
  <1>6. OneInLine' /\ OneSuccessorUnlessRaced'
    BY <1>1 DEF OneInLine, OneSuccessorUnlessRaced, Succeeds, Holds
  <1>7. QED
    BY <1>4, <1>5, <1>6

(* Steps of a call that issue nothing: it lets go of its token, or keeps    *)
(* the one it has.                                                          *)
LEMMA KeepingFamilies ==
  ASSUME IInv, NEW c \in Calls, NEW next, call' = [call EXCEPT ![c] = next],
         next.token \in {call[c].token, NoToken},
         next.at = "idle" => next = Idle,
         next.at \in {"revoke", "load"} => next.token # NoToken,
         next.token # NoToken /\ next.at # "revoke" => token'[next.token] = "revoked",
         \A t \in Tokens : token'[t] = token[t]
                           \/ (Issued(t) /\ token'[t] = "revoked"),
         UNCHANGED <<raced, parent>>
  PROVE  Families'
  <1> USE DEF IInv, Families
  <1>1. \A t \in Tokens : Issued(t)' <=> Issued(t)
    BY DEF Issued
  <1>2. \A t \in Tokens : token[t] = "revoked" => token'[t] = "revoked"
    OBVIOUS
  <1>3. \A d \in Calls : call[d].token # NoToken => call[d].token \in Tokens
    BY DEF TypeOK, CallStates
  <1>4. call'[c] = next /\ \A d \in Calls \ {c} : call'[d] = call[d]
    BY DEF TypeOK
  <1>5. \A d \in Calls, p \in Tokens : Holds(d, p)' => Holds(d, p)
    BY <1>4, SeedIsAnAccount DEF Holds
  <1>6. CallsKnow'
    <2> SUFFICES ASSUME NEW d \in Calls PROVE CallsKnow!(d)'
      BY DEF CallsKnow
    <2>1. CASE d = c
      BY <2>1, <1>1, <1>3, <1>4 DEF CallsKnow
    <2>2. CASE d # c
      BY <2>2, <1>1, <1>2, <1>3, <1>4 DEF CallsKnow
    <2>3. QED
      BY <2>1, <2>2
  <1>7. RotationRetiresTheParent' /\ OneSuccessorUnlessRaced'
    BY <1>1, <1>2 DEF RotationRetiresTheParent, OneSuccessorUnlessRaced, Succeeds
  <1>8. OneInLine'
    BY <1>1, <1>5 DEF OneInLine, Succeeds
  <1>9. QED
    BY <1>6, <1>7, <1>8

LEMMA LoginFamilies ==
  ASSUME IInv, NEW c \in Calls, Login(c)
  PROVE  Families'
  <1> DEFINE next == [at |-> "save", token |-> NoToken, scope |-> scope,
                      proof |-> password]
  <1>1. call' = [call EXCEPT ![c] = next]
    BY DEF Login
  <1>2. next.at = "save" /\ next.token = NoToken
    OBVIOUS
  <1> HIDE DEF next
  <1>3. UNCHANGED <<token, raced, parent>>
    BY DEF Login, rows
  <1>4. QED
    BY <1>1, <1>2, <1>3, KeepingFamilies

LEMMA FindFamilies ==
  ASSUME IInv, NEW c \in Calls, NEW t \in Tokens, RefreshFind(c, t)
  PROVE  Families'
  <1> USE DEF IInv, Families
  <1>1. token[t] = "live" /\ UNCHANGED rows /\ raced \subseteq raced'
    BY DEF RefreshFind, Usable
  <1>2. /\ call'[c].token = t /\ call'[c].at = "revoke"
        /\ \A d \in Calls \ {c} : call'[d] = call[d]
    BY DEF RefreshFind, TypeOK
  <1>3. CallsKnow'
    <2> SUFFICES ASSUME NEW d \in Calls PROVE CallsKnow!(d)'
      BY DEF CallsKnow
    <2>1. CASE d = c
      <3>1. call'[d].at = "revoke" /\ call'[d].token = t /\ t # NoToken /\ Issued(t)'
        BY <2>1, <1>1, <1>2, SeedIsAnAccount DEF Issued, rows
      <3>2. QED
        BY <3>1
    <2>2. CASE d # c
      BY <2>2, <1>1, <1>2 DEF CallsKnow, Issued, rows
    <2>3. QED
      BY <2>1, <2>2
  <1>4. RotationRetiresTheParent' /\ OneSuccessorUnlessRaced'
    BY <1>1 DEF RotationRetiresTheParent, OneSuccessorUnlessRaced, Succeeds, Issued, rows
  <1>5. OneInLine'
    <2> SUFFICES ASSUME NEW p \in Tokens \ raced' PROVE OneInLine!(p)'
      BY DEF OneInLine
    <2>1. CASE p # t
      <3>1. \A d \in Calls : Holds(d, p)' => Holds(d, p)
        BY <2>1, <1>2 DEF Holds
      <3>2. QED
        BY <3>1, <1>1 DEF OneInLine, Succeeds, Issued, rows
    <2>2. CASE p = t
      <3>1. \A d \in Calls : ~Holds(d, t)
        BY <2>2 DEF RefreshFind
      <3>2. \A d \in Calls : Holds(d, t)' => d = c
        BY <3>1, <1>2 DEF Holds
      <3>3. \A u \in Tokens : ~Succeeds(u, t)'
        BY <1>1 DEF RotationRetiresTheParent, Succeeds, Issued, rows
      <3>4. QED
        BY <2>2, <3>2, <3>3
    <2>3. QED
      BY <2>1, <2>2
  <1>6. QED
    BY <1>3, <1>4, <1>5

LEMMA SaveFamilies ==
  ASSUME IInv, NEW c \in Calls, NEW t \in Tokens, SaveRefreshToken(c, t)
  PROVE  Families'
  <1> USE DEF IInv, Families
  <1> DEFINE p == call[c].token
  <1>1. /\ token[t] = "unused" /\ token'[t] = "live" /\ parent'[t] = p
        /\ \A u \in Tokens \ {t} : token'[u] = token[u] /\ parent'[u] = parent[u]
        /\ UNCHANGED raced
    BY DEF SaveRefreshToken, TypeOK
  <1>2. call'[c] = Idle /\ \A d \in Calls \ {c} : call'[d] = call[d]
    BY DEF SaveRefreshToken, TypeOK
  <1>3. p # NoToken => p \in Tokens /\ token[p] = "revoked"
    BY DEF CallsKnow, SaveRefreshToken, TypeOK, CallStates
  <1>4. \A d \in Calls : call[d].token # NoToken =>
          call[d].token \in Tokens /\ call[d].token # t
    BY <1>1 DEF CallsKnow, Issued, TypeOK, CallStates
  <1>5. \A d \in Calls, q \in Tokens : Holds(d, q)' => d # c /\ Holds(d, q)
    BY <1>2, SeedIsAnAccount DEF Holds, Idle
  <1>6. \A u, q \in Tokens : Succeeds(u, q)' <=>
          \/ u = t /\ p = q
          \/ u # t /\ Succeeds(u, q)
    BY <1>1 DEF Succeeds, Issued
  <1>7. CallsKnow'
    <2> SUFFICES ASSUME NEW d \in Calls PROVE CallsKnow!(d)'
      BY DEF CallsKnow
    <2>1. CASE d = c
      BY <2>1, <1>2 DEF Idle
    <2>2. CASE d # c
      BY <2>2, <1>1, <1>2, <1>4 DEF CallsKnow, Issued
    <2>3. QED
      BY <2>1, <2>2
  <1>8. RotationRetiresTheParent'
    <2> SUFFICES ASSUME NEW u \in Tokens, NEW q \in Tokens, Succeeds(u, q)'
                 PROVE  token'[q] = "revoked"
      BY DEF RotationRetiresTheParent
    <2>1. token[q] = "revoked"
      BY <1>3, <1>6, SeedIsAnAccount DEF RotationRetiresTheParent
    <2>2. QED
      BY <2>1, <1>1
  <1>9. Holds(c, p)
    BY DEF Holds
  <1>10. OneInLine'
    BY <1>1, <1>5, <1>6, <1>9 DEF OneInLine
  <1>11. OneSuccessorUnlessRaced'
    BY <1>1, <1>6, <1>9 DEF OneInLine, OneSuccessorUnlessRaced
  <1>12. QED
    BY <1>7, <1>8, <1>10, <1>11

LEMMA FamiliesStep == IInv /\ [Next]_vars => Families'
  <1> SUFFICES ASSUME IInv, [Next]_vars PROVE Families'
    OBVIOUS
  <1>1. ASSUME NEW c \in Calls, SessionStep(c) PROVE Families'
    <2>1. call[c] \in CallStates
      BY DEF IInv, TypeOK
    <2>2. CASE RefreshRevoke(c)
      <3> DEFINE next == [call[c] EXCEPT !.at = "load"]
      <3>1. call' = [call EXCEPT ![c] = next]
        BY <2>2 DEF RefreshRevoke
      <3>2. next.at = "load" /\ next.token = call[c].token
        BY <2>1 DEF CallStates
      <3>3. call[c].token # NoToken /\ call[c].token \in Tokens /\ Issued(call[c].token)
        BY <2>1, <2>2 DEF RefreshRevoke, IInv, Families, CallsKnow, CallStates
      <3> HIDE DEF next
      <3>4. QED
        BY <2>2, <3>1, <3>2, <3>3, KeepingFamilies DEF RefreshRevoke, RevokeRows
    <2>3. CASE RefreshLoad(c)
      <3> DEFINE next == [call[c] EXCEPT !.at = "save", !.scope = scope]
      <3>1. call' = [call EXCEPT ![c] = next]
        BY <2>3 DEF RefreshLoad
      <3>2. next.at = "save" /\ next.token = call[c].token
        BY <2>1 DEF CallStates
      <3>3. token[call[c].token] = "revoked"
        BY <2>3 DEF RefreshLoad, IInv, Families, CallsKnow
      <3> HIDE DEF next
      <3>4. QED
        BY <2>3, <3>1, <3>2, <3>3, KeepingFamilies DEF RefreshLoad, rows
    <2>4. CASE StopCall(c)
      <3>1. Idle.at = "idle" /\ Idle.token = NoToken
        BY DEF Idle
      <3>2. QED
        BY <2>4, <3>1, KeepingFamilies DEF StopCall, rows
    <2>5. QED
      BY <1>1, <2>2, <2>3, <2>4, LoginFamilies, FindFamilies, SaveFamilies DEF SessionStep
  <1>2. ASSUME NEW a \in Admins, AccountStep(a) PROVE Families'
    <2>1. UNCHANGED <<call, raced, parent>>
      BY <1>2 DEF AccountStep, LockUser, UnlockUser, RevokeAll, UpdateUser, StartPassword,
         RevokeFirst, RevokeFails, UpdatePassword, StopAdmin, AccountChanges,
         RevokeAllUserTokens, RevokeRows, rows
    <2>2. \/ UNCHANGED token
          \/ token' = [t \in Tokens |-> IF t \in {u \in Tokens : token[u] = "live"}
                                        THEN "revoked" ELSE token[t]]
      BY <1>2 DEF AccountStep, LockUser, UnlockUser, RevokeAll, UpdateUser, StartPassword,
         RevokeFirst, RevokeFails, UpdatePassword, StopAdmin, AccountChanges,
         RevokeAllUserTokens, RevokeRows, rows
    <2>3. \A t \in Tokens : token'[t] = token[t] \/ (Issued(t) /\ token'[t] = "revoked")
      BY <2>2 DEF Issued
    <2>4. QED
      BY <2>1, <2>3, RevokingFamilies
  <1>3. ASSUME NEW t \in Tokens, Logout(t) PROVE Families'
    BY <1>3, RevokingFamilies DEF Logout, RevokeRows, Issued
  <1>4. ASSUME NEW t \in Tokens, TokenExpires(t) PROVE Families'
    BY <1>4, RevokingFamilies DEF TokenExpires
  <1>5. CASE UNCHANGED vars
    BY <1>5, RevokingFamilies DEF vars, rows
  <1>6. QED
    BY <1>1, <1>2, <1>3, <1>4, <1>5 DEF Next

-----------------------------------------------------------------------------
(* Sealed accounts *)

(* Steps of a call that change neither the account nor the rows: what it    *)
(* holds next is current, and somebody is in flight afterwards, or it stops.*)
LEMMA CallSealed ==
  ASSUME IInv, NEW c \in Calls, NEW next, call' = [call EXCEPT ![c] = next],
         sealed => active /\ next.proof = password
                   /\ (next.at = "save" => next.scope = scope),
         quiet' = FALSE \/ (call[c] # Idle /\ quiet' = quiet),
         UNCHANGED <<account, sealed>>,
         \A t \in Tokens : token'[t] = "live" => token[t] = "live" /\ session'[t] = session[t]
  PROVE  Sealed'
  <1> USE DEF IInv, Sealed, account
  <1>1. call'[c] = next /\ \A d \in Calls \ {c} : call'[d] = call[d]
    BY DEF TypeOK
  <1>2. SealedAccountHasNoStaleSession'
    BY DEF SealedAccountHasNoStaleSession
  <1>3. QuietIsEmpty'
    BY DEF QuietIsEmpty, TypeOK
  <1>4. SealedCallsAreCurrent'
    BY <1>1 DEF SealedCallsAreCurrent
  <1>5. QED
    BY <1>2, <1>3, <1>4

(* What was started with a live token of a sealed account goes on with it.  *)
LEMMA StopSealed ==
  ASSUME IInv, NEW c \in Calls, StopCall(c)
  PROVE  Sealed'
  <1> USE DEF IInv, Sealed, account, rows, StopCall
  <1>1. call'[c] = Idle /\ \A d \in Calls \ {c} : call'[d] = call[d]
    BY DEF TypeOK
  <1>2. QuietIsEmpty'
    BY <1>1 DEF QuietIsEmpty
  <1>3. SealedCallsAreCurrent'
    BY <1>1 DEF SealedCallsAreCurrent
  <1>4. QED
    BY <1>2, <1>3 DEF SealedAccountHasNoStaleSession

LEMMA SaveSealed ==
  ASSUME IInv, NEW c \in Calls, NEW t \in Tokens, SaveRefreshToken(c, t)
  PROVE  Sealed'
  <1> USE DEF IInv, Sealed, account
  <1> DEFINE s == [scope |-> call[c].scope, proof |-> call[c].proof]
  <1>1. /\ call[c].at = "save" /\ call[c] # Idle
        /\ UNCHANGED <<account, quiet, sealed>>
        /\ session'[t] = s
        /\ \A u \in Tokens \ {t} : token'[u] = token[u] /\ session'[u] = session[u]
    BY DEF SaveRefreshToken, TypeOK, Idle
  <1>2. call'[c] = Idle /\ \A d \in Calls \ {c} : call'[d] = call[d]
    BY DEF SaveRefreshToken, TypeOK
  <1>3. SealedAccountHasNoStaleSession'
    BY <1>1 DEF SealedAccountHasNoStaleSession, SealedCallsAreCurrent
  <1>4. QuietIsEmpty'
    BY <1>1 DEF QuietIsEmpty
  <1>5. SealedCallsAreCurrent'
    BY <1>1, <1>2 DEF SealedCallsAreCurrent
  <1>6. QED
    BY <1>3, <1>4, <1>5

(* A revocation of all tokens leaves nothing live; what it seals, it seals  *)
(* because nothing is in flight.                                            *)
LEMMA RevokeAllSealed ==
  ASSUME IInv, RevokeAllUserTokens
  PROVE  Sealed'
  <1>1. \A t \in Tokens : token'[t] # "live"
    BY DEF RevokeAllUserTokens, RevokeRows
  <1>2. QED
    BY <1>1 DEF RevokeAllUserTokens, Sealed, SealedAccountHasNoStaleSession, QuietIsEmpty,
       SealedCallsAreCurrent

(* A change of the account keeps the seal only of an account that is empty. *)
LEMMA ChangeSealed ==
  ASSUME IInv, AccountChanges
  PROVE  Sealed'
  BY DEF AccountChanges, IInv, Sealed, SealedAccountHasNoStaleSession, QuietIsEmpty,
     SealedCallsAreCurrent, rows

(* Fewer live tokens, or none fewer, do no harm.                            *)
LEMMA FewerSealed ==
  ASSUME IInv, UNCHANGED <<account, call, quiet, sealed>>,
         \A t \in Tokens : token'[t] = "live" => token[t] = "live" /\ session'[t] = session[t]
  PROVE  Sealed'
  BY DEF IInv, Sealed, SealedAccountHasNoStaleSession, QuietIsEmpty, SealedCallsAreCurrent,
     account

LEMMA SealedStep == IInv /\ [Next]_vars => Sealed'
  <1> SUFFICES ASSUME IInv, [Next]_vars PROVE Sealed'
    OBVIOUS
  <1>1. ASSUME NEW c \in Calls, SessionStep(c) PROVE Sealed'
    <2> USE DEF IInv, Sealed
    <2>1. CASE Login(c)
      <3> DEFINE next == [at |-> "save", token |-> NoToken, scope |-> scope,
                          proof |-> password]
      <3>1. call' = [call EXCEPT ![c] = next] /\ active /\ quiet' = FALSE
        BY <2>1 DEF Login, MayLogIn
      <3>2. next.proof = password /\ next.scope = scope
        OBVIOUS
      <3> HIDE DEF next
      <3>3. QED
        BY <2>1, <3>1, <3>2, CallSealed DEF Login, rows
    <2>2. ASSUME NEW t \in Tokens, RefreshFind(c, t) PROVE Sealed'
      <3> DEFINE next == [at |-> "revoke", token |-> t, scope |-> SeedScope,
                          proof |-> session[t].proof]
      <3>1. call' = [call EXCEPT ![c] = next] /\ quiet' = FALSE /\ token[t] = "live"
        BY <2>2 DEF RefreshFind, Usable
      <3>2. next.at = "revoke" /\ next.proof = session[t].proof
        OBVIOUS
      <3>3. sealed => active /\ session[t].proof = password
        BY <3>1 DEF SealedAccountHasNoStaleSession
      <3> HIDE DEF next
      <3>4. QED
        BY <2>2, <3>1, <3>2, <3>3, CallSealed DEF RefreshFind, rows
    <2>3. CASE RefreshRevoke(c)
      <3> DEFINE next == [call[c] EXCEPT !.at = "load"]
      <3>1. call' = [call EXCEPT ![c] = next]
        BY <2>3 DEF RefreshRevoke
      <3>2. next.at = "load" /\ next.proof = call[c].proof
        BY DEF TypeOK, CallStates
      <3>3. \A t \in Tokens : token'[t] = "live" =>
              token[t] = "live" /\ session'[t] = session[t]
        BY <2>3 DEF RefreshRevoke, RevokeRows
      <3>4. call[c].at = "revoke" /\ call[c] # Idle
        BY <2>3 DEF RefreshRevoke, Idle
      <3>5. sealed => active /\ call[c].proof = password
        BY <3>4 DEF SealedCallsAreCurrent
      <3>6. UNCHANGED <<account, quiet, sealed>>
        BY <2>3 DEF RefreshRevoke
      <3> HIDE DEF next, Sealed
      <3>7. QED
        BY <3>1, <3>2, <3>3, <3>4, <3>5, <3>6, CallSealed
    <2>4. CASE RefreshLoad(c)
      <3> DEFINE next == [call[c] EXCEPT !.at = "save", !.scope = scope]
      <3>1. call' = [call EXCEPT ![c] = next]
        BY <2>4 DEF RefreshLoad
      <3>2. call[c].at = "load" /\ call[c] # Idle
        BY <2>4 DEF RefreshLoad, Idle
      <3>3. next.scope = scope /\ next.proof = call[c].proof
        BY DEF TypeOK, CallStates
      <3>4. sealed => active /\ call[c].proof = password
        BY <3>2 DEF SealedCallsAreCurrent
      <3> HIDE DEF next
      <3>5. QED
        BY <2>4, <3>1, <3>2, <3>3, <3>4, CallSealed DEF RefreshLoad, rows
    <2>5. QED
      BY <1>1, <2>1, <2>2, <2>3, <2>4, StopSealed, SaveSealed DEF SessionStep
  <1>2. ASSUME NEW a \in Admins, AccountStep(a) PROVE Sealed'
    <2>1. \/ RevokeAllUserTokens
          \/ AccountChanges
          \/ UNCHANGED <<account, rows, call, raced, quiet, sealed>>
      BY <1>2 DEF AccountStep, LockUser, UnlockUser, RevokeAll, UpdateUser, StartPassword,
         RevokeFirst, RevokeFails, UpdatePassword, StopAdmin
    <2>2. QED
      BY <2>1, RevokeAllSealed, ChangeSealed, FewerSealed DEF rows
  <1>3. ASSUME NEW t \in Tokens, Logout(t) PROVE Sealed'
    BY <1>3, FewerSealed DEF Logout, RevokeRows
  <1>4. ASSUME NEW t \in Tokens, TokenExpires(t) PROVE Sealed'
    BY <1>4, FewerSealed DEF TokenExpires
  <1>5. CASE UNCHANGED vars
    BY <1>5, FewerSealed DEF vars, rows
  <1>6. QED
    BY <1>1, <1>2, <1>3, <1>4, <1>5 DEF Next

-----------------------------------------------------------------------------
(* Spent tokens *)

LEMMA SpentStep ==
  ASSUME IInv, [Next]_vars, NEW p \in Tokens, Spent(p)
  PROVE  Spent(p)' /\ \A t \in Tokens : Succeeds(t, p)' => Succeeds(t, p)
  <1> USE DEF IInv
  <1> DEFINE Kept ==
        /\ token'[p] = "revoked"
        /\ \A d \in Calls : ~Holds(d, p)'
        /\ \A t \in Tokens : Succeeds(t, p)' => Succeeds(t, p)
      OnlyRevokes ==
        /\ UNCHANGED <<call, parent>>
        /\ \A t \in Tokens : token'[t] = token[t]
                              \/ (Issued(t) /\ token'[t] = "revoked")
  <1> SUFFICES Kept
    BY DEF Spent
  <1>1. token[p] = "revoked" /\ \A d \in Calls : ~Holds(d, p)
    BY DEF Spent
  <1>2. ASSUME NEW c \in Calls, SessionStep(c) PROVE Kept
    <2>1. call[c] \in CallStates /\ call[c].token # p
      BY <1>1 DEF TypeOK, Holds
    <2>2. \A d \in Calls : ~Holds(d, p)'
      <3>1. call'[c].token # p /\ \A d \in Calls \ {c} : call'[d] = call[d]
        <4>1. CASE Login(c)
          BY <4>1, SeedIsAnAccount DEF Login, TypeOK
        <4>2. ASSUME NEW t \in Tokens, RefreshFind(c, t) 
              PROVE  call'[c].token # p /\ \A d \in Calls \ {c} : call'[d] = call[d]
          BY <4>2, <1>1 DEF RefreshFind, Usable, TypeOK
        <4>3. CASE RefreshRevoke(c)
          BY <4>3, <2>1 DEF RefreshRevoke, TypeOK, CallStates
        <4>4. CASE RefreshLoad(c)
          BY <4>4, <2>1 DEF RefreshLoad, TypeOK, CallStates
        <4>5. CASE StopCall(c) \/ \E t \in Tokens : SaveRefreshToken(c, t)
          BY <4>5, SeedIsAnAccount DEF StopCall, SaveRefreshToken, TypeOK, Idle
        <4>6. QED
          BY <1>2, <4>1, <4>2, <4>3, <4>4, <4>5 DEF SessionStep
      <3>2. QED
        BY <3>1, <1>1 DEF Holds
    <2>3. ASSUME NEW t \in Tokens, SaveRefreshToken(c, t) PROVE Kept
      <3>1. token'[p] = "revoked"
        BY <2>3, <1>1 DEF SaveRefreshToken, TypeOK
      <3>2. \A u \in Tokens : Succeeds(u, p)' => Succeeds(u, p)
        BY <2>3, <2>1 DEF SaveRefreshToken, TypeOK, Succeeds, Issued
      <3>3. QED
        BY <2>2, <3>1, <3>2
    <2>4. CASE RefreshRevoke(c)
      BY <2>2, <2>4, <1>1 DEF RefreshRevoke, RevokeRows, Succeeds, Issued, TypeOK, IInv,
         Families, CallsKnow
    <2>5. CASE UNCHANGED <<token, parent>>
      BY <2>2, <2>5, <1>1 DEF Succeeds, Issued
    <2>6. QED
      BY <1>2, <2>3, <2>4, <2>5 DEF SessionStep, Login, RefreshFind, RefreshLoad, StopCall,
         rows
  <1>3. CASE OnlyRevokes
    BY <1>3, <1>1 DEF Holds, Succeeds, Issued
  <1>4. ASSUME NEW a \in Admins, AccountStep(a) PROVE OnlyRevokes
    BY <1>4 DEF AccountStep, LockUser, UnlockUser, RevokeAll, UpdateUser, StartPassword,
       RevokeFirst, RevokeFails, UpdatePassword, StopAdmin, AccountChanges,
       RevokeAllUserTokens, RevokeRows, rows, Issued
  <1>5. ASSUME NEW t \in Tokens, Logout(t) \/ TokenExpires(t) PROVE OnlyRevokes
    BY <1>5 DEF Logout, TokenExpires, RevokeRows, Issued
  <1>6. CASE UNCHANGED vars
    BY <1>6, <1>3 DEF vars, rows
  <1>7. QED
    BY <1>2, <1>3, <1>4, <1>5, <1>6 DEF Next

-----------------------------------------------------------------------------
(* The theorems *)

LEMMA Invariance == Spec => []IInv
  <1>1. IInv /\ [Next]_vars => IInv'
    BY TypeStep, FamiliesStep, SealedStep DEF IInv
  <1>2. QED
    BY InitIInv, <1>1, PTL DEF Spec

(* The account's row, its tokens and the calls in flight keep their types.  *)
THEOREM TypeCorrect == Spec => []TypeOK
  <1>1. IInv => TypeOK
    BY DEF IInv
  <1>2. QED
    BY Invariance, <1>1, PTL

(* A refresh retires the token it was given before there is a new one.      *)
THEOREM ParentsAreRetired == Spec => []RotationRetiresTheParent
  <1>1. IInv => RotationRetiresTheParent
    BY DEF IInv, Families
  <1>2. QED
    BY Invariance, <1>1, PTL

(* Without overlapping refreshes of one token, a token has one successor.   *)
THEOREM FamiliesAreLines == Spec => []OneSuccessorUnlessRaced
  <1>1. IInv => OneSuccessorUnlessRaced
    BY DEF IInv, Families
  <1>2. QED
    BY Invariance, <1>1, PTL

(* A revocation that met nobody in flight leaves no stale session behind.   *)
THEOREM SealsHold == Spec => []SealedAccountHasNoStaleSession
  <1>1. IInv => SealedAccountHasNoStaleSession
    BY DEF IInv, Sealed
  <1>2. QED
    BY Invariance, <1>1, PTL

(* A revoked token that no refresh holds never comes back in any form.      *)
THEOREM SpentIsForGood == Spec => SpentTokensStaySpent
  <1>1. IInv /\ [Next]_vars =>
          [\A p \in Tokens : Spent(p) =>
             Spent(p)' /\ \A t \in Tokens : Succeeds(t, p)' => Succeeds(t, p)]_vars
    BY SpentStep
  <1>2. QED
    BY Invariance, <1>1, PTL DEF Spec, SpentTokensStaySpent
=============================================================================
