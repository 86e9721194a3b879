---------------------------- MODULE AuthSessions ----------------------------
(***************************************************************************)
(* The sessions of one account: authService and the rows of users and       *)
(* refresh_tokens it reads and writes.  No statement touches two accounts.  *)
(*                                                                         *)
(* Nothing here runs in a transaction: every statement commits on its own,  *)
(* so Login, Refresh and the account operations are several actions with a  *)
(* program counter, and any of them may stop for good in between (a failed  *)
(* statement, a client that hangs up, a server that stops).                 *)
(***************************************************************************)
EXTENDS Naturals, FiniteSets

CONSTANTS Tokens,      \* refresh tokens; bound on how many are ever issued
          Calls,       \* Login and Refresh calls in flight
          Admins,      \* calls that change the account, in flight
          Scopes,      \* what an access token claims: a role and its units
          Passwords,
          NoToken, NoSession,
          SeedScope, SeedPassword

ASSUME SeedIsAnAccount ==
  SeedScope \in Scopes /\ SeedPassword \in Passwords /\ NoToken \notin Tokens

Sessions == [scope : Scopes, proof : Passwords]

ASSUME NoSessionIsNone == NoSession \notin Sessions

VARIABLES
  active, scope, password,  \* the users row
  token,     \* a refresh_tokens row: "unused" (no row), "live" or "revoked"
  expired,   \* live rows whose expires_at has passed
  parent,    \* parent[t]: the token t was exchanged for; NoToken after a login
             \* (history)
  session,   \* session[t], while t is live: the scope it was issued with, and
             \* the password its family began with (history)
  call,      \* the Login and Refresh calls
  admin,     \* the calls that change the account
  raced,     \* tokens two overlapping refreshes found live (history)
  quiet,     \* no Login or Refresh was in flight at the last revocation of
             \* all tokens, and none has begun since (history)
  sealed     \* the account has not changed since such a revocation, or only
             \* while it was quiet (history)

account == <<active, scope, password>>
rows == <<token, expired, parent, session>>
vars == <<account, rows, call, admin, raced, quiet, sealed>>

CallStates ==
  [at : {"idle", "revoke", "load", "save"}, token : Tokens \cup {NoToken},
   scope : Scopes, proof : Passwords]
AdminStates ==
  [at : {"idle", "revoke", "revoke first", "password"}, new : Passwords]

Idle == [at |-> "idle", token |-> NoToken, scope |-> SeedScope, proof |-> SeedPassword]
AdminIdle == [at |-> "idle", new |-> SeedPassword]

Init ==
  /\ active = TRUE /\ scope = SeedScope /\ password = SeedPassword
  /\ token = [t \in Tokens |-> "unused"]
  /\ expired = {}
  /\ parent = [t \in Tokens |-> NoToken]
  /\ session = [t \in Tokens |-> NoSession]
  /\ call = [c \in Calls |-> Idle]
  /\ admin = [a \in Admins |-> AdminIdle]
  /\ raced = {}
  /\ quiet = TRUE /\ sealed = TRUE

-----------------------------------------------------------------------------
(* Login and Refresh *)

(* FindByUsername: WHERE is_active = true. *)
MayLogInAlways == TRUE
MayLogIn == active

(* The password is compared with the row that was read. *)
Login(c) ==
  /\ call[c] = Idle
  /\ MayLogIn
  /\ call' = [call EXCEPT ![c] = [at |-> "save", token |-> NoToken,
                                  scope |-> scope, proof |-> password]]
  /\ quiet' = FALSE
  /\ UNCHANGED <<account, rows, admin, raced, sealed>>

(* FindRefreshToken: WHERE revoked_at IS NULL; then the expiry. *)
Usable(t) == token[t] = "live" /\ t \notin expired

Holds(c, t) == call[c].token = t

RefreshFind(c, t) ==
  /\ call[c] = Idle
  /\ Usable(t)
  /\ call' = [call EXCEPT ![c] = [at |-> "revoke", token |-> t, scope |-> SeedScope,
                                  proof |-> session[t].proof]]
  /\ raced' = IF \E d \in Calls : Holds(d, t) THEN raced \cup {t} ELSE raced
  /\ quiet' = FALSE
  /\ UNCHANGED <<account, rows, admin, sealed>>

DeleteRows(gone) ==
  /\ token' = [t \in Tokens |-> IF t \in gone THEN "deleted" ELSE token[t]]
  /\ UNCHANGED <<expired, parent, session>>
(* Revoked rows are never looked at again but by the UPDATE itself. *)
RevokeRows(gone) ==
  /\ token' = [t \in Tokens |-> IF t \in gone THEN "revoked" ELSE token[t]]
  /\ session' = [t \in Tokens |-> IF t \in gone THEN NoSession ELSE session[t]]
  /\ expired' = expired \ gone
  /\ UNCHANGED parent

(* The UPDATE does not ask whether somebody has revoked it already. *)
RefreshGoesOn(c) ==
  /\ call[c].at = "revoke"
  /\ call' = [call EXCEPT ![c].at = "load"]
  /\ UNCHANGED <<account, rows, admin, raced, quiet, sealed>>
RefreshRevoke(c) ==
  /\ call[c].at = "revoke"
  /\ RevokeRows({call[c].token})
  /\ call' = [call EXCEPT ![c].at = "load"]
  /\ UNCHANGED <<account, admin, raced, quiet, sealed>>

(* FindByID: active or not. *)
RefreshLoad(c) ==
  /\ call[c].at = "load"
  /\ call' = [call EXCEPT ![c].at = "save", ![c].scope = scope]
  /\ UNCHANGED <<account, rows, admin, raced, quiet, sealed>>

(* issueTokenPair: a token of its own for every call.  The variant renews   *)
(* any row that is not in use.                                              *)
RenewRefreshToken(c, t) ==
  /\ call[c].at = "save"
  /\ token[t] # "live"
  /\ token' = [token EXCEPT ![t] = "live"]
  /\ parent' = [parent EXCEPT ![t] = call[c].token]
  /\ session' = [session EXCEPT ![t] = [scope |-> call[c].scope, proof |-> call[c].proof]]
  /\ call' = [call EXCEPT ![c] = Idle]
  /\ UNCHANGED <<account, expired, admin, raced, quiet, sealed>>
SaveRefreshToken(c, t) ==
  /\ call[c].at = "save"
  /\ token[t] = "unused"
  /\ token' = [token EXCEPT ![t] = "live"]
  /\ parent' = [parent EXCEPT ![t] = call[c].token]
  /\ session' = [session EXCEPT ![t] = [scope |-> call[c].scope, proof |-> call[c].proof]]
  /\ call' = [call EXCEPT ![c] = Idle]
  /\ UNCHANGED <<account, expired, admin, raced, quiet, sealed>>

StopCall(c) ==
  /\ call[c] # Idle
  /\ call' = [call EXCEPT ![c] = Idle]
  /\ UNCHANGED <<account, rows, admin, raced, quiet, sealed>>

TokenExpires(t) ==
  /\ token[t] = "live" /\ t \notin expired
  /\ expired' = expired \cup {t}
  /\ UNCHANGED <<account, token, parent, session, call, admin, raced, quiet, sealed>>

(* Logout of one session; any error is discarded. *)
Logout(t) ==
  /\ token[t] # "unused"
  /\ RevokeRows({t})
  /\ UNCHANGED <<account, call, admin, raced, quiet, sealed>>

-----------------------------------------------------------------------------
(* Operations on the account *)

RevokeAllUserTokens ==
  /\ RevokeRows({t \in Tokens : token[t] = "live"})
  /\ quiet' = \A c \in Calls : call[c] = Idle
  /\ sealed' = quiet'
  /\ UNCHANGED <<account, call, raced>>

(* A statement on the users row. *)
AccountChanges ==
  /\ sealed' = quiet
  /\ UNCHANGED <<rows, call, raced, quiet>>

(* SetActive: the row first, then the tokens of a locked account. *)
LockUser(a) ==
  /\ admin[a] = AdminIdle
  /\ active' = FALSE
  /\ admin' = [admin EXCEPT ![a].at = "revoke"]
  /\ AccountChanges
  /\ UNCHANGED <<scope, password>>

UnlockUser(a) ==
  /\ admin[a] = AdminIdle
  /\ active' = TRUE
  /\ AccountChanges
  /\ UNCHANGED <<scope, password, admin>>

(* UpdateUser: tokens are revoked only when the body names a role. *)
UpdateUser(a, new, named) ==
  /\ admin[a] = AdminIdle
  /\ scope' = new
  /\ admin' = IF named THEN [admin EXCEPT ![a].at = "revoke"] ELSE admin
  /\ AccountChanges
  /\ UNCHANGED <<active, password>>

(* LogoutAll, or the end of SetActive and UpdateUser. *)
RevokeAll(a) ==
  /\ admin[a].at \in {"idle", "revoke"}
  /\ RevokeAllUserTokens
  /\ admin' = [admin EXCEPT ![a] = AdminIdle]

(* ChangePassword, once the old password has been compared, and             *)
(* ResetPassword: the tokens first, then the row.                           *)
StartPassword(a, new) ==
  /\ admin[a] = AdminIdle
  /\ admin' = [admin EXCEPT ![a] = [at |-> "revoke first", new |-> new]]
  /\ UNCHANGED <<account, rows, call, raced, quiet, sealed>>

RevokeFirst(a) ==
  /\ admin[a].at = "revoke first"
  /\ RevokeAllUserTokens
  /\ admin' = [admin EXCEPT ![a].at = "password"]

(* The revocation failed: its error is discarded. *)
RevokeFails(a) ==
  /\ admin[a].at = "revoke first"
  /\ admin' = [admin EXCEPT ![a].at = "password"]
  /\ UNCHANGED <<account, rows, call, raced, quiet, sealed>>

UpdatePassword(a) ==
  /\ admin[a].at = "password"
  /\ password' = admin[a].new
  /\ admin' = [admin EXCEPT ![a] = AdminIdle]
  /\ AccountChanges
  /\ UNCHANGED <<active, scope>>

StopAdmin(a) ==
  /\ admin[a].at # "idle"
  /\ admin' = [admin EXCEPT ![a] = AdminIdle]
  /\ UNCHANGED <<account, rows, call, raced, quiet, sealed>>

-----------------------------------------------------------------------------

SessionStep(c) ==
  \/ Login(c) \/ RefreshRevoke(c) \/ RefreshLoad(c) \/ StopCall(c)
  \/ \E t \in Tokens : RefreshFind(c, t) \/ SaveRefreshToken(c, t)

AccountStep(a) ==
  \/ LockUser(a) \/ UnlockUser(a) \/ RevokeAll(a)
  \/ \E new \in Scopes, named \in BOOLEAN : UpdateUser(a, new, named)
  \/ \E new \in Passwords : StartPassword(a, new)
  \/ RevokeFirst(a) \/ RevokeFails(a) \/ UpdatePassword(a) \/ StopAdmin(a)

Next ==
  \/ \E c \in Calls : SessionStep(c)
  \/ \E a \in Admins : AccountStep(a)
  \/ \E t \in Tokens : Logout(t) \/ TokenExpires(t)

Spec == Init /\ [][Next]_vars

-----------------------------------------------------------------------------
(* Properties *)

TypeOK ==
  /\ active \in BOOLEAN /\ scope \in Scopes /\ password \in Passwords
  /\ token \in [Tokens -> {"unused", "live", "revoked"}]
  /\ expired \subseteq Tokens
  /\ parent \in [Tokens -> Tokens \cup {NoToken}]
  /\ session \in [Tokens -> Sessions \cup {NoSession}]
  /\ \A t \in Tokens : token[t] = "live" <=> session[t] # NoSession
  /\ call \in [Calls -> CallStates]
  /\ admin \in [Admins -> AdminStates]
  /\ raced \subseteq Tokens
  /\ quiet \in BOOLEAN /\ sealed \in BOOLEAN

Issued(t) == token[t] # "unused"
Succeeds(t, p) == Issued(t) /\ parent[t] = p

(* A token and its successor are never both good: whatever fails on the way,*)
(* the token a refresh was given is revoked before the new one exists.      *)
RotationRetiresTheParent ==
  \A t \in Tokens, p \in Tokens : Succeeds(t, p) => token[p] = "revoked"

(* A token is exchanged at most once, unless two refreshes with it overlap: *)
(* a later one finds it revoked.                                            *)
OneSuccessorUnlessRaced ==
  \A p \in Tokens \ raced : \A t, u \in Tokens :
    Succeeds(t, p) /\ Succeeds(u, p) => t = u

Spent(p) == token[p] = "revoked" /\ \A c \in Calls : ~Holds(c, p)

(* Once a revoked token is in nobody's hands nothing comes of it any more:  *)
(* it stays revoked and gets no further successor.                          *)
SpentTokensStaySpent ==
  [][\A p \in Tokens : Spent(p) =>
       Spent(p)' /\ \A t \in Tokens : Succeeds(t, p)' => Succeeds(t, p)]_vars

(* A lock, a change of role or of password means what it says once its      *)
(* revocation has met no Login or Refresh in flight: no live token of a     *)
(* locked account, none with an old scope, none begun with an old password. *)
SealedAccountHasNoStaleSession ==
  sealed => \A t \in Tokens :
    token[t] = "live" => active /\ session[t] = [scope |-> scope, proof |-> password]
=============================================================================
