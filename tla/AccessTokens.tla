---------------------------- MODULE AccessTokens ----------------------------
(***************************************************************************)
(* What an access token is worth: the middleware that lets requests in,     *)
(* the blacklist in Redis that Logout writes, and the clock, on top of the  *)
(* sessions of AuthSessions.  An access token is signed with the role and   *)
(* units the users row had when Login or Refresh read it, some time earlier,*)
(* and nothing looks at that row again until it expires.                    *)
(*                                                                         *)
(* UpdateUser is two statements here: it reads the role and, when the body  *)
(* names none, writes that role back.                                       *)
(***************************************************************************)
EXTENDS AuthSessions

CONSTANTS Roles, Units,
          Keep,          \* a role the body does not carry
          AccessTTL,     \* 15 minutes
          MaxTime,       \* bound on the clock, far below a refresh token's life
          MaxCalls,      \* bound on the calls begun
          NoAccess, Nothing

ASSUME ScopesAreRoles == Scopes = [role : Roles, unit : Units] /\ Keep \notin Roles
ASSUME TimesAreBounds == {AccessTTL, MaxTime} \subseteq Nat \ {0} /\ MaxCalls \in Nat

VARIABLES
  now,        \* the clock
  begun,      \* calls begun
  read,       \* read[c]: when c read the users row, until it issues its tokens
              \* (history)
  made,       \* made[c]: when c signed its access token; 0 if it has not
  access,     \* access[t]: the access token that came with refresh token t
  took,       \* took[t]: the time from that reading to that signing (history)
  leaving,    \* access tokens whose Logout has yet to reach Redis
  blacklist,  \* blacklist[t]: when t's key in Redis expires; 0 if it has none
  saved,      \* the blacklist in the last snapshot Redis took
  up,         \* Redis answers
  looked,     \* looked[a]: what a call on the users row has read, and will write
  out,        \* tokens logged out by a Logout Redis has not lost (history)
  had,        \* had[s]: when the account last had scope s (history)
  shut,       \* since when it has been locked and sealed (history)
  met         \* admin calls since whose look another one has written (history)

redis == <<leaving, blacklist, saved, up, out>>
tokens == <<read, made, access, took>>
allVars == <<vars, now, begun, tokens, redis, looked, had, shut, met>>

AccessInit ==
  /\ Init
  /\ now = 1 /\ begun = 0
  /\ read = [c \in Calls |-> 0] /\ made = read
  /\ access = [t \in Tokens |-> NoAccess]
  /\ took = [t \in Tokens |-> 0]
  /\ leaving = {} /\ out = {}
  /\ blacklist = [t \in Tokens |-> 0]
  /\ saved = blacklist
  /\ up = TRUE
  /\ looked = [a \in Admins |-> Nothing]
  /\ had = [s \in Scopes |-> IF s = scope THEN 1 ELSE 0]
  /\ shut = 0
  /\ met = {}

Begin == begun < MaxCalls /\ begun' = begun + 1

-----------------------------------------------------------------------------
(* Letting requests in *)

IsBlacklisted(t) == now < blacklist[t]

(* JWTAuth asks Redis, and goes on when it gets no answer. *)
JWTAuth(t) ==
  /\ access[t] # NoAccess
  /\ now < access[t].exp
  /\ ~(up /\ IsBlacklisted(t))

GenerateAccessTokenForLong(c) == [scope |-> call[c].scope, exp |-> made[c] + MaxTime]
GenerateAccessToken(c) == [scope |-> call[c].scope, exp |-> made[c] + AccessTTL]

-----------------------------------------------------------------------------
(* Sessions *)

(* Login compares the password, by bcrypt, with the row it has read; a      *)
(* Refresh has the row on its way.                                          *)
Read(c) ==
  /\ \/ Login(c) /\ Begin
     \/ RefreshLoad(c) /\ UNCHANGED begun
  /\ read' = [read EXCEPT ![c] = now]
  /\ UNCHANGED <<now, made, access, took, redis, looked, met>>

(* issueTokenPair signs the access token first; the row is not read again.  *)
Sign(c) ==
  /\ call[c].at = "save" /\ made[c] = 0
  /\ made' = [made EXCEPT ![c] = now]
  /\ UNCHANGED <<vars, now, begun, read, access, took, redis, looked, met>>

Done(c) == read' = [read EXCEPT ![c] = 0] /\ made' = [made EXCEPT ![c] = 0]

issueTokenPair(c, t) ==
  /\ made[c] # 0
  /\ SaveRefreshToken(c, t)
  /\ access' = [access EXCEPT ![t] = GenerateAccessToken(c)]
  /\ took' = [took EXCEPT ![t] = made[c] - read[c]]
  /\ Done(c)
  /\ UNCHANGED <<now, begun, redis, looked, met>>

Refresh(c) ==
  /\ \/ Begin /\ \E t \in Tokens : RefreshFind(c, t)
     \/ RefreshRevoke(c) /\ UNCHANGED begun
  /\ UNCHANGED <<now, tokens, redis, looked, met>>

Stop(c) ==
  /\ StopCall(c)
  /\ Done(c)
  /\ UNCHANGED <<now, begun, access, took, redis, looked, met>>

-----------------------------------------------------------------------------
(* Logout *)

(* The caller shows access token t and sends refresh token r. *)
LogoutRevoke(t, r) ==
  /\ JWTAuth(t)
  /\ Begin
  /\ Logout(r)
  /\ leaving' = leaving \cup {t}
  /\ UNCHANGED <<now, tokens, blacklist, saved, up, out, looked, met>>

BlacklistTTLRoundedDown(t) == access[t].exp - now - 1
BlacklistTTL(t) == AccessTTL

(* An error is discarded. *)
SetBlacklist(t) ==
  /\ t \in leaving
  /\ leaving' = leaving \ {t}
  /\ IF up THEN /\ blacklist' = [blacklist EXCEPT ![t] = now + BlacklistTTL(t)]
                /\ out' = out \cup {t}
           ELSE UNCHANGED <<blacklist, out>>
  /\ UNCHANGED <<vars, now, begun, tokens, saved, up, looked, met>>

(* A snapshot (--save 60 1); Redis is out of reach, or crashes and comes    *)
(* back with the last snapshot.                                             *)
RedisSaves ==
  /\ up /\ saved # blacklist
  /\ saved' = blacklist
  /\ UNCHANGED <<vars, now, begun, tokens, leaving, blacklist, up, out, looked, met>>
RedisAway ==
  /\ up' = ~up
  /\ blacklist' \in IF up THEN {blacklist, saved} ELSE {blacklist}
  /\ out' = {t \in out : blacklist'[t] = blacklist[t]}
  /\ UNCHANGED <<vars, now, begun, tokens, leaving, saved, looked, met>>

-----------------------------------------------------------------------------
(* Operations on the account *)

Free(a) == admin[a] = AdminIdle /\ looked[a] = Nothing

Account(a) ==
  /\ \/ /\ Free(a) /\ Begin
        /\ \/ LockUser(a) \/ UnlockUser(a) \/ RevokeAll(a)
           \/ \E new \in Passwords : StartPassword(a, new)
     \/ /\ admin[a] # AdminIdle /\ UNCHANGED begun
        /\ \/ RevokeAll(a) \/ RevokeFirst(a) \/ RevokeFails(a)
           \/ UpdatePassword(a) \/ StopAdmin(a)
  /\ UNCHANGED <<now, tokens, redis, looked, met>>

Look(a, does, role, unit) ==
  /\ Free(a) /\ Begin
  /\ looked' = [looked EXCEPT ![a] =
                  [does |-> does, found |-> scope.role, role |-> role, unit |-> unit]]
  /\ met' = met \ {a}
  /\ UNCHANGED <<vars, now, tokens, redis>>

UpdateUserLook(a, role, unit) == Look(a, "update", role, unit)

RoleWrittenDefault(a) == IF looked[a].role = Keep THEN SeedScope.role ELSE looked[a].role
RoleWritten(a) == IF looked[a].role = Keep THEN looked[a].found ELSE looked[a].role

UpdateUserWrite(a) ==
  /\ looked[a] # Nothing /\ looked[a].does = "update"
  /\ UpdateUser(a, [role |-> RoleWritten(a), unit |-> looked[a].unit], looked[a].role # Keep)
  /\ looked' = [looked EXCEPT ![a] = Nothing]
  /\ met' = met \cup {b \in Admins \ {a} : looked[b] # Nothing}
  /\ UNCHANGED <<now, begun, tokens, redis>>

GiveUp(a) ==
  /\ looked[a] # Nothing
  /\ looked' = [looked EXCEPT ![a] = Nothing]
  /\ UNCHANGED <<vars, now, begun, tokens, redis, met>>

Tick ==
  /\ now < MaxTime
  /\ now' = now + 1
  /\ UNCHANGED <<vars, begun, tokens, redis, looked, met>>

AccessStep ==
  \/ \E c \in Calls :
       \/ Read(c) \/ Sign(c) \/ Refresh(c) \/ Stop(c)
       \/ \E t \in Tokens : issueTokenPair(c, t)
  \/ \E t \in Tokens : SetBlacklist(t) \/ \E r \in Tokens : LogoutRevoke(t, r)
  \/ RedisSaves \/ RedisAway
  \/ \E a \in Admins :
       \/ Account(a) \/ UpdateUserWrite(a) \/ GiveUp(a)
       \/ \E role \in Roles \cup {Keep}, unit \in Units : UpdateUserLook(a, role, unit)
  \/ Tick

(* The account the histories keep of every step. *)
Noted ==
  /\ had' = [had EXCEPT ![scope'] = now']
  /\ shut' = IF active' \/ ~sealed' THEN 0
             ELSE IF active \/ ~sealed THEN now ELSE shut

-----------------------------------------------------------------------------
(* Properties *)

Lookups == [does : {"update", "assign"}, found : Roles, role : Roles \cup {Keep}, unit : Units]

AccessTypeOK ==
  /\ TypeOK
  /\ now \in 1 .. MaxTime /\ begun \in 0 .. MaxCalls
  /\ {read, made} \subseteq [Calls -> 0 .. MaxTime]
  /\ \A c \in Calls : made[c] # 0 => call[c].at = "save" /\ read[c] <= made[c]
  /\ took \in [Tokens -> 0 .. MaxTime]
  /\ access \in [Tokens -> [scope : Scopes, exp : 1 .. MaxTime + AccessTTL] \cup {NoAccess}]
  /\ leaving \cup out \subseteq {t \in Tokens : access[t] # NoAccess}
  /\ {blacklist, saved} \subseteq [Tokens -> 0 .. MaxTime + AccessTTL]
  /\ up \in BOOLEAN
  /\ looked \in [Admins -> Lookups \cup {Nothing}]
  /\ \A a \in Admins : looked[a] = Nothing \/ admin[a] = AdminIdle
  /\ had \in [Scopes -> 0 .. MaxTime] /\ shut \in 0 .. MaxTime
  /\ met \subseteq Admins

(* A session that has been logged out stays so: from the moment Redis has   *)
(* taken the key to the token's own end no request comes in with it,        *)
(* whatever Redis does, except while Redis does not answer and after a      *)
(* crash that took it back to a snapshot from before the logout.            *)
LogoutLasts == \A t \in out : up => ~JWTAuth(t)

(* Powers that were taken away end with one access token's life: whoever    *)
(* gets in claims a role and units that the account still had less than     *)
(* AccessTTL ago, however its sessions were renewed in the meantime, but    *)
(* for the time the one call that issued its token took between reading the *)
(* row and signing.                                                         *)
StalePowersEnd ==
  \A t \in Tokens : JWTAuth(t) => now < had[access[t].scope] + took[t] + AccessTTL

(* A lock whose revocation met no Login or Refresh in flight shuts the      *)
(* account out: AccessTTL later nobody gets in with any of its tokens.      *)
LockShutsOut ==
  ~active /\ sealed /\ now >= shut + AccessTTL => \A t \in Tokens : ~JWTAuth(t)
=============================================================================
