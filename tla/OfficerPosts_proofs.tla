------------------------- MODULE OfficerPosts_proofs -------------------------
(***************************************************************************)
(* Proofs about AccessTokens and OfficerPosts, for every number of tokens,  *)
(* of calls and of administrators, every life of an access token and every *)
(* set of roles, units, posts and days.  What AuthSessions_proofs says of   *)
(* the sessions is used as it stands: the composition is a run of           *)
(* AuthSessions to whoever sees only its variables.                        *)
(***************************************************************************)
EXTENDS OfficerPosts, AuthSessions_proofs

(* How late an access token can end: one life after its account last had    *)
(* the scope it claims, but for the time its call took to sign it; and one  *)
(* life from now at the latest.  What a call has read, the account had then.*)
EndsAreBounded ==
  /\ \A s \in Scopes : had[s] <= now
  /\ \A c \in Calls : /\ read[c] <= now /\ made[c] <= now
                      /\ call[c].at = "save" => read[c] <= had[call[c].scope]
  /\ \A t \in Tokens : access[t] # NoAccess =>
       /\ Issued(t)
       /\ access[t].exp <= had[access[t].scope] + took[t] + AccessTTL
       /\ access[t].exp <= now + AccessTTL

(* The key of a logout outlives the token. *)
KeysOutlive == \A t \in out : access[t].exp <= blacklist[t]

(* What a locked and sealed account has given out ends with the lock's      *)
(* first life of a token.                                                   *)
ShutEnds ==
  ~active /\ sealed =>
    \A t \in Tokens : access[t] # NoAccess => access[t].exp <= shut + AccessTTL

(* A call nobody overtook still knows the role. *)
LooksAreCurrent ==
  \A a \in Admins \ met : looked[a] # Nothing => looked[a].found = scope.role

PInv ==
  /\ PostTypeOK /\ IInv
  /\ EndsAreBounded /\ KeysOutlive /\ ShutEnds /\ LooksAreCurrent

-----------------------------------------------------------------------------
(* The composition, seen from the sessions *)

LEMMA RolesWritten ==
  ASSUME AccessTypeOK, NEW a \in Admins, looked[a] # Nothing
  PROVE  /\ looked[a] \in Lookups
         /\ RoleWritten(a) \in Roles /\ looked[a].found \in Roles
         /\ [role |-> RoleWritten(a), unit |-> looked[a].unit] \in Scopes
  <1>1. looked[a] \in Lookups
    BY DEF AccessTypeOK
  <1>2. QED
    BY <1>1, ScopesAreRoles DEF Lookups, RoleWritten

LEMMA AccountIsAccountStep ==
  ASSUME NEW a \in Admins, Account(a)
  PROVE  AccountStep(a)
  BY DEF Account, AccountStep

LEMMA WriteIsAccountStep ==
  ASSUME AccessTypeOK, NEW a \in Admins, UpdateUserWrite(a)
  PROVE  AccountStep(a)
  <1> DEFINE new == [role |-> RoleWritten(a), unit |-> looked[a].unit]
             named == looked[a].role # Keep
  <1>1. new \in Scopes
    BY RolesWritten DEF UpdateUserWrite
  <1>2. UpdateUser(a, new, named)
    BY DEF UpdateUserWrite
  <1>3. named \in BOOLEAN
    OBVIOUS
  <1> HIDE DEF new, named
  <1>4. QED
    BY <1>1, <1>2, <1>3 DEF AccountStep

(* A step of the composition is a step of the sessions, or none.            *)
LEMMA StepOfSessions ==
  ASSUME AccessTypeOK, [PostNext]_<<allVars, post>>
  PROVE  [Next]_vars
  <1>1. CASE PostStep
    BY <1>1 DEF PostStep, AssignUserLook, Look, CreateAssignment, EndAssignment
  <1>2. CASE AccessStep
    <2>1. ASSUME NEW c \in Calls,
                 Read(c) \/ Refresh(c) \/ Stop(c) \/ \E t \in Tokens : issueTokenPair(c, t)
          PROVE  SessionStep(c)
      BY <2>1 DEF Read, Refresh, Stop, issueTokenPair, SessionStep
    <2>2. ASSUME NEW t \in Tokens, NEW r \in Tokens, LogoutRevoke(t, r)
          PROVE  Logout(r)
      BY <2>2 DEF LogoutRevoke
    <2>3. ASSUME NEW a \in Admins, Account(a) \/ UpdateUserWrite(a)
          PROVE  AccountStep(a)
      BY <2>3, AccountIsAccountStep, WriteIsAccountStep
    <2>4. ASSUME NEW a \in Admins, NEW role \in Roles \cup {Keep}, NEW unit \in Units,
                 UpdateUserLook(a, role, unit)
          PROVE  UNCHANGED vars
      BY <2>4 DEF UpdateUserLook, Look
    <2>5. ASSUME NEW t \in Tokens, SetBlacklist(t) PROVE UNCHANGED vars
      BY <2>5 DEF SetBlacklist
    <2>6. ASSUME NEW a \in Admins, GiveUp(a) PROVE UNCHANGED vars
      BY <2>6 DEF GiveUp
    <2>7. CASE RedisSaves \/ RedisAway \/ Tick
      BY <2>7 DEF RedisSaves, RedisAway, Tick
    <2>8. ASSUME NEW c \in Calls, Sign(c) PROVE UNCHANGED vars
      BY <2>8 DEF Sign
    <2>9. QED
      BY <1>2, <2>1, <2>2, <2>3, <2>4, <2>5, <2>6, <2>7, <2>8 DEF AccessStep, Next
  <1>3. CASE UNCHANGED <<allVars, post>>
    BY <1>3 DEF allVars
  <1>4. QED
    BY <1>1, <1>2, <1>3 DEF PostNext

-----------------------------------------------------------------------------
(* Type correctness *)

(* Which step writes what: the clock, the tokens, the calls about to issue. *)
LEMMA WhoWritesTokens ==
  ASSUME AccessTypeOK, PostNext
  PROVE  \/ \E c \in Calls : Read(c) \/ Sign(c) \/ Stop(c)
         \/ \E c \in Calls, t \in Tokens : issueTokenPair(c, t)
         \/ Tick
         \/ /\ UNCHANGED <<now, tokens>>
            /\ \A c \in Calls : \/ call'[c] = call[c]
                                \/ call[c].at # "save" /\ call'[c].at # "save"
            /\ \A t \in Tokens : Issued(t) => Issued(t)'
  <1> DEFINE Others ==
        /\ UNCHANGED <<now, tokens>>
        /\ \A c \in Calls : \/ call'[c] = call[c]
                            \/ call[c].at # "save" /\ call'[c].at # "save"
        /\ \A t \in Tokens : Issued(t) => Issued(t)'
  <1>1. CASE PostStep
    BY <1>1 DEF PostStep, AssignUserLook, Look, CreateAssignment, EndAssignment, vars, rows,
       Issued
  <1>2. ASSUME NEW c \in Calls, Refresh(c) PROVE Others
    <2>1. UNCHANGED <<now, tokens>>
      BY <1>2 DEF Refresh
    <2>2. call[c] \in CallStates /\ call \in [Calls -> CallStates]
      BY DEF AccessTypeOK, TypeOK
    <2>3. CASE \E t \in Tokens : RefreshFind(c, t)
      BY <2>1, <2>2, <2>3 DEF RefreshFind, rows, Issued, Idle
    <2>4. CASE RefreshRevoke(c)
      <3>1. \A d \in Calls : \/ call'[d] = call[d]
                             \/ call[d].at = "revoke" /\ call'[d].at = "load"
        BY <2>2, <2>4 DEF RefreshRevoke, CallStates
      <3>2. \A t \in Tokens : Issued(t) => Issued(t)'
        BY <2>4 DEF RefreshRevoke, RevokeRows, Issued
      <3>3. QED
        BY <2>1, <3>1, <3>2
    <2>5. QED
      BY <1>2, <2>3, <2>4 DEF Refresh
  <1>3. ASSUME NEW t \in Tokens, NEW r \in Tokens, LogoutRevoke(t, r) PROVE Others
    BY <1>3 DEF LogoutRevoke, Logout, RevokeRows, Issued
  <1>4. ASSUME NEW a \in Admins, Account(a) \/ UpdateUserWrite(a) PROVE Others
    <2>1. UNCHANGED <<now, tokens, call>>
      BY <1>4 DEF Account, UpdateUserWrite, UpdateUser, LockUser, UnlockUser, RevokeAll,
         StartPassword, RevokeFirst, RevokeFails, UpdatePassword, StopAdmin, AccountChanges,
         RevokeAllUserTokens
    <2>2. \A t \in Tokens : Issued(t) => Issued(t)'
      BY <1>4 DEF Account, UpdateUserWrite, UpdateUser, LockUser, UnlockUser, RevokeAll,
         StartPassword, RevokeFirst, RevokeFails, UpdatePassword, StopAdmin, AccountChanges,
         RevokeAllUserTokens, RevokeRows, rows, Issued
    <2>3. QED
      BY <2>1, <2>2
  <1>5. ASSUME UNCHANGED <<vars, now, tokens>> PROVE Others
    BY <1>5 DEF vars, rows, Issued
  <1>6. ASSUME NEW t \in Tokens, SetBlacklist(t) PROVE Others
    BY <1>5, <1>6 DEF SetBlacklist
  <1>7. ASSUME NEW a \in Admins, NEW role \in Roles \cup {Keep}, NEW unit \in Units,
               UpdateUserLook(a, role, unit)
        PROVE  Others
    BY <1>5, <1>7 DEF UpdateUserLook, Look
  <1>8. CASE RedisSaves \/ RedisAway
    BY <1>5, <1>8 DEF RedisSaves, RedisAway
  <1>9. ASSUME NEW a \in Admins, GiveUp(a) PROVE Others
    BY <1>5, <1>9 DEF GiveUp
  <1> HIDE DEF Others
  <1>10. CASE AccessStep
    BY <1>2, <1>3, <1>4, <1>6, <1>7, <1>8, <1>9, <1>10 DEF AccessStep, Others
  <1>11. QED
    BY <1>1, <1>10 DEF PostNext, Others

LEMMA TimesAreNumbers ==
  ASSUME AccessTypeOK
  PROVE  /\ now \in Nat /\ AccessTTL \in Nat \ {0} /\ shut \in Nat
         /\ \A s \in Scopes : had[s] \in Nat
         /\ \A c \in Calls : read[c] \in Nat /\ made[c] \in Nat /\ call[c] \in CallStates
                             /\ call[c].scope \in Scopes
         /\ \A t \in Tokens : /\ blacklist[t] \in Nat /\ took[t] \in Nat
                              /\ access[t] # NoAccess =>
                                   access[t].scope \in Scopes /\ access[t].exp \in Nat
  BY TimesAreBounds DEF AccessTypeOK, TypeOK, CallStates

LEMMA TokensTypeStep ==
  ASSUME AccessTypeOK, PostNext
  PROVE  /\ now' \in {now, now + 1} /\ now' \in 1 .. MaxTime
         /\ {read', made'} \subseteq [Calls -> 0 .. MaxTime]
         /\ took' \in [Tokens -> 0 .. MaxTime]
         /\ access' \in [Tokens -> [scope : Scopes, exp : 1 .. MaxTime + AccessTTL]
                                     \cup {NoAccess}]
  <1> USE TimesAreBounds DEF tokens
  <1>1. ASSUME NEW c \in Calls, Read(c) \/ Sign(c) \/ Stop(c)
        PROVE  /\ now' = now /\ access' = access /\ took' = took
               /\ {read', made'} \subseteq [Calls -> 0 .. MaxTime]
    BY <1>1 DEF Read, Sign, Stop, Done, AccessTypeOK
  <1>2. ASSUME NEW c \in Calls, NEW t \in Tokens, issueTokenPair(c, t)
        PROVE  /\ now' = now
               /\ {read', made'} \subseteq [Calls -> 0 .. MaxTime]
               /\ took' \in [Tokens -> 0 .. MaxTime]
               /\ access' \in [Tokens -> [scope : Scopes, exp : 1 .. MaxTime + AccessTTL]
                                           \cup {NoAccess}]
    <2>1. /\ made[c] \in 0 .. MaxTime /\ read[c] \in 0 .. MaxTime /\ read[c] <= made[c]
          /\ call[c].scope \in Scopes
      BY <1>2, TimesAreNumbers DEF issueTokenPair, AccessTypeOK
    <2>2. GenerateAccessToken(c) \in [scope : Scopes, exp : 1 .. MaxTime + AccessTTL]
      <3>1. made[c] + AccessTTL \in 1 .. MaxTime + AccessTTL
        BY <2>1
      <3>2. QED
        BY <2>1, <3>1 DEF GenerateAccessToken
    <2>3. made[c] - read[c] \in 0 .. MaxTime
      BY <2>1
    <2>4. now' = now /\ {read', made'} \subseteq [Calls -> 0 .. MaxTime]
      BY <1>2 DEF issueTokenPair, Done, AccessTypeOK
    <2>5. QED
      BY <1>2, <2>2, <2>3, <2>4 DEF issueTokenPair, AccessTypeOK
  <1>3. CASE Tick
    BY <1>3 DEF Tick, AccessTypeOK
  <1>4. QED
    BY WhoWritesTokens, <1>1, <1>2, <1>3 DEF AccessTypeOK

(* A call has signed only once it has read, and until it issues.            *)
LEMMA SignedTypeStep ==
  ASSUME AccessTypeOK, EndsAreBounded, PostNext, NEW c \in Calls, made'[c] # 0
  PROVE  call'[c].at = "save" /\ read'[c] <= made'[c]
  <1> USE DEF tokens
  <1>1. /\ made[c] # 0 => call[c].at = "save" /\ read[c] <= made[c]
        /\ read[c] <= now /\ now \in Nat
        /\ read \in [Calls -> 0 .. MaxTime] /\ made \in [Calls -> 0 .. MaxTime]
    BY TimesAreNumbers DEF AccessTypeOK, EndsAreBounded
  <1>2. ASSUME NEW d \in Calls, Read(d) PROVE d # c
    <2>1. call[d].at # "save"
      BY <1>2 DEF Read, Login, RefreshLoad, Idle
    <2>2. made' = made
      BY <1>2 DEF Read
    <2>3. QED
      BY <1>1, <2>1, <2>2
  <1>3. ASSUME NEW d \in Calls, Read(d) PROVE call'[c] = call[c] /\ UNCHANGED <<read[c], made[c]>>
    BY <1>1, <1>2, <1>3 DEF Read, Login, RefreshLoad, AccessTypeOK, TypeOK
  <1>4. ASSUME NEW d \in Calls, Sign(d), d # c
        PROVE  call'[c] = call[c] /\ UNCHANGED <<read[c], made[c]>>
    BY <1>1, <1>4 DEF Sign, vars
  <1>5. ASSUME Sign(c) PROVE call'[c].at = "save" /\ read'[c] <= made'[c]
    BY <1>1, <1>5 DEF Sign, vars
  <1>6. ASSUME NEW d \in Calls, Stop(d) \/ \E t \in Tokens : issueTokenPair(d, t)
        PROVE  call'[c] = call[c] /\ UNCHANGED <<read[c], made[c]>>
    <2>1. c # d
      BY <1>1, <1>6 DEF Stop, issueTokenPair, Done
    <2>2. QED
      BY <1>1, <1>6, <2>1 DEF Stop, StopCall, issueTokenPair, SaveRefreshToken, Done,
         AccessTypeOK, TypeOK
  <1>7. CASE Tick
    BY <1>1, <1>7 DEF Tick, vars
  <1>8. QED
    BY WhoWritesTokens, <1>1, <1>3, <1>4, <1>5, <1>6, <1>7

(* Only an issue gives out an access token, with a row of its own.          *)
LEMMA GivenOut ==
  ASSUME AccessTypeOK, PostNext, NEW t \in Tokens
  PROVE  \/ /\ access'[t] = access[t] /\ took'[t] = took[t] /\ (Issued(t) => Issued(t)')
         \/ \E c \in Calls : /\ issueTokenPair(c, t)
                             /\ ~Issued(t) /\ Issued(t)'
                             /\ access'[t] = GenerateAccessToken(c)
                             /\ took'[t] = made[c] - read[c]
  <1>1. ASSUME NEW c \in Calls, Read(c) \/ Sign(c) \/ Stop(c)
        PROVE  access'[t] = access[t] /\ took'[t] = took[t] /\ (Issued(t) => Issued(t)')
    BY <1>1 DEF Read, Sign, Stop, Login, RefreshLoad, StopCall, vars, rows, Issued
  <1>2. ASSUME NEW c \in Calls, NEW u \in Tokens, issueTokenPair(c, u)
        PROVE  \/ access'[t] = access[t] /\ took'[t] = took[t] /\ (Issued(t) => Issued(t)')
               \/ /\ t = u /\ ~Issued(t) /\ Issued(t)'
                  /\ access'[t] = GenerateAccessToken(c) /\ took'[t] = made[c] - read[c]
    BY <1>2 DEF issueTokenPair, SaveRefreshToken, Issued, AccessTypeOK, TypeOK
  <1>3. CASE Tick
    BY <1>3 DEF Tick, vars, rows, Issued, tokens
  <1>4. QED
    BY WhoWritesTokens, <1>1, <1>2, <1>3 DEF tokens

(* Logout and its key. *)
LEMMA RedisTypeStep ==
  ASSUME AccessTypeOK, PostNext
  PROVE  /\ begun' \in 0 .. MaxCalls
         /\ leaving' \cup out' \subseteq {t \in Tokens : access[t] # NoAccess}
         /\ {blacklist', saved'} \subseteq [Tokens -> 0 .. MaxTime + AccessTTL]
         /\ up' \in BOOLEAN
  <1> DEFINE Goal == /\ begun' \in 0 .. MaxCalls
                     /\ leaving' \cup out' \subseteq {t \in Tokens : access[t] # NoAccess}
                     /\ {blacklist', saved'} \subseteq [Tokens -> 0 .. MaxTime + AccessTTL]
                     /\ up' \in BOOLEAN
  <1> SUFFICES Goal
    OBVIOUS
  <1> USE TimesAreBounds DEF AccessTypeOK, redis
  <1>1. ASSUME UNCHANGED redis, UNCHANGED begun \/ Begin PROVE Goal
    BY <1>1 DEF Begin
  <1>2. CASE PostStep
    BY <1>1, <1>2 DEF PostStep, AssignUserLook, Look, CreateAssignment, EndAssignment
  <1>3. ASSUME NEW c \in Calls, NEW t \in Tokens, issueTokenPair(c, t) PROVE Goal
    BY <1>1, <1>3 DEF issueTokenPair
  <1>4. ASSUME NEW c \in Calls, Read(c) \/ Sign(c) \/ Refresh(c) \/ Stop(c) PROVE Goal
    BY <1>1, <1>4 DEF Read, Sign, Refresh, Stop
  <1>5. ASSUME NEW t \in Tokens, NEW r \in Tokens, LogoutRevoke(t, r) PROVE Goal
    BY <1>5 DEF LogoutRevoke, JWTAuth, Begin
  <1>6. ASSUME NEW t \in Tokens, SetBlacklist(t) PROVE Goal
    <2>1. now + BlacklistTTL(t) \in 0 .. MaxTime + AccessTTL
      BY DEF BlacklistTTL
    <2>2. blacklist' \in [Tokens -> 0 .. MaxTime + AccessTTL]
      BY <1>6, <2>1 DEF SetBlacklist
    <2>3. QED
      BY <1>6, <2>2 DEF SetBlacklist
  <1>7. CASE RedisSaves \/ RedisAway
    BY <1>7 DEF RedisSaves, RedisAway
  <1>8. ASSUME NEW a \in Admins, Account(a) \/ UpdateUserWrite(a) \/ GiveUp(a) PROVE Goal
    BY <1>1, <1>8 DEF Account, UpdateUserWrite, GiveUp
  <1>9. ASSUME NEW a \in Admins, NEW role \in Roles \cup {Keep}, NEW unit \in Units,
               UpdateUserLook(a, role, unit)
        PROVE  Goal
    BY <1>1, <1>9 DEF UpdateUserLook, Look
  <1>10. CASE Tick
    BY <1>1, <1>10 DEF Tick
  <1> HIDE DEF Goal
  <1>11. CASE AccessStep
    BY <1>3, <1>4, <1>5, <1>6, <1>7, <1>8, <1>9, <1>10, <1>11 DEF AccessStep
  <1>12. QED
    BY <1>2, <1>11 DEF PostNext

(* A call that has looked has its administrator to itself until it writes.  *)
LEMMA LookedTypeStep ==
  ASSUME AccessTypeOK, PostNext
  PROVE  /\ looked' \in [Admins -> Lookups \cup {Nothing}]
         /\ \A a \in Admins : looked'[a] = Nothing \/ admin'[a] = AdminIdle
         /\ met' \subseteq Admins
  <1> DEFINE Goal == /\ looked' \in [Admins -> Lookups \cup {Nothing}]
                     /\ \A a \in Admins : looked'[a] = Nothing \/ admin'[a] = AdminIdle
                     /\ met' \subseteq Admins
  <1> SUFFICES Goal
    OBVIOUS
  <1>1. /\ looked \in [Admins -> Lookups \cup {Nothing}]
        /\ admin \in [Admins -> AdminStates]
        /\ \A a \in Admins : looked[a] = Nothing \/ admin[a] = AdminIdle
        /\ met \subseteq Admins
    BY DEF AccessTypeOK, TypeOK
  <1>2. ASSUME UNCHANGED <<looked, admin, met>> PROVE Goal
    BY <1>1, <1>2
  <1>3. ASSUME NEW a \in Admins, NEW does \in {"update", "assign"},
               NEW role \in Roles \cup {Keep}, NEW unit \in Units, Look(a, does, role, unit)
        PROVE  Goal
    <2> DEFINE seen == [does |-> does, found |-> scope.role, role |-> role, unit |-> unit]
    <2>1. scope.role \in Roles
      BY ScopesAreRoles DEF AccessTypeOK, TypeOK
    <2>2. seen \in Lookups
      BY <2>1 DEF Lookups
    <2>3. looked' = [looked EXCEPT ![a] = seen] /\ UNCHANGED admin /\ met' = met \ {a}
          /\ admin[a] = AdminIdle
      BY <1>3 DEF Look, Free, vars
    <2> HIDE DEF seen
    <2>4. QED
      BY <1>1, <2>2, <2>3
  <1>4. ASSUME NEW a \in Admins, looked' = [looked EXCEPT ![a] = Nothing],
               \A b \in Admins \ {a} : admin'[b] = admin[b], met' \subseteq Admins
        PROVE  Goal
    BY <1>1, <1>4
  <1>5. ASSUME NEW a \in Admins, Account(a) PROVE Goal
    <2>1. UNCHANGED <<looked, met>>
      BY <1>5 DEF Account
    <2>2. looked[a] = Nothing
      BY <1>1, <1>5 DEF Account, Free
    <2>3. \A b \in Admins \ {a} : admin'[b] = admin[b]
      BY <1>1, <1>5 DEF Account, LockUser, UnlockUser, RevokeAll, StartPassword, RevokeFirst,
         RevokeFails, UpdatePassword, StopAdmin
    <2>4. QED
      BY <1>1, <2>1, <2>2, <2>3
  <1>6. ASSUME NEW a \in Admins, UpdateUserWrite(a) PROVE Goal
    <2>1. \A b \in Admins \ {a} : admin'[b] = admin[b]
      BY <1>1, <1>6 DEF UpdateUserWrite, UpdateUser
    <2>2. met' \subseteq Admins
      BY <1>1, <1>6 DEF UpdateUserWrite
    <2>3. QED
      BY <1>4, <1>6, <2>1, <2>2 DEF UpdateUserWrite
  <1>7. ASSUME NEW a \in Admins, GiveUp(a) PROVE Goal
    BY <1>1, <1>4, <1>7 DEF GiveUp, vars
  <1>8. CASE PostStep
    <2>1. ASSUME NEW a \in Admins, NEW unit \in Units, AssignUserLook(a, unit) PROVE Goal
      BY <1>3, <2>1 DEF AssignUserLook
    <2>2. ASSUME NEW a \in Admins, NEW i \in Posts, NEW day \in Days,
                 CreateAssignment(a, i, day)
          PROVE  Goal
      BY <1>1, <1>4, <2>2 DEF CreateAssignment, vars
    <2>3. ASSUME NEW i \in Posts, NEW day \in Days, EndAssignment(i, day) PROVE Goal
      BY <1>2, <2>3 DEF EndAssignment, vars
    <2> HIDE DEF Goal
    <2>4. QED
      BY <1>8, <2>1, <2>2, <2>3 DEF PostStep
  <1>9. ASSUME NEW c \in Calls, NEW t \in Tokens, issueTokenPair(c, t) PROVE Goal
    BY <1>2, <1>9 DEF issueTokenPair, SaveRefreshToken
  <1>10. ASSUME NEW c \in Calls, Read(c) \/ Sign(c) \/ Refresh(c) \/ Stop(c) PROVE Goal
    BY <1>2, <1>10 DEF Read, Sign, Login, RefreshLoad, Refresh, RefreshFind, RefreshRevoke, Stop,
       StopCall, vars
  <1>11. ASSUME NEW t \in Tokens, SetBlacklist(t) PROVE Goal
    BY <1>2, <1>11 DEF SetBlacklist, vars
  <1>12. ASSUME NEW t \in Tokens, NEW r \in Tokens, LogoutRevoke(t, r) PROVE Goal
    BY <1>2, <1>12 DEF LogoutRevoke, Logout
  <1>13. CASE RedisSaves \/ RedisAway \/ Tick
    BY <1>2, <1>13 DEF RedisSaves, RedisAway, Tick, vars
  <1>14. ASSUME NEW a \in Admins, NEW role \in Roles \cup {Keep}, NEW unit \in Units,
                UpdateUserLook(a, role, unit)
         PROVE  Goal
    BY <1>3, <1>14 DEF UpdateUserLook
  <1> HIDE DEF Goal
  <1>15. CASE AccessStep
    BY <1>5, <1>6, <1>7, <1>9, <1>10, <1>11, <1>12, <1>13, <1>14, <1>15 DEF AccessStep
  <1>16. QED
    BY <1>8, <1>15 DEF PostNext

LEMMA HistoryTypeStep ==
  ASSUME AccessTypeOK, TypeOK', PostNext
  PROVE  had' \in [Scopes -> 0 .. MaxTime] /\ shut' \in 0 .. MaxTime
  <1>1. scope' \in Scopes /\ now' \in 1 .. MaxTime
    BY TokensTypeStep DEF TypeOK
  <1>2. QED
    BY <1>1, TimesAreBounds DEF PostNext, Noted, AccessTypeOK

LEMMA PostsTypeStep ==
  ASSUME PostTypeOK, PostNext
  PROVE  post' \in [Posts -> Assignments \cup {NoPost}]
  <1>1. ASSUME NEW a \in Admins, NEW i \in Posts, NEW day \in Days, CreateAssignment(a, i, day)
        PROVE  post' \in [Posts -> Assignments \cup {NoPost}]
    <2> DEFINE new == [unit |-> looked[a].unit, role |-> RoleKept(a),
                       start |-> day, end |-> NoDay]
    <2>1. looked[a] \in Lookups
      BY <1>1, RolesWritten DEF CreateAssignment, PostTypeOK
    <2>2. new \in Assignments
      BY <2>1 DEF Lookups, Assignments, RoleKept
    <2>3. post' = [post EXCEPT ![i] = new]
      BY <1>1 DEF CreateAssignment
    <2> HIDE DEF new
    <2>4. QED
      BY <2>2, <2>3 DEF PostTypeOK
  <1>2. ASSUME NEW i \in Posts, NEW day \in Days, EndAssignment(i, day)
        PROVE  post' \in [Posts -> Assignments \cup {NoPost}]
    <2>1. Open(i) => [post[i] EXCEPT !.end = day] \in Assignments
      BY DEF Open, PostTypeOK, Assignments
    <2>2. QED
      BY <1>2, <2>1 DEF EndAssignment, PostTypeOK
  <1>3. QED
    BY <1>1, <1>2 DEF PostNext, PostStep, PostTypeOK

LEMMA PostTypeStep ==
  ASSUME PostTypeOK, IInv, EndsAreBounded, PostNext
  PROVE  PostTypeOK'
  <1>1. AccessTypeOK
    BY DEF PostTypeOK
  <1>2. TypeOK'
    BY <1>1, StepOfSessions, TypeStep
  <1>3. {t \in Tokens : access[t] # NoAccess} \subseteq {t \in Tokens : access'[t] # NoAccess}
    BY <1>1, GivenOut DEF EndsAreBounded
  <1>4. \A c \in Calls : made'[c] # 0 => call'[c].at = "save" /\ read'[c] <= made'[c]
    BY <1>1, SignedTypeStep
  <1>5. QED
    BY <1>1, <1>2, <1>3, <1>4, TokensTypeStep, RedisTypeStep, LookedTypeStep, HistoryTypeStep,
       PostsTypeStep DEF AccessTypeOK, PostTypeOK

-----------------------------------------------------------------------------
(* The invariants *)

(* The account keeps having had what it had.                                *)
LEMMA HadGrows ==
  ASSUME PInv, PostTypeOK', PostNext
  PROVE  /\ \A s \in Scopes : had[s] <= had'[s] /\ had'[s] <= now'
         /\ had'[scope'] = now' /\ scope' \in Scopes
         /\ now' \in {now, now + 1}
  <1>1. AccessTypeOK /\ AccessTypeOK'
    BY DEF PInv, PostTypeOK
  <1>2. now' \in {now, now + 1} /\ now \in Nat
    BY <1>1, TokensTypeStep, TimesAreNumbers
  <1>3. scope' \in Scopes /\ had \in [Scopes -> 0 .. MaxTime]
    BY <1>1 DEF AccessTypeOK, TypeOK
  <1>4. had' = [had EXCEPT ![scope'] = now'] /\ \A s \in Scopes : had[s] <= now
    BY DEF PostNext, Noted, PInv, EndsAreBounded
  <1>5. QED
    BY <1>1, <1>2, <1>3, <1>4, TimesAreNumbers

LEMMA EndsStep ==
  ASSUME PInv, PostTypeOK', PostNext
  PROVE  EndsAreBounded'
  <1>1. AccessTypeOK /\ AccessTypeOK' /\ EndsAreBounded
    BY DEF PInv, PostTypeOK
  <1>2. /\ \A s \in Scopes : had[s] \in Nat /\ had'[s] \in Nat
        /\ now \in Nat /\ now' \in Nat /\ now <= now' /\ AccessTTL \in Nat
        /\ \A c \in Calls : /\ made[c] \in Nat /\ made'[c] \in Nat
                            /\ read[c] \in Nat /\ read'[c] \in Nat
                            /\ call[c].scope \in Scopes /\ call'[c].scope \in Scopes
        /\ \A t \in Tokens : /\ took[t] \in Nat /\ took'[t] \in Nat
                             /\ access[t] # NoAccess =>
                                  access[t].scope \in Scopes /\ access[t].exp \in Nat
    BY <1>1, HadGrows, TimesAreBounds DEF AccessTypeOK, TypeOK, CallStates
  <1>3. \A c \in Calls : /\ read'[c] <= now' /\ made'[c] <= now'
                         /\ call'[c].at = "save" => read'[c] <= had'[call'[c].scope]
    <2> SUFFICES ASSUME NEW c \in Calls
                 PROVE  /\ read'[c] <= now' /\ made'[c] <= now'
                        /\ call'[c].at = "save" => read'[c] <= had'[call'[c].scope]
      OBVIOUS
    <2>1. CASE /\ read'[c] = read[c] /\ made'[c] \in {made[c], now}
               /\ call'[c] = call[c] \/ call'[c].at # "save"
      BY <2>1, <1>1, <1>2, HadGrows DEF EndsAreBounded
    <2>2. CASE read'[c] = 0 /\ made'[c] = 0
      BY <2>2, <1>2
    <2>3. CASE read'[c] = now' /\ made'[c] = made[c] /\ call'[c].scope = scope'
      BY <2>3, <1>1, <1>2, HadGrows DEF EndsAreBounded
    <2>4. ASSUME NEW d \in Calls, Read(d)
          PROVE  \/ /\ read'[c] = read[c] /\ made'[c] = made[c] /\ call'[c] = call[c]
                 \/ read'[c] = now' /\ made'[c] = made[c] /\ call'[c].scope = scope'
      BY <2>4, <1>1 DEF Read, Login, RefreshLoad, account, AccessTypeOK, TypeOK, CallStates
    <2>5. ASSUME NEW d \in Calls, Sign(d)
          PROVE  /\ read'[c] = read[c] /\ made'[c] \in {made[c], now} /\ call'[c] = call[c]
      BY <2>5, <1>1 DEF Sign, vars, AccessTypeOK
    <2>6. ASSUME NEW d \in Calls, Stop(d) \/ \E t \in Tokens : issueTokenPair(d, t)
          PROVE  \/ /\ read'[c] = read[c] /\ made'[c] = made[c] /\ call'[c] = call[c]
                 \/ read'[c] = 0 /\ made'[c] = 0
      BY <2>6, <1>1 DEF Stop, StopCall, issueTokenPair, SaveRefreshToken, Done, AccessTypeOK,
         TypeOK
    <2>7. CASE Tick
      BY <2>1, <2>7 DEF Tick, vars, tokens
    <2>8. QED
      BY <1>1, <2>1, <2>2, <2>3, <2>4, <2>5, <2>6, <2>7, WhoWritesTokens DEF tokens
  <1>4. \A t \in Tokens : access'[t] # NoAccess =>
          /\ Issued(t)'
          /\ access'[t].exp <= had'[access'[t].scope] + took'[t] + AccessTTL
          /\ access'[t].exp <= now' + AccessTTL
    <2> DEFINE Bounded(t) ==
          /\ access'[t].exp <= had'[access'[t].scope] + took'[t] + AccessTTL
          /\ access'[t].exp <= now' + AccessTTL
    <2> SUFFICES ASSUME NEW t \in Tokens, access'[t] # NoAccess
                 PROVE  Issued(t)' /\ Bounded(t)
      OBVIOUS
    <2>1. CASE /\ access'[t] = access[t] /\ took'[t] = took[t]
               /\ (Issued(t) => Issued(t)')
      <3>1. /\ Issued(t) /\ access[t].exp <= had[access[t].scope] + took[t] + AccessTTL
            /\ access[t].exp <= now + AccessTTL
        BY <2>1, <1>1 DEF EndsAreBounded
      <3>2. had[access[t].scope] <= had'[access[t].scope] /\ access[t].scope \in Scopes
        BY <2>1, <1>2, HadGrows
      <3>3. QED
        BY <2>1, <3>1, <3>2, <1>2
    <2>2. ASSUME NEW c \in Calls, issueTokenPair(c, t), took'[t] = made[c] - read[c],
                 access'[t] = GenerateAccessToken(c), Issued(t)'
          PROVE  Issued(t)' /\ Bounded(t)
      <3>1. read[c] <= had[call[c].scope] /\ made[c] <= now
        BY <2>2, <1>1 DEF EndsAreBounded, issueTokenPair, SaveRefreshToken
      <3>2. read[c] <= had'[call[c].scope]
        BY <3>1, <1>2, HadGrows
      <3>3. access'[t].scope = call[c].scope /\ access'[t].exp = made[c] + AccessTTL
        BY <2>2 DEF GenerateAccessToken
      <3>4. QED
        BY <2>2, <3>1, <3>2, <3>3, <1>2
    <2>3. CASE \E c \in Calls : /\ issueTokenPair(c, t) /\ took'[t] = made[c] - read[c]
                                /\ access'[t] = GenerateAccessToken(c) /\ Issued(t)'
      BY <2>2, <2>3
    <2> HIDE DEF Bounded
    <2>4. QED
      BY <1>1, <2>1, <2>3, GivenOut
  <1>5. QED
    BY <1>3, <1>4, HadGrows DEF EndsAreBounded

(* An access token that is out is nobody's to overwrite.                    *)
LEMMA GivenOutOnce ==
  ASSUME PInv, PostNext, NEW t \in Tokens, access[t] # NoAccess
  PROVE  access'[t] = access[t]
  BY GivenOut DEF PInv, PostTypeOK, EndsAreBounded

LEMMA KeysStep ==
  ASSUME PInv, PostTypeOK', PostNext
  PROVE  KeysOutlive'
  <1>1. AccessTypeOK /\ KeysOutlive /\ EndsAreBounded
    BY DEF PInv, PostTypeOK
  <1>2. \A t \in out : t \in Tokens /\ access[t] # NoAccess
    BY <1>1 DEF AccessTypeOK
  <1>3. CASE \A t \in out' : t \in out /\ blacklist'[t] = blacklist[t]
    BY <1>1, <1>2, <1>3, GivenOutOnce DEF KeysOutlive
  <1>4. ASSUME NEW t \in Tokens, SetBlacklist(t) PROVE KeysOutlive'
    <2>1. access[t] # NoAccess /\ access' = access
      BY <1>1, <1>4 DEF SetBlacklist, AccessTypeOK, tokens
    <2>2. access[t].exp <= now + AccessTTL
      BY <1>1, <2>1 DEF EndsAreBounded
    <2>3. CASE up
      <3>1. blacklist'[t] = now + AccessTTL /\ out' = out \cup {t}
            /\ \A u \in Tokens \ {t} : blacklist'[u] = blacklist[u]
        BY <1>1, <1>4, <2>3 DEF SetBlacklist, BlacklistTTL, AccessTypeOK
      <3>2. QED
        BY <1>1, <1>2, <2>1, <2>2, <3>1 DEF KeysOutlive
    <2>4. CASE ~up
      BY <1>3, <1>4, <2>4 DEF SetBlacklist
    <2>5. QED
      BY <2>3, <2>4
  <1>5. CASE RedisAway
    BY <1>3, <1>5 DEF RedisAway
  <1>6. CASE UNCHANGED <<out, blacklist>>
    BY <1>3, <1>6
  <1>7. ASSUME NEW c \in Calls, NEW t \in Tokens, issueTokenPair(c, t)
        PROVE  UNCHANGED <<out, blacklist>>
    BY <1>7 DEF issueTokenPair, redis
  <1>8. ASSUME NEW c \in Calls, Read(c) \/ Sign(c) \/ Refresh(c) \/ Stop(c)
        PROVE  UNCHANGED <<out, blacklist>>
    BY <1>8 DEF Read, Sign, Refresh, Stop, redis
  <1>9. ASSUME NEW t \in Tokens, NEW r \in Tokens, LogoutRevoke(t, r)
        PROVE  UNCHANGED <<out, blacklist>>
    BY <1>9 DEF LogoutRevoke
  <1>10. ASSUME NEW a \in Admins, Account(a) \/ UpdateUserWrite(a) \/ GiveUp(a)
         PROVE  UNCHANGED <<out, blacklist>>
    BY <1>10 DEF Account, UpdateUserWrite, GiveUp, redis
  <1>11. ASSUME NEW a \in Admins, NEW role \in Roles \cup {Keep}, NEW unit \in Units,
                UpdateUserLook(a, role, unit)
         PROVE  UNCHANGED <<out, blacklist>>
    BY <1>11 DEF UpdateUserLook, Look, redis
  <1>12. CASE RedisSaves \/ Tick
    BY <1>6, <1>12 DEF RedisSaves, Tick, redis
  <1>13. CASE PostStep
    BY <1>6, <1>13 DEF PostStep, AssignUserLook, Look, CreateAssignment, EndAssignment, redis
  <1>14. CASE AccessStep
    BY <1>4, <1>5, <1>6, <1>7, <1>8, <1>9, <1>10, <1>11, <1>12, <1>14 DEF AccessStep
  <1>15. QED
    BY <1>13, <1>14 DEF PostNext

(* Nothing is issued for an account that is locked and sealed.              *)
LEMMA ShutStep ==
  ASSUME PInv, PostTypeOK', EndsAreBounded', PostNext
  PROVE  ShutEnds'
  <1> SUFFICES ASSUME ~active', sealed', NEW t \in Tokens, access'[t] # NoAccess
               PROVE  access'[t].exp <= shut' + AccessTTL
    BY DEF ShutEnds
  <1>1. AccessTypeOK /\ AccessTypeOK' /\ ShutEnds
    BY DEF PInv, PostTypeOK
  <1>2. CASE ~active /\ sealed
    <2>1. shut' = shut
      BY <1>1, <1>2 DEF PostNext, Noted, AccessTypeOK, TypeOK
    <2>2. ASSUME NEW c \in Calls PROVE ~issueTokenPair(c, t)
      BY <1>2 DEF issueTokenPair, SaveRefreshToken, Idle, PInv, IInv, Sealed,
         SealedCallsAreCurrent
    <2>3. access'[t] = access[t]
      BY <1>1, <2>2, GivenOut
    <2>4. QED
      BY <1>2, <2>1, <2>3, <1>1 DEF ShutEnds
  <1>3. CASE active \/ ~sealed
    <2>1. shut' = now
      BY <1>1, <1>3 DEF PostNext, Noted, AccessTypeOK, TypeOK
    <2>2. ~UNCHANGED vars
      <3>1. UNCHANGED vars => active' = active /\ sealed' = sealed
        BY DEF vars, account
      <3>2. QED
        BY <1>3, <3>1, Zenon
    <2>3. now' = now
      <3>1. CASE Tick
        BY <2>2, <3>1 DEF Tick
      <3>2. QED
        BY <1>1, <3>1, WhoWritesTokens DEF Read, Sign, Stop, issueTokenPair
    <2>4. access'[t].exp <= now' + AccessTTL
      BY DEF EndsAreBounded
    <2>5. QED
      BY <2>1, <2>3, <2>4
  <1>4. QED
    BY <1>2, <1>3

LEMMA LooksStep ==
  ASSUME PInv, PostTypeOK', PostNext
  PROVE  LooksAreCurrent'
  <1> SUFFICES ASSUME NEW a \in Admins \ met', looked'[a] # Nothing
               PROVE  looked'[a].found = scope'.role
    BY DEF LooksAreCurrent
  <1>1. AccessTypeOK /\ LooksAreCurrent
    BY DEF PInv, PostTypeOK
  <1>2. /\ looked \in [Admins -> Lookups \cup {Nothing}]
        /\ a \notin met /\ looked[a] # Nothing => looked[a].found = scope.role
    BY <1>1 DEF AccessTypeOK, LooksAreCurrent
  <1>3. CASE scope' = scope /\ met' = met /\ looked'[a] \in {looked[a], Nothing}
    BY <1>2, <1>3
  <1>4. ASSUME NEW b \in Admins, NEW does, NEW role, NEW unit, Look(b, does, role, unit)
        PROVE  looked'[a].found = scope'.role
    <2>1. CASE a = b
      BY <1>2, <1>4, <2>1 DEF Look, vars, account
    <2>2. CASE a # b
      <3>1. a \notin met /\ looked'[a] = looked[a] /\ scope' = scope
        BY <1>2, <1>4, <2>2 DEF Look, vars, account
      <3>2. QED
        BY <1>2, <3>1
    <2>3. QED
      BY <2>1, <2>2
  <1>5. ASSUME NEW b \in Admins, UpdateUserWrite(b) PROVE FALSE
    <2>1. a # b /\ looked'[a] = looked[a]
      BY <1>2, <1>5 DEF UpdateUserWrite
    <2>2. QED
      BY <1>5, <2>1 DEF UpdateUserWrite
  <1>6. ASSUME NEW b \in Admins, Account(b)
        PROVE  scope' = scope /\ met' = met /\ looked' = looked
    BY <1>6 DEF Account, LockUser, UnlockUser, RevokeAll, StartPassword, RevokeFirst,
       RevokeFails, UpdatePassword, StopAdmin, RevokeAllUserTokens, account
  <1>7. ASSUME NEW b \in Admins, GiveUp(b)
        PROVE  scope' = scope /\ met' = met /\ looked'[a] \in {looked[a], Nothing}
    BY <1>2, <1>7 DEF GiveUp, vars, account
  <1>8. ASSUME NEW c \in Calls, NEW t \in Tokens, issueTokenPair(c, t)
        PROVE  scope' = scope /\ met' = met /\ looked' = looked
    BY <1>8 DEF issueTokenPair, SaveRefreshToken, account
  <1>9. ASSUME NEW c \in Calls, Read(c) \/ Sign(c) \/ Refresh(c) \/ Stop(c)
        PROVE  scope' = scope /\ met' = met /\ looked' = looked
    BY <1>9 DEF Read, Sign, Login, RefreshLoad, Refresh, RefreshFind, RefreshRevoke, Stop,
       StopCall, vars, account
  <1>10. ASSUME NEW t \in Tokens, NEW r \in Tokens, LogoutRevoke(t, r)
         PROVE  scope' = scope /\ met' = met /\ looked' = looked
    BY <1>10 DEF LogoutRevoke, Logout, account
  <1>11. ASSUME NEW t \in Tokens, SetBlacklist(t)
         PROVE  scope' = scope /\ met' = met /\ looked' = looked
    BY <1>11 DEF SetBlacklist, vars, account
  <1>12. ASSUME RedisSaves \/ RedisAway \/ Tick
         PROVE  scope' = scope /\ met' = met /\ looked' = looked
    BY <1>12 DEF RedisSaves, RedisAway, Tick, vars, account
  <1>13. CASE PostStep
    <2>1. ASSUME NEW b \in Admins, NEW unit \in Units, AssignUserLook(b, unit)
          PROVE  looked'[a].found = scope'.role
      BY <1>4, <2>1 DEF AssignUserLook
    <2>2. ASSUME NEW b \in Admins, NEW i \in Posts, NEW day \in Days,
                 CreateAssignment(b, i, day)
          PROVE  scope' = scope /\ met' = met /\ looked'[a] \in {looked[a], Nothing}
      BY <1>2, <2>2 DEF CreateAssignment, vars, account
    <2>3. ASSUME NEW i \in Posts, NEW day \in Days, EndAssignment(i, day)
          PROVE  scope' = scope /\ met' = met /\ looked' = looked
      BY <2>3 DEF EndAssignment, vars, account
    <2>4. QED
      BY <1>3, <1>13, <2>1, <2>2, <2>3 DEF PostStep
  <1>14. CASE AccessStep
    <2>1. ASSUME NEW b \in Admins, NEW role \in Roles \cup {Keep}, NEW unit \in Units,
                 UpdateUserLook(b, role, unit)
          PROVE  looked'[a].found = scope'.role
      BY <1>4, <2>1 DEF UpdateUserLook
    <2>2. QED
      BY <1>3, <1>5, <1>6, <1>7, <1>8, <1>9, <1>10, <1>11, <1>12, <1>14, <2>1 DEF AccessStep
  <1>15. QED
    BY <1>13, <1>14 DEF PostNext

LEMMA PInvStep == PInv /\ [PostNext]_<<allVars, post>> => PInv'
  <1> SUFFICES ASSUME PInv, [PostNext]_<<allVars, post>> PROVE PInv'
    OBVIOUS
  <1>1. IInv'
    <2>1. [Next]_vars /\ IInv
      BY StepOfSessions DEF PInv, PostTypeOK
    <2>2. QED
      BY <2>1, TypeStep, FamiliesStep, SealedStep DEF IInv
  <1>2. CASE PostNext
    <2>1. PostTypeOK'
      BY <1>2, PostTypeStep DEF PInv
    <2>2. EndsAreBounded'
      BY <1>2, <2>1, EndsStep
    <2>3. QED
      BY <1>1, <1>2, <2>1, <2>2, KeysStep, ShutStep, LooksStep DEF PInv
  <1>3. CASE UNCHANGED <<allVars, post>>
    <2> USE <1>3 DEF allVars, vars, account, rows, tokens, redis
    <2>1. PostTypeOK'
      <3>1. TypeOK'
        BY <1>1 DEF IInv
      <3>2. QED
        BY <3>1 DEF PInv, PostTypeOK, AccessTypeOK
    <2>2. EndsAreBounded' /\ KeysOutlive'
      BY DEF PInv, EndsAreBounded, KeysOutlive, Issued
    <2>3. ShutEnds' /\ LooksAreCurrent'
      BY DEF PInv, ShutEnds, LooksAreCurrent
    <2>4. QED
      BY <1>1, <2>1, <2>2, <2>3 DEF PInv
  <1>4. QED
    BY <1>2, <1>3

LEMMA PostInitPInv == PostInit => PInv
  <1> SUFFICES ASSUME PostInit PROVE PInv
    OBVIOUS
  <1> USE SeedIsAnAccount, TimesAreBounds DEF PostInit, AccessInit
  <1>1. IInv
    BY InitIInv
  <1>2. PostTypeOK
    <2>1. TypeOK
      BY <1>1 DEF IInv
    <2>2. 1 \in 1 .. MaxTime
      OBVIOUS
    <2>3. admin = [a \in Admins |-> AdminIdle]
      BY DEF Init
    <2>4. QED
      BY <2>1, <2>2, <2>3 DEF PostTypeOK, AccessTypeOK
  <1>3. EndsAreBounded /\ KeysOutlive /\ ShutEnds /\ LooksAreCurrent
    BY DEF Init, Idle, EndsAreBounded, KeysOutlive, ShutEnds, LooksAreCurrent
  <1>4. QED
    BY <1>1, <1>2, <1>3 DEF PInv

LEMMA PostInvariance == PostSpec => []PInv
  <1>1. QED
    BY PostInitPInv, PInvStep, PTL DEF PostSpec

-----------------------------------------------------------------------------
(* What the invariants amount to *)

LEMMA KeysKeepOut == PInv => LogoutLasts
  <1> SUFFICES ASSUME PInv, NEW t \in out, up, JWTAuth(t) PROVE FALSE
    BY DEF LogoutLasts
  <1>1. t \in Tokens /\ access[t] # NoAccess
    BY DEF PInv, PostTypeOK, AccessTypeOK
  <1>2. now < access[t].exp /\ ~(now < blacklist[t])
    BY DEF JWTAuth, IsBlacklisted
  <1>3. access[t].exp <= blacklist[t]
    BY DEF PInv, KeysOutlive
  <1>4. now \in Nat /\ access[t].exp \in Nat /\ blacklist[t] \in Nat
    BY <1>1, TimesAreNumbers DEF PInv, PostTypeOK
  <1>5. QED
    BY <1>2, <1>3, <1>4

LEMMA BoundsEndPowers == PInv => StalePowersEnd
  <1> SUFFICES ASSUME PInv, NEW t \in Tokens, JWTAuth(t)
               PROVE  now < had[access[t].scope] + took[t] + AccessTTL
    BY DEF StalePowersEnd
  <1>1. access[t] # NoAccess /\ now < access[t].exp
    BY DEF JWTAuth
  <1>2. access[t].exp <= had[access[t].scope] + took[t] + AccessTTL
    BY <1>1 DEF PInv, EndsAreBounded
  <1>3. QED
    BY <1>1, <1>2, TimesAreNumbers DEF PInv, PostTypeOK

LEMMA EndsShutOut == PInv => LockShutsOut
  <1> SUFFICES ASSUME PInv, ~active, sealed, now >= shut + AccessTTL,
                      NEW t \in Tokens, JWTAuth(t)
               PROVE  FALSE
    BY DEF LockShutsOut
  <1>1. access[t] # NoAccess /\ now < access[t].exp
    BY DEF JWTAuth
  <1>2. access[t].exp <= shut + AccessTTL
    BY <1>1 DEF PInv, ShutEnds
  <1>3. QED
    BY <1>1, <1>2, TimesAreNumbers DEF PInv, PostTypeOK

(* Two answers about one day, a step apart.                                 *)
LEMMA HistoryStep ==
  ASSUME PostTypeOK, [PostNext]_<<allVars, post>>, NEW unit \in Units, NEW day \in Days
  PROVE  LET was == GetOfficerAtTime(unit, day)
             is == GetOfficerAtTime(unit, day)'
         IN  /\ \A i \in is \ was : post[i] = NoPost
             /\ \A i \in was \ is :
                  i \in GetActiveOfficersByUnit(unit) /\ post'[i].end < day
  <1> DEFINE was == GetOfficerAtTime(unit, day)
             is == GetOfficerAtTime(unit, day)'
             Settled(i) == /\ i \in is \ was => post[i] = NoPost
                           /\ i \in was \ is =>
                                i \in GetActiveOfficersByUnit(unit) /\ post'[i].end < day
  <1> SUFFICES ASSUME NEW i \in Posts PROVE Settled(i)
    BY DEF GetOfficerAtTime
  <1> USE DEF GetOfficerAtTime
  <1>1. CASE post'[i] = post[i]
    BY <1>1
  <1>2. CASE post[i] = NoPost
    BY <1>2
  <1>3. ASSUME NEW last \in Days, EndAssignment(i, last), Open(i) PROVE Settled(i)
    <2>1. post[i] # NoPost /\ post[i].end = NoDay /\ post[i] \in Assignments
      BY <1>3 DEF Open, PostTypeOK
    <2>2. post'[i] = [post[i] EXCEPT !.end = last]
      BY <1>3 DEF EndAssignment, PostTypeOK
    <2>3. /\ post'[i].unit = post[i].unit /\ post'[i].start = post[i].start
          /\ post'[i].end = last /\ last # NoDay /\ last \in Nat /\ day \in Nat
      BY <2>1, <2>2, DaysAreDates DEF Assignments
    <2>4. i \in is => i \in was
      BY <2>1, <2>3
    <2>5. i \in was \ is => post[i].unit = unit /\ last < day
      <3>1. post'[i] # NoPost
        BY <2>1, <2>2, <2>3, NoPostIsNone DEF Assignments
      <3>2. QED
        BY <2>3, <3>1
    <2>6. QED
      BY <1>3, <2>1, <2>3, <2>4, <2>5 DEF GetActiveOfficersByUnit
  <1>4. CASE UNCHANGED <<allVars, post>>
    BY <1>1, <1>4
  <1>5. ASSUME NEW a \in Admins, NEW j \in Posts, NEW d \in Days, CreateAssignment(a, j, d)
        PROVE  post'[i] = post[i] \/ post[i] = NoPost
    BY <1>5 DEF CreateAssignment, PostTypeOK
  <1>6. ASSUME NEW j \in Posts, NEW d \in Days, EndAssignment(j, d)
        PROVE  post'[i] = post[i] \/ (i = j /\ Open(i))
    BY <1>6 DEF EndAssignment, PostTypeOK
  <1> HIDE DEF Settled
  <1>7. QED
    BY <1>1, <1>2, <1>3, <1>4, <1>5, <1>6 DEF PostNext, PostStep

(* A role that is written because nobody named another one.                 *)
LEMMA UnnamedStep ==
  ASSUME PInv, NEW a \in Admins, looked[a] # Nothing, a \notin met
  PROVE  /\ looked[a].role = Keep /\ UpdateUserWrite(a) => scope'.role = scope.role
         /\ \A i \in Posts, day \in Days :
              CreateAssignment(a, i, day) => post'[i].role = scope.role
  <1>1. looked[a].found = scope.role
    BY DEF PInv, LooksAreCurrent
  <1>2. looked[a].role = Keep /\ UpdateUserWrite(a) => scope'.role = scope.role
    BY <1>1 DEF UpdateUserWrite, UpdateUser, RoleWritten
  <1>3. ASSUME NEW i \in Posts, NEW day \in Days, CreateAssignment(a, i, day)
        PROVE  post'[i].role = scope.role
    BY <1>1, <1>3 DEF CreateAssignment, RoleKept, PInv, PostTypeOK
  <1>4. QED
    BY <1>2, <1>3

-----------------------------------------------------------------------------
(* The theorems *)

(* Middleware, blacklist, clock, administration and posts add nothing to    *)
(* the sessions: a run of the whole is a run of AuthSessions, and every     *)
(* theorem of AuthSessions_proofs holds of it.                              *)
THEOREM PostsRunSessions == PostSpec => Spec
  <1>1. PostInit => Init
    BY DEF PostInit, AccessInit
  <1>2. PInv /\ [PostNext]_<<allVars, post>> => [Next]_vars
    BY StepOfSessions DEF PInv, PostTypeOK
  <1>3. QED
    BY PostInvariance, <1>1, <1>2, PTL DEF PostSpec, Spec

(* Clock, tokens, keys, looks and posts keep their types; a call that has   *)
(* looked is in no other operation, and only issued tokens are logged out.  *)
THEOREM PostTypesHold == PostSpec => []PostTypeOK
  <1>1. PInv => PostTypeOK
    BY DEF PInv
  <1>2. QED
    BY PostInvariance, <1>1, PTL

(* The key of a logout Redis has not lost shuts its token out to the end.   *)
THEOREM LogoutsLast == PostSpec => []LogoutLasts
  BY PostInvariance, KeysKeepOut, PTL

(* Whoever gets in has had the role and units it claims within AccessTTL,   *)
(* but for the time between reading and signing in the one call that issued *)
(* its token.                                                               *)
THEOREM PowersEnd == PostSpec => []StalePowersEnd
  BY PostInvariance, BoundsEndPowers, PTL

(* A lock that is sealed lets nobody in once AccessTTL has passed.          *)
THEOREM LocksShutOut == PostSpec => []LockShutsOut
  BY PostInvariance, EndsShutOut, PTL

(* Who held a unit on a day changes only by an end before that day, or a    *)
(* new assignment.                                                          *)
THEOREM HistorySettles == PostSpec => HistoryIsSettled
  <1> DEFINE Settled ==
        \A unit \in Units, day \in Days :
          LET was == GetOfficerAtTime(unit, day)
              is == GetOfficerAtTime(unit, day)'
          IN  /\ \A i \in is \ was : post[i] = NoPost
              /\ \A i \in was \ is :
                   i \in GetActiveOfficersByUnit(unit) /\ post'[i].end < day
  <1>1. PInv /\ [PostNext]_<<allVars, post>> => [Settled]_post
    BY HistoryStep DEF PInv
  <1>2. QED
    BY PostInvariance, <1>1, PTL DEF PostSpec, HistoryIsSettled

(* A role nobody named is the user's own, unless another update got between.*)
THEOREM UnnamedRolesStay == PostSpec => UnnamedRolesAreCurrent
  <1> DEFINE Current ==
        \A a \in Admins : looked[a] # Nothing /\ a \notin met =>
          /\ looked[a].role = Keep /\ UpdateUserWrite(a) => scope'.role = scope.role
          /\ \A i \in Posts, day \in Days :
               CreateAssignment(a, i, day) => post'[i].role = scope.role
  <1>1. PInv /\ [PostNext]_<<allVars, post>> => [Current]_<<allVars, post>>
    BY UnnamedStep
  <1>2. QED
    BY PostInvariance, <1>1, PTL DEF PostSpec, UnnamedRolesAreCurrent
=============================================================================
