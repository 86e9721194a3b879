----------------------------- MODULE RateLimiter -----------------------------
(***************************************************************************)
(* The fixed-window rate limiter (Limiter.Check) and the Redis counter it   *)
(* keeps, for one key: no command touches two keys, so keys do not meet.    *)
(*                                                                         *)
(* INCR and EXPIRE are two commands, sent by as many requests at once as    *)
(* there are callers.  Either may fail, and one whose reply is lost has run: *)
(* the client library repeats it, for a while, then reports an error.  An   *)
(* error of INCR lets the request pass uncounted (fail open), which changes *)
(* nothing here; an error of EXPIRE is discarded.                           *)
(***************************************************************************)
EXTENDS Naturals, Sequences, FiniteSets

CONSTANTS Callers,   \* requests the key is checked for at the same time
          Limit,     \* Rule.Limit
          Window,    \* Rule.Window, in ticks of the clock
          Patience,  \* ticks after its first run in which an EXPIRE can run again
          MaxTime,   \* bound on the clock
          MaxCount   \* bound on the counter

ASSUME RuleIsReal ==
  /\ Limit \in Nat \ {0} /\ Window \in Nat \ {0}
  /\ Patience \in Nat /\ MaxTime \in Nat /\ MaxCount \in Nat

(* The library's timeouts and repeats add up to less than the shortest      *)
(* window of middleware.go; only the properties that say so rest on it.     *)
PatienceIsShort == Patience < Window

VARIABLES
  now,      \* Redis's clock
  count,    \* the counter; 0: there is no key
  expiry,   \* when Redis deletes the key, or NoTTL
  step,     \* step[c]: "idle"; "expire": c has counted 1; "repeat": its EXPIRE
            \* has run, and no reply to it was heard
  ran,      \* ran[c]: when that EXPIRE first ran, while step[c] = "repeat"
  life,     \* number of times the key has been created (history variable)
  log       \* the requests admitted by their count (history variable)

vars == <<now, count, expiry, step, ran, life, log>>

NoTTL == 0   \* no deadline is 0: Window is positive
Admissions == [life : Nat, place : 1 .. Limit, at : Nat]

Init ==
  /\ now = 0
  /\ count = 0
  /\ expiry = NoTTL
  /\ step = [c \in Callers |-> "idle"]
  /\ ran = [c \in Callers |-> 0]
  /\ life = 0
  /\ log = <<>>

-----------------------------------------------------------------------------
(* Redis *)

(* INCR creates a missing key; it leaves the TTL of an existing one alone. *)
RedisIncr ==
  /\ count < MaxCount
  /\ count' = count + 1
  /\ life' = IF count = 0 THEN life + 1 ELSE life

(* A key is gone once its deadline is reached. *)
Tick ==
  /\ now < MaxTime
  /\ now' = now + 1
  /\ IF expiry # NoTTL /\ expiry <= now'
     THEN count' = 0 /\ expiry' = NoTTL
     ELSE UNCHANGED <<count, expiry>>
  /\ UNCHANGED <<step, ran, life, log>>

(* EXPIRE on a missing key does nothing. *)
RedisExpire == expiry' = IF count = 0 THEN expiry ELSE now + Window

-----------------------------------------------------------------------------
(* Limiter.Check *)

AdmitsOneMore(n) == n <= Limit + 1
Admits(n) == n <= Limit

SetsEveryTime(n) == TRUE
SetsTTL(n) == n = 1

(* A request that does not set the TTL is done with its count.  Reading the *)
(* TTL for Retry-After changes nothing.                                     *)
Check(c) ==
  /\ step[c] = "idle"
  /\ RedisIncr
  /\ step' = [step EXCEPT ![c] = IF SetsTTL(count') THEN "expire" ELSE "idle"]
  /\ log' = IF Admits(count')
            THEN Append(log, [life |-> life', place |-> count', at |-> now])
            ELSE log
  /\ UNCHANGED <<now, expiry, ran>>

(* INCR has run and nobody hears of it. *)
CheckUnheard(c) ==
  /\ step[c] = "idle"
  /\ RedisIncr
  /\ UNCHANGED <<now, expiry, step, ran, log>>

(* An EXPIRE of c can still run: for the first time, or again.  A copy of it *)
(* that reaches Redis after Check has returned is one of its runs, too.     *)
MayExpire(c) ==
  \/ step[c] = "expire"
  \/ step[c] = "repeat" /\ now <= ran[c] + Patience

Finish(c) ==
  /\ step' = [step EXCEPT ![c] = "idle"]
  /\ ran' = [ran EXCEPT ![c] = 0]

Expire(c) ==
  /\ MayExpire(c)
  /\ RedisExpire
  /\ Finish(c)
  /\ UNCHANGED <<now, count, life, log>>

(* EXPIRE has run and nobody hears of it: the library may repeat it. *)
ExpireUnheard(c) ==
  /\ MayExpire(c)
  /\ RedisExpire
  /\ step' = [step EXCEPT ![c] = "repeat"]
  /\ ran' = IF step[c] = "expire" THEN [ran EXCEPT ![c] = now] ELSE ran
  /\ UNCHANGED <<now, count, life, log>>

(* EXPIRE does not arrive, is not repeated, or the server stops before it   *)
(* is sent.                                                                 *)
ExpireFails(c) ==
  /\ step[c] # "idle"
  /\ Finish(c)
  /\ UNCHANGED <<now, count, expiry, life, log>>

Next ==
  \/ \E c \in Callers :
       \/ Check(c) \/ CheckUnheard(c)
       \/ Expire(c) \/ ExpireUnheard(c) \/ ExpireFails(c)
  \/ Tick

Spec == Init /\ [][Next]_vars

-----------------------------------------------------------------------------
(* Properties *)

TypeOK ==
  /\ now \in Nat
  /\ count \in 0 .. MaxCount
  /\ expiry \in Nat
  /\ step \in [Callers -> {"idle", "expire", "repeat"}]
  /\ ran \in [Callers -> Nat]
  /\ life \in Nat
  /\ log \in Seq(Admissions)

During(t) == {i \in DOMAIN log : t <= log[i].at /\ log[i].at < t + Window}

(* What a fixed window is worth: however requests, lost replies and failed  *)
(* commands interleave, any stretch of time as long as the window sees at   *)
(* most twice the limit admitted by their count (limiter.go, Check).        *)
AnyWindowAdmitsTwiceTheLimit ==
  \A t \in 0 .. now : Cardinality(During(t)) <= 2 * Limit

(* EXPIRE, repeated or not, never meets a later counter than the one its    *)
(* request created: the counter is there for as long as an EXPIRE can run,  *)
(* without a TTL until it has, and no other request has one to send.  Only  *)
(* true because repeats end before the window does (limiter.go, Check).     *)
OneRequestSetsTheTTL ==
  \A c \in Callers : MayExpire(c) =>
    /\ count > 0
    /\ step[c] = "expire" => expiry = NoTTL
    /\ \A d \in Callers \ {c} : ~MayExpire(d)

(* The end of a window moves only while the request that set it has heard   *)
(* no reply and repeats its EXPIRE: it is put off, never brought forward,   *)
(* and by no more in all than that request's patience.  Calls in between    *)
(* never move it, and the counter is deleted no sooner (limiter.go, Check). *)
OnlyRepeatsMoveDeadlines ==
  [][expiry # NoTTL /\ expiry' # expiry =>
       \/ now' >= expiry /\ count' = 0
       \/ \E c \in Callers :
            /\ step[c] = "repeat" /\ count' = count
            /\ ran[c] + Window <= expiry
            /\ expiry < expiry' /\ expiry' <= ran[c] + Window + Patience]_vars

-----------------------------------------------------------------------------
(* What the repository says and the code does not do *)

(* "One counter of its own, deleting itself when the window has ended": a   *)
(* counter nobody is about to give a TTL has one.                           *)
CounterDeletesItself ==
  count > 0 /\ expiry = NoTTL => \E c \in Callers : MayExpire(c)
=============================================================================
