------------------------- MODULE RateLimiter_proofs -------------------------
(***************************************************************************)
(* Proofs about RateLimiter, for every number of callers, every limit and   *)
(* every window.                                                           *)
(***************************************************************************)
EXTENDS RateLimiter, FiniteSetTheorems, FunctionTheorems, TLAPS

(* Requests counted by one counter are counted at different places, ...     *)
PlacesDiffer ==
  \A i, j \in DOMAIN log :
    i # j /\ log[i].life = log[j].life => log[i].place # log[j].place

(* ... none of them beyond its current value, and none in the future. *)
LogIsPast ==
  \A i \in DOMAIN log :
    /\ log[i].life <= life
    /\ log[i].life = life /\ count > 0 => log[i].place <= count
    /\ log[i].at <= now

(* Requests of earlier counters are a window old once the present counter   *)
(* is gone, and will be when it goes; those before the last one already are.*)
EarlierIsOld ==
  \A i \in DOMAIN log :
    /\ log[i].life < life /\ count = 0 => log[i].at + Window <= now
    /\ log[i].life < life /\ expiry # NoTTL => log[i].at + Window <= expiry
    /\ log[i].life + 2 <= life => log[i].at + Window <= now

(* Requests of two counters with a third in between are a window apart. *)
LivesLastAWindow ==
  \A i, j \in DOMAIN log :
    log[i].life + 2 <= log[j].life => log[i].at + Window <= log[j].at

NoKeyNoTTL == count = 0 => expiry = NoTTL

IInv ==
  /\ TypeOK /\ NoKeyNoTTL
  /\ PlacesDiffer /\ LogIsPast /\ EarlierIsOld /\ LivesLastAWindow

LEMMA InitIInv == Init => IInv
  BY RuleIsReal DEF Init, IInv, TypeOK, NoKeyNoTTL, PlacesDiffer,
     LogIsPast, EarlierIsOld, LivesLastAWindow, Admissions, NoTTL

-----------------------------------------------------------------------------
(* The counter and the log *)

LEMMA Numbers ==
  ASSUME IInv
  PROVE  /\ now \in Nat /\ count \in Nat /\ expiry \in Nat /\ life \in Nat
         /\ Window \in Nat \ {0} /\ Limit \in Nat \ {0}
         /\ \A i \in DOMAIN log :
              log[i].life \in Nat /\ log[i].place \in Nat /\ log[i].at \in Nat
  <1>1. \A i \in DOMAIN log : log[i] \in Admissions
    BY DEF IInv, TypeOK
  <1>2. QED
    BY <1>1, RuleIsReal DEF IInv, TypeOK, Admissions

LEMMA TickIInv == IInv /\ Tick => IInv'
  <1> SUFFICES ASSUME IInv, Tick PROVE IInv'
    OBVIOUS
  <1> USE DEF IInv, Tick, NoTTL
  <1>1. TypeOK'
    BY RuleIsReal DEF TypeOK
  <1>2. NoKeyNoTTL'
    BY DEF NoKeyNoTTL, TypeOK
  <1>3. PlacesDiffer' /\ LivesLastAWindow'
    BY DEF PlacesDiffer, LivesLastAWindow
  <1>4. \A i \in DOMAIN log : log[i] \in Admissions
    BY DEF TypeOK
  <1>5. LogIsPast'
    BY <1>4 DEF LogIsPast, TypeOK, Admissions
  <1>6. EarlierIsOld'
    <2> SUFFICES ASSUME NEW i \in DOMAIN log PROVE EarlierIsOld!(i)'
      BY DEF EarlierIsOld
    <2>1. log[i].life \in Nat /\ log[i].at \in Nat
      BY <1>4 DEF Admissions
    <2>2. now \in Nat /\ expiry \in Nat /\ life \in Nat /\ Window \in Nat
      BY RuleIsReal DEF TypeOK
    <2>3. QED
      BY <2>1, <2>2 DEF EarlierIsOld
  <1>7. QED
    BY <1>1, <1>2, <1>3, <1>5, <1>6

LEMMA ExpireIInv ==
  ASSUME IInv, NEW c \in Callers, Expire(c) \/ ExpireUnheard(c) \/ ExpireFails(c)
  PROVE  IInv'
  <1> USE DEF IInv, Expire, ExpireUnheard, ExpireFails, Finish, RedisExpire, NoTTL
  <1>1. TypeOK'
    BY RuleIsReal DEF TypeOK
  <1>2. NoKeyNoTTL'
    BY DEF NoKeyNoTTL, TypeOK
  <1>3. PlacesDiffer' /\ LivesLastAWindow'
    BY DEF PlacesDiffer, LivesLastAWindow
  <1>4. \A i \in DOMAIN log : log[i] \in Admissions
    BY DEF TypeOK
  <1>5. LogIsPast'
    BY DEF LogIsPast
  <1>6. EarlierIsOld'
    <2>1. /\ UNCHANGED <<now, count, life, log>>
          /\ expiry' = expiry \/ (count # 0 /\ expiry' = now + Window)
      OBVIOUS
    <2>2. EarlierIsOld /\ LogIsPast
      OBVIOUS
    <2> HIDE DEF IInv, Expire, ExpireUnheard, ExpireFails
    <2>3. QED
      BY <2>1, <2>2, Numbers DEF EarlierIsOld, LogIsPast
  <1>7. QED
    BY <1>1, <1>2, <1>3, <1>5, <1>6

(* INCR, whoever hears of it, as far as the counter alone is concerned. *)
LEMMA IncrIInv ==
  ASSUME IInv, RedisIncr, UNCHANGED <<now, expiry, log>>
  PROVE  /\ count' \in 1 .. MaxCount /\ life' \in Nat
         /\ PlacesDiffer' /\ LogIsPast' /\ EarlierIsOld' /\ LivesLastAWindow'
  <1> USE DEF IInv, RedisIncr, NoTTL
  <1>2. count' \in 1 .. MaxCount /\ life' \in Nat
    BY RuleIsReal DEF TypeOK
  <1>3. PlacesDiffer' /\ LivesLastAWindow'
    BY DEF PlacesDiffer, LivesLastAWindow
  <1>4. LogIsPast'
    BY Numbers DEF LogIsPast
  <1>5. EarlierIsOld'
    BY Numbers DEF EarlierIsOld, NoKeyNoTTL
  <1>6. QED
    BY <1>2, <1>3, <1>4, <1>5

LEMMA UnheardIInv ==
  ASSUME IInv, NEW c \in Callers, CheckUnheard(c)
  PROVE  IInv'
  <1> USE DEF IInv, CheckUnheard
  <1>1. count' \in 1 .. MaxCount /\ life' \in Nat
        /\ PlacesDiffer' /\ LogIsPast' /\ EarlierIsOld' /\ LivesLastAWindow'
    BY IncrIInv
  <1>2. TypeOK' /\ NoKeyNoTTL'
    BY <1>1 DEF TypeOK, NoKeyNoTTL
  <1>3. QED
    BY <1>1, <1>2

LEMMA CheckIInv ==
  ASSUME IInv, NEW c \in Callers, Check(c)
  PROVE  IInv'
  <1> USE DEF IInv, Check, NoTTL
  <1> DEFINE entry == [life |-> life', place |-> count', at |-> now]
  <1>1. \A i \in DOMAIN log : log[i] \in Admissions
    BY DEF TypeOK
  <1>2. count' \in 1 .. MaxCount /\ life' \in Nat /\ life <= life'
    BY RuleIsReal DEF TypeOK, RedisIncr
  <1>3. step' \in [Callers -> {"idle", "expire", "repeat"}]
    BY DEF TypeOK
  <1>4. NoKeyNoTTL'
    BY <1>2 DEF NoKeyNoTTL
  <1>6. CASE ~Admits(count')
    <2>1. UNCHANGED log
      BY <1>6
    <2>2. PlacesDiffer' /\ LogIsPast' /\ EarlierIsOld' /\ LivesLastAWindow'
      BY <2>1, IncrIInv
    <2>3. TypeOK'
      BY <1>2, <1>3, <2>1 DEF TypeOK
    <2>4. QED
      BY <2>2, <2>3, <1>4
  <1>7. CASE Admits(count')
    <2>1. entry \in Admissions
      BY <1>2, <1>7, RuleIsReal DEF Admissions, Admits, TypeOK
    <2>2. log' = Append(log, entry) /\ log \in Seq(Admissions)
      BY <1>7 DEF TypeOK
    <2>3. /\ log' \in Seq(Admissions)
          /\ DOMAIN log' = DOMAIN log \cup {Len(log) + 1}
          /\ Len(log) + 1 \notin DOMAIN log
          /\ \A i \in DOMAIN log : log'[i] = log[i]
          /\ log'[Len(log) + 1] = entry
      BY <2>1, <2>2
    <2>4. TypeOK'
      BY <1>2, <1>3, <2>3 DEF TypeOK
    (* What the old entries are to the new one. *)
    <2>5. \A i \in DOMAIN log :
            /\ log[i].life <= life' /\ log[i].at <= now
            /\ log[i].life = life' => log[i].place < count'
            /\ log[i].life + 2 <= life' => log[i].at + Window <= now
            /\ log[i].life < life' /\ expiry # NoTTL => log[i].at + Window <= expiry
      <3>1. CASE count = 0
        BY <3>1, Numbers, <1>2 DEF RedisIncr, LogIsPast, EarlierIsOld, NoKeyNoTTL
      <3>2. CASE count # 0
        BY <3>2, Numbers, <1>2 DEF RedisIncr, LogIsPast, EarlierIsOld
      <3>3. QED
        BY <3>1, <3>2
    <2>6. PlacesDiffer'
      BY <2>3, <2>5, Numbers, <1>2 DEF PlacesDiffer
    <2>7. LogIsPast'
      BY <2>3, <2>5, Numbers, <1>2 DEF LogIsPast
    <2> DEFINE n == Len(log) + 1
    <2>8. EarlierIsOld'
      <3>1. log'[n].life = life' /\ log'[n].at = now /\ now' = now
        BY <2>3
      <3>2. count' # 0 /\ expiry' = expiry
        BY <1>2
      <3>3. \A i \in DOMAIN log' : i = n \/ (i \in DOMAIN log /\ log'[i] = log[i])
        BY <2>3
      <3> HIDE DEF n, IInv, Check
      <3>4. QED
        BY <3>1, <3>2, <3>3, <2>5, <1>2, Numbers DEF EarlierIsOld
    <2>9. LivesLastAWindow'
      <3>1. log'[n].life = life' /\ log'[n].at = now
        BY <2>3
      <3>2. \A i \in DOMAIN log' : i = n \/ (i \in DOMAIN log /\ log'[i] = log[i])
        BY <2>3
      <3>3. LivesLastAWindow
        OBVIOUS
      <3> HIDE DEF n, IInv, Check
      <3>4. QED
        BY <3>1, <3>2, <3>3, <2>5, <1>2, Numbers DEF LivesLastAWindow
    <2>10. QED
      BY <1>4, <2>4, <2>6, <2>7, <2>8, <2>9
  <1>8. QED
    BY <1>6, <1>7

LEMMA StepIInv == IInv /\ [Next]_vars => IInv'
  <1> SUFFICES ASSUME IInv, [Next]_vars PROVE IInv'
    OBVIOUS
  <1>1. ASSUME NEW c \in Callers, Check(c) PROVE IInv'
    BY <1>1, CheckIInv
  <1>2. ASSUME NEW c \in Callers, CheckUnheard(c) PROVE IInv'
    BY <1>2, UnheardIInv
  <1>3. ASSUME NEW c \in Callers, Expire(c) \/ ExpireUnheard(c) \/ ExpireFails(c)
         PROVE  IInv'
    BY <1>3, ExpireIInv
  <1>4. CASE Tick
    BY <1>4, TickIInv
  <1>5. CASE UNCHANGED vars
    BY <1>5 DEF vars, IInv, TypeOK, NoKeyNoTTL, PlacesDiffer,
       LogIsPast, EarlierIsOld, LivesLastAWindow
  <1>6. QED
    BY <1>1, <1>2, <1>3, <1>4, <1>5 DEF Next

LEMMA Invariance == Spec => []IInv
  BY InitIInv, StepIInv, PTL DEF Spec

-----------------------------------------------------------------------------
(* The properties *)

(* Type correctness: no place beyond the limit is ever admitted. *)
THEOREM TypeCorrect == Spec => []TypeOK
  <1>1. IInv => TypeOK
    BY DEF IInv
  <1>2. QED
    BY <1>1, Invariance, PTL

(* Who may still send an EXPIRE, when repeats end before the window does:   *)
(* a repeat meets a counter whose deadline is a window after its first run. *)
SetterInv ==
  /\ OneRequestSetsTheTTL
  /\ expiry <= now + Window
  /\ \A c \in Callers :
       step[c] = "repeat" /\ MayExpire(c) => ran[c] + Window <= expiry

LEMMA SetterInit == Init => SetterInv
  BY RuleIsReal DEF Init, SetterInv, OneRequestSetsTheTTL, MayExpire, NoTTL

LEMMA SetterTick ==
  ASSUME IInv, SetterInv, Tick, PatienceIsShort
  PROVE  SetterInv'
  <1> USE DEF Tick, NoTTL
  <1>1. /\ now \in Nat /\ count \in Nat /\ expiry \in Nat /\ now' = now + 1
        /\ Window \in Nat /\ Patience \in Nat /\ Patience < Window
        /\ \A c \in Callers : ran[c] \in Nat
    BY Numbers, RuleIsReal DEF IInv, TypeOK, PatienceIsShort
  <1>2. expiry' <= now' + Window
    BY <1>1 DEF SetterInv
  <1>3. ASSUME NEW c \in Callers, MayExpire(c)'
        PROVE  /\ MayExpire(c) /\ count' = count /\ expiry' = expiry
    <2>1. MayExpire(c)
      BY <1>1, <1>3 DEF MayExpire
    <2>2. CASE step[c] = "expire"
      BY <2>1, <2>2 DEF SetterInv, OneRequestSetsTheTTL
    <2>3. CASE step[c] = "repeat"
      <3>1. now + 1 <= ran[c] + Patience /\ ran[c] + Window <= expiry
        BY <1>1, <1>3, <2>1, <2>3 DEF MayExpire, SetterInv
      <3>2. now + 1 < expiry
        BY <3>1, <1>1
      <3>3. QED
        BY <3>2, <2>1, <1>1
    <2>4. QED
      BY <2>1, <2>2, <2>3 DEF MayExpire
  <1>4. UNCHANGED <<step, ran>>
    OBVIOUS
  <1>5. OneRequestSetsTheTTL'
    BY <1>3, <1>4 DEF SetterInv, OneRequestSetsTheTTL
  <1>6. QED
    BY <1>2, <1>3, <1>4, <1>5 DEF SetterInv

LEMMA SetterCheck ==
  ASSUME IInv, SetterInv, NEW c \in Callers, Check(c) \/ CheckUnheard(c)
  PROVE  SetterInv'
  <1> USE DEF NoTTL
  <1>1. /\ count \in Nat /\ count' = count + 1 /\ UNCHANGED <<now, expiry, ran>>
        /\ step \in [Callers -> {"idle", "expire", "repeat"}]
    BY Numbers DEF Check, CheckUnheard, RedisIncr, IInv, TypeOK
  <1>2. CASE step' = step
    BY <1>1, <1>2 DEF SetterInv, OneRequestSetsTheTTL, MayExpire
  <1>3. CASE step' # step
    <2>1. /\ count = 0 /\ step' = [step EXCEPT ![c] = "expire"] /\ expiry = NoTTL
      BY <1>1, <1>3 DEF Check, CheckUnheard, SetsTTL, IInv, NoKeyNoTTL
    <2>2. \A d \in Callers : ~MayExpire(d)
      BY <2>1 DEF SetterInv, OneRequestSetsTheTTL
    <2>3. \A d \in Callers \ {c} : ~MayExpire(d)'
      BY <2>1, <2>2, <1>1 DEF MayExpire
    <2>4. step'[c] = "expire"
      BY <2>1, <1>1
    <2>5. OneRequestSetsTheTTL'
      BY <2>1, <2>3, <2>4, <1>1 DEF OneRequestSetsTheTTL
    <2>6. QED
      BY <2>3, <2>4, <2>5, <1>1 DEF SetterInv
  <1>4. QED
    BY <1>2, <1>3

(* A run of EXPIRE by the one request that may send it. *)
LEMMA SetterExpires ==
  ASSUME IInv, SetterInv, NEW c \in Callers, Expire(c) \/ ExpireUnheard(c)
  PROVE  /\ expiry' = now + Window /\ now' = now /\ count' = count
         /\ expiry <= expiry' /\ count > 0
         /\ \/ step[c] = "expire" /\ expiry = NoTTL
            \/ /\ step[c] = "repeat"
               /\ ran[c] + Window <= expiry /\ now <= ran[c] + Patience
         /\ \A d \in Callers \ {c} :
              ~MayExpire(d) /\ step'[d] = step[d] /\ ran'[d] = ran[d]
  <1>1. MayExpire(c)
    BY DEF Expire, ExpireUnheard
  <1>2. /\ count > 0 /\ \A d \in Callers \ {c} : ~MayExpire(d)
        /\ step[c] = "expire" => expiry = NoTTL
    BY <1>1 DEF SetterInv, OneRequestSetsTheTTL
  <1>3. expiry' = now + Window /\ now' = now /\ count' = count
    BY <1>2, Numbers DEF Expire, ExpireUnheard, RedisExpire
  <1>4. step[c] = "expire" \/ (step[c] = "repeat" /\ now <= ran[c] + Patience)
    BY <1>1 DEF MayExpire
  <1>5. \A d \in Callers \ {c} : step'[d] = step[d] /\ ran'[d] = ran[d]
    BY DEF Expire, ExpireUnheard, Finish, IInv, TypeOK
  <1>6. expiry <= expiry'
    BY <1>3 DEF SetterInv
  <1>7. step[c] = "repeat" => ran[c] + Window <= expiry
    BY <1>1 DEF SetterInv
  <1>8. QED
    BY <1>2, <1>3, <1>4, <1>5, <1>6, <1>7

LEMMA SetterExpire ==
  ASSUME IInv, SetterInv, NEW c \in Callers, Expire(c) \/ ExpireUnheard(c)
  PROVE  SetterInv'
  <1>1. /\ now \in Nat /\ expiry \in Nat /\ Window \in Nat \ {0} /\ ran[c] \in Nat
    BY Numbers DEF IInv, TypeOK
  <1>2. \A d \in Callers \ {c} : ~MayExpire(d)'
    BY SetterExpires DEF MayExpire
  <1>3. expiry' <= now' + Window
    BY SetterExpires, <1>1
  <1>4. step'[c] # "expire"
    BY DEF Expire, ExpireUnheard, Finish, IInv, TypeOK
  <1>5. step'[c] = "repeat" => ran'[c] + Window <= expiry'
    <2>1. CASE step[c] = "expire" /\ ExpireUnheard(c)
      <3>1. ran'[c] = now
        BY <2>1 DEF ExpireUnheard, IInv, TypeOK
      <3>2. QED
        BY <3>1, <1>1, SetterExpires
    <2>2. CASE step[c] = "repeat" /\ ExpireUnheard(c)
      <3>1. ran'[c] = ran[c]
        BY <2>2 DEF ExpireUnheard
      <3>2. ran[c] + Window <= expiry /\ expiry <= expiry' /\ expiry' = now + Window
        BY <2>2, SetterExpires
      <3>3. QED
        BY <3>1, <3>2, <1>1
    <2>3. CASE Expire(c)
      BY <2>3 DEF Expire, Finish, IInv, TypeOK
    <2>4. QED
      BY <2>1, <2>2, <2>3, SetterExpires
  <1>6. OneRequestSetsTheTTL'
    <2>1. count' > 0
      BY SetterExpires
    <2>2. QED
      BY <1>2, <1>4, <2>1 DEF OneRequestSetsTheTTL
  <1>7. QED
    BY <1>2, <1>3, <1>5, <1>6 DEF SetterInv

LEMMA SetterStep ==
  ASSUME PatienceIsShort
  PROVE  IInv /\ SetterInv /\ [Next]_vars => SetterInv'
  <1> SUFFICES ASSUME IInv, SetterInv, [Next]_vars PROVE SetterInv'
    OBVIOUS
  <1>1. ASSUME NEW c \in Callers, Check(c) \/ CheckUnheard(c) PROVE SetterInv'
    BY <1>1, SetterCheck
  <1>2. ASSUME NEW c \in Callers, Expire(c) \/ ExpireUnheard(c) PROVE SetterInv'
    BY <1>2, SetterExpire
  <1>3. ASSUME NEW c \in Callers, ExpireFails(c) PROVE SetterInv'
    <2>1. \A d \in Callers :
            /\ step'[d] \in {"idle", step[d]}
            /\ step'[d] # "idle" => ran'[d] = ran[d]
      BY <1>3 DEF ExpireFails, Finish, IInv, TypeOK
    <2>2. UNCHANGED <<now, count, expiry>>
      BY <1>3 DEF ExpireFails
    <2>3. QED
      BY <2>1, <2>2 DEF SetterInv, OneRequestSetsTheTTL, MayExpire
  <1>4. CASE Tick
    BY <1>4, SetterTick
  <1>5. CASE UNCHANGED vars
    BY <1>5 DEF vars, SetterInv, OneRequestSetsTheTTL, MayExpire
  <1>6. QED
    BY <1>1, <1>2, <1>3, <1>4, <1>5 DEF Next

(* EXPIRE, however often it is repeated, only ever meets the counter its    *)
(* own request created, if repeats end before the window does (Check).      *)
THEOREM OneSetterAtATime ==
  ASSUME PatienceIsShort
  PROVE  Spec => []OneRequestSetsTheTTL
  <1>1. IInv /\ SetterInv /\ [Next]_vars => SetterInv'
    BY SetterStep
  <1>2. SetterInv => OneRequestSetsTheTTL
    BY DEF SetterInv
  <1>3. QED
    BY <1>1, <1>2, SetterInit, Invariance, PTL DEF Spec

(* A deadline that is set is put off only by its own request's repeats, by  *)
(* no more than its patience, and stays otherwise until the counter is      *)
(* deleted at it (Check).                                                   *)
THEOREM DeadlinesHardlyMove ==
  ASSUME PatienceIsShort
  PROVE  Spec => OnlyRepeatsMoveDeadlines
  <1> DEFINE Moved ==
        \/ now' >= expiry /\ count' = 0
        \/ \E c \in Callers :
             /\ step[c] = "repeat" /\ count' = count
             /\ ran[c] + Window <= expiry
             /\ expiry < expiry' /\ expiry' <= ran[c] + Window + Patience
  <1>1. IInv /\ SetterInv /\ [Next]_vars =>
          [expiry # NoTTL /\ expiry' # expiry => Moved]_vars
    <2> SUFFICES ASSUME IInv, SetterInv, Next, expiry # NoTTL, expiry' # expiry
                 PROVE  Moved
      BY DEF vars
    <2>1. ASSUME NEW c \in Callers, Expire(c) \/ ExpireUnheard(c) PROVE Moved
      <3>1. /\ now \in Nat /\ expiry \in Nat /\ Window \in Nat /\ ran[c] \in Nat
            /\ Patience \in Nat
        BY Numbers, RuleIsReal DEF IInv, TypeOK
      <3>2. /\ step[c] = "repeat" /\ count' = count /\ ran[c] + Window <= expiry
            /\ expiry <= expiry' /\ expiry' = now + Window /\ now <= ran[c] + Patience
        BY <2>1, SetterExpires
      <3>3. expiry < expiry' /\ expiry' <= ran[c] + Window + Patience
        BY <3>1, <3>2
      <3>4. QED
        BY <3>2, <3>3
    <2>2. CASE Tick
      BY <2>2 DEF Tick, IInv, TypeOK
    <2>3. QED
      BY <2>1, <2>2 DEF Next, Check, CheckUnheard, ExpireFails
  <1>2. IInv /\ SetterInv /\ [Next]_vars => SetterInv'
    BY SetterStep
  <1>3. QED
    BY <1>1, <1>2, SetterInit, Invariance, PTL DEF Spec, OnlyRepeatsMoveDeadlines

(* Within one window, entries come from at most two counters that follow    *)
(* each other, at most Limit from each.                                     *)
LEMMA TwoCountersAWindow ==
  ASSUME IInv, NEW t \in Nat
  PROVE  Cardinality(During(t)) <= 2 * Limit
  <1> DEFINE S == During(t)
  <1>1. S \subseteq DOMAIN log /\ \A i \in S : log[i] \in Admissions
    BY DEF During, IInv, TypeOK
  <1>2. \A i, j \in S : log[j].life <= log[i].life + 1
    BY <1>1, RuleIsReal DEF During, IInv, LivesLastAWindow, Admissions
  <1>3. PICK first \in Nat : \A i \in S : log[i].life \in {first, first + 1}
    <2>1. CASE \E i, j \in S : log[j].life = log[i].life + 1
      <3>1. PICK i \in S, j \in S : log[j].life = log[i].life + 1
        BY <2>1
      <3>2. \A k \in S : log[k].life \in {log[i].life, log[i].life + 1}
        BY <3>1, <1>1, <1>2 DEF Admissions
      <3>3. log[i].life \in Nat
        BY <1>1 DEF Admissions
      <3>4. QED
        BY <3>2, <3>3
    <2>2. CASE ~\E i, j \in S : log[j].life = log[i].life + 1
      <3>1. CASE S = {}
        BY <3>1
      <3>2. CASE S # {}
        <4>1. PICK i \in S : TRUE
          BY <3>2
        <4>2. \A k \in S : log[k].life = log[i].life
          BY <1>1, <1>2, <2>2 DEF Admissions
        <4>3. log[i].life \in Nat
          BY <1>1 DEF Admissions
        <4>4. QED
          BY <4>2, <4>3
      <3>3. QED
        BY <3>1, <3>2
    <2>3. QED
      BY <2>1, <2>2
  <1> DEFINE T == {first, first + 1} \X (1 .. Limit)
             f == [i \in S |-> <<log[i].life, log[i].place>>]
  <1>4. IsFiniteSet({first, first + 1}) /\ Cardinality({first, first + 1}) = 2
    <2>1. {first, first + 1} = first .. (first + 1)
      OBVIOUS
    <2>2. first \in Int /\ first + 1 \in Int
      OBVIOUS
    <2>3. /\ IsFiniteSet(first .. (first + 1))
          /\ Cardinality(first .. (first + 1)) =
               IF first > first + 1 THEN 0 ELSE (first + 1) - first + 1
      BY <2>2, FS_Interval
    <2>4. (first + 1) - first + 1 = 2 /\ ~(first > first + 1)
      OBVIOUS
    <2>5. QED
      BY <2>1, <2>3, <2>4
  <1>5. IsFiniteSet(1 .. Limit) /\ Cardinality(1 .. Limit) = Limit
    BY FS_Interval, RuleIsReal
  <1>6. IsFiniteSet(T) /\ Cardinality(T) = 2 * Limit
    BY <1>4, <1>5, FS_Product
  <1>7. f \in Injection(S, T)
    <2>1. f \in [S -> T]
      BY <1>1, <1>3 DEF Admissions
    <2>2. \A i, j \in S : f[i] = f[j] => i = j
      BY <1>1 DEF IInv, PlacesDiffer
    <2>3. QED
      BY <2>1, <2>2, Fun_IsInj
  <1>8. QED
    BY <1>6, <1>7, FS_Injection

(* Any window sees at most twice the limit, whatever fails (Check).         *)
THEOREM AtMostTwiceTheLimit == Spec => []AnyWindowAdmitsTwiceTheLimit
  <1>1. IInv => AnyWindowAdmitsTwiceTheLimit
    BY TwoCountersAWindow DEF AnyWindowAdmitsTwiceTheLimit
  <1>2. QED
    BY <1>1, Invariance, PTL
=============================================================================
