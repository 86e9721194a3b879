----------------------- MODULE CitizenRegistry_proofs -----------------------
(***************************************************************************)
(* Proofs about CitizenRegistry, for every set of citizens, of national_ids *)
(* and of calls, whatever they ask for.                                    *)
(***************************************************************************)
EXTENDS CitizenRegistry, TLAPS

(* What a call holds when it writes: a whole row, with the number it asked  *)
(* for, and of a creation no old one.                                       *)
CallsAreReady ==
  \A k \in Calls :
    /\ pc[k] = "start" => met[k] = {}
    /\ ask[k].does = "create" => before[k] = NoRow
    /\ ask[k].does # "delete" /\ pc[k] \in {"apply", "write", "audit", "insert"} =>
         copy[k] \in Rows
    /\ ask[k].does # "delete" /\ ask[k].nid # Keep /\ pc[k] = "write" =>
         copy[k].nid = EncryptDeterministic(ask[k].nid, k)

(* Who has the number a call is about to write took it after the call had   *)
(* asked for it.                                                            *)
TakenSinceTheLook ==
  \A k \in Calls : pc[k] = "write" /\ ask[k].does # "delete" /\ ask[k].nid # Keep =>
    \A e \in Citizens \ {Of(k)} :
      Live(e) /\ citizens[e].nid = copy[k].nid => giver[e] \in met[k]

(* No number entered through the API has a random IV.                       *)
RandomOnesAreSeeded ==
  /\ \A c \in Citizens : citizens[c] # NoRow /\ Len(citizens[c].nid) = 2 =>
       Seeded(c, citizens[c].nid)
  /\ \A k \in Calls : copy[k] # NoRow /\ Len(copy[k].nid) = 2 =>
       Seeded(Of(k), copy[k].nid)

(* Snapshots are of rows that were.                                         *)
SnapshotsAreOfRows ==
  /\ \A c \in Citizens : {NoRow, buildSnapshot(citizens[c])} \subseteq was[c]
  /\ \A k \in Calls : /\ before[k] \in was[Of(k)]
                      /\ Telling(k) => AfterSnapshot(k) \in was[Of(k)]
  /\ AuditIsTrue

(* On a citizen not mixed up there is one call at work, and the row is as   *)
(* that call has read or written it.                                        *)
Alone ==
  \A j, k \in Calls : j # k /\ Of(j) = Of(k) /\ Of(k) \notin mixed =>
    ask[k].does # "create" /\ ~(AtWork(j) /\ AtWork(k))
TellsUpdate(k) == Telling(k) /\ ask[k].does = "update"
RowsAreAsRead ==
  \A k \in Calls : Of(k) \notin mixed =>
    /\ ask[k].does = "create" /\ pc[k] \in {"start", "write"} => citizens[Of(k)] = NoRow
    /\ ask[k].does = "update" /\ pc[k] \in {"apply", "write"} =>
         before[k] = buildSnapshot(citizens[Of(k)])
    /\ TellsUpdate(k) => AfterSnapshot(k) = buildSnapshot(citizens[Of(k)])

(* The clock has left every stamp behind, and creations and deletions are   *)
(* not in the log.                                                          *)
StampsArePast ==
  /\ \A i \in DOMAIN audit : audit[i].at < now /\ audit[i].new # NoRow
  /\ \A k \in Calls : pc[k] = "insert" => stamp[k] < now

(* What the log says last is where the next row of it will start.           *)
LogGoesOn ==
  \A i \in DOMAIN audit : Orderly(audit[i].citizen) =>
    /\ \A j \in DOMAIN audit : Follows(j, i) =>
         audit[j].old = audit[i].new /\ audit[i].at < audit[j].at
    /\ Last(i) => /\ (\A k \in Calls : Of(k) = audit[i].citizen => ~TellsUpdate(k)) =>
                       audit[i].new = buildSnapshot(citizens[audit[i].citizen])
                  /\ \A k \in Calls : Of(k) = audit[i].citizen =>
                       /\ TellsUpdate(k) => audit[i].new = before[k]
                       /\ pc[k] = "insert" => audit[i].at < stamp[k]

RInv ==
  /\ RegistryTypeOK
  /\ CallsAreReady /\ TakenSinceTheLook /\ RandomOnesAreSeeded
  /\ SnapshotsAreOfRows
  /\ Alone /\ RowsAreAsRead /\ StampsArePast /\ LogGoesOn

-----------------------------------------------------------------------------
(* Calls, rows and snapshots *)

LEMMA AsksAreAsks ==
  ASSUME RegistryTypeOK, NEW k \in Calls
  PROVE  /\ ask[k] \in Asks /\ Of(k) \in Citizens
         /\ ask[k].does = "create" => ask[k].nid \in Ids /\ ask[k].place \in Places
  <1>1. ask \in Scenarios /\ ask \in [Calls -> Asks]
    BY ScenariosAreAsks DEF RegistryTypeOK
  <1>2. ask[k] \in Asks
    BY <1>1
  <1>3. ask[k].does = "create" => Keep \notin {ask[k].nid, ask[k].place}
    BY <1>1, CreationsAreNew
  <1>4. QED
    BY <1>2, <1>3 DEF Asks, Of

LEMMA SnapshotsAreTyped ==
  ASSUME NEW row \in Rows \cup {NoRow}
  PROVE  /\ buildSnapshot(row) \in Snapshots
         /\ row # NoRow => Decrypt(row.nid) \in Ids
  BY DEF buildSnapshot, Snapshots, Rows, Ciphers, Decrypt

LEMMA CiphersAreNumbers ==
  ASSUME NEW n \in Ids, NEW place \in Places, NEW created \in Nat, NEW k
  PROVE  [nid |-> EncryptDeterministic(n, k), place |-> place, created |-> created] \in Rows
  BY DEF EncryptDeterministic, Rows, Ciphers

(* A statement that changes nothing but how far a call has come.            *)
Refuses(k) == pc[k] \in {"start", "apply", "write"} /\ Refuse(k)

LEMMA StepKinds ==
  ASSUME RegistryNext
  PROVE  \/ \E k \in Calls :
              \/ CreateLook(k) \/ ReadRow(k) \/ applyUpdates(k) \/ Refuses(k)
              \/ Write(k) \/ WriteUnheard(k) \/ writeAuditLog(k) \/ Insert(k) \/ AuditFails(k)
         \/ \E c \in Movers, place \in Places : UpdateResidence(c, place)
  BY DEF RegistryNext, Step, Fault, Refuses, Refused, MatchesNone, GiveUp, EndsWithContext

(* What applyUpdates makes of the row it was given is a row again.          *)
LEMMA UpdatedRows ==
  ASSUME RegistryTypeOK, CallsAreReady, NEW k \in Calls, applyUpdates(k)
  PROVE  /\ copy'[k] \in Rows /\ \A j \in Calls \ {k} : copy'[j] = copy[j]
         /\ copy'[k].created = copy[k].created
         /\ Sends(k, "nid") => copy'[k].nid = EncryptDeterministic(ask[k].nid, k)
         /\ ~Sends(k, "nid") => copy'[k].nid = copy[k].nid
         /\ ask[k].does = "update"
         /\ copy' \in [Calls -> Rows \cup {NoRow}]
  <1> DEFINE nid == IF Sends(k, "nid") THEN EncryptDeterministic(ask[k].nid, k)
                    ELSE copy[k].nid
             place == IF Sends(k, "place") THEN ask[k].place ELSE copy[k].place
             row == [copy[k] EXCEPT !.nid = nid, !.place = place]
  <1>1. ask[k].does = "update" /\ copy[k] \in Rows
    BY DEF applyUpdates, RegistryTypeOK, CallsAreReady
  <1>2. nid \in Ciphers
    BY <1>1, AsksAreAsks DEF Sends, EncryptDeterministic, Asks, Rows, Ciphers
  <1>3. place \in Places
    BY <1>1, AsksAreAsks DEF Sends, Asks, Rows
  <1>4. copy' = [copy EXCEPT ![k] = row]
    <2>1. copy' = [copy EXCEPT
           ![k].nid = IF Sends(k, "nid") THEN EncryptDeterministic(ask[k].nid, k) ELSE @,
           ![k].place = IF Sends(k, "place") THEN ask[k].place ELSE @]
      BY DEF applyUpdates
    <2>2. QED
      BY <2>1 DEF RegistryTypeOK
  <1> HIDE DEF nid, place
  <1>5. row \in Rows /\ row.created = copy[k].created /\ row.nid = nid
    BY <1>1, <1>2, <1>3 DEF Rows
  <1> HIDE DEF row
  <1>6. copy' \in [Calls -> Rows \cup {NoRow}] /\ copy'[k] = row
        /\ \A j \in Calls \ {k} : copy'[j] = copy[j]
    BY <1>4, <1>5 DEF RegistryTypeOK
  <1>7. QED
    BY <1>1, <1>5, <1>6 DEF nid

(* The statement a call is there for: it touches one row, that nobody has   *)
(* deleted.                                                                 *)
LEMMA WhatIsWritten ==
  ASSUME RegistryTypeOK, CallsAreReady, NEW k \in Calls, Written(k)
  PROVE  /\ citizens' \in [Citizens -> Rows \cup {NoRow}] /\ citizens'[Of(k)] \in Rows
         /\ Of(k) \notin deleted
         /\ \A c \in Citizens \ {Of(k)} : citizens'[c] = citizens[c] /\ (Live(c)' <=> Live(c))
         /\ ask[k].does = "delete" => /\ citizens' = citizens /\ Live(Of(k))
                                      /\ deleted' = deleted \cup {Of(k)}
         /\ ask[k].does # "delete" => /\ citizens'[Of(k)] = copy[k] /\ copy[k] \in Rows
                                      /\ deleted' = deleted
                                      /\ Live(Of(k))'
         /\ ask[k].does = "create" => citizens[Of(k)] = NoRow
         /\ ask[k].does = "update" => Live(Of(k))
  <1>1. Of(k) \in Citizens /\ ask[k].does \in {"create", "update", "delete"}
    BY AsksAreAsks DEF Asks
  <1>2. Of(k) \notin deleted
    BY <1>1 DEF Written, Matches, AnyRow, UpdatesRow, Live, RegistryTypeOK
  <1>3. CASE ask[k].does = "delete"
    BY <1>1, <1>2, <1>3 DEF Written, Matches, UpdatesRow, Live, RegistryTypeOK
  <1>4. CASE ask[k].does # "delete"
    <2>1. copy[k] \in Rows
      BY <1>4 DEF Written, CallsAreReady
    <2>2. citizens' = [citizens EXCEPT ![Of(k)] = copy[k]] /\ deleted' = deleted
      BY <1>4 DEF Written
    <2>3. /\ citizens' \in [Citizens -> Rows \cup {NoRow}] /\ citizens'[Of(k)] = copy[k]
          /\ \A c \in Citizens \ {Of(k)} : citizens'[c] = citizens[c]
      BY <1>1, <2>1, <2>2 DEF RegistryTypeOK
    <2>4. Of(k)' = Of(k)
      BY DEF Written, Of
    <2>5. /\ ask[k].does = "create" => citizens[Of(k)] = NoRow
          /\ ask[k].does = "update" => Live(Of(k))
      BY DEF Written, Matches, AnyRow, UpdatesRow
    <2>6. citizens'[Of(k)] # NoRow /\ Of(k) \notin deleted'
      BY <1>2, <2>1, <2>2, <2>3, NoRowIsNone
    <2>7. Live(Of(k))'
      BY <2>4, <2>6 DEF Live
    <2>8. \A c \in Citizens \ {Of(k)} : Live(c)' <=> Live(c)
      BY <2>2, <2>3 DEF Live
    <2>9. QED
      BY <1>2, <1>4, <2>1, <2>2, <2>3, <2>5, <2>7, <2>8
  <1>5. QED
    BY <1>3, <1>4

LEMMA WrittenTypes ==
  ASSUME RegistryTypeOK, CallsAreReady, NEW k \in Calls, Written(k),
         pc' \in [Calls -> {"start", "apply", "write", "audit", "insert", "done"}],
         \A j \in Calls : pc'[j] = "apply" => pc[j] = "apply",
         lost' \subseteq Calls
  PROVE  RegistryTypeOK'
  <1>1. Of(k) \in Citizens
    BY AsksAreAsks
  <1>2. /\ citizens' \in [Citizens -> Rows \cup {NoRow}]
        /\ citizens'[Of(k)] \in Rows
        /\ deleted' \subseteq {c \in Citizens : citizens'[c] # NoRow}
    <2>1. /\ citizens' \in [Citizens -> Rows \cup {NoRow}] /\ citizens'[Of(k)] \in Rows
          /\ \A c \in Citizens \ {Of(k)} : citizens'[c] = citizens[c]
          /\ deleted' \subseteq deleted \cup {Of(k)}
      BY WhatIsWritten
    <2>2. deleted \subseteq {c \in Citizens : citizens[c] # NoRow}
      BY DEF RegistryTypeOK
    <2>3. QED
      BY <1>1, <2>1, <2>2, NoRowIsNone
  <1>3. /\ met' \in [Calls -> SUBSET Calls]
        /\ giver' \in [Citizens -> Calls \cup {NoRow}]
    BY <1>1 DEF Written, RegistryTypeOK
  <1>4. was' \in [Citizens -> SUBSET Snapshots]
    <2>1. buildSnapshot(citizens'[Of(k)]) \in Snapshots
      BY <1>2, SnapshotsAreTyped
    <2>2. QED
      BY <1>1, <2>1 DEF Written, RegistryTypeOK
  <1>5. QED
    BY <1>2, <1>3, <1>4 DEF Written, RegistryTypeOK

LEMMA RegistryTypeStep ==
  ASSUME RegistryTypeOK, CallsAreReady, [RegistryNext]_vars
  PROVE  RegistryTypeOK'
  <1> USE DEF database, history
  <1>1. ASSUME NEW k \in Calls, CreateLook(k) PROVE RegistryTypeOK'
    <2> DEFINE row == [nid |-> EncryptDeterministic(ask[k].nid, k),
                       place |-> ask[k].place, created |-> now]
    <2>1. row \in Rows
      BY <1>1, AsksAreAsks, CiphersAreNumbers DEF CreateLook, RegistryTypeOK
    <2>2. copy' = [copy EXCEPT ![k] = row]
      BY <1>1 DEF CreateLook
    <2> HIDE DEF row
    <2>3. QED
      BY <1>1, <2>1, <2>2 DEF CreateLook, Goto, RegistryTypeOK
  <1>2. ASSUME NEW k \in Calls, ReadRow(k) PROVE RegistryTypeOK'
    <2>1. GetByID(Of(k)) \in Rows \cup {NoRow}
      BY AsksAreAsks DEF GetByID, RegistryTypeOK
    <2>2. buildSnapshot(GetByID(Of(k))) \in Snapshots
      BY <2>1, SnapshotsAreTyped
    <2>3. mixed' \subseteq Citizens
      BY <1>2, AsksAreAsks DEF ReadRow, Meets, RegistryTypeOK
    <2>4. QED
      BY <1>2, <2>1, <2>2, <2>3 DEF ReadRow, Goto, RegistryTypeOK
  <1>3. ASSUME NEW k \in Calls, applyUpdates(k) PROVE RegistryTypeOK'
    <2>1. copy' \in [Calls -> Rows \cup {NoRow}]
      BY <1>3, UpdatedRows
    <2>2. QED
      BY <1>3, <2>1 DEF applyUpdates, Goto, RegistryTypeOK
  <1>4. ASSUME NEW k \in Calls, Refuses(k) PROVE RegistryTypeOK'
    BY <1>4 DEF Refuses, Refuse, Goto, RegistryTypeOK
  <1>5. ASSUME NEW k \in Calls, Write(k) \/ WriteUnheard(k) PROVE RegistryTypeOK'
    <2>1. /\ pc' \in [Calls -> {"start", "apply", "write", "audit", "insert", "done"}]
          /\ \A j \in Calls : pc'[j] = "apply" => pc[j] = "apply"
          /\ lost' \subseteq Calls
      BY <1>5 DEF Write, WriteUnheard, Goto, RegistryTypeOK
    <2>2. QED
      BY <1>5, <2>1, WrittenTypes DEF Write, WriteUnheard
  <1>6. ASSUME NEW k \in Calls, Insert(k) PROVE RegistryTypeOK'
    <2> DEFINE e == [citizen |-> Of(k), action |-> ask[k].does, by |-> k, at |-> stamp[k],
                     old |-> before[k], new |-> AfterSnapshot(k)]
    <2>1. AfterSnapshot(k) \in Snapshots
      BY SnapshotsAreTyped DEF AfterSnapshot, RegistryTypeOK, Snapshots
    <2>2. e \in Entries
      BY <2>1, AsksAreAsks DEF Entries, Asks, RegistryTypeOK
    <2> HIDE DEF e
    <2>3. audit' \in {audit, Append(audit, e)} /\ lost' \in {lost, lost \cup {k}}
      BY <1>6 DEF Insert, e
    <2>4. audit' \in Seq(Entries)
      <3>1. audit \in Seq(Entries)
        BY DEF RegistryTypeOK
      <3>2. QED
        BY <2>2, <2>3, <3>1
    <2>5. QED
      BY <1>6, <2>3, <2>4 DEF Insert, Goto, RegistryTypeOK
  <1>7. ASSUME NEW k \in Calls, writeAuditLog(k) \/ AuditFails(k) PROVE RegistryTypeOK'
    <2>1. CASE writeAuditLog(k)
      <3>1. now' \in Nat /\ stamp' \in [Calls -> Nat]
        BY <2>1 DEF writeAuditLog, RegistryTypeOK
      <3>2. QED
        BY <2>1, <3>1 DEF writeAuditLog, Goto, RegistryTypeOK
    <2>2. CASE AuditFails(k)
      BY <2>2 DEF AuditFails, Goto, RegistryTypeOK
    <2>3. QED
      BY <1>7, <2>1, <2>2
  <1>8. ASSUME NEW c \in Movers, NEW place \in Places, UpdateResidence(c, place)
        PROVE  RegistryTypeOK'
    <2>1. c \in Citizens /\ citizens[c] \in Rows
      BY <1>8, MoversAreCitizens DEF UpdateResidence, Live, RegistryTypeOK
    <2>2. [citizens[c] EXCEPT !.place = place] \in Rows
      BY <2>1 DEF Rows
    <2>3. /\ citizens' \in [Citizens -> Rows \cup {NoRow}] /\ citizens'[c] \in Rows
          /\ \A d \in Citizens \ {c} : citizens'[d] = citizens[d]
      BY <1>8, <2>1, <2>2 DEF UpdateResidence, RegistryTypeOK
    <2>4. buildSnapshot(citizens'[c]) \in Snapshots
      BY <2>3, SnapshotsAreTyped
    <2>5. was' \in [Citizens -> SUBSET Snapshots]
      BY <1>8, <2>1, <2>4 DEF UpdateResidence, RegistryTypeOK
    <2>6. QED
      BY <1>8, <2>1, <2>3, <2>5, NoRowIsNone DEF UpdateResidence, RegistryTypeOK
  <1>9. CASE UNCHANGED vars
    BY <1>9 DEF vars, RegistryTypeOK
  <1>10. QED
    BY <1>1, <1>2, <1>3, <1>4, <1>5, <1>6, <1>7, <1>8, <1>9, StepKinds

-----------------------------------------------------------------------------
(* What a call holds *)

LEMMA ReadyStep ==
  ASSUME RegistryTypeOK, CallsAreReady, [RegistryNext]_vars
  PROVE  CallsAreReady'
  <1> USE DEF database, history
  <1> DEFINE Ready(j) == CallsAreReady!(j)
  <1>1. ASSUME NEW k \in Calls, CreateLook(k), NEW j \in Calls PROVE Ready(j)'
    <2> DEFINE row == [nid |-> EncryptDeterministic(ask[k].nid, k),
                       place |-> ask[k].place, created |-> now]
    <2>1. row \in Rows /\ row.nid = EncryptDeterministic(ask[k].nid, k)
      BY <1>1, AsksAreAsks, CiphersAreNumbers DEF CreateLook, RegistryTypeOK
    <2>2. copy' = [copy EXCEPT ![k] = row]
      BY <1>1 DEF CreateLook
    <2> HIDE DEF row
    <2>3. CASE j = k
      BY <1>1, <2>1, <2>2, <2>3 DEF CreateLook, Goto, RegistryTypeOK, CallsAreReady,
         EncryptDeterministic
    <2>4. CASE j # k
      BY <1>1, <2>2, <2>4 DEF CreateLook, Goto, RegistryTypeOK, CallsAreReady,
         EncryptDeterministic
    <2>5. QED
      BY <2>3, <2>4
  <1>2. ASSUME NEW k \in Calls, ReadRow(k), NEW j \in Calls PROVE Ready(j)'
    <2>1. CASE j = k
      <3>1. /\ ask'[k] = ask[k] /\ ask[k].does \in {"update", "delete"}
            /\ pc'[k] \in {"apply", "write"} /\ (ask[k].does = "update" => pc'[k] = "apply")
            /\ copy'[k] = GetByID(Of(k))
        BY <1>2 DEF ReadRow, Goto, RegistryTypeOK
      <3>2. ask[k].does = "update" => GetByID(Of(k)) \in Rows
        BY <1>2, AsksAreAsks DEF ReadRow, GetByID, Live, RegistryTypeOK
      <3>3. QED
        BY <2>1, <3>1, <3>2
    <2>2. CASE j # k
      BY <1>2, <2>2 DEF ReadRow, Goto, RegistryTypeOK, CallsAreReady, EncryptDeterministic
    <2>3. QED
      BY <2>1, <2>2
  <1>3. ASSUME NEW k \in Calls, applyUpdates(k), NEW j \in Calls PROVE Ready(j)'
    <2>1. CASE j = k
      <3>1. /\ ask' = ask /\ pc'[k] = "write" /\ ask[k].does = "update" /\ copy'[k] \in Rows
            /\ ask[k].nid # Keep => copy'[k].nid = EncryptDeterministic(ask[k].nid, k)
        BY <1>3, UpdatedRows DEF applyUpdates, Goto, Sends, RegistryTypeOK
      <3>2. QED
        BY <2>1, <3>1 DEF EncryptDeterministic
    <2>2. CASE j # k
      <3>1. copy'[j] = copy[j] /\ pc'[j] = pc[j] /\ UNCHANGED <<ask, before>>
            /\ met'[j] = met[j]
        BY <1>3, <2>2, UpdatedRows DEF applyUpdates, Goto, RegistryTypeOK
      <3>2. QED
        BY <3>1 DEF CallsAreReady, EncryptDeterministic
    <2>3. QED
      BY <2>1, <2>2
  <1>4. ASSUME NEW k \in Calls, UNCHANGED <<ask, copy, before, met>>, NEW next,
               next \in {"audit", "insert", "done"}, Goto(k, next),
               pc[k] \in {"write", "audit"} \/ next = "done", NEW j \in Calls
        PROVE  Ready(j)'
    BY <1>4 DEF Goto, RegistryTypeOK, CallsAreReady, EncryptDeterministic
  <1>5. ASSUME NEW k \in Calls, Refuses(k) \/ writeAuditLog(k) \/ Insert(k) \/ AuditFails(k)
        PROVE  CallsAreReady'
    BY <1>4, <1>5 DEF Refuses, Refuse, writeAuditLog, Insert, AuditFails, CallsAreReady
  <1>6. ASSUME NEW k \in Calls, Write(k) \/ WriteUnheard(k), NEW j \in Calls PROVE Ready(j)'
    <2>1. /\ UNCHANGED <<ask, copy, before>> /\ pc[k] = "write"
          /\ j # k => pc'[j] = pc[j]
          /\ pc'[k] \in {"audit", "done"}
          /\ pc[j] \notin {"apply", "write"} => met'[j] = met[j]
      BY <1>6 DEF Write, WriteUnheard, Written, Goto, RegistryTypeOK
    <2>2. QED
      BY <2>1 DEF CallsAreReady, EncryptDeterministic
  <1>7. CASE UNCHANGED <<ask, pc, copy, before, met>>
    BY <1>7 DEF CallsAreReady, EncryptDeterministic
  <1>8. ASSUME NEW c \in Movers, NEW place \in Places, UpdateResidence(c, place)
        PROVE  UNCHANGED <<ask, pc, copy, before, met>>
    BY <1>8 DEF UpdateResidence
  <1>9. CASE UNCHANGED vars
    BY <1>7, <1>9 DEF vars
  <1> HIDE DEF Ready
  <1>10. ASSUME \A j \in Calls : Ready(j)' PROVE CallsAreReady'
    BY <1>10 DEF CallsAreReady, Ready
  <1>11. QED
    BY <1>1, <1>2, <1>3, <1>5, <1>6, <1>7, <1>8, <1>9, <1>10, StepKinds

-----------------------------------------------------------------------------
(* National_ids *)

LEMMA TakenStep ==
  ASSUME RegistryTypeOK, CallsAreReady, TakenSinceTheLook, [RegistryNext]_vars
  PROVE  TakenSinceTheLook'
  <1> USE DEF database, history
  <1> DEFINE Wants(k) == pc[k] = "write" /\ ask[k].does # "delete" /\ ask[k].nid # Keep
             Taken(k, e) == Live(e) /\ citizens[e].nid = copy[k].nid => giver[e] \in met[k]
  <1> SUFFICES ASSUME NEW k \in Calls, Wants(k)', NEW e \in Citizens, e # Of(k)
               PROVE  Taken(k, e)'
    <2>1. ask' = ask
      BY StepKinds DEF CreateLook, ReadRow, applyUpdates, Refuses, Refuse, Write, WriteUnheard,
         Written, writeAuditLog, Insert, AuditFails, UpdateResidence, vars
    <2>2. QED
      BY <2>1 DEF TakenSinceTheLook, Of
  <1>1. CASE UNCHANGED <<citizens, deleted, giver>> /\ Wants(k) /\ copy'[k] = copy[k]
             /\ met'[k] = met[k]
    BY <1>1 DEF TakenSinceTheLook, Live
  <1>2. ASSUME CreateLook(k) PROVE Taken(k, e)'
    <2>1. copy'[k].nid = EncryptDeterministic(ask[k].nid, k)
      BY <1>2 DEF CreateLook, RegistryTypeOK
    <2>2. /\ UNCHANGED <<citizens, deleted>>
          /\ ~ExistsByNationalID(EncryptDeterministic(ask[k].nid, k), {})
      BY <1>2 DEF CreateLook
    <2>3. QED
      BY <2>1, <2>2 DEF ExistsByNationalID, Live
  <1>3. ASSUME applyUpdates(k) PROVE Taken(k, e)'
    <2>1. Sends(k, "nid") /\ UNCHANGED <<citizens, deleted>>
      BY <1>3 DEF applyUpdates, Sends
    <2>2. copy'[k].nid = EncryptDeterministic(ask[k].nid, k)
      BY <1>3, <2>1, UpdatedRows
    <2>3. ~ExistsByNationalID(EncryptDeterministic(ask[k].nid, k), {Of(k)})
      BY <1>3, <2>1 DEF applyUpdates
    <2>4. QED
      BY <2>1, <2>2, <2>3 DEF ExistsByNationalID, Live
  <1>4. ASSUME NEW j \in Calls, Write(j) \/ WriteUnheard(j) PROVE Taken(k, e)'
    <2>1. Written(j) /\ Wants(k) /\ copy'[k] = copy[k] /\ met'[k] = met[k] \cup {j}
      BY <1>4 DEF Write, WriteUnheard, Written, Goto, RegistryTypeOK
    <2>2. Live(e) /\ citizens[e].nid = copy[k].nid => giver[e] \in met[k]
      BY <2>1 DEF TakenSinceTheLook
    <2>3. CASE e # Of(j)
      <3>1. citizens'[e] = citizens[e] /\ (Live(e)' <=> Live(e))
        BY <2>1, <2>3, WhatIsWritten
      <3>2. giver'[e] = giver[e]
        BY <2>1, <2>3 DEF Written, RegistryTypeOK
      <3>3. QED
        BY <2>1, <2>2, <3>1, <3>2
    <2>4. CASE e = Of(j)
      <3>1. CASE giver'[e] = j
        BY <2>1, <3>1
      <3>2. CASE giver'[e] # j
        <4>1. giver' = giver /\ \/ citizens'[e] = citizens[e]
                                \/ citizens[e] # NoRow /\ citizens'[e].nid = citizens[e].nid
          BY <2>1, <2>4, <3>2 DEF Written, AnyRow, RegistryTypeOK
        <4>2. citizens'[e] \in Rows /\ e \notin deleted
          BY <2>1, <2>4, WhatIsWritten
        <4>3. Live(e) /\ citizens'[e].nid = citizens[e].nid
          BY <4>1, <4>2, NoRowIsNone DEF Live
        <4>4. QED
          BY <2>1, <2>2, <4>1, <4>3
      <3>3. QED
        BY <3>1, <3>2
    <2>5. QED
      BY <2>3, <2>4
  <1>5. ASSUME NEW c \in Movers, NEW place \in Places, UpdateResidence(c, place)
        PROVE  Taken(k, e)'
    <2>1. /\ Wants(k) /\ UNCHANGED <<copy, met, giver, deleted>>
          /\ Live(c) /\ citizens' = [citizens EXCEPT ![c].place = place]
      BY <1>5 DEF UpdateResidence
    <2>2. citizens[c] \in Rows
      BY <2>1, MoversAreCitizens DEF Live, RegistryTypeOK
    <2>3. Live(e)' => Live(e) /\ citizens'[e].nid = citizens[e].nid
      BY <2>1, <2>2 DEF Live, RegistryTypeOK, Rows
    <2>4. QED
      BY <2>1, <2>3 DEF TakenSinceTheLook
  <1>6. ASSUME NEW j \in Calls, \/ j # k /\ (CreateLook(j) \/ applyUpdates(j))
                                \/ ReadRow(j) \/ Refuses(j) \/ writeAuditLog(j) \/ Insert(j) \/ AuditFails(j)
        PROVE  Taken(k, e)'
    <2>1. CASE j # k /\ applyUpdates(j)
      <3>1. copy'[k] = copy[k]
        BY <2>1, UpdatedRows
      <3>2. QED
        BY <1>1, <2>1, <3>1 DEF applyUpdates, Goto, RegistryTypeOK
    <2>2. CASE j # k /\ CreateLook(j)
      BY <1>1, <2>2 DEF CreateLook, Goto, RegistryTypeOK
    <2>3. CASE ReadRow(j)
      BY <1>1, <2>3 DEF ReadRow, Goto, RegistryTypeOK
    <2>4. CASE Refuses(j) \/ writeAuditLog(j) \/ Insert(j) \/ AuditFails(j)
      BY <1>1, <2>4 DEF Refuses, Refuse, writeAuditLog, Insert, AuditFails, Goto, RegistryTypeOK
    <2>5. QED
      BY <1>6, <2>1, <2>2, <2>3, <2>4
  <1>7. CASE UNCHANGED vars
    BY <1>1, <1>7 DEF vars
  <1> HIDE DEF Taken, Wants
  <1>8. QED
    BY <1>2, <1>3, <1>4, <1>5, <1>6, <1>7, StepKinds

(* Two come to share a number by a write of one of them.                    *)
LEMMA SeededStep ==
  ASSUME RegistryTypeOK, CallsAreReady, RandomOnesAreSeeded, [RegistryNext]_vars
  PROVE  RandomOnesAreSeeded'
  <1> USE DEF database, history
  <1>1. ask' = ask
    BY StepKinds DEF CreateLook, ReadRow, applyUpdates, Refuses, Refuse, Write, WriteUnheard,
       Written, writeAuditLog, Insert, AuditFails, UpdateResidence, vars
  <1> DEFINE Kept(c, row) == row # NoRow /\ Len(row.nid) = 2 => Seeded(c, row.nid)
  <1>2. /\ \A c \in Citizens : Kept(c, citizens[c])
        /\ \A k \in Calls : Kept(Of(k), copy[k]) /\ Of(k)' = Of(k)
    BY <1>1 DEF RandomOnesAreSeeded, Of
  <1>3. ASSUME \A c \in Citizens : Kept(c, citizens'[c]), \A k \in Calls : Kept(Of(k), copy'[k])
        PROVE  RandomOnesAreSeeded'
    BY <1>1, <1>2, <1>3 DEF RandomOnesAreSeeded, Seeded
  <1>4. ASSUME NEW k \in Calls, CreateLook(k) PROVE RandomOnesAreSeeded'
    <2> DEFINE row == [nid |-> EncryptDeterministic(ask[k].nid, k),
                       place |-> ask[k].place, created |-> now]
    <2>1. citizens' = citizens /\ copy' = [copy EXCEPT ![k] = row]
      BY <1>4 DEF CreateLook
    <2>2. Len(row.nid) = 1
      BY DEF EncryptDeterministic
    <2> HIDE DEF row
    <2>3. \A j \in Calls : copy'[j] = copy[j] \/ copy'[j] = row
      BY <2>1 DEF RegistryTypeOK
    <2>4. QED
      BY <1>2, <1>3, <2>1, <2>2, <2>3
  <1>5. ASSUME NEW k \in Calls, ReadRow(k) PROVE RandomOnesAreSeeded'
    <2>1. citizens' = citizens /\ copy' = [copy EXCEPT ![k] = GetByID(Of(k))]
      BY <1>5 DEF ReadRow
    <2>2. GetByID(Of(k)) \in {citizens[Of(k)], NoRow} /\ Of(k) \in Citizens
      BY AsksAreAsks DEF GetByID
    <2>3. \A j \in Calls \ {k} : copy'[j] = copy[j]
      BY <2>1 DEF RegistryTypeOK
    <2>4. copy'[k] \in {citizens[Of(k)], NoRow}
      BY <2>1, <2>2 DEF RegistryTypeOK
    <2>5. QED
      BY <1>2, <1>3, <2>1, <2>2, <2>3, <2>4
  <1>6. ASSUME NEW k \in Calls, applyUpdates(k) PROVE RandomOnesAreSeeded'
    <2>1. citizens' = citizens
      BY <1>6 DEF applyUpdates
    <2>2. Sends(k, "nid") => Len(copy'[k].nid) # 2
      <3>1. Sends(k, "nid") => copy'[k].nid = <<ask[k].nid>>
        BY <1>6, UpdatedRows DEF EncryptDeterministic
      <3>2. Len(<<ask[k].nid>>) = 1
        OBVIOUS
      <3>3. QED
        BY <3>1, <3>2
    <2>3. ~Sends(k, "nid") => copy'[k].nid = copy[k].nid
      BY <1>6, UpdatedRows
    <2>4. copy[k] # NoRow /\ \A j \in Calls \ {k} : copy'[j] = copy[j]
      BY <1>6, UpdatedRows, NoRowIsNone DEF applyUpdates, CallsAreReady
    <2>5. QED
      BY <1>2, <1>3, <2>1, <2>2, <2>3, <2>4
  <1>7. ASSUME NEW k \in Calls, Write(k) \/ WriteUnheard(k) PROVE RandomOnesAreSeeded'
    <2>1. Written(k) /\ copy' = copy
      BY <1>7 DEF Write, WriteUnheard, Written
    <2>2. \A c \in Citizens : citizens'[c] = citizens[c] \/ (c = Of(k) /\ citizens'[c] = copy[k])
      BY <2>1, WhatIsWritten
    <2>3. QED
      BY <1>2, <1>3, <2>1, <2>2
  <1>8. ASSUME NEW x \in Movers, NEW place \in Places, UpdateResidence(x, place)
        PROVE  RandomOnesAreSeeded'
    <2>1. x \in Citizens /\ citizens[x] \in Rows /\ citizens[x] # NoRow /\ copy' = copy
          /\ citizens' = [citizens EXCEPT ![x].place = place]
      BY <1>8, MoversAreCitizens DEF UpdateResidence, Live, RegistryTypeOK
    <2>2. citizens'[x].nid = citizens[x].nid /\ \A c \in Citizens \ {x} : citizens'[c] = citizens[c]
      BY <2>1 DEF RegistryTypeOK, Rows
    <2>3. QED
      BY <1>2, <1>3, <2>1, <2>2
  <1>9. CASE UNCHANGED <<citizens, copy>>
    BY <1>2, <1>3, <1>9
  <1>10. QED
    BY <1>4, <1>5, <1>6, <1>7, <1>8, <1>9, StepKinds DEF Refuses, Refuse, writeAuditLog, Insert,
       AuditFails, vars

LEMMA TwinsStep ==
  ASSUME RegistryTypeOK, CallsAreReady, TakenSinceTheLook, RandomOnesAreSeeded,
         [RegistryNext]_vars,
         NEW c \in Citizens, NEW d \in Citizens, Twins(c, d)', ~Twins(c, d)
  PROVE  \E k \in Calls, e \in {c, d} :
           /\ Of(k) \in {c, d} \ {e} /\ (Write(k) \/ WriteUnheard(k))
           /\ \/ giver[e] \in met[k]
              \/ ask[k].nid = Keep
              \/ Seeded(e, citizens[e].nid)
  <1>1. ~UNCHANGED <<citizens, deleted>>
    BY DEF Twins, Live
  <1>2. ASSUME NEW x \in Movers, NEW place \in Places, UpdateResidence(x, place) PROVE FALSE
    <2>1. /\ deleted' = deleted /\ Live(x)
          /\ citizens' = [citizens EXCEPT ![x].place = place]
      BY <1>2 DEF UpdateResidence
    <2>2. citizens[x] \in Rows
      BY <2>1, MoversAreCitizens DEF Live, RegistryTypeOK
    <2>3. \A y \in Citizens : Live(y)' => Live(y) /\ citizens'[y].nid = citizens[y].nid
      BY <2>1, <2>2 DEF Live, RegistryTypeOK, Rows
    <2>4. QED
      BY <2>3 DEF Twins
  <1>3. PICK k \in Calls : Write(k) \/ WriteUnheard(k)
    BY <1>1, <1>2, StepKinds DEF CreateLook, ReadRow, applyUpdates, Refuses, Refuse,
       writeAuditLog, Insert, AuditFails, vars, database
  <1>4. Written(k) /\ pc[k] = "write"
    BY <1>3 DEF Write, WriteUnheard, Written
  <1>5. /\ \A y \in Citizens \ {Of(k)} : citizens'[y] = citizens[y] /\ (Live(y)' <=> Live(y))
        /\ ask[k].does = "delete" => citizens' = citizens /\ deleted' = deleted \cup {Of(k)}
        /\ ask[k].does # "delete" => citizens'[Of(k)] = copy[k]
    BY <1>4, WhatIsWritten
  <1>6. ask[k].does # "delete"
    BY <1>5 DEF Twins, Live
  <1>7. PICK e \in {c, d} : Of(k) \in {c, d} \ {e}
    BY <1>5 DEF Twins
  <1>8. /\ Live(e) /\ citizens[e] \in Rows /\ e # Of(k)
        /\ Decrypt(citizens[e].nid) = Decrypt(copy[k].nid)
    BY <1>5, <1>6, <1>7 DEF Twins, Live, RegistryTypeOK
  <1>9. CASE ask[k].nid # Keep
    <2>1. copy[k].nid = <<ask[k].nid>>
      BY <1>4, <1>6, <1>9 DEF CallsAreReady, EncryptDeterministic
    <2>2. citizens[e].nid \in Ciphers
      BY <1>8 DEF Rows
    <2>3. CASE \E n \in Ids : citizens[e].nid = <<n>>
      <3>1. citizens[e].nid = copy[k].nid
        BY <1>8, <2>1, <2>3 DEF Decrypt
      <3>2. giver[e] \in met[k]
        BY <1>4, <1>6, <1>8, <1>9, <3>1 DEF TakenSinceTheLook
      <3>3. QED
        BY <1>3, <1>7, <3>2
    <2>4. CASE \E n \in Ids, iv \in Calls \cup Citizens : citizens[e].nid = <<n, iv>>
      <3>1. Len(citizens[e].nid) = 2 /\ citizens[e] # NoRow /\ e \in Citizens
        BY <1>8, <2>4, NoRowIsNone
      <3>2. Seeded(e, citizens[e].nid)
        BY <3>1 DEF RandomOnesAreSeeded
      <3>3. QED
        BY <1>3, <1>7, <3>2
    <2>5. QED
      BY <2>2, <2>3, <2>4 DEF Ciphers
  <1>10. CASE ask[k].nid = Keep
    BY <1>3, <1>7, <1>10
  <1>11. QED
    BY <1>9, <1>10

-----------------------------------------------------------------------------
(* The audit log *)

(* The end of the log is where an entry is added, and only that of an       *)
(* update is taken.                                                         *)
Told(k) == IsJSON(before[k]) /\ IsJSON(AfterSnapshot(k))

LEMMA LogGrows ==
  ASSUME RegistryTypeOK, CallsAreReady, NEW k \in Calls, Insert(k), Told(k)
  PROVE  /\ ask[k].does = "update" /\ lost' = lost
         /\ \E n \in Nat :
              /\ DOMAIN audit' = DOMAIN audit \cup {n}
              /\ \A i \in DOMAIN audit : i \in Nat /\ i < n /\ audit'[i] = audit[i]
              /\ audit'[n] = [citizen |-> Of(k), action |-> ask[k].does, by |-> k,
                              at |-> stamp[k], old |-> before[k], new |-> AfterSnapshot(k)]
  <1> DEFINE e == [citizen |-> Of(k), action |-> ask[k].does, by |-> k, at |-> stamp[k],
                   old |-> before[k], new |-> AfterSnapshot(k)]
             n == Len(audit) + 1
  <1>1. audit \in Seq(Entries) /\ audit' = Append(audit, e) /\ lost' = lost
    BY DEF Insert, Told, RegistryTypeOK
  <1>2. ask[k].does = "update"
    BY AsksAreAsks DEF Told, IsJSON, AfterSnapshot, CallsAreReady, Asks
  <1> HIDE DEF e
  <1>3. Len(audit) \in Nat /\ DOMAIN audit = 1 .. Len(audit) /\ DOMAIN audit' = 1 .. n
    BY <1>1
  <1>4. audit'[n] = e /\ \A i \in DOMAIN audit : audit'[i] = audit[i]
    BY <1>1
  <1>5. n \in Nat /\ 1 .. n = 1 .. Len(audit) \cup {n}
    BY <1>3
  <1>6. \A i \in DOMAIN audit : i \in Nat /\ i < n
    BY <1>3
  <1> HIDE DEF n
  <1>7. QED
    BY <1>1, <1>2, <1>3, <1>4, <1>5, <1>6 DEF e

LEMMA LogIsKept ==
  ASSUME NEW k \in Calls, Insert(k), ~Told(k)
  PROVE  audit' = audit /\ lost' = lost \cup {k}
  BY DEF Insert, Told

LEMMA EntriesAreOfCitizens ==
  ASSUME RegistryTypeOK, NEW i \in DOMAIN audit
  PROVE  audit[i] \in Entries /\ audit[i].citizen \in Citizens
  <1>1. audit \in Seq(Entries) /\ i \in 1 .. Len(audit)
    BY DEF RegistryTypeOK
  <1>2. audit[i] \in Entries
    BY <1>1
  <1>3. QED
    BY <1>2 DEF Entries

LEMMA SnapshotsStep ==
  ASSUME RegistryTypeOK, CallsAreReady, SnapshotsAreOfRows, [RegistryNext]_vars
  PROVE  SnapshotsAreOfRows'
  <1> USE DEF database, history
  <1>1. /\ \A c \in Citizens : {NoRow, buildSnapshot(citizens[c])} \subseteq was[c]
        /\ \A k \in Calls : /\ before[k] \in was[Of(k)] /\ Of(k) \in Citizens
                            /\ Telling(k) => AfterSnapshot(k) \in was[Of(k)]
        /\ AuditIsTrue
    BY AsksAreAsks DEF SnapshotsAreOfRows
  <1>2. ASSUME UNCHANGED <<citizens, audit, ask, was>>,
               \A k \in Calls : /\ before'[k] = before[k]
                                     \/ before'[k] = buildSnapshot(GetByID(Of(k)))
                                /\ Telling(k)' => Telling(k) /\ copy'[k] = copy[k]
        PROVE  SnapshotsAreOfRows'
    <2>1. \A c \in Citizens : buildSnapshot(GetByID(c)) \in was[c]
      BY <1>1 DEF GetByID, buildSnapshot
    <2>2. QED
      BY <1>1, <1>2, <2>1 DEF SnapshotsAreOfRows, AuditIsTrue, Of, AfterSnapshot
  <1>3. ASSUME NEW k \in Calls, CreateLook(k) \/ ReadRow(k) \/ Refuses(k)
                                \/ writeAuditLog(k) \/ AuditFails(k)
        PROVE  SnapshotsAreOfRows'
    BY <1>2, <1>3 DEF CreateLook, ReadRow, Refuses, Refuse, writeAuditLog, AuditFails, Goto,
       Telling, RegistryTypeOK
  <1>4. ASSUME NEW k \in Calls, applyUpdates(k) PROVE SnapshotsAreOfRows'
    <2>1. \A j \in Calls \ {k} : copy'[j] = copy[j]
      BY <1>4, UpdatedRows
    <2>2. QED
      BY <1>2, <1>4, <2>1 DEF applyUpdates, Goto, Telling, RegistryTypeOK
  <1>5. ASSUME NEW c \in Citizens, UNCHANGED <<audit, ask, copy, before>>,
               was' = [was EXCEPT ![c] = @ \cup {buildSnapshot(citizens'[c])}],
               \A d \in Citizens \ {c} : citizens'[d] = citizens[d],
               \A k \in Calls : Telling(k)' =>
                 Telling(k) \/ (Of(k) = c /\ AfterSnapshot(k) \in
                                                {NoRow, buildSnapshot(citizens'[c])})
        PROVE  SnapshotsAreOfRows'
    <2>1. \A d \in Citizens : /\ was[d] \subseteq was'[d]
                              /\ {NoRow, buildSnapshot(citizens[d])} \subseteq was[d]
      BY <1>1, <1>5 DEF RegistryTypeOK
    <2>2. was'[c] = was[c] \cup {buildSnapshot(citizens'[c])}
      BY <1>5 DEF RegistryTypeOK
    <2>3. (\A d \in Citizens : {NoRow, buildSnapshot(citizens[d])} \subseteq was[d])'
      <3> SUFFICES ASSUME NEW d \in Citizens
                   PROVE  {NoRow, buildSnapshot(citizens'[d])} \subseteq was'[d]
        BY DEF buildSnapshot
      <3>1. CASE d = c
        BY <2>1, <2>2, <3>1
      <3>2. CASE d # c
        BY <1>5, <2>1, <3>2
      <3>3. QED
        BY <3>1, <3>2
    <2>4. (\A k \in Calls : /\ before[k] \in was[Of(k)]
                            /\ Telling(k) => AfterSnapshot(k) \in was[Of(k)])'
      BY <1>1, <1>5, <2>1, <2>2 DEF Of, AfterSnapshot
    <2>5. AuditIsTrue'
      BY <1>1, <1>5, <2>1, EntriesAreOfCitizens DEF AuditIsTrue
    <2>6. QED
      BY <2>3, <2>4, <2>5 DEF SnapshotsAreOfRows
  <1>6. ASSUME NEW k \in Calls, Write(k) \/ WriteUnheard(k) PROVE SnapshotsAreOfRows'
    <2>1. Written(k) /\ Of(k) \in Citizens
      BY <1>1, <1>6 DEF Write, WriteUnheard
    <2>2. AfterSnapshot(k) \in {NoRow, buildSnapshot(citizens'[Of(k)])}
      BY <2>1, WhatIsWritten DEF AfterSnapshot
    <2>3. \A j \in Calls : Telling(j)' => Telling(j) \/ j = k
      BY <1>6 DEF Write, WriteUnheard, Goto, Telling, RegistryTypeOK
    <2>4. /\ UNCHANGED <<audit, ask, copy, before>>
          /\ was' = [was EXCEPT ![Of(k)] = @ \cup {buildSnapshot(citizens'[Of(k)])}]
      BY <2>1 DEF Written
    <2>5. \A d \in Citizens \ {Of(k)} : citizens'[d] = citizens[d]
      BY <2>1, WhatIsWritten
    <2>6. QED
      BY <1>5, <2>1, <2>2, <2>3, <2>4, <2>5
  <1>7. ASSUME NEW c \in Movers, NEW place \in Places, UpdateResidence(c, place)
        PROVE  SnapshotsAreOfRows'
    <2>1. c \in Citizens
      BY MoversAreCitizens
    <2>2. QED
      BY <1>5, <1>7, <2>1 DEF UpdateResidence, Telling, RegistryTypeOK
  <1>8. ASSUME NEW k \in Calls, Insert(k) PROVE SnapshotsAreOfRows'
    <2>1. UNCHANGED <<citizens, ask, copy, before, was>> /\ Telling(k)
          /\ \A j \in Calls : Telling(j)' => Telling(j)
      BY <1>8 DEF Insert, Goto, Telling, RegistryTypeOK
    <2>2. CASE Told(k)
      <3> SUFFICES ASSUME NEW i \in DOMAIN audit'
                   PROVE  {audit'[i].old, audit'[i].new} \subseteq was'[audit'[i].citizen]
        BY <1>1, <2>1 DEF AuditIsTrue, SnapshotsAreOfRows, Of, AfterSnapshot, buildSnapshot
      <3>1. \/ i \in DOMAIN audit /\ audit'[i] = audit[i]
            \/ audit'[i] = [citizen |-> Of(k), action |-> ask[k].does, by |-> k,
                             at |-> stamp[k], old |-> before[k], new |-> AfterSnapshot(k)]
        BY <1>8, <2>2, LogGrows
      <3>2. QED
        BY <1>1, <2>1, <3>1 DEF AuditIsTrue
    <2>3. CASE ~Told(k)
      BY <1>2, <1>8, <2>1, <2>3, LogIsKept
    <2>4. QED
      BY <2>2, <2>3
  <1>9. CASE UNCHANGED vars
    BY <1>2, <1>9 DEF vars, Telling
  <1>10. QED
    BY <1>3, <1>4, <1>6, <1>7, <1>8, <1>9, StepKinds

-----------------------------------------------------------------------------
(* Deletions *)

LEMMA DeletedRowsStay ==
  ASSUME RegistryTypeOK, CallsAreReady, [RegistryNext]_vars
  PROVE  deleted \subseteq deleted' /\ \A c \in deleted : citizens'[c] = citizens[c]
  <1>1. ASSUME NEW k \in Calls, Write(k) \/ WriteUnheard(k)
        PROVE  deleted \subseteq deleted' /\ \A c \in deleted : citizens'[c] = citizens[c]
    <2>1. Written(k)
      BY <1>1 DEF Write, WriteUnheard
    <2>2. deleted \subseteq Citizens
      BY DEF RegistryTypeOK
    <2>3. QED
      BY <2>1, <2>2, WhatIsWritten DEF Written
  <1>2. ASSUME NEW c \in Movers, NEW place \in Places, UpdateResidence(c, place)
        PROVE  deleted \subseteq deleted' /\ \A d \in deleted : citizens'[d] = citizens[d]
    BY <1>2 DEF UpdateResidence, Live, RegistryTypeOK
  <1>3. QED
    BY <1>1, <1>2, StepKinds DEF CreateLook, ReadRow, applyUpdates, Refuses, Refuse,
       writeAuditLog, Insert, AuditFails, vars, database

-----------------------------------------------------------------------------
(* One call at a time *)

LEMMA AloneStep ==
  ASSUME RegistryTypeOK, Alone, [RegistryNext]_vars
  PROVE  Alone'
  <1> USE DEF database, history
  <1>1. ASSUME ask' = ask, mixed \subseteq mixed',
               \A k \in Calls : Of(k) \notin mixed' /\ AtWork(k)' =>
                 \/ AtWork(k)
                 \/ \A j \in Calls \ {k} : Of(j) = Of(k) => ~AtWork(j)'
        PROVE  Alone'
    BY <1>1 DEF Alone, Of
  <1>2. ASSUME NEW k \in Calls, CreateLook(k) PROVE Alone'
    <2>1. ask' = ask /\ mixed' = mixed /\ ask[k].does = "create"
          /\ \A j \in Calls \ {k} : AtWork(j)' <=> AtWork(j)
      BY <1>2 DEF CreateLook, Goto, AtWork, RegistryTypeOK
    <2>2. QED
      BY <2>1 DEF Alone, Of
  <1>3. ASSUME NEW k \in Calls, ReadRow(k) PROVE Alone'
    <2>1. ask' = ask /\ mixed' = Meets(k) /\ \A j \in Calls \ {k} : AtWork(j)' <=> AtWork(j)
      BY <1>3 DEF ReadRow, Goto, AtWork, RegistryTypeOK
    <2>2. mixed \subseteq mixed'
          /\ \A j \in Calls \ {k} : AtWork(j) /\ Of(j) = Of(k) => Of(k) \in mixed'
      BY <2>1 DEF Meets
    <2>3. QED
      BY <1>1, <2>1, <2>2
  <1>4. ASSUME NEW k \in Calls, applyUpdates(k) \/ Refuses(k) \/ Write(k) \/ WriteUnheard(k)
                                \/ writeAuditLog(k) \/ Insert(k) \/ AuditFails(k)
        PROVE  Alone'
    <2>1. ask' = ask /\ mixed' = mixed /\ \A j \in Calls : AtWork(j)' => AtWork(j)
      BY <1>4 DEF applyUpdates, Refuses, Refuse, Write, WriteUnheard, Written, writeAuditLog, Insert,
         AuditFails, Goto, AtWork, RegistryTypeOK
    <2>2. QED
      BY <1>1, <2>1
  <1>5. ASSUME NEW c \in Movers, NEW place \in Places, UpdateResidence(c, place) PROVE Alone'
    BY <1>1, <1>5 DEF UpdateResidence, AtWork
  <1>6. CASE UNCHANGED vars
    BY <1>1, <1>6 DEF vars, AtWork
  <1>7. QED
    BY <1>2, <1>3, <1>4, <1>5, <1>6, StepKinds

LEMMA RowsStep ==
  ASSUME RegistryTypeOK, CallsAreReady, Alone, RowsAreAsRead, [RegistryNext]_vars
  PROVE  RowsAreAsRead'
  <1> USE DEF database, history
  <1> DEFINE AsRead(k) ==
        /\ ask[k].does = "create" /\ pc[k] \in {"start", "write"} => citizens[Of(k)] = NoRow
        /\ ask[k].does = "update" /\ pc[k] \in {"apply", "write"} =>
             before[k] = buildSnapshot(citizens[Of(k)])
        /\ TellsUpdate(k) => AfterSnapshot(k) = buildSnapshot(citizens[Of(k)])
  <1>0. ask' = ask /\ mixed \subseteq mixed'
    BY StepKinds DEF CreateLook, ReadRow, applyUpdates, Refuses, Refuse, Write, WriteUnheard,
       Written, writeAuditLog, Insert, AuditFails, UpdateResidence, vars, Meets
  <1> SUFFICES ASSUME NEW k \in Calls, Of(k) \notin mixed' PROVE AsRead(k)'
    BY <1>0 DEF RowsAreAsRead, Of
  <1>1. AsRead(k) /\ Of(k) \in Citizens /\ Of(k)' = Of(k) /\ Of(k) \notin mixed
    BY <1>0, AsksAreAsks DEF RowsAreAsRead, Of
  <1>2. CASE /\ citizens'[Of(k)] = citizens[Of(k)]
             /\ UNCHANGED <<pc[k], copy[k], before[k]>> \/ pc'[k] = "done"
                \/ (pc[k] = "audit" /\ pc'[k] = "insert" /\ UNCHANGED copy[k])
    BY <1>0, <1>1, <1>2 DEF AfterSnapshot, buildSnapshot, TellsUpdate, Telling
  <1>3. ASSUME NEW j \in Calls, CreateLook(j) PROVE AsRead(k)'
    <2>1. CASE j = k
      <3>1. pc'[k] = "write" /\ ask[k].does = "create" /\ pc[k] = "start"
        BY <1>3, <2>1 DEF CreateLook, Goto, RegistryTypeOK
      <3>2. citizens'[Of(k)] = NoRow
        BY <1>1, <1>3, <3>1 DEF CreateLook
      <3>3. QED
        BY <1>0, <1>1, <3>1, <3>2 DEF TellsUpdate
    <2>2. CASE j # k
      BY <1>2, <1>3, <2>2 DEF CreateLook, Goto, RegistryTypeOK
    <2>3. QED
      BY <2>1, <2>2
  <1>4. ASSUME NEW j \in Calls, ReadRow(j) PROVE AsRead(k)'
    <2>1. CASE j = k
      <3>1. /\ pc'[k] \in {"apply", "write"} /\ ask[k].does # "create"
            /\ before'[k] = buildSnapshot(GetByID(Of(k))) /\ citizens' = citizens
            /\ ask[k].does = "update" => Live(Of(k))
        BY <1>4, <2>1 DEF ReadRow, Goto, RegistryTypeOK
      <3>2. QED
        BY <1>0, <1>1, <3>1 DEF GetByID, buildSnapshot, TellsUpdate, Telling
    <2>2. CASE j # k
      BY <1>2, <1>4, <2>2 DEF ReadRow, Goto, RegistryTypeOK
    <2>3. QED
      BY <2>1, <2>2
  <1>5. ASSUME NEW j \in Calls, applyUpdates(j) PROVE AsRead(k)'
    <2>1. CASE j = k
      <3>1. /\ pc'[k] = "write" /\ ask[k].does = "update" /\ pc[k] = "apply"
            /\ before'[k] = before[k] /\ citizens' = citizens
        BY <1>5, <2>1, UpdatedRows DEF applyUpdates, Goto, RegistryTypeOK
      <3>2. QED
        BY <1>0, <1>1, <3>1 DEF buildSnapshot, TellsUpdate, Telling
    <2>2. CASE j # k
      <3>1. copy'[k] = copy[k]
        BY <1>5, <2>2, UpdatedRows
      <3>2. QED
        BY <1>2, <1>5, <2>2, <3>1 DEF applyUpdates, Goto, RegistryTypeOK
    <2>3. QED
      BY <2>1, <2>2
  <1>6. ASSUME NEW j \in Calls, Refuses(j) \/ writeAuditLog(j) \/ Insert(j) \/ AuditFails(j)
        PROVE  AsRead(k)'
    BY <1>2, <1>6 DEF Refuses, Refuse, writeAuditLog, Insert, AuditFails, Goto, RegistryTypeOK
  <1>7. ASSUME NEW j \in Calls, Write(j) \/ WriteUnheard(j) PROVE AsRead(k)'
    <2>1. Written(j) /\ pc[j] = "write" /\ UNCHANGED <<copy, before>>
      BY <1>7 DEF Write, WriteUnheard, Written
    <2>2. CASE j = k
      <3>1. pc'[k] \in {"audit", "done"}
        BY <1>7, <2>2 DEF Write, WriteUnheard, Goto, RegistryTypeOK
      <3>2. ask[k].does = "update" => citizens'[Of(k)] = copy[k]
        BY <2>1, <2>2, WhatIsWritten
      <3>3. QED
        BY <1>0, <1>1, <2>1, <3>1, <3>2 DEF TellsUpdate, AfterSnapshot, buildSnapshot
    <2>3. CASE j # k
      <3>1. pc'[k] = pc[k]
        BY <1>7, <2>3 DEF Write, WriteUnheard, Goto, RegistryTypeOK
      <3>2. CASE Of(j) # Of(k)
        <4>1. citizens'[Of(k)] = citizens[Of(k)]
          BY <1>1, <2>1, <3>2, WhatIsWritten
        <4>2. QED
          BY <1>2, <2>1, <3>1, <4>1
      <3>3. CASE Of(j) = Of(k)
        BY <1>0, <1>1, <2>1, <2>3, <3>1, <3>3 DEF Alone, AtWork, TellsUpdate, Telling,
           RegistryTypeOK
      <3>4. QED
        BY <3>2, <3>3
    <2>4. QED
      BY <2>2, <2>3
  <1>8. ASSUME NEW c \in Movers, NEW place \in Places, UpdateResidence(c, place)
        PROVE  AsRead(k)'
    <2>1. Of(k) # c
      BY <1>8 DEF UpdateResidence
    <2>2. citizens'[Of(k)] = citizens[Of(k)] /\ UNCHANGED <<pc, copy, before>>
      BY <1>1, <1>8, <2>1 DEF UpdateResidence, RegistryTypeOK
    <2>3. QED
      BY <1>2, <2>2
  <1>9. CASE UNCHANGED vars
    BY <1>2, <1>9 DEF vars
  <1> HIDE DEF AsRead
  <1>10. QED
    BY <1>3, <1>4, <1>5, <1>6, <1>7, <1>8, <1>9, StepKinds

(* A stamp is the time its call took it, and the clock went on.             *)
LEMMA StampsStep ==
  ASSUME RegistryTypeOK, CallsAreReady, StampsArePast, [RegistryNext]_vars
  PROVE  StampsArePast'
  <1> USE DEF database, history
  <1>1. ASSUME audit' = audit, now' \in {now, now + 1},
               \A k \in Calls : pc'[k] = "insert" =>
                 \/ pc[k] = "insert" /\ stamp'[k] = stamp[k]
                 \/ stamp'[k] = now /\ now' = now + 1
        PROVE  StampsArePast'
    <2>1. /\ now \in Nat /\ \A k \in Calls : stamp[k] \in Nat
          /\ \A i \in DOMAIN audit : audit[i].at \in Nat
      BY EntriesAreOfCitizens DEF RegistryTypeOK, Entries
    <2>2. QED
      BY <1>1, <2>1 DEF StampsArePast
  <1>2. ASSUME NEW k \in Calls, CreateLook(k) \/ ReadRow(k) \/ applyUpdates(k) \/ Refuses(k)
        PROVE  StampsArePast'
    BY <1>1, <1>2 DEF CreateLook, ReadRow, applyUpdates, Refuses, Refuse, Goto, RegistryTypeOK
  <1>3. ASSUME NEW k \in Calls, Write(k) \/ WriteUnheard(k) PROVE StampsArePast'
    BY <1>1, <1>3 DEF Write, WriteUnheard, Written, Goto, RegistryTypeOK
  <1>4. ASSUME NEW k \in Calls, writeAuditLog(k) \/ AuditFails(k) PROVE StampsArePast'
    BY <1>1, <1>4 DEF writeAuditLog, AuditFails, Goto, RegistryTypeOK
  <1>5. ASSUME NEW k \in Calls, Insert(k) PROVE StampsArePast'
    <2>1. /\ pc[k] = "insert" /\ now' = now
          /\ \A j \in Calls : pc'[j] = "insert" => pc[j] = "insert" /\ stamp'[j] = stamp[j]
      BY <1>5 DEF Insert, Goto, RegistryTypeOK
    <2>2. CASE Told(k)
      <3>1. /\ AfterSnapshot(k) # NoRow /\ stamp[k] < now
            /\ \A i \in DOMAIN audit : audit[i].at < now /\ audit[i].new # NoRow
            /\ \A j \in Calls : pc[j] = "insert" => stamp[j] < now
        BY <2>1, <2>2 DEF Told, IsJSON, StampsArePast
      <3>2. PICK n \in Nat :
              /\ DOMAIN audit' = DOMAIN audit \cup {n}
              /\ \A i \in DOMAIN audit : audit'[i] = audit[i]
              /\ audit'[n] = [citizen |-> Of(k), action |-> ask[k].does, by |-> k,
                              at |-> stamp[k], old |-> before[k], new |-> AfterSnapshot(k)]
        BY <1>5, <2>2, LogGrows
      <3>3. audit'[n].at = stamp[k] /\ audit'[n].new = AfterSnapshot(k)
        BY <3>2
      <3>4. QED
        BY <2>1, <3>1, <3>2, <3>3 DEF StampsArePast
    <2>3. CASE ~Told(k)
      BY <1>1, <1>5, <2>1, <2>3, LogIsKept
    <2>4. QED
      BY <2>2, <2>3
  <1>6. ASSUME NEW c \in Movers, NEW place \in Places, UpdateResidence(c, place)
        PROVE  StampsArePast'
    BY <1>1, <1>6 DEF UpdateResidence
  <1>7. CASE UNCHANGED vars
    BY <1>1, <1>7 DEF vars
  <1>8. QED
    BY <1>2, <1>3, <1>4, <1>5, <1>6, <1>7, StepKinds

(* The log of a citizen is as it was, if nobody writes to it or of it.      *)
LEMMA LogStays ==
  ASSUME RegistryTypeOK, LogGoesOn, UNCHANGED <<audit, ask>>,
         mixed \subseteq mixed', lost \subseteq lost',
         NEW i \in DOMAIN audit, Orderly(audit[i].citizen)',
         citizens'[audit[i].citizen] = citizens[audit[i].citizen],
         \A k \in Calls : Of(k) = audit[i].citizen =>
           /\ TellsUpdate(k)' <=> TellsUpdate(k)
           /\ TellsUpdate(k) => before'[k] = before[k]
           /\ pc'[k] = "insert" => \/ pc[k] = "insert" /\ stamp'[k] = stamp[k]
                                   \/ audit[i].at < stamp'[k]
  PROVE  LogGoesOn!(i)'
  <1>1. Orderly(audit[i].citizen)
    BY DEF Orderly, Of
  <1>2. LogGoesOn!(i)!2
    BY <1>1 DEF LogGoesOn
  <1>3. /\ \A j \in DOMAIN audit : Follows(j, i)' <=> Follows(j, i)
        /\ Last(i)' <=> Last(i)
    BY DEF Follows, Last
  <1>4. buildSnapshot(citizens[audit[i].citizen])' = buildSnapshot(citizens[audit[i].citizen])
    BY DEF buildSnapshot
  <1>5. QED
    BY <1>2, <1>3, <1>4 DEF Of

(* An audit row goes on from the one before it.                             *)
LEMMA LogTold ==
  ASSUME RegistryTypeOK, CallsAreReady, Alone, RowsAreAsRead, LogGoesOn,
         NEW k \in Calls, Insert(k), Told(k)
  PROVE  LogGoesOn'
  <1> USE DEF database, history
  <1> DEFINE c0 == Of(k)
  <1>1. /\ UNCHANGED <<citizens, ask, copy, before, mixed, lost>> /\ pc[k] = "insert"
        /\ pc'[k] = "done" /\ TellsUpdate(k)
        /\ \A j \in Calls \ {k} : pc'[j] = pc[j] /\ stamp'[j] = stamp[j]
    BY LogGrows DEF Insert, Goto, TellsUpdate, Telling, RegistryTypeOK
  <1>2. PICK n \in Nat :
          /\ DOMAIN audit' = DOMAIN audit \cup {n}
          /\ \A i \in DOMAIN audit : i \in Nat /\ i < n /\ audit'[i] = audit[i]
          /\ audit'[n] = [citizen |-> Of(k), action |-> ask[k].does, by |-> k,
                          at |-> stamp[k], old |-> before[k], new |-> AfterSnapshot(k)]
    BY LogGrows
  <1>3. audit'[n].citizen = c0 /\ audit'[n].old = before[k]
        /\ audit'[n].new = AfterSnapshot(k) /\ audit'[n].at = stamp[k]
    BY <1>2
  <1>4. \A c : /\ buildSnapshot(citizens[c])' = buildSnapshot(citizens[c])
               /\ Orderly(c)' <=> Orderly(c)
    BY <1>1 DEF buildSnapshot, Orderly, Of
  <1>5. n \notin DOMAIN audit /\ \A i, j \in DOMAIN audit' : i < j => i # n
    BY <1>2
  <1> SUFFICES ASSUME NEW i \in DOMAIN audit', Orderly(audit[i].citizen)'
               PROVE  LogGoesOn!(i)'
    BY DEF LogGoesOn
  <1>6. CASE i = n
    <2>1. \A j \in DOMAIN audit' : ~Follows(j, n)'
      BY <1>2, <1>5 DEF Follows
    <2>2. c0 \notin mixed
      BY <1>3, <1>4, <1>6 DEF Orderly
    <2>3. AfterSnapshot(k) = buildSnapshot(citizens[c0])
      BY <1>1, <2>2 DEF RowsAreAsRead
    <2>4. \A j \in Calls : Of(j) = c0 => ~TellsUpdate(j)' /\ pc'[j] # "insert"
      BY <1>1, <2>2 DEF Alone, AtWork, TellsUpdate, Telling
    <2>5. \A j \in Calls : Of(j)' = Of(j)
      BY <1>1 DEF Of
    <2>6. audit'[i].new = buildSnapshot(citizens[audit[i].citizen])'
      BY <1>3, <1>4, <1>6, <2>3
    <2>7. QED
      BY <1>3, <1>6, <2>1, <2>4, <2>5, <2>6
  <1>7. CASE i # n
    <2>1. i \in DOMAIN audit /\ i \in Nat /\ i < n /\ audit'[i] = audit[i]
      BY <1>2, <1>7
    <2>2. Orderly(audit[i].citizen)
      BY <1>4, <2>1
    <2>3. \A j \in DOMAIN audit : audit'[j] = audit[j] /\ j < n /\ j \in Nat
      BY <1>2
    <2>4. \A j \in DOMAIN audit : Follows(j, i)' => Follows(j, i)
      BY <1>2, <2>1, <2>3 DEF Follows
    <2>5. Last(i)' => Last(i) /\ audit[i].citizen # c0
      BY <1>2, <1>3, <2>1, <2>3 DEF Last
    <2>6. Follows(n, i)' => Last(i) /\ audit[i].citizen = c0
      BY <1>2, <1>3, <2>1, <2>3 DEF Follows, Last
    <2>7. Follows(n, i)' => audit'[n].old = audit[i].new /\ audit[i].at < audit'[n].at
      BY <1>1, <1>3, <2>1, <2>2, <2>6 DEF LogGoesOn
    <2>8. \A j \in DOMAIN audit' : Follows(j, i)' =>
            audit'[j].old = audit'[i].new /\ audit'[i].at < audit'[j].at
      BY <1>2, <2>1, <2>2, <2>3, <2>4, <2>7 DEF LogGoesOn
    <2>9. \A j \in Calls : Of(j)' = Of(j)
      BY <1>1 DEF Of
    <2>10. Last(i)' => \A j \in Calls : Of(j) = audit[i].citizen =>
             /\ pc'[j] = pc[j] /\ stamp'[j] = stamp[j]
             /\ TellsUpdate(j)' <=> TellsUpdate(j)
      BY <1>1, <2>5 DEF TellsUpdate, Telling
    <2>11. Last(i)' =>
             /\ (\A j \in Calls : Of(j) = audit[i].citizen => ~TellsUpdate(j)') =>
                  audit[i].new = buildSnapshot(citizens[audit[i].citizen])
             /\ \A j \in Calls : Of(j) = audit[i].citizen =>
                  /\ TellsUpdate(j)' => audit[i].new = before[j]
                  /\ pc'[j] = "insert" => audit[i].at < stamp'[j]
      BY <2>1, <2>2, <2>5, <2>10 DEF LogGoesOn
    <2>12. buildSnapshot(citizens[audit[i].citizen])' = buildSnapshot(citizens[audit[i].citizen])
      BY <1>1, <2>1 DEF buildSnapshot
    <2>13. QED
      BY <1>1, <2>1, <2>8, <2>9, <2>11, <2>12
  <1>8. QED
    BY <1>6, <1>7

LEMMA LogStep ==
  ASSUME RegistryTypeOK, CallsAreReady, Alone, RowsAreAsRead, StampsArePast, LogGoesOn,
         [RegistryNext]_vars
  PROVE  LogGoesOn'
  <1> USE DEF database, history
  <1>1. ASSUME UNCHANGED <<citizens, audit, ask>>, mixed \subseteq mixed', lost \subseteq lost',
               \A k \in Calls :
                 \/ k \in lost' /\ ask[k].does = "update"
                 \/ /\ TellsUpdate(k)' <=> TellsUpdate(k)
                    /\ TellsUpdate(k) => before'[k] = before[k]
                    /\ pc'[k] = "insert" => \/ pc[k] = "insert" /\ stamp'[k] = stamp[k]
                                            \/ stamp'[k] = now
        PROVE  LogGoesOn'
    <2> SUFFICES ASSUME NEW i \in DOMAIN audit, Orderly(audit[i].citizen)'
                 PROVE  LogGoesOn!(i)'
      BY <1>1 DEF LogGoesOn
    <2>1. citizens'[audit[i].citizen] = citizens[audit[i].citizen] /\ audit[i].at < now
      BY <1>1 DEF StampsArePast
    <2>2. \A k \in Calls : Of(k) = audit[i].citizen => ~(k \in lost' /\ ask[k].does = "update")
      BY <1>1 DEF Orderly, Of
    <2>3. QED
      BY <1>1, <2>1, <2>2, LogStays
  <1>2. ASSUME NEW k \in Calls, \/ CreateLook(k) \/ applyUpdates(k) \/ Refuses(k) \/ ReadRow(k)
                                \/ writeAuditLog(k)
        PROVE  LogGoesOn'
    <2>1. UNCHANGED <<citizens, audit, ask, lost>> /\ mixed \subseteq mixed'
      BY <1>2 DEF CreateLook, applyUpdates, Refuses, Refuse, ReadRow, writeAuditLog, Meets
    <2>2. \A j \in Calls : /\ Telling(j)' <=> Telling(j)
                           /\ Telling(j) => before'[j] = before[j]
                           /\ pc'[j] = "insert" => \/ pc[j] = "insert" /\ stamp'[j] = stamp[j]
                                                   \/ stamp'[j] = now
      BY <1>2 DEF CreateLook, applyUpdates, Refuses, Refuse, ReadRow, writeAuditLog, Goto,
         Telling, RegistryTypeOK
    <2>3. QED
      BY <1>1, <2>1, <2>2 DEF TellsUpdate
  <1>3. ASSUME NEW k \in Calls, UNCHANGED <<citizens, audit, ask, before, mixed>>,
               lost' = lost \cup {k}, Goto(k, "done"), stamp' = [stamp EXCEPT ![k] = 0]
        PROVE  LogGoesOn'
    <2>1. \A j \in Calls : j # k => pc'[j] = pc[j] /\ stamp'[j] = stamp[j]
      BY <1>3 DEF Goto, RegistryTypeOK
    <2>2. pc'[k] = "done"
      BY <1>3 DEF Goto, RegistryTypeOK
    <2>3. QED
      BY <1>1, <1>3, <2>1, <2>2 DEF TellsUpdate, Telling
  <1>4. ASSUME NEW k \in Calls, AuditFails(k) \/ (Insert(k) /\ ~Told(k)) PROVE LogGoesOn'
    BY <1>3, <1>4, LogIsKept DEF AuditFails, Insert
  <1>5. ASSUME NEW k \in Calls, Write(k) \/ WriteUnheard(k) PROVE LogGoesOn'
    <2>1. /\ Written(k) /\ UNCHANGED <<audit, ask, copy, before, stamp, mixed>>
          /\ lost \subseteq lost' /\ \A j \in Calls \ {k} : pc'[j] = pc[j]
          /\ pc[k] = "write" /\ (pc'[k] = "audit" \/ (k \in lost' /\ pc'[k] = "done"))
      BY <1>5 DEF Write, WriteUnheard, Written, Goto, RegistryTypeOK
    <2> SUFFICES ASSUME NEW i \in DOMAIN audit, Orderly(audit[i].citizen)'
                 PROVE  LogGoesOn!(i)'
      BY <2>1 DEF LogGoesOn
    <2>2. audit[i].citizen \in Citizens
      BY EntriesAreOfCitizens
    <2>3. CASE audit[i].citizen # Of(k)
      <3>1. citizens'[audit[i].citizen] = citizens[audit[i].citizen]
        BY <2>1, <2>2, <2>3, WhatIsWritten
      <3>2. \A j \in Calls : Of(j) = audit[i].citizen =>
              UNCHANGED <<pc[j], before[j], stamp[j], ask[j]>>
        BY <2>1, <2>3
      <3>3. QED
        BY <2>1, <3>1, <3>2, LogStays DEF TellsUpdate, Telling
    <2>4. CASE audit[i].citizen = Of(k) /\ ask[k].does = "delete"
      <3>1. citizens'[audit[i].citizen] = citizens[audit[i].citizen]
        BY <2>1, <2>4, WhatIsWritten
      <3>2. QED
        BY <2>1, <2>4, <3>1, LogStays DEF TellsUpdate, Telling
    <2>5. CASE audit[i].citizen = Of(k) /\ ask[k].does # "delete"
      <3>1. Orderly(Of(k)) /\ Of(k) \notin mixed
        BY <2>1, <2>5 DEF Orderly, Of
      <3>2. \A j \in Calls : Of(j) = Of(k) /\ j # k => ~AtWork(j) /\ pc'[j] = pc[j]
        BY <2>1, <3>1 DEF Alone, AtWork
      <3>3. /\ \A j \in Calls : Of(j) = Of(k) => ~TellsUpdate(j) /\ pc'[j] # "insert"
            /\ \A j \in Calls : Of(j) = Of(k) /\ TellsUpdate(j)' => j = k
        BY <2>1, <3>2 DEF AtWork, TellsUpdate, Telling
      <3>4. Last(i) => audit[i].new = buildSnapshot(citizens[Of(k)])
        BY <2>5, <3>1, <3>3 DEF LogGoesOn
      <3>5. \A j \in DOMAIN audit : Follows(j, i) =>
              audit[j].old = audit[i].new /\ audit[i].at < audit[j].at
        BY <2>5, <3>1 DEF LogGoesOn
      <3>6. /\ \A j \in DOMAIN audit : Follows(j, i)' <=> Follows(j, i)
            /\ Last(i)' <=> Last(i)
            /\ \A j \in Calls : Of(j)' = Of(j)
        BY <2>1 DEF Follows, Last, Of
      <3>7. CASE ask[k].does = "create"
        <4>1. citizens[Of(k)] = NoRow
          BY <2>1, <3>7, WhatIsWritten
        <4>2. ~Last(i)
          BY <3>4, <4>1 DEF buildSnapshot, StampsArePast
        <4>3. QED
          BY <2>1, <3>5, <3>6, <4>2
      <3>8. CASE ask[k].does = "update"
        <4>1. Last(i) => audit[i].new = before[k]
          BY <2>1, <3>1, <3>4, <3>8 DEF RowsAreAsRead
        <4>2. TellsUpdate(k)'
          BY <2>1, <2>5, <3>8 DEF Orderly, Of, TellsUpdate, Telling
        <4>3. QED
          BY <2>1, <2>5, <3>3, <3>5, <3>6, <4>1, <4>2
      <3>9. QED
        BY <2>5, <3>7, <3>8, AsksAreAsks DEF Asks
    <2>6. QED
      BY <2>3, <2>4, <2>5
  <1>6. ASSUME NEW c \in Movers, NEW place \in Places, UpdateResidence(c, place)
        PROVE  LogGoesOn'
    <2> SUFFICES ASSUME NEW i \in DOMAIN audit, Orderly(audit[i].citizen)'
                 PROVE  LogGoesOn!(i)'
      BY <1>6 DEF LogGoesOn, UpdateResidence
    <2>1. /\ UNCHANGED <<audit, ask, lost, pc, before, stamp>> /\ mixed' = mixed \cup {c}
          /\ citizens' = [citizens EXCEPT ![c].place = place]
      BY <1>6 DEF UpdateResidence
    <2>2. audit[i].citizen # c /\ audit[i].citizen \in Citizens
      BY <2>1, EntriesAreOfCitizens DEF Orderly
    <2>3. citizens'[audit[i].citizen] = citizens[audit[i].citizen]
      BY <2>1, <2>2 DEF RegistryTypeOK
    <2>4. QED
      BY <2>1, <2>3, LogStays DEF TellsUpdate, Telling
  <1>7. CASE UNCHANGED vars
    BY <1>1, <1>7 DEF vars, TellsUpdate, Telling
  <1>8. QED
    BY <1>2, <1>4, <1>5, <1>6, <1>7, LogTold, StepKinds

-----------------------------------------------------------------------------
(* The invariant *)

LEMMA InitRInv == Init => RInv
  <1> SUFFICES ASSUME Init PROVE RInv
    OBVIOUS
  <1>1. ask \in Scenarios /\ ask \in [Calls -> Asks] /\ citizens = SeedRows[ask]
    BY ScenariosAreAsks DEF Init
  <1>2. citizens \in [Citizens -> Rows \cup {NoRow}]
    BY <1>1, SeedsAreRows
  <1>3. RegistryTypeOK
    <2>1. was \in [Citizens -> SUBSET Snapshots]
      <3>1. \A c \in Citizens : {NoRow, buildSnapshot(citizens[c])} \subseteq Snapshots
        BY <1>2, SnapshotsAreTyped DEF Snapshots
      <3>2. QED
        BY <3>1 DEF Init
    <2>2. QED
      BY <1>1, <1>2, <2>1 DEF Init, RegistryTypeOK, Snapshots
  <1>4. \A k \in Calls : Of(k) \in Citizens
    BY <1>3, AsksAreAsks
  <1>5. CallsAreReady /\ TakenSinceTheLook
    BY DEF Init, CallsAreReady, TakenSinceTheLook
  <1>6. SnapshotsAreOfRows /\ StampsArePast /\ LogGoesOn
    <2>1. DOMAIN audit = {} /\ \A k \in Calls : pc[k] = "start" /\ before[k] = NoRow
      BY DEF Init
    <2>2. \A c \in Citizens : was[c] = {NoRow, buildSnapshot(citizens[c])}
      BY DEF Init
    <2>3. SnapshotsAreOfRows
      BY <1>4, <2>1, <2>2 DEF SnapshotsAreOfRows, AuditIsTrue, Telling
    <2>4. StampsArePast /\ LogGoesOn
      BY <2>1 DEF StampsArePast, LogGoesOn
    <2>5. QED
      BY <2>3, <2>4
  <1>7. \A k \in Calls : ask[k].does = "create" => citizens[Of(k)] = NoRow
    BY <1>1, CreationsAreNew DEF Of
  <1>8. Alone
    BY <1>4, <1>7 DEF Init, Alone, AtWork, Of
  <1>9. RowsAreAsRead
    BY <1>7 DEF Init, RowsAreAsRead, TellsUpdate, Telling
  <1>10. RandomOnesAreSeeded
    BY <1>1 DEF Init, RandomOnesAreSeeded, Seeded
  <1>11. QED
    BY <1>3, <1>5, <1>6, <1>8, <1>9, <1>10 DEF RInv

LEMMA RegistryInvariance == RegistrySpec => []RInv
  <1>1. RInv /\ [RegistryNext]_vars => RInv'
    BY RegistryTypeStep, ReadyStep, TakenStep, SeededStep, SnapshotsStep,
       AloneStep, RowsStep, StampsStep, LogStep DEF RInv
  <1>2. QED
    BY InitRInv, <1>1, PTL DEF RegistrySpec

-----------------------------------------------------------------------------
(* The theorems *)

(* Rows, snapshots, audit entries and the calls in flight keep their types. *)
THEOREM RegistryTypesHold == RegistrySpec => []RegistryTypeOK
  <1>1. RInv => RegistryTypeOK
    BY DEF RInv
  <1>2. QED
    BY RegistryInvariance, <1>1, PTL

(* No audit row gives a value the citizen's row has not had.                *)
THEOREM AuditTellsTheTruth == RegistrySpec => []AuditIsTrue
  <1>1. RInv => AuditIsTrue
    BY DEF RInv, SnapshotsAreOfRows
  <1>2. QED
    BY RegistryInvariance, <1>1, PTL

(* The audit rows of a citizen on whom the calls came one by one lead from  *)
(* one to the next, and to the row of today.                                *)
THEOREM AuditLeadsToToday == RegistrySpec => []AuditReplays
  <1>1. RInv => AuditReplays
    BY DEF RInv, LogGoesOn, AuditReplays, TellsUpdate
  <1>2. QED
    BY RegistryInvariance, <1>1, PTL

(* A deleted row stays deleted, and as it is.                               *)
THEOREM DeletionsAreFinal == RegistrySpec => DeletedIsFinal
  <1> DEFINE Final ==
        /\ deleted \subseteq deleted'
        /\ \A c \in deleted : citizens'[c] = citizens[c]
  <1>1. RInv /\ [RegistryNext]_vars => [Final]_vars
    BY DeletedRowsStay DEF RInv
  <1>2. QED
    BY RegistryInvariance, <1>1, PTL DEF RegistrySpec, DeletedIsFinal

(* Two live citizens share a national_id only by a race of the writer, by   *)
(* an old copy, or beside a number the seed script encrypted.               *)
THEOREM TwinsNeedARace == RegistrySpec => TwinsComeFromRaces
  <1> DEFINE Raced ==
        \A c \in Citizens, d \in Citizens :
          Twins(c, d)' /\ ~Twins(c, d) =>
            \E k \in Calls, e \in {c, d} :
              /\ Of(k) \in {c, d} \ {e} /\ (Write(k) \/ WriteUnheard(k))
              /\ \/ giver[e] \in met[k]
                 \/ ask[k].nid = Keep
                 \/ Seeded(e, citizens[e].nid)
  <1>1. RInv /\ [RegistryNext]_vars => [Raced]_vars
    BY TwinsStep DEF RInv
  <1>2. QED
    BY RegistryInvariance, <1>1, PTL DEF RegistrySpec, TwinsComeFromRaces
=============================================================================
