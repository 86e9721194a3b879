--------------------------- MODULE CitizenRegistry ---------------------------
(***************************************************************************)
(* POST, PATCH and DELETE on /citizens: the citizen service, its           *)
(* repository, the encryption of national_id and the audit log, statement  *)
(* by statement.  No handler opens a transaction: each statement commits   *)
(* on its own, other calls run in between, and the audit row is written    *)
(* after the change it tells of, on a context the client cannot cancel.    *)
(* The driver sends a missing snapshot as an empty string, which is no JSON:*)
(* PostgreSQL takes the audit rows of updates only.                        *)
(*                                                                         *)
(* Of a row two columns are kept: national_id, which has to be unique, and *)
(* one column for all those a PATCH writes without asking about others.    *)
(***************************************************************************)
EXTENDS Naturals, Sequences

CONSTANTS Citizens,      \* ids of citizens rows, those still to be drawn included
          Ids,           \* national_id in clear
          Places,        \* values of the other column
          Mask,          \* what a snapshot shows of a national_id
          Keep,          \* a field the body does not carry
          NoRow,
          Movers,        \* citizens a transfer may move, once each
          Calls,         \* calls in flight, each made once
          Scenarios,     \* what they ask for
          SeedRows       \* SeedRows[s][c]: c's row before scenario s, or NoRow

Asks == [does : {"create", "update", "delete"}, citizen : Citizens,
         nid : Ids \cup {Keep}, place : Places \cup {Keep}]

ASSUME ScenariosAreAsks == Scenarios \subseteq [Calls -> Asks]
ASSUME MoversAreCitizens == Movers \subseteq Citizens
ASSUME MarkersAreNew == Keep \notin Ids \cup Places /\ DOMAIN Mask = Ids

(* binding:"required", and an id that uuid.New() has just drawn.            *)
ASSUME CreationsAreNew ==
  \A s \in Scenarios, k \in Calls : s[k].does = "create" =>
    Keep \notin {s[k].nid, s[k].place} /\ SeedRows[s][s[k].citizen] = NoRow

VARIABLES
  citizens,  \* citizens[c]: its row, or NoRow
  deleted,   \* citizens with deleted_at set
  audit,     \* audit_logs, in the order of their INSERTs
  now,       \* time.Now(), as far as created_at and changed_at tell rows apart
  ask,       \* ask[k]: what call k was sent to do
  pc,        \* the statement it is about to run
  copy,      \* the row it has read or built
  before,    \* the snapshot it took of the row it read
  stamp,     \* changed_at of the audit row it is about to insert, or 0
  met,       \* calls that have written since k last looked (history variable)
  giver,     \* giver[c]: the call that gave c its national_id (history variable)
  mixed,     \* citizens on whom two calls were at work at once, or whom a
             \* transfer has moved (history variable)
  lost,      \* calls whose change no audit row will tell (history variable)
  was        \* was[c]: snapshots of all rows c has had (history variable)

database == <<citizens, deleted, audit, now>>
history == <<met, giver, mixed, lost, was>>
vars == <<database, ask, pc, copy, before, stamp, history>>

-----------------------------------------------------------------------------
(* Encryption and snapshots *)

(* AES-GCM with an IV derived from key and plaintext: equal numbers have    *)
(* equal ciphertexts.  With a random IV (Encrypt) they never do.            *)
Encrypt(n, iv) == <<n, iv>>
EncryptDeterministic(n, iv) == <<n>>
Decrypt(cipher) == cipher[1]

Ciphers == {<<n>> : n \in Ids} \cup {<<n, iv>> : n \in Ids, iv \in Calls \cup Citizens}

Rows == [nid : Ciphers, place : Places, created : Nat]

ASSUME SeedsAreRows == SeedRows \in [Scenarios -> [Citizens -> Rows \cup {NoRow}]]
ASSUME NoRowIsNone == NoRow \notin Rows

(* Plaintext, with the middle of every sensitive field masked. *)
buildSnapshotUndecrypted(row) ==
  IF row = NoRow THEN NoRow ELSE [nid |-> row.nid, place |-> row.place]
buildSnapshot(row) ==
  IF row = NoRow THEN NoRow ELSE [nid |-> Mask[Decrypt(row.nid)], place |-> row.place]

Live(c) == citizens[c] # NoRow /\ c \notin deleted
GetByID(c) == IF Live(c) THEN citizens[c] ELSE NoRow

(* Compares ciphertexts; a PATCH leaves its own row out. *)
ExistsByNationalID(cipher, exclude) ==
  \E c \in Citizens \ exclude : Live(c) /\ citizens[c].nid = cipher

Init ==
  /\ deleted = {}
  /\ audit = <<>>
  /\ now = 2
  /\ ask \in Scenarios
  /\ citizens = SeedRows[ask]
  /\ pc = [k \in Calls |-> "start"]
  /\ copy = [k \in Calls |-> NoRow]
  /\ before = [k \in Calls |-> NoRow]
  /\ stamp = [k \in Calls |-> 0]
  /\ met = [k \in Calls |-> {}]
  /\ giver = [c \in Citizens |-> NoRow]
  /\ mixed = {c \in Citizens : citizens[c] = NoRow /\
                \E j, k \in Calls : j # k /\ ask[j].citizen = c /\ ask[k].citizen = c}
  /\ lost = {}
  /\ was = [c \in Citizens |-> {NoRow, buildSnapshot(citizens[c])}]

Of(k) == ask[k].citizen
AtWork(k) == pc[k] \notin {"start", "done"}
Goto(k, next) == pc' = [pc EXCEPT ![k] = next]

(* A call that starts while another is at work on its citizen. *)
Meets(k) == IF \E j \in Calls \ {k} : AtWork(j) /\ Of(j) = Of(k)
            THEN mixed \cup {Of(k)} ELSE mixed

(* A call is over without having written. *)
Refuse(k) ==
  Goto(k, "done") /\ UNCHANGED <<database, ask, copy, before, stamp, history>>

-----------------------------------------------------------------------------
(* Looking *)

CreateLook(k) ==
  LET cipher == EncryptDeterministic(ask[k].nid, k)
  IN  /\ pc[k] = "start" /\ ask[k].does = "create"
      /\ ~ExistsByNationalID(cipher, {})
      /\ copy' = [copy EXCEPT ![k] =
                    [nid |-> cipher, place |-> ask[k].place, created |-> now]]
      /\ now' = now + 1
      /\ Goto(k, "write")
      /\ UNCHANGED <<citizens, deleted, audit, ask, before, stamp, history>>

(* PATCH and DELETE read the row first and take the old snapshot from it.   *)
ReadRow(k) ==
  /\ pc[k] = "start" /\ ask[k].does \in {"update", "delete"}
  /\ Live(Of(k)) \/ ask[k].does = "delete"
  /\ copy' = [copy EXCEPT ![k] = GetByID(Of(k))]
  /\ before' = [before EXCEPT ![k] = buildSnapshot(GetByID(Of(k)))]
  /\ mixed' = Meets(k)
  /\ Goto(k, IF ask[k].does = "update" THEN "apply" ELSE "write")
  /\ UNCHANGED <<database, ask, stamp, met, giver, lost, was>>

Sends(k, field) == ask[k][field] # Keep

applyUpdates(k) ==
  LET cipher == EncryptDeterministic(ask[k].nid, k)
  IN  /\ pc[k] = "apply"
      /\ Sends(k, "nid") => ~ExistsByNationalID(cipher, {Of(k)})
      /\ copy' = [copy EXCEPT
           ![k].nid = IF Sends(k, "nid") THEN cipher ELSE @,
           ![k].place = IF Sends(k, "place") THEN ask[k].place ELSE @]
      /\ met' = IF Sends(k, "nid") THEN [met EXCEPT ![k] = {}] ELSE met
      /\ Goto(k, "write")
      /\ UNCHANGED <<database, ask, before, stamp, giver, mixed, lost, was>>

(* The number is taken, or there is no such citizen. *)
Refused(k) ==
  /\ \/ /\ pc[k] = "start" /\ ask[k].does = "create"
        /\ ExistsByNationalID(EncryptDeterministic(ask[k].nid, k), {})
     \/ pc[k] = "start" /\ ask[k].does = "update" /\ ~Live(Of(k))
     \/ /\ pc[k] = "apply" /\ Sends(k, "nid")
        /\ ExistsByNationalID(EncryptDeterministic(ask[k].nid, k), {Of(k)})
  /\ Refuse(k)

-----------------------------------------------------------------------------
(* Writing: INSERT, or UPDATE of the row that is not deleted *)

AnyRow(k) == citizens[Of(k)] # NoRow
UpdatesRow(k) == Live(Of(k))
Matches(k) == IF ask[k].does = "create" THEN ~AnyRow(k) ELSE UpdatesRow(k)

(* What the statement does, with the account the histories keep of it.      *)
Written(k) ==
  /\ pc[k] = "write"
  /\ Matches(k)
  /\ citizens' = IF ask[k].does = "delete" THEN citizens
                 ELSE [citizens EXCEPT ![Of(k)] = copy[k]]
  /\ deleted' = IF ask[k].does = "delete" THEN deleted \cup {Of(k)} ELSE deleted
  /\ met' = [j \in Calls |-> IF pc[j] \in {"apply", "write"} THEN met[j] \cup {k} ELSE met[j]]
  /\ giver' = IF citizens'[Of(k)] = citizens[Of(k)] \/
                 (AnyRow(k) /\ citizens'[Of(k)].nid = citizens[Of(k)].nid)
              THEN giver ELSE [giver EXCEPT ![Of(k)] = k]
  /\ was' = [was EXCEPT ![Of(k)] = @ \cup {buildSnapshot(citizens'[Of(k)])}]
  /\ UNCHANGED <<audit, now, ask, copy, before, stamp, mixed>>

Write(k) == Written(k) /\ Goto(k, "audit") /\ UNCHANGED lost

(* sql.ErrNoRows: answered 404 or 204, and nothing to tell. *)
MatchesNoneUnnoticed(k) ==
  /\ pc[k] = "write" /\ ~Matches(k)
  /\ Goto(k, "audit") /\ UNCHANGED <<database, ask, copy, before, stamp, history>>
MatchesNone(k) == pc[k] = "write" /\ ~Matches(k) /\ Refuse(k)

(* The statement commits, and its answer does not arrive. *)
WriteUnheard(k) == Written(k) /\ Goto(k, "done") /\ lost' = lost \cup {k}

(* UpdateResidence, inside a transfer: no lock a PATCH would ask for, and   *)
(* no audit row here.  Bound: whom two calls or a transfer have worked on   *)
(* is not moved again.                                                      *)
UpdateResidence(c, place) ==
  /\ Live(c) /\ c \notin mixed
  /\ place # citizens[c].place
  /\ citizens' = [citizens EXCEPT ![c].place = place]
  /\ mixed' = mixed \cup {c}
  /\ was' = [was EXCEPT ![c] = @ \cup {buildSnapshot(citizens'[c])}]
  /\ UNCHANGED <<deleted, audit, now, ask, pc, copy, before, stamp, met, giver, lost>>

-----------------------------------------------------------------------------
(* Telling *)

AfterSnapshotTooEarly(k) ==
  IF ask[k].does = "create" THEN buildSnapshot(copy[k]) ELSE before[k]
AfterSnapshot(k) == IF ask[k].does = "delete" THEN NoRow ELSE buildSnapshot(copy[k])

(* The row is built, changed_at with it; a later call may insert its own    *)
(* before.                                                                  *)
writeAuditLog(k) ==
  /\ pc[k] = "audit"
  /\ stamp' = [stamp EXCEPT ![k] = now]
  /\ now' = now + 1
  /\ Goto(k, "insert")
  /\ UNCHANGED <<citizens, deleted, audit, ask, copy, before, history>>

(* A nil json.RawMessage reaches PostgreSQL as '', and jsonb refuses it.    *)
IsJSON(snapshot) == snapshot # NoRow

(* The error of an INSERT that is refused is only printed. *)
Insert(k) ==
  LET entry == [citizen |-> Of(k), action |-> ask[k].does, by |-> k, at |-> stamp[k],
                old |-> before[k], new |-> AfterSnapshot(k)]
  IN  /\ pc[k] = "insert"
      /\ IF IsJSON(entry.old) /\ IsJSON(entry.new)
         THEN audit' = Append(audit, entry) /\ UNCHANGED lost
         ELSE lost' = lost \cup {k} /\ UNCHANGED audit
      /\ stamp' = [stamp EXCEPT ![k] = 0]
      /\ Goto(k, "done")
      /\ UNCHANGED <<citizens, deleted, now, ask, copy, before, met, giver, mixed, was>>

(* The insert fails for another reason, or the server stops. *)
AuditFails(k) ==
  /\ pc[k] \in {"audit", "insert"}
  /\ lost' = lost \cup {k}
  /\ stamp' = [stamp EXCEPT ![k] = 0]
  /\ Goto(k, "done")
  /\ UNCHANGED <<database, ask, copy, before, met, giver, mixed, was>>

(* The client goes away, a statement fails or the server stops before the   *)
(* change: its context ends the call, except while it writes the audit row. *)
EndsWithContextAlways(k) == pc[k] \in {"start", "apply", "write", "audit", "insert"}
EndsWithContext(k) == pc[k] \in {"start", "apply", "write"}
GiveUp(k) == EndsWithContext(k) /\ Refuse(k)

Step(k) ==
  \/ CreateLook(k) \/ ReadRow(k) \/ applyUpdates(k) \/ Refused(k)
  \/ Write(k) \/ MatchesNone(k) \/ writeAuditLog(k) \/ Insert(k)

Fault(k) == WriteUnheard(k) \/ AuditFails(k) \/ GiveUp(k)

RegistryNext ==
  \/ \E k \in Calls : Step(k) \/ Fault(k)
  \/ \E c \in Movers, place \in Places : UpdateResidence(c, place)

(* A handler's goroutine goes on; nobody needs to give up. *)
Fairness == \A k \in Calls : WF_vars(Step(k))

RegistrySpec == Init /\ [][RegistryNext]_vars /\ Fairness

-----------------------------------------------------------------------------
(* Properties *)

Snapshots == [nid : {Mask[n] : n \in Ids}, place : Places] \cup {NoRow}
Entries == [citizen : Citizens, action : {"create", "update", "delete"}, by : Calls,
            at : Nat, old : Snapshots, new : Snapshots]

RegistryTypeOK ==
  /\ citizens \in [Citizens -> Rows \cup {NoRow}]
  /\ deleted \subseteq {c \in Citizens : citizens[c] # NoRow}
  /\ audit \in Seq(Entries) /\ now \in Nat
  /\ ask \in Scenarios
  /\ pc \in [Calls -> {"start", "apply", "write", "audit", "insert", "done"}]
  /\ \A k \in Calls : pc[k] = "apply" => ask[k].does = "update"
  /\ copy \in [Calls -> Rows \cup {NoRow}]
  /\ before \in [Calls -> Snapshots]
  /\ stamp \in [Calls -> Nat]
  /\ met \in [Calls -> SUBSET Calls]
  /\ giver \in [Citizens -> Calls \cup {NoRow}]
  /\ mixed \subseteq Citizens
  /\ lost \subseteq Calls
  /\ was \in [Citizens -> SUBSET Snapshots]

Twins(c, d) ==
  c # d /\ Live(c) /\ Live(d) /\ Decrypt(citizens[c].nid) = Decrypt(citizens[d].nid)

(* A number of c that the seed script has encrypted with a random IV.       *)
Seeded(c, nid) ==
  SeedRows[ask][c] # NoRow /\ nid = SeedRows[ask][c].nid /\ Len(nid) = 2

(* Two live citizens come to share a national_id in three ways only: the    *)
(* other one took it between this call's look and its write; this call, a   *)
(* PATCH of other fields, puts back the number its row had when it read it; *)
(* or the other one's number is a seeded one, encrypted with a random IV.   *)
TwinsComeFromRaces ==
  [][\A c \in Citizens, d \in Citizens :
       Twins(c, d)' /\ ~Twins(c, d) =>
         \E k \in Calls, e \in {c, d} :
           /\ Of(k) \in {c, d} \ {e} /\ (Write(k) \/ WriteUnheard(k))
           /\ \/ giver[e] \in met[k]
              \/ ask[k].nid = Keep
              \/ Seeded(e, citizens[e].nid)]_vars

(* A deleted citizen stays deleted, and its row never changes again, not by *)
(* a PATCH or a DELETE that read it before.                                 *)
DeletedIsFinal ==
  [][/\ deleted \subseteq deleted'
     /\ \A c \in deleted : citizens'[c] = citizens[c]]_vars

(* The audit log invents nothing: what a row of it gives as old or new      *)
(* value the citizen's row has really been.                                 *)
AuditIsTrue ==
  \A i \in DOMAIN audit :
    {audit[i].old, audit[i].new} \subseteq was[audit[i].citizen]

(* Row j is the next one about the citizen of row i; row i is the last.     *)
Follows(j, i) ==
  /\ i < j /\ audit[j].citizen = audit[i].citizen
  /\ \A n \in DOMAIN audit : i < n /\ n < j => audit[n].citizen # audit[i].citizen
Last(i) == \A n \in DOMAIN audit : i < n => audit[n].citizen # audit[i].citizen

(* Calls on the citizen came one after the other, and no update was lost.   *)
Orderly(c) == c \notin mixed /\ \A k \in lost : Of(k) = c => ask[k].does # "update"

Telling(k) == pc[k] \in {"audit", "insert"}

(* And it can be replayed, although it lacks creations and deletions: as    *)
(* long as calls on a citizen came one after the other and no update was    *)
(* lost, each row starts from what the one before it left, changed_at puts  *)
(* them in that order, and the last one gives the row of today, or the one  *)
(* that was deleted.                                                        *)
AuditReplays ==
  \A i \in DOMAIN audit :
    LET c == audit[i].citizen
    IN  Orderly(c) =>
          /\ \A j \in DOMAIN audit : Follows(j, i) =>
               audit[j].old = audit[i].new /\ audit[i].at < audit[j].at
          /\ Last(i) /\ (\A k \in Calls : Of(k) = c => ~Telling(k)) =>
               audit[i].new = buildSnapshot(citizens[c])

(* Every update is told in the end, whatever becomes of the client, unless  *)
(* the audit insert itself fails or the answer to the change was lost.      *)
EveryUpdateIsAudited ==
  \A k \in Calls :
    (pc[k] = "audit" /\ ask[k].does = "update")
      ~> (k \in lost \/ \E i \in DOMAIN audit : audit[i].by = k)

-----------------------------------------------------------------------------
(* What the repository says and the code does not do *)

(* "Records every creation, update and deletion of a citizen's data": once  *)
(* the INSERT of a call's audit row has run, the log has that row.          *)
EveryActionIsLogged ==
  [][\A k \in Calls : Insert(k) => \E i \in DOMAIN audit' : audit'[i].by = k]_vars
=============================================================================
