----------------------------- MODULE TransferTx -----------------------------
(***************************************************************************)
(* The calls that decide and execute transfers, statement by statement:    *)
(* ApproveTransfer, ForceApproveTransfer and the insert of a request's     *)
(* second ticket, run by PostgreSQL under READ COMMITTED with row locks,   *)
(* on a pool of MaxOpenConns connections.                                  *)
(*                                                                         *)
(* The tables are what is committed; what an open transaction has done is  *)
(* did[k], seen by nobody else until Commit publishes it, except through   *)
(* the row locks it implies.  TransferWorkflow takes the whole body of     *)
(* WithTx for one step; StepsAreAtomic says how far that is true.          *)
(***************************************************************************)
EXTENDS AdminScope, Naturals, FiniteSets

CONSTANTS Citizens, Requests, Transfer,  \* Transfer[r]: its immutable columns
          Calls,                         \* calls in flight, each made once
          Scenarios,                     \* what they ask for
          Seeds,                         \* household_members at the start
          MaxOpenConns                   \* db.SetMaxOpenConns

Asks == [does : {"approved", "rejected", "pending", "force", "ticket"},
         request : Requests, unit : Units \cup {NoUnit}]

NoRequest == "none"

(* Under review: a request between two wards, of which somebody is asked.   *)
ASSUME TransfersAreRows ==
  /\ Transfer \in [Requests -> [citizen : Citizens, from : Households, to : Households]]
  /\ \A q \in Requests : Ward[Transfer[q].from] # Ward[Transfer[q].to]
  /\ NoRequest \notin Requests
ASSUME SeedsAreMembers ==
  /\ Seeds \subseteq [Households -> SUBSET Citizens]
  /\ \A m \in Seeds, c \in Citizens : \E h \in Households : c \in m[h]
ASSUME PoolIsOpen == MaxOpenConns \in Nat \ {0} /\ IsFiniteSet(Calls)

(* Who decides does so for a unit, and a request's second ticket is         *)
(* inserted once, by the handler that created the request.                  *)
ASSUME ScenariosAreAsks ==
  /\ Scenarios \subseteq [Calls -> Asks]
  /\ \A s \in Scenarios, k \in Calls :
       /\ s[k].does # "force" => s[k].unit \in Units
       /\ s[k].does = "ticket" =>
            LET t == Transfer[s[k].request]
            IN  /\ s[k].unit = buildApprovals(t.from, t.to)["destination"]
                /\ \A j \in Calls \ {k} : s[j].does # "ticket" \/ s[j].request # s[k].request

VARIABLES
  members, residence, status, ticket, history, forced, \* as in TransferWorkflow
  ask,     \* ask[k]: what call k was sent to do
  pc,      \* the statement call k is about to run
  did,     \* what its open transaction has done so far
  conn     \* calls whose transaction holds a connection of the pool

tables == <<members, residence, status, ticket, history, forced>>
vars == <<tables, ask, pc, did, conn>>

Statements == {"check", "begin", "lock", "decide", "count", "home", "destination",
               "history", "leave", "join", "address", "status", "audit", "commit",
               "insert", "rollback", "done"}
Deeds == {"locked", "decided", "history", "left", "joined", "address", "status"}

Request(k) == ask[k].request
treq(k) == Transfer[Request(k)]
Forces(k) == ask[k].does = "force"
Approves(k) == ask[k].does = "approved"
Executes(k) == Forces(k) \/ Approves(k)

(* Requests are under way: the source has its ticket, the destination has   *)
(* one too unless a call is still to insert it.                             *)
Init ==
  /\ ask \in Scenarios
  /\ members \in Seeds
  /\ residence = [c \in Citizens |-> Address(CHOOSE h \in Households : c \in members[h])]
  /\ status = [q \in Requests |-> "pending"]
  /\ ticket = [q \in Requests |->
       LET units == buildApprovals(Transfer[q].from, Transfer[q].to)
           late == \E k \in Calls : ask[k].does = "ticket" /\ Request(k) = q
       IN  [u \in Units |-> IF u = units["source"] \/ (u = units["destination"] /\ ~late)
                            THEN "pending" ELSE "none"]]
  /\ history = [q \in Requests |-> 0]
  /\ forced = {}
  /\ pc = [k \in Calls |-> IF ask[k].does = "ticket" THEN "insert" ELSE "check"]
  /\ did = [k \in Calls |-> {}]
  /\ conn = {}

-----------------------------------------------------------------------------
(* Row locks *)

RequestRow(q) == <<"transfer_requests", q>>
Slot(h, c) == <<"household_members", h, c>>
CitizenRow(c) == <<"citizens", c>>

(* The row lock modes that meet here.  The rows of household_members have   *)
(* nothing weaker than "update".                                            *)
Conflict(m, n) ==
  \/ m = "update" \/ n = "update"
  \/ m = "no_key_update" /\ n = "no_key_update"

(* SELECT ... FOR UPDATE; plain SELECT takes nothing. *)
RequestLockNone(k) == {}
RequestLockWeak(k) == {<<RequestRow(Request(k)), "no_key_update">>}
RequestLock(k) == {<<RequestRow(Request(k)), "update">>}

(* Until it ends, a transaction holds what its statements have locked:      *)
(* a foreign key locks the referenced row in key_share.                     *)
Holds(k) ==
  UNION {
    IF "locked" \in did[k] THEN RequestLock(k) ELSE {},
    IF "history" \in did[k] THEN {<<RequestRow(Request(k)), "key_share">>} ELSE {},
    IF "left" \in did[k] THEN {<<Slot(treq(k).from, treq(k).citizen), "update">>} ELSE {},
    IF "joined" \in did[k] THEN {<<Slot(treq(k).to, treq(k).citizen), "update">>} ELSE {},
    IF "address" \in did[k] THEN {<<CitizenRow(treq(k).citizen), "no_key_update">>} ELSE {},
    IF "status" \in did[k] THEN {<<RequestRow(Request(k)), "no_key_update">>} ELSE {}}

(* RemoveMember sees no row another transaction has only inserted, so it    *)
(* does not wait for one; AddMember waits on the unique index for both an   *)
(* insert and a removal in progress.                                        *)
Wants(k) ==
  CASE pc[k] = "lock" -> RequestLock(k)
    [] pc[k] \in {"history", "insert"} -> {<<RequestRow(Request(k)), "key_share">>}
    [] pc[k] = "leave" -> IF treq(k).citizen \in members[treq(k).from]
                          THEN {<<Slot(treq(k).from, treq(k).citizen), "update">>} ELSE {}
    [] pc[k] = "join" -> {<<Slot(treq(k).to, treq(k).citizen), "update">>}
    [] pc[k] = "address" -> {<<CitizenRow(treq(k).citizen), "no_key_update">>}
    [] pc[k] = "status" -> {<<RequestRow(Request(k)), "no_key_update">>}
    [] OTHER -> {}

WaitsFor(k) ==
  {j \in Calls \ {k} : \E w \in Wants(k), l \in Holds(j) :
                         w[1] = l[1] /\ Conflict(w[2], l[2])}
Granted(k) == WaitsFor(k) = {}

-----------------------------------------------------------------------------
(* The pool *)

(* A statement on the pool takes a connection and gives it back; it waits,  *)
(* without a time limit of its own, while all are taken.                    *)
ConnFree == Cardinality(conn) < MaxOpenConns
Take(k) == ConnFree /\ conn' = conn \cup {k}

Goto(k, next) == pc' = [pc EXCEPT ![k] = next]
Do(k, deed, next) ==
  /\ Goto(k, next)
  /\ did' = [did EXCEPT ![k] = @ \cup {deed}]
  /\ UNCHANGED <<tables, ask, conn>>
Read(k, next) == Goto(k, next) /\ UNCHANGED <<tables, ask, did, conn>>

-----------------------------------------------------------------------------
(* Before the transaction *)

(* HasApprovalForUnit: any ticket of the caller's unit, decided or not. *)
HasApprovalForUnit(k) ==
  /\ pc[k] = "check" /\ ~Forces(k)
  /\ ConnFree
  /\ Read(k, IF ticket[Request(k)][ask[k].unit] # "none" THEN "begin" ELSE "done")

(* ForceApproveTransfer reads the request (and the old household, and       *)
(* inserts an audit row the table refuses) on the pool.                     *)
ForceCheck(k) ==
  /\ pc[k] = "check" /\ Forces(k)
  /\ ConnFree
  /\ Read(k, IF status[Request(k)] = "completed" THEN "done" ELSE "begin")

(* The second INSERT of CreateApprovals commits on its own.  Its foreign    *)
(* key waits for whoever has the request row FOR UPDATE.                    *)
CreateApproval(k) ==
  /\ pc[k] = "insert"
  /\ IF k \in conn
     THEN /\ Granted(k)
          /\ ticket' = [ticket EXCEPT ![Request(k)][ask[k].unit] = "pending"]
          /\ Goto(k, "done")
          /\ conn' = conn \ {k}
     ELSE Take(k) /\ UNCHANGED <<ticket, pc>>
  /\ UNCHANGED <<members, residence, status, history, forced, ask, did>>

-----------------------------------------------------------------------------
(* WithTx and the statements it runs *)

BeginTx(k) ==
  /\ pc[k] = "begin"
  /\ Take(k)
  /\ Goto(k, IF Forces(k) THEN "destination" ELSE "lock")
  /\ UNCHANGED <<tables, ask, did>>

GetRequestByIDForUpdate(k) ==
  /\ pc[k] = "lock"
  /\ Granted(k)
  /\ Do(k, "locked", IF status[Request(k)] = "pending" THEN "decide" ELSE "rollback")

(* GetPendingApprovalForUnit, then UpdateApproval on the ticket it found.   *)
Decide(k) ==
  /\ pc[k] = "decide"
  /\ IF ticket[Request(k)][ask[k].unit] = "pending"
     THEN Do(k, "decided", CASE Approves(k) -> "count"
                             [] ask[k].does = "rejected" -> "status"
                             [] OTHER -> "commit")
     ELSE Read(k, "rollback")

(* GetApprovalsByRequestID: the committed tickets and its own decision. *)
CountApprovals(k) ==
  LET seen == [ticket[Request(k)] EXCEPT ![ask[k].unit] = "approved"]
  IN  /\ pc[k] = "count"
      /\ Read(k, IF \A u \in Units : seen[u] \in {"none", "approved"}
                 THEN "home" ELSE "commit")

(* Both households are read through the pool while the transaction keeps    *)
(* its own connection.                                                      *)
GetHousehold(k) ==
  /\ pc[k] \in {"home", "destination"}
  /\ ConnFree
  /\ Read(k, IF pc[k] = "home" THEN "destination" ELSE "history")

CreateResidenceHistory(k) ==
  pc[k] = "history" /\ Granted(k) /\ Do(k, "history", "leave")

(* Updating no row is no error. *)
RemoveMember(k) ==
  /\ pc[k] = "leave"
  /\ Granted(k)
  /\ IF treq(k).citizen \in members[treq(k).from] THEN Do(k, "left", "join")
                                            ELSE Read(k, "join")

(* The partial unique index refuses a second active row. *)
AddMember(k) ==
  /\ pc[k] = "join"
  /\ Granted(k)
  /\ IF /\ treq(k).citizen \in members[treq(k).to]
        /\ ~("left" \in did[k] /\ treq(k).from = treq(k).to)
     THEN Read(k, "rollback")
     ELSE Do(k, "joined", "address")

UpdateResidence(k) == pc[k] = "address" /\ Granted(k) /\ Do(k, "address", "status")

(* CompleteRequest after an execution, UpdateRequestStatus after a refusal. *)
SetStatus(k) ==
  /\ pc[k] = "status"
  /\ Granted(k)
  /\ Do(k, "status", IF Executes(k) THEN "audit" ELSE "commit")

(* InsertWithVisibility opens a transaction of its own on the pool; the     *)
(* table refuses the action and the error is discarded.                     *)
InsertWithVisibility(k) == pc[k] = "audit" /\ ConnFree /\ Read(k, "commit")

StatusAsDecided(k) == IF Forces(k) THEN "completed" ELSE ask[k].does
StatusWritten(k) == IF Executes(k) THEN "completed" ELSE "rejected"

Commit(k) ==
  /\ pc[k] = "commit"
  /\ ticket' = IF "decided" \in did[k]
               THEN [ticket EXCEPT ![Request(k)][ask[k].unit] = ask[k].does] ELSE ticket
  /\ history' = IF "history" \in did[k] THEN [history EXCEPT ![Request(k)] = @ + 1] ELSE history
  /\ members' = [h \in Households |->
       (members[h] \ {c \in {treq(k).citizen} : "left" \in did[k] /\ h = treq(k).from})
         \cup {c \in {treq(k).citizen} : "joined" \in did[k] /\ h = treq(k).to}]
  /\ residence' = IF "address" \in did[k]
                  THEN [residence EXCEPT ![treq(k).citizen] = Address(treq(k).to)] ELSE residence
  /\ status' = IF "status" \in did[k]
               THEN [status EXCEPT ![Request(k)] = StatusWritten(k)] ELSE status
  /\ forced' = IF Forces(k) THEN forced \cup {Request(k)} ELSE forced
  /\ Goto(k, "done")
  /\ did' = [did EXCEPT ![k] = {}]
  /\ conn' = conn \ {k}
  /\ UNCHANGED ask

(* tx.Rollback: nothing is published, the locks and the connection go.      *)
EndsKeepingConn(k) ==
  /\ Goto(k, "done")
  /\ did' = [did EXCEPT ![k] = {}]
  /\ UNCHANGED <<tables, ask, conn>>
Ends(k) ==
  /\ Goto(k, "done")
  /\ did' = [did EXCEPT ![k] = {}]
  /\ conn' = conn \ {k}
  /\ UNCHANGED <<tables, ask>>

Rollback(k) == pc[k] = "rollback" /\ Ends(k)

-----------------------------------------------------------------------------
(* What ends a call from outside *)

(* The client goes away (its context is the statements' context) or a       *)
(* statement fails: WithTx rolls back.                                      *)
GiveUp(k) == pc[k] \notin {"done", "rollback"} /\ Ends(k)

(* PostgreSQL ends a transaction that is part of a cycle of lock waits.     *)
InCycle(k) ==
  /\ WaitsFor(k) # {}
  /\ \A T \in SUBSET Calls :
       WaitsFor(k) \subseteq T /\ (\A j \in T : WaitsFor(j) \subseteq T) => k \in T
DeadlockAbort(k) == InCycle(k) /\ Ends(k)

Step(k) ==
  \/ HasApprovalForUnit(k) \/ ForceCheck(k) \/ CreateApproval(k)
  \/ BeginTx(k) \/ GetRequestByIDForUpdate(k) \/ Decide(k) \/ CountApprovals(k)
  \/ GetHousehold(k) \/ CreateResidenceHistory(k) \/ RemoveMember(k) \/ AddMember(k)
  \/ UpdateResidence(k) \/ SetStatus(k) \/ InsertWithVisibility(k)
  \/ Commit(k) \/ Rollback(k)

Next == \E k \in Calls : Step(k) \/ GiveUp(k) \/ DeadlockAbort(k)

(* A goroutine that can run a statement runs it, and the deadlock detector  *)
(* looks after deadlock_timeout; nobody has to give up.                     *)
Fairness == \A k \in Calls : WF_vars(Step(k)) /\ WF_vars(DeadlockAbort(k))

Spec == Init /\ [][Next]_vars /\ Fairness

-----------------------------------------------------------------------------
(* Properties *)

TypeOK ==
  /\ members \in [Households -> SUBSET Citizens]
  /\ residence \in [Citizens -> Units \X Units \X Units]
  /\ status \in [Requests -> {"pending", "rejected", "completed"}]
  /\ ticket \in [Requests -> [Units -> {"none", "pending", "approved", "rejected"}]]
  /\ history \in [Requests -> 0 .. Cardinality(Calls)]
  /\ forced \subseteq Requests
  /\ ask \in Scenarios
  /\ pc \in [Calls -> Statements]
  /\ did \in [Calls -> SUBSET Deeds]
  /\ conn \subseteq Calls /\ Cardinality(conn) <= MaxOpenConns

(* The last approval always executes the transfer: whatever the statements  *)
(* of several approvals interleave to, no request is left pending in the    *)
(* tables with every ticket approved, and none with a refusal.              *)
NoLostDecision ==
  \A q \in Requests :
    status[q] = "pending" => \E u \in Units : ticket[q][u] = "pending"
                                              /\ \A v \in Units : ticket[q][v] # "rejected"

(* A removal that matched no row, although by now somebody has put the      *)
(* citizen into the household the transfer was to take them from.           *)
MissedRemoval ==
  \E k \in Calls :
    /\ pc[k] = "commit" /\ Commit(k)
    /\ "joined" \in did[k] /\ "left" \notin did[k]
    /\ treq(k).citizen \in members[treq(k).from]

(* What TransferWorkflow keeps beyond the tables of this module.            *)
Creating == [q \in Requests |->
  IF \E k \in Calls : ask[k].does = "ticket" /\ Request(k) = q /\ pc[k] # "done"
  THEN "destination" ELSE "done"]
Forcing == [k \in Calls |->
  IF Forces(k) /\ pc[k] \notin {"check", "done"} THEN Request(k) ELSE NoRequest]

Workflow == INSTANCE TransferWorkflow WITH
  Officers <- [role : {"ward_officer"}, unit : Units],
  Admins <- Calls, Editors <- {}, Patches <- {},
  NoTransfer <- "none", NoPatch <- "none",
  SeedHouseholds <- Households, SeedMembers <- [h \in Households |-> {}],
  SeedAddress <- [c \in Citizens |-> Address(Transfer[CHOOSE q \in Requests : TRUE].from)],
  MaxMoves <- Cardinality(Calls),
  registered <- Households, deleted <- {}, edited <- {},
  transfer <- Transfer, overdue <- {}, escalatedTo <- [q \in Requests |-> NoUnit],
  audit <- {}, creating <- Creating, forcing <- Forcing, patching <- <<>>,
  listed <- {}, marked <- NoRequest

(* Every commit of these calls is one step of TransferWorkflow, as if its   *)
(* statements had run at that instant: FOR UPDATE, the lock a ticket's      *)
(* foreign key waits for and the index on members make it so.  The one      *)
(* exception is a MissedRemoval.                                            *)
StepsAreAtomic == [][Workflow!Next \/ MissedRemoval]_Workflow!vars

(* All connections are with transactions that cannot go on: each waits for  *)
(* a further connection, or for a lock of another one of them.              *)
Wedged ==
  /\ ~ConnFree
  /\ \A k \in conn : pc[k] \in {"home", "destination", "audit"} \/ WaitsFor(k) # {}

(* Every call is answered: row locks alone never hold one up for ever,      *)
(* because they are taken in one order or the deadlock detector ends a      *)
(* cycle.  Only an exhausted pool does.                                     *)
CallsEnd == \A k \in Calls : (pc[k] # "done") ~> (pc[k] = "done" \/ Wedged)
=============================================================================
