-------------------------- MODULE TransferTx_proofs --------------------------
(***************************************************************************)
(* Proofs about TransferTx, for every geography, register, set of requests, *)
(* of calls and of what they ask for, and a pool of any size.              *)
(***************************************************************************)
EXTENDS TransferTx, FiniteSetTheorems, TLAPS

(* What the transaction of a call has done by the time it comes to a        *)
(* statement.                                                               *)
Decides(k) == ask[k].does \in {"approved", "rejected", "pending"}
Moved(k) == did[k] \ {"left"}
Base(k) == IF Forces(k) THEN {} ELSE {"locked", "decided"}
InPlace(k) ==
  /\ pc[k] \in {"check", "begin", "insert", "lock", "done"} => did[k] = {}
  /\ IF ask[k].does = "ticket" THEN pc[k] \in {"insert", "done"} ELSE pc[k] # "insert"
  /\ pc[k] \in {"lock", "decide"} => Decides(k)
  /\ pc[k] = "decide" => did[k] = {"locked"}
  /\ pc[k] \in {"count", "home"} => Approves(k) /\ did[k] = {"locked", "decided"}
  /\ pc[k] \in {"destination", "history"} => Executes(k) /\ did[k] = Base(k)
  /\ pc[k] = "leave" => Executes(k) /\ did[k] = Base(k) \cup {"history"}
  /\ pc[k] = "join" => Executes(k) /\ Moved(k) = Base(k) \cup {"history"}
  /\ pc[k] = "address" => Executes(k) /\ Moved(k) = Base(k) \cup {"history", "joined"}
  /\ pc[k] = "status" =>
       \/ Executes(k) /\ Moved(k) = Base(k) \cup {"history", "joined", "address"}
       \/ ask[k].does = "rejected" /\ did[k] = {"locked", "decided"}
  /\ pc[k] = "audit" =>
       Executes(k) /\ Moved(k) = Base(k) \cup {"history", "joined", "address", "status"}
  /\ pc[k] = "commit" =>
       \/ Executes(k) /\ Moved(k) = Base(k) \cup {"history", "joined", "address", "status"}
       \/ ask[k].does = "rejected" /\ did[k] = {"locked", "decided", "status"}
       \/ ask[k].does \in {"approved", "pending"} /\ did[k] = {"locked", "decided"}
  /\ pc[k] = "rollback" => /\ Decides(k) => "locked" \in did[k]
                           /\ Decides(k) \/ Forces(k)
                           /\ Forces(k) => "decided" \notin did[k]

LocksExclude ==
  \A j, k \in Calls : j # k =>
    \A l \in Holds(j), m \in Holds(k) : l[1] = m[1] => ~Conflict(l[2], m[2])

Seen(k) == [ticket[Request(k)] EXCEPT ![ask[k].unit] = "approved"]
AllApproved(k) == \A u \in Units : Seen(k)[u] \in {"none", "approved"}
StillTrue(k) ==
  /\ pc[k] = "decide" \/ "decided" \in did[k] => status[Request(k)] = "pending"
  /\ "decided" \in did[k] =>
       /\ ticket[Request(k)][ask[k].unit] = "pending"
       /\ pc[k] \in {"home", "destination", "history"} \/ "history" \in did[k] => AllApproved(k)
       /\ pc[k] = "commit" /\ Approves(k) /\ "history" \notin did[k] => ~AllApproved(k)
  /\ "joined" \in did[k] => treq(k).citizen \notin members[treq(k).to]
  /\ ask[k].does = "ticket" /\ pc[k] # "done" => ticket[Request(k)][ask[k].unit] = "none"

DoneCalls == {k \in Calls : pc[k] = "done"}
TxInv ==
  /\ TypeOK /\ NoLostDecision
  /\ \A k \in Calls : InPlace(k) /\ StillTrue(k)
  /\ LocksExclude
  /\ \A q \in Requests : history[q] <= Cardinality(DoneCalls)

-----------------------------------------------------------------------------
(* Calls, requests and units *)

LEMMA TwoUnits ==
  ASSUME NEW q \in Requests
  PROVE  LET units == buildApprovals(Transfer[q].from, Transfer[q].to)
         IN  /\ units["source"] \in Units /\ units["destination"] \in Units
             /\ units["source"] # units["destination"]
  BY TransfersAreRows, HouseholdCodes DEF buildApprovals, UnitAt, determineApprovalLevel

LEMMA CallsAsk ==
  ASSUME TypeOK, NEW k \in Calls
  PROVE  /\ ask[k] \in Asks /\ Request(k) \in Requests
         /\ treq(k).citizen \in Citizens
         /\ treq(k).from \in Households /\ treq(k).to \in Households /\ treq(k).from # treq(k).to
         /\ ~Forces(k) => ask[k].unit \in Units
         /\ ask[k].does = "ticket" =>
              /\ ask[k].unit = buildApprovals(treq(k).from, treq(k).to)["destination"]
              /\ \A j \in Calls \ {k} : ask[j].does # "ticket" \/ Request(j) # Request(k)
  <1>1. ask \in Scenarios /\ ask[k] \in Asks
    BY ScenariosAreAsks DEF TypeOK
  <1>2. Request(k) \in Requests
    BY <1>1 DEF Asks, Request
  <1>3. QED
    BY <1>1, <1>2, ScenariosAreAsks, TransfersAreRows DEF Request, treq, Forces

(* The ways a statement can end: something read, something done, a          *)
(* connection taken, a ticket inserted, everything published, or nothing.   *)
LEMMA Shapes ==
  ASSUME NEW k \in Calls, Step(k) \/ GiveUp(k) \/ DeadlockAbort(k)
  PROVE  /\ pc[k] # "done"
         /\ \/ \E n \in Statements : Read(k, n)
            \/ \E d \in Deeds, n \in Statements : Do(k, d, n)
            \/ BeginTx(k) \/ CreateApproval(k) \/ Commit(k) \/ Ends(k)
  <1>1. CASE HasApprovalForUnit(k) \/ ForceCheck(k) \/ CountApprovals(k) \/ GetHousehold(k)
             \/ InsertWithVisibility(k)
    BY <1>1 DEF HasApprovalForUnit, ForceCheck, CountApprovals, GetHousehold,
       InsertWithVisibility, Statements
  <1>2. CASE GetRequestByIDForUpdate(k) \/ Decide(k) \/ CreateResidenceHistory(k)
             \/ RemoveMember(k) \/ AddMember(k) \/ UpdateResidence(k) \/ SetStatus(k)
    BY <1>2 DEF GetRequestByIDForUpdate, Decide, CreateResidenceHistory, RemoveMember,
       AddMember, UpdateResidence, SetStatus, Statements, Deeds
  <1>3. CASE BeginTx(k) \/ CreateApproval(k) \/ Commit(k) \/ Rollback(k) \/ GiveUp(k)
    BY <1>3 DEF BeginTx, CreateApproval, Commit, Rollback, GiveUp
  <1>4. CASE DeadlockAbort(k)
    BY <1>4 DEF DeadlockAbort, InCycle, WaitsFor, Wants
  <1>5. QED
    BY <1>1, <1>2, <1>3, <1>4 DEF Step

-----------------------------------------------------------------------------
(* Types *)

LEMMA PoolTake ==
  ASSUME TypeOK, NEW k \in Calls, Take(k)
  PROVE  conn' \subseteq Calls /\ Cardinality(conn') <= MaxOpenConns
  <1>1. IsFiniteSet(conn) /\ Cardinality(conn) \in Nat
    BY PoolIsOpen, FS_Subset, FS_CardinalityType DEF TypeOK
  <1>2. Cardinality(conn \cup {k}) <= Cardinality(conn) + 1
    BY <1>1, FS_AddElement
  <1>3. IsFiniteSet(conn \cup {k}) /\ Cardinality(conn \cup {k}) \in Nat
    BY <1>1, FS_AddElement, FS_CardinalityType
  <1>4. QED
    BY <1>1, <1>2, <1>3, PoolIsOpen DEF Take, ConnFree, TypeOK

LEMMA PoolGive ==
  ASSUME TypeOK, NEW k \in Calls
  PROVE  conn \ {k} \subseteq Calls /\ Cardinality(conn \ {k}) <= MaxOpenConns
  <1>1. IsFiniteSet(conn) /\ Cardinality(conn) \in Nat
    BY PoolIsOpen, FS_Subset, FS_CardinalityType DEF TypeOK
  <1>2. IsFiniteSet(conn \ {k}) /\ Cardinality(conn \ {k}) <= Cardinality(conn)
    BY <1>1, FS_Subset
  <1>3. Cardinality(conn \ {k}) \in Nat
    BY <1>2, FS_CardinalityType
  <1>4. QED
    BY <1>1, <1>2, <1>3, PoolIsOpen DEF TypeOK

(* A call that is not done yet leaves room for one more move. *)
HistoryIsOfTheDone == \A q \in Requests : history[q] <= Cardinality(DoneCalls)

LEMMA DoneIsCounted ==
  ASSUME TypeOK
  PROVE  /\ IsFiniteSet(DoneCalls) /\ Cardinality(DoneCalls) \in Nat /\ Cardinality(Calls) \in Nat
         /\ \A k \in Calls : pc[k] # "done" =>
              /\ Cardinality(DoneCalls) < Cardinality(Calls)
              /\ Cardinality(DoneCalls \cup {k}) = Cardinality(DoneCalls) + 1
  <1>1. IsFiniteSet(DoneCalls) /\ Cardinality(DoneCalls) \in Nat /\ Cardinality(Calls) \in Nat
    BY PoolIsOpen, FS_Subset, FS_CardinalityType DEF DoneCalls
  <1>2. ASSUME NEW k \in Calls, pc[k] # "done"
        PROVE  /\ Cardinality(DoneCalls) < Cardinality(Calls)
               /\ Cardinality(DoneCalls \cup {k}) = Cardinality(DoneCalls) + 1
    <2>1. DoneCalls \cup {k} \in SUBSET Calls /\ k \notin DoneCalls
      BY <1>2 DEF DoneCalls
    <2>2. Cardinality(DoneCalls \cup {k}) = Cardinality(DoneCalls) + 1
      BY <1>1, <2>1, FS_AddElement
    <2>3. Cardinality(DoneCalls \cup {k}) <= Cardinality(Calls)
      BY <2>1, PoolIsOpen, FS_Subset
    <2>4. QED
      BY <1>1, <2>2, <2>3
  <1>3. QED
    BY <1>1, <1>2

LEMMA CommitCounts ==
  ASSUME TypeOK, HistoryIsOfTheDone, NEW k \in Calls, Commit(k)
  PROVE  HistoryIsOfTheDone' /\ history' \in [Requests -> 0 .. Cardinality(Calls)]
  <1>1. pc[k] # "done" /\ Request(k) \in Requests
    BY CallsAsk DEF Commit
  <1>2. DoneCalls' = DoneCalls \cup {k}
    BY DEF Commit, Goto, DoneCalls, TypeOK
  <1>3. /\ Cardinality(DoneCalls') = Cardinality(DoneCalls) + 1
        /\ Cardinality(DoneCalls) \in Nat /\ Cardinality(Calls) \in Nat
        /\ Cardinality(DoneCalls) < Cardinality(Calls)
    BY <1>1, <1>2, DoneIsCounted
  <1>4. history \in [Requests -> Nat]
    BY <1>3 DEF TypeOK
  <1>5. \/ history' = history
        \/ history' = [history EXCEPT ![Request(k)] = @ + 1]
    BY DEF Commit
  <1>6. \A q \in Requests : history'[q] \in Nat /\ history'[q] <= history[q] + 1
    BY <1>1, <1>4, <1>5
  <1>7. \A q \in Requests : history'[q] <= Cardinality(DoneCalls) + 1
    BY <1>3, <1>4, <1>6 DEF HistoryIsOfTheDone
  <1>8. HistoryIsOfTheDone'
    BY <1>3, <1>7 DEF HistoryIsOfTheDone
  <1>9. history' \in [Requests -> Nat]
    BY <1>1, <1>4, <1>5
  <1>10. QED
    BY <1>3, <1>6, <1>7, <1>8, <1>9

LEMMA TypeStep ==
  ASSUME TypeOK, HistoryIsOfTheDone, \A k \in Calls : InPlace(k), [Next]_vars
  PROVE  TypeOK' /\ HistoryIsOfTheDone'
  <1> USE DEF tables
  <1>1. ASSUME NEW k \in Calls, pc[k] # "done", UNCHANGED history,
               pc' = pc \/ \E n \in Statements : Goto(k, n)
        PROVE  HistoryIsOfTheDone'
    <2>1. DoneCalls' = DoneCalls \/ DoneCalls' = DoneCalls \cup {k}
      BY <1>1 DEF Goto, DoneCalls, TypeOK
    <2>2. /\ Cardinality(DoneCalls') \in Nat /\ Cardinality(DoneCalls) \in Nat
          /\ Cardinality(DoneCalls) <= Cardinality(DoneCalls')
      BY <1>1, <2>1, DoneIsCounted
    <2>3. history \in [Requests -> Nat]
      BY DoneIsCounted DEF TypeOK
    <2>4. QED
      BY <1>1, <2>2, <2>3 DEF HistoryIsOfTheDone
  <1>2. ASSUME NEW k \in Calls, NEW n \in Statements, Read(k, n)
        PROVE  TypeOK'
    BY <1>2 DEF Read, Goto, TypeOK
  <1>3. ASSUME NEW k \in Calls, NEW d \in Deeds, NEW n \in Statements, Do(k, d, n)
        PROVE  TypeOK'
    <2>1. did' \in [Calls -> SUBSET Deeds]
      BY <1>3 DEF Do, TypeOK
    <2>2. QED
      BY <1>3, <2>1 DEF Do, Goto, TypeOK
  <1>4. ASSUME NEW k \in Calls, BeginTx(k) PROVE TypeOK'
    BY <1>4, PoolTake DEF BeginTx, Goto, Statements, TypeOK
  <1>5. ASSUME NEW k \in Calls, Ends(k) PROVE TypeOK'
    BY <1>5, PoolGive DEF Ends, Goto, Statements, TypeOK
  <1>6. ASSUME NEW k \in Calls, CreateApproval(k) PROVE TypeOK'
    <2>1. ask[k].unit \in Units /\ Request(k) \in Requests
      BY <1>6, CallsAsk DEF CreateApproval, InPlace, Forces
    <2>2. ticket' \in [Requests -> [Units -> {"none", "pending", "approved", "rejected"}]]
      <3>1. \/ ticket' = ticket
            \/ ticket' = [ticket EXCEPT ![Request(k)][ask[k].unit] = "pending"]
        BY <1>6 DEF CreateApproval
      <3>2. CASE ticket' = ticket
        BY <3>2 DEF TypeOK
      <3>3. CASE ticket' = [ticket EXCEPT ![Request(k)][ask[k].unit] = "pending"]
        <4>1. ticket \in [Requests -> [Units -> {"none", "pending", "approved", "rejected"}]]
          BY DEF TypeOK
        <4>2. QED
          BY <2>1, <3>3, <4>1
      <3>4. QED
        BY <3>1, <3>2, <3>3
    <2>3. pc' \in [Calls -> Statements]
      BY <1>6 DEF CreateApproval, Goto, Statements, TypeOK
    <2>4. conn' \subseteq Calls /\ Cardinality(conn') <= MaxOpenConns
      BY <1>6, PoolTake, PoolGive DEF CreateApproval
    <2>5. QED
      BY <1>6, <2>2, <2>3, <2>4 DEF CreateApproval, TypeOK
  <1>7. ASSUME NEW k \in Calls, Commit(k) PROVE TypeOK'
    <2>1. Request(k) \in Requests /\ treq(k).citizen \in Citizens /\ treq(k).to \in Households
      BY CallsAsk
    <2>2. members' \in [Households -> SUBSET Citizens]
      BY <1>7, <2>1 DEF Commit, TypeOK
    <2>3. residence' \in [Citizens -> Units \X Units \X Units]
      BY <1>7, <2>1, HouseholdCodes DEF Commit, TypeOK, Address
    <2>4. status' \in [Requests -> {"pending", "rejected", "completed"}]
      BY <1>7, <2>1 DEF Commit, TypeOK, StatusWritten
    <2>5. ticket' \in [Requests -> [Units -> {"none", "pending", "approved", "rejected"}]]
      <3>1. CASE "decided" \in did[k]
        <4>1. ask[k].does \in {"approved", "rejected", "pending"}
          BY <1>7, <3>1 DEF Commit, InPlace, Moved, Base, Executes, Forces, Approves
        <4>2. ask[k].unit \in Units
          BY <4>1, CallsAsk DEF Forces
        <4>3. QED
          BY <1>7, <2>1, <3>1, <4>1, <4>2 DEF Commit, TypeOK
      <3>2. CASE "decided" \notin did[k]
        BY <1>7, <3>2 DEF Commit, TypeOK
      <3>3. QED
        BY <3>1, <3>2
    <2>6. forced' \subseteq Requests
      BY <1>7, <2>1 DEF Commit, TypeOK
    <2>7. /\ pc' \in [Calls -> Statements] /\ did' \in [Calls -> SUBSET Deeds]
          /\ ask' \in Scenarios
      BY <1>7 DEF Commit, Goto, Statements, TypeOK
    <2>8. conn' \subseteq Calls /\ Cardinality(conn') <= MaxOpenConns
      BY <1>7, PoolGive DEF Commit
    <2>9. history' \in [Requests -> 0 .. Cardinality(Calls)]
      BY <1>7, CommitCounts
    <2>10. QED
      BY <2>2, <2>3, <2>4, <2>5, <2>6, <2>7, <2>8, <2>9 DEF TypeOK
  <1>8. ASSUME NEW k \in Calls, Step(k) \/ GiveUp(k) \/ DeadlockAbort(k)
        PROVE  TypeOK' /\ HistoryIsOfTheDone'
    <2>1. TypeOK'
      BY <1>2, <1>3, <1>4, <1>5, <1>6, <1>7, <1>8, Shapes
    <2>2. HistoryIsOfTheDone'
      <3>1. CASE Commit(k)
        BY <3>1, CommitCounts
      <3>2. CASE ~Commit(k)
        BY <1>1, <1>8, <3>2, Shapes DEF Read, Do, BeginTx, CreateApproval, Ends, Statements
      <3>3. QED
        BY <3>1, <3>2
    <2>3. QED
      BY <2>1, <2>2
  <1>9. CASE UNCHANGED vars
    BY <1>9 DEF vars, TypeOK, HistoryIsOfTheDone, DoneCalls
  <1>10. QED
    BY <1>8, <1>9 DEF Next

-----------------------------------------------------------------------------
(* Where a call is and what it has done *)

LEMMA Reading ==
  ASSUME TypeOK, NEW k \in Calls, NEW n, Read(k, n)
  PROVE  pc'[k] = n /\ did'[k] = did[k] /\ ask' = ask /\ UNCHANGED tables
         /\ \A j \in Calls \ {k} : pc'[j] = pc[j] /\ did'[j] = did[j]
  BY DEF Read, Goto, TypeOK

LEMMA Doing ==
  ASSUME TypeOK, NEW k \in Calls, NEW d, NEW n, Do(k, d, n)
  PROVE  pc'[k] = n /\ did'[k] = did[k] \cup {d} /\ ask' = ask /\ UNCHANGED tables
         /\ \A j \in Calls \ {k} : pc'[j] = pc[j] /\ did'[j] = did[j]
  BY DEF Do, Goto, TypeOK

LEMMA Ending ==
  ASSUME TypeOK, NEW k \in Calls, Commit(k) \/ Ends(k)
  PROVE  pc'[k] = "done" /\ did'[k] = {} /\ ask' = ask
         /\ \A j \in Calls \ {k} : pc'[j] = pc[j] /\ did'[j] = did[j]
  BY DEF Commit, Ends, Goto, TypeOK

LEMMA OthersWait ==
  ASSUME TypeOK, NEW k \in Calls, Step(k) \/ GiveUp(k) \/ DeadlockAbort(k)
  PROVE  ask' = ask /\ \A j \in Calls \ {k} : pc'[j] = pc[j] /\ did'[j] = did[j]
  <1>1. CASE BeginTx(k) \/ CreateApproval(k)
    BY <1>1 DEF BeginTx, CreateApproval, Goto, TypeOK
  <1>2. QED
    BY <1>1, Shapes, Reading, Doing, Ending

LEMMA PlaceKept ==
  ASSUME NEW j \in Calls, InPlace(j), ask' = ask, pc'[j] = pc[j], did'[j] = did[j]
  PROVE  InPlace(j)'
  BY DEF InPlace, Decides, Moved, Base, Executes, Forces, Approves

LEMMA PlaceStep ==
  ASSUME TypeOK, NEW k \in Calls, InPlace(k), Step(k) \/ GiveUp(k) \/ DeadlockAbort(k)
  PROVE  InPlace(k)'
  <1> USE DEF InPlace, Decides, Moved, Base, Executes, Forces, Approves
  <1>0. ask[k].does \in {"approved", "rejected", "pending", "force", "ticket"}
    BY CallsAsk DEF Asks
  <1>1. CASE HasApprovalForUnit(k)
    BY <1>0, <1>1, Reading DEF HasApprovalForUnit
  <1>2. CASE ForceCheck(k)
    BY <1>2, Reading DEF ForceCheck
  <1>3. CASE CreateApproval(k)
    BY <1>3 DEF CreateApproval, Goto, TypeOK
  <1>4. CASE BeginTx(k)
    BY <1>0, <1>4 DEF BeginTx, Goto, TypeOK
  <1>5. CASE GetRequestByIDForUpdate(k)
    BY <1>5, Doing DEF GetRequestByIDForUpdate
  <1>6. CASE Decide(k)
    BY <1>6, Doing, Reading DEF Decide
  <1>7. CASE CountApprovals(k)
    BY <1>7, Reading DEF CountApprovals
  <1>8. CASE GetHousehold(k)
    BY <1>8, Reading DEF GetHousehold
  <1>9. CASE CreateResidenceHistory(k)
    BY <1>9, Doing DEF CreateResidenceHistory
  <1>10. CASE RemoveMember(k)
    BY <1>10, Doing, Reading DEF RemoveMember
  <1>11. CASE AddMember(k)
    BY <1>11, Doing, Reading DEF AddMember
  <1>12. CASE UpdateResidence(k)
    BY <1>12, Doing DEF UpdateResidence
  <1>13. CASE SetStatus(k)
    BY <1>13, Doing DEF SetStatus
  <1>14. CASE InsertWithVisibility(k)
    BY <1>14, Reading DEF InsertWithVisibility
  <1>15. CASE Commit(k) \/ Ends(k)
    BY <1>15, Ending
  <1>16. QED
    BY <1>1, <1>2, <1>3, <1>4, <1>5, <1>6, <1>7, <1>8, <1>9, <1>10, <1>11, <1>12, <1>13,
       <1>14, <1>15 DEF Step, Rollback, GiveUp, DeadlockAbort

-----------------------------------------------------------------------------
(* Row locks *)

LEMMA LocksByDeed ==
  ASSUME NEW k, ask' = ask
  PROVE  /\ \A l : l \in Holds(k) <=>
              \/ "locked" \in did[k] /\ l = <<RequestRow(Request(k)), "update">>
              \/ "history" \in did[k] /\ l = <<RequestRow(Request(k)), "key_share">>
              \/ "left" \in did[k] /\ l = <<Slot(treq(k).from, treq(k).citizen), "update">>
              \/ "joined" \in did[k] /\ l = <<Slot(treq(k).to, treq(k).citizen), "update">>
              \/ "address" \in did[k] /\ l = <<CitizenRow(treq(k).citizen), "no_key_update">>
              \/ "status" \in did[k] /\ l = <<RequestRow(Request(k)), "no_key_update">>
         /\ \A l : l \in Holds(k)' <=>
              \/ "locked" \in did'[k] /\ l = <<RequestRow(Request(k)), "update">>
              \/ "history" \in did'[k] /\ l = <<RequestRow(Request(k)), "key_share">>
              \/ "left" \in did'[k] /\ l = <<Slot(treq(k).from, treq(k).citizen), "update">>
              \/ "joined" \in did'[k] /\ l = <<Slot(treq(k).to, treq(k).citizen), "update">>
              \/ "address" \in did'[k] /\ l = <<CitizenRow(treq(k).citizen), "no_key_update">>
              \/ "status" \in did'[k] /\ l = <<RequestRow(Request(k)), "no_key_update">>
  <1> DEFINE q == Request(k)
             t == treq(k)
             r == RequestRow(q)
             f == Slot(t.from, t.citizen)
             g == Slot(t.to, t.citizen)
             c == CitizenRow(t.citizen)
             Locks(d) == UNION {
               IF "locked" \in d THEN {<<r, "update">>} ELSE {},
               IF "history" \in d THEN {<<r, "key_share">>} ELSE {},
               IF "left" \in d THEN {<<f, "update">>} ELSE {},
               IF "joined" \in d THEN {<<g, "update">>} ELSE {},
               IF "address" \in d THEN {<<c, "no_key_update">>} ELSE {},
               IF "status" \in d THEN {<<r, "no_key_update">>} ELSE {}}
  <1>1. Holds(k) = Locks(did[k])
    BY DEF Holds, RequestLock
  <1>2. Holds(k)' = Locks(did'[k])
    BY DEF Holds, RequestLock, RequestRow, Slot, CitizenRow, Request, treq
  <1> HIDE DEF q, t, r, f, g, c
  <1>3. \A d, l : l \in Locks(d) <=>
          \/ "locked" \in d /\ l = <<r, "update">>
          \/ "history" \in d /\ l = <<r, "key_share">>
          \/ "left" \in d /\ l = <<f, "update">>
          \/ "joined" \in d /\ l = <<g, "update">>
          \/ "address" \in d /\ l = <<c, "no_key_update">>
          \/ "status" \in d /\ l = <<r, "no_key_update">>
    OBVIOUS
  <1> HIDE DEF Locks
  <1>4. QED
    BY <1>1, <1>2, <1>3 DEF q, t, r, f, g, c

(* A statement locks what it wanted, once nobody else holds it.             *)
LEMMA LocksAreGranted ==
  ASSUME TypeOK, NEW k \in Calls, Step(k) \/ GiveUp(k) \/ DeadlockAbort(k),
         NEW l \in Holds(k)', l \notin Holds(k)
  PROVE  Granted(k) /\ l \in Wants(k)
  <1> USE LocksByDeed, OthersWait
  <1>1. ~(\E n : Read(k, n)) /\ ~Commit(k) /\ ~Ends(k) /\ did'[k] # did[k]
    BY Reading, Ending
  <1>2. CASE GetRequestByIDForUpdate(k)
    BY <1>2, Doing DEF GetRequestByIDForUpdate, Wants, RequestLock
  <1>3. CASE Decide(k)
    BY <1>1, <1>3, Doing DEF Decide
  <1>4. CASE CreateResidenceHistory(k)
    BY <1>4, Doing DEF CreateResidenceHistory, Wants
  <1>5. CASE RemoveMember(k)
    BY <1>1, <1>5, Doing DEF RemoveMember, Wants
  <1>6. CASE AddMember(k)
    BY <1>1, <1>6, Doing DEF AddMember, Wants
  <1>7. CASE UpdateResidence(k)
    BY <1>7, Doing DEF UpdateResidence, Wants
  <1>8. CASE SetStatus(k)
    BY <1>8, Doing DEF SetStatus, Wants
  <1>9. QED
    BY <1>1, <1>2, <1>3, <1>4, <1>5, <1>6, <1>7, <1>8 DEF Step, HasApprovalForUnit, ForceCheck,
       CountApprovals, GetHousehold, InsertWithVisibility, BeginTx, CreateApproval, Rollback,
       GiveUp, DeadlockAbort

LEMMA LocksStep ==
  ASSUME TypeOK, LocksExclude, [Next]_vars
  PROVE  LocksExclude'
  <1>1. ASSUME NEW k \in Calls, Step(k) \/ GiveUp(k) \/ DeadlockAbort(k)
        PROVE  LocksExclude'
    <2>1. \A j \in Calls \ {k} : Holds(j)' = Holds(j)
      <3>1. ask' = ask /\ \A j \in Calls \ {k} : did'[j] = did[j]
        BY <1>1, OthersWait
      <3>2. QED
        BY <3>1 DEF Holds, RequestLock, RequestRow, Slot, CitizenRow, Request, treq
    <2>2. \A l \in Holds(k)' : l \in Holds(k) \/ (Granted(k) /\ l \in Wants(k))
      BY <1>1, LocksAreGranted
    <2>3. \A m, n : Conflict(m, n) <=> Conflict(n, m)
      BY DEF Conflict
    <2>4. ASSUME NEW j \in Calls \ {k}, NEW l \in Holds(k)', NEW m \in Holds(j), l[1] = m[1]
          PROVE  ~Conflict(l[2], m[2])
      BY <2>2, <2>4 DEF LocksExclude, Granted, WaitsFor
    <2>5. QED
      BY <2>1, <2>3, <2>4 DEF LocksExclude, Conflict
  <1>2. CASE UNCHANGED vars
    BY <1>2 DEF vars, LocksExclude, Holds, RequestLock, RequestRow, Slot, CitizenRow, Request,
       treq, Conflict
  <1>3. QED
    BY <1>1, <1>2 DEF Next

-----------------------------------------------------------------------------
(* What a call has read stays true while it holds its locks *)

(* Nobody else commits a decision, an execution or a ticket of a request    *)
(* that a call has FOR UPDATE, nor a member another is about to add.        *)
LEMMA RequestIsHeld ==
  ASSUME TypeOK, LocksExclude, NEW k \in Calls, InPlace(k), NEW j \in Calls \ {k},
         "locked" \in did[j],
         Commit(k) \/ (CreateApproval(k) /\ k \in conn)
  PROVE  Request(j) # Request(k)
  <1> SUFFICES ASSUME Request(j) = Request(k) PROVE FALSE
    OBVIOUS
  <1>1. ask' = ask
    BY DEF Commit, CreateApproval
  <1>2. <<RequestRow(Request(k)), "update">> \in Holds(j)
    BY <1>1, LocksByDeed
  <1>3. CASE Commit(k)
    <2>1. "locked" \in did[k] \/ "history" \in did[k]
      BY <1>3 DEF Commit, InPlace, Moved, Base
    <2>2. \E m : <<RequestRow(Request(k)), m>> \in Holds(k)
      BY <1>1, <2>1, LocksByDeed
    <2>3. QED
      BY <1>2, <2>2 DEF LocksExclude, Conflict
  <1>4. CASE CreateApproval(k) /\ k \in conn
    <2>1. Granted(k) /\ <<RequestRow(Request(k)), "key_share">> \in Wants(k)
      BY <1>4 DEF CreateApproval, Wants
    <2>2. QED
      BY <1>2, <2>1 DEF Granted, WaitsFor, Conflict
  <1>5. QED
    BY <1>3, <1>4

LEMMA MemberIsHeld ==
  ASSUME TypeOK, LocksExclude, NEW k \in Calls, NEW j \in Calls \ {k},
         "joined" \in did[j], "joined" \in did[k]
  PROVE  treq(j).to # treq(k).to \/ treq(j).citizen # treq(k).citizen
  <1> SUFFICES ASSUME treq(j).to = treq(k).to, treq(j).citizen = treq(k).citizen PROVE FALSE
    OBVIOUS
  <1> DEFINE lock == <<Slot(treq(k).to, treq(k).citizen), "update">>
  <1>1. lock \in Holds(j) /\ lock \in Holds(k)
    BY DEF Holds
  <1>2. QED
    BY <1>1 DEF LocksExclude, Conflict

LEMMA TruthKept ==
  ASSUME NEW j \in Calls, StillTrue(j), ask' = ask, pc'[j] = pc[j], did'[j] = did[j],
         UNCHANGED <<status, ticket, members>>
  PROVE  StillTrue(j)'
  BY DEF StillTrue, AllApproved, Seen, Approves, Request, treq

LEMMA OwnTruth ==
  ASSUME TypeOK, NEW k \in Calls, InPlace(k), StillTrue(k),
         Step(k) \/ GiveUp(k) \/ DeadlockAbort(k)
  PROVE  StillTrue(k)'
  <1> USE DEF StillTrue, AllApproved, Seen, Approves, Request, treq, tables
  <1>1. CASE HasApprovalForUnit(k) \/ ForceCheck(k) \/ BeginTx(k)
    <2>1. did[k] = {} /\ ask[k].does # "ticket"
      BY <1>1 DEF HasApprovalForUnit, ForceCheck, BeginTx, InPlace
    <2>2. did'[k] = {} /\ pc'[k] # "decide" /\ ask' = ask
      BY <1>1, <2>1, Reading DEF HasApprovalForUnit, ForceCheck, BeginTx, Goto, TypeOK
    <2>3. QED
      BY <2>1, <2>2
  <1>2. CASE CreateApproval(k)
    <2>1. did[k] = {} /\ did'[k] = {} /\ ask' = ask
      BY <1>2 DEF CreateApproval, InPlace
    <2>2. CASE k \in conn
      BY <1>2, <2>1, <2>2 DEF CreateApproval, Goto, TypeOK
    <2>3. CASE k \notin conn
      BY <1>2, <2>1, <2>3 DEF CreateApproval
    <2>4. QED
      BY <2>2, <2>3
  <1>3. CASE GetRequestByIDForUpdate(k)
    BY <1>3, Doing DEF GetRequestByIDForUpdate, InPlace
  <1>4. CASE Decide(k)
    <2>1. pc[k] = "decide" /\ did[k] = {"locked"} /\ ask[k].does # "ticket"
          /\ status[Request(k)] = "pending"
      BY <1>4 DEF Decide, InPlace, Decides
    <2>2. CASE ticket[Request(k)][ask[k].unit] = "pending"
      <3>1. /\ did'[k] = {"locked", "decided"} /\ ask' = ask /\ UNCHANGED tables
            /\ pc'[k] \in {"count", "status", "commit"}
            /\ Approves(k) => pc'[k] = "count"
        BY <1>4, <2>1, <2>2, Doing DEF Decide
      <3>2. QED
        BY <2>1, <2>2, <3>1
    <2>3. CASE ticket[Request(k)][ask[k].unit] # "pending"
      BY <1>4, <2>1, <2>3, Reading DEF Decide
    <2>4. QED
      BY <2>2, <2>3
  <1>5. CASE CountApprovals(k)
    <2>1. /\ pc[k] = "count" /\ did[k] = {"locked", "decided"} /\ ask[k].does # "ticket"
          /\ did'[k] = did[k] /\ ask' = ask /\ UNCHANGED tables
          /\ \/ pc'[k] = "home" /\ AllApproved(k)
             \/ pc'[k] = "commit" /\ ~AllApproved(k)
      BY <1>5, Reading DEF CountApprovals, InPlace
    <2>2. QED
      BY <2>1
  <1>6. ASSUME pc[k] \in {"home", "destination", "history", "leave", "join", "address",
                          "status", "audit", "insert", "rollback"},
               ask[k].does # "ticket", ask' = ask, UNCHANGED tables,
               did[k] \subseteq did'[k],
               "decided" \in did'[k] => "decided" \in did[k],
               "joined" \in did'[k] => "joined" \in did[k]
                                        \/ treq(k).citizen \notin members[treq(k).to],
               pc'[k] \notin {"decide", "home"},
               pc'[k] = "destination" => pc[k] = "home",
               pc'[k] = "history" => pc[k] = "destination",
               "history" \in did'[k] => pc[k] = "history" \/ "history" \in did[k],
               pc'[k] = "commit" => ~Approves(k) \/ "history" \in did[k]
        PROVE  StillTrue(k)'
    BY <1>6
  <1>7. CASE GetHousehold(k)
    <2>1. pc[k] \in {"home", "destination"} /\ Read(k, IF pc[k] = "home" THEN "destination" ELSE "history")
      BY <1>7 DEF GetHousehold
    <2>2. ask[k].does # "ticket"
      BY <2>1 DEF InPlace, Executes, Forces
    <2>3. QED
      BY <1>6, <2>1, <2>2, Reading
  <1>8. CASE CreateResidenceHistory(k)
    <2>1. pc[k] = "history" /\ Do(k, "history", "leave")
      BY <1>8 DEF CreateResidenceHistory
    <2>2. ask[k].does # "ticket"
      BY <2>1 DEF InPlace, Executes, Forces
    <2>3. QED
      BY <1>6, <2>1, <2>2, Doing
  <1>9. CASE RemoveMember(k)
    <2>1. pc[k] = "leave" /\ (Do(k, "left", "join") \/ Read(k, "join"))
      BY <1>9 DEF RemoveMember
    <2>2. ask[k].does # "ticket"
      BY <2>1 DEF InPlace, Executes, Forces
    <2>3. QED
      BY <1>6, <2>1, <2>2, Doing, Reading
  <1>10. CASE AddMember(k)
    <2>1. pc[k] = "join" /\ \/ Read(k, "rollback")
                            \/ /\ Do(k, "joined", "address")
                               /\ treq(k).citizen \notin members[treq(k).to]
      BY <1>10, CallsAsk DEF AddMember
    <2>2. ask[k].does # "ticket"
      BY <2>1 DEF InPlace, Executes, Forces
    <2>3. QED
      BY <1>6, <2>1, <2>2, Doing, Reading
  <1>11. CASE UpdateResidence(k)
    <2>1. pc[k] = "address" /\ Do(k, "address", "status")
      BY <1>11 DEF UpdateResidence
    <2>2. ask[k].does # "ticket"
      BY <2>1 DEF InPlace, Executes, Forces
    <2>3. QED
      BY <1>6, <2>1, <2>2, Doing
  <1>12. CASE SetStatus(k) \/ InsertWithVisibility(k)
    <2>1. \/ pc[k] = "status" /\ Do(k, "status", IF Executes(k) THEN "audit" ELSE "commit")
          \/ pc[k] = "audit" /\ Read(k, "commit")
      BY <1>12 DEF SetStatus, InsertWithVisibility
    <2>2. ask[k].does # "ticket"
      BY <2>1 DEF InPlace, Executes, Forces
    <2>3. pc[k] = "audit" => "history" \in did[k]
      BY DEF InPlace, Moved
    <2>4. pc[k] = "status" /\ ~Executes(k) => ~Approves(k)
      BY DEF Executes
    <2>5. QED
      BY <1>6, <2>1, <2>2, <2>3, <2>4, Doing, Reading
  <1>13. CASE Commit(k) \/ Ends(k)
    BY <1>13, Ending
  <1>14. QED
    BY <1>1, <1>2, <1>3, <1>4, <1>5, <1>7, <1>8, <1>9, <1>10, <1>11, <1>12, <1>13
    DEF Step, Rollback, GiveUp, DeadlockAbort

(* Who commits does not touch what others have read.                        *)
LEMMA OthersTruth ==
  ASSUME TypeOK, LocksExclude, NEW k \in Calls, InPlace(k), StillTrue(k),
         Step(k) \/ GiveUp(k) \/ DeadlockAbort(k),
         NEW j \in Calls \ {k}, InPlace(j), StillTrue(j)
  PROVE  StillTrue(j)'
  <1>1. ask' = ask /\ pc'[j] = pc[j] /\ did'[j] = did[j] /\ Request(j) \in Requests
        /\ Request(k) \in Requests
    BY OthersWait, CallsAsk
  <1>2. "decided" \in did[j] \/ pc[j] = "decide" => "locked" \in did[j]
    <2>1. pc[j] \in Statements /\ ask[j].does \in {"approved", "rejected", "pending", "force", "ticket"}
      BY CallsAsk DEF TypeOK, Asks
    <2>2. ~Forces(j) => Base(j) = {"locked", "decided"}
      BY DEF Base
    <2>3. Forces(j) => "decided" \notin did[j]
      BY <2>1 DEF InPlace, Moved, Base, Decides, Forces, Executes, Approves, Statements
    <2>4. ~Forces(j) /\ "decided" \in did[j] => "locked" \in did[j]
      BY <2>1, <2>2 DEF InPlace, Moved, Decides, Forces, Executes, Approves, Statements
    <2>5. QED
      BY <2>3, <2>4 DEF InPlace
  <1>3. CASE Commit(k)
    <2>1. "locked" \in did[j] => Request(j) # Request(k)
      BY <1>3, RequestIsHeld
    <2>2. Request(j) # Request(k) =>
            status'[Request(j)] = status[Request(j)] /\ ticket'[Request(j)] = ticket[Request(j)]
      BY <1>1, <1>3 DEF Commit, TypeOK
    <2>3. "joined" \in did[j] => treq(j).citizen \notin members'[treq(j).to]
      <3>1. SUFFICES ASSUME "joined" \in did[j] PROVE treq(j).citizen \notin members'[treq(j).to]
        OBVIOUS
      <3>2. treq(j).citizen \notin members[treq(j).to] /\ treq(j).to \in Households
        BY <3>1, CallsAsk DEF StillTrue
      <3>3. "joined" \in did[k] => treq(j).to # treq(k).to \/ treq(j).citizen # treq(k).citizen
        BY <3>1, MemberIsHeld
      <3>4. QED
        BY <1>3, <3>2, <3>3 DEF Commit
    <2>4. ASSUME ask[j].does = "ticket", pc[j] # "done"
          PROVE  ticket'[Request(j)][ask[j].unit] = "none"
      <3>1. ticket[Request(j)][ask[j].unit] = "none"
        BY <2>4 DEF StillTrue
      <3>2. "decided" \in did[k] => ticket[Request(k)][ask[k].unit] = "pending"
        BY DEF StillTrue
      <3>3. "decided" \in did[k] =>
              ticket' = [ticket EXCEPT ![Request(k)][ask[k].unit] = ask[k].does]
        BY <1>3 DEF Commit
      <3>4. "decided" \notin did[k] => ticket' = ticket
        BY <1>3 DEF Commit
      <3>5. CASE "decided" \in did[k]
        <4>1. ~(Request(j) = Request(k) /\ ask[j].unit = ask[k].unit)
          BY <3>1, <3>2, <3>5
        <4>2. ask[j].unit \in Units
          BY <2>4, CallsAsk DEF Forces
        <4>3. QED
          BY <1>1, <3>1, <3>3, <3>5, <4>1, <4>2 DEF TypeOK
      <3>6. QED
        BY <3>1, <3>4, <3>5
    <2>5. QED
      BY <1>1, <1>2, <2>1, <2>2, <2>3, <2>4
      DEF StillTrue, AllApproved, Seen, Approves, Request, treq
  <1>4. CASE CreateApproval(k)
    <2>1. CASE k \notin conn
      BY <1>1, <1>4, <2>1, TruthKept DEF CreateApproval
    <2>2. CASE k \in conn
      <3>1. ticket' = [ticket EXCEPT ![Request(k)][ask[k].unit] = "pending"]
            /\ UNCHANGED <<status, members>> /\ ask[k].does = "ticket"
        BY <1>4, <2>2 DEF CreateApproval, InPlace
      <3>2. "locked" \in did[j] => Request(j) # Request(k)
        BY <1>4, <2>2, RequestIsHeld
      <3>3. ask[j].does = "ticket" => Request(j) # Request(k)
        BY <3>1, CallsAsk
      <3>4. Request(j) # Request(k) => ticket'[Request(j)] = ticket[Request(j)]
        BY <1>1, <3>1 DEF TypeOK
      <3>5. QED
        BY <1>1, <1>2, <3>1, <3>2, <3>3, <3>4
        DEF StillTrue, AllApproved, Seen, Approves, Request, treq
    <2>3. QED
      BY <2>1, <2>2
  <1>5. CASE UNCHANGED tables
    BY <1>1, <1>5, TruthKept DEF tables
  <1>6. QED
    BY <1>3, <1>4, <1>5, Shapes, Reading, Doing DEF BeginTx, Ends

(* The approval that leaves a request pending is not the last one.          *)
LEMMA DecisionStep ==
  ASSUME TypeOK, NoLostDecision, NEW k \in Calls, InPlace(k), StillTrue(k),
         Step(k) \/ GiveUp(k) \/ DeadlockAbort(k)
  PROVE  NoLostDecision'
  <1>1. Request(k) \in Requests /\ (~Forces(k) => ask[k].unit \in Units)
    BY CallsAsk
  <1>2. CASE UNCHANGED tables
    BY <1>2 DEF tables, NoLostDecision
  <1>3. CASE CreateApproval(k) /\ k \in conn
    <2>1. ask[k].does = "ticket" /\ ask[k].unit \in Units
      BY <1>1, <1>3 DEF CreateApproval, InPlace, Forces
    <2>2. ticket' = [ticket EXCEPT ![Request(k)][ask[k].unit] = "pending"] /\ status' = status
      BY <1>3 DEF CreateApproval
    <2>3. \A q \in Requests, v \in Units :
            \/ ticket'[q][v] = ticket[q][v]
            \/ q = Request(k) /\ v = ask[k].unit /\ ticket'[q][v] = "pending"
      BY <1>1, <2>1, <2>2 DEF TypeOK
    <2>4. QED
      BY <2>1, <2>2, <2>3 DEF NoLostDecision
  <1>4. CASE Commit(k)
    <2>1. CASE "status" \in did[k]
      <3>1. status' = [status EXCEPT ![Request(k)] = StatusWritten(k)]
        BY <1>4, <2>1 DEF Commit
      <3>2. status'[Request(k)] # "pending" /\ \A q \in Requests \ {Request(k)} :
              status'[q] = status[q]
        BY <1>1, <3>1 DEF TypeOK, StatusWritten
      <3>3. \A q \in Requests \ {Request(k)} : ticket'[q] = ticket[q]
        BY <1>1, <1>4 DEF Commit, TypeOK
      <3>4. QED
        BY <3>2, <3>3 DEF NoLostDecision
    <2>2. CASE "status" \notin did[k]
      <3>1. did[k] = {"locked", "decided"} /\ ask[k].does \in {"approved", "pending"}
        BY <1>4, <2>2 DEF Commit, InPlace, Moved
      <3>2. /\ status' = status
            /\ ticket' = [ticket EXCEPT ![Request(k)][ask[k].unit] = ask[k].does]
            /\ ask[k].unit \in Units
        BY <1>1, <1>4, <3>1 DEF Commit, Forces
      <3>3. \A q \in Requests, v \in Units :
              \/ ticket'[q][v] = ticket[q][v] /\ (q # Request(k) \/ v # ask[k].unit)
              \/ q = Request(k) /\ v = ask[k].unit /\ ticket'[q][v] = ask[k].does
        BY <1>1, <3>2 DEF TypeOK
      <3>4. \A q \in Requests, v \in Units :
              ticket'[q][v] = "rejected" => ticket[q][v] = "rejected"
        BY <3>1, <3>3
      <3>5. status[Request(k)] = "pending" /\ (ask[k].does = "approved" => ~AllApproved(k))
        BY <1>4, <3>1 DEF Commit, StillTrue, Approves
      <3>6. \E u \in Units : ticket'[Request(k)][u] = "pending"
        <4>1. CASE ask[k].does = "pending"
          BY <1>1, <3>2, <3>3, <4>1
        <4>2. CASE ask[k].does = "approved"
          <5>1. PICK u \in Units : Seen(k)[u] \notin {"none", "approved"}
            BY <3>5, <4>2 DEF AllApproved
          <5>2. u # ask[k].unit /\ ticket[Request(k)][u] \notin {"none", "approved"}
            BY <1>1, <3>2, <5>1 DEF Seen, TypeOK
          <5>3. ticket[Request(k)][u] \in {"none", "pending", "approved", "rejected"}
            BY <1>1 DEF TypeOK
          <5>4. ticket[Request(k)][u] # "rejected"
            BY <1>1, <3>5 DEF NoLostDecision
          <5>5. ticket'[Request(k)][u] = "pending"
            BY <1>1, <3>3, <5>2, <5>3, <5>4
          <5>6. QED
            BY <5>5
        <4>3. QED
          BY <3>1, <4>1, <4>2
      <3>7. \A q \in Requests \ {Request(k)} : ticket'[q] = ticket[q]
        BY <1>1, <3>2 DEF TypeOK
      <3>8. QED
        BY <3>2, <3>4, <3>5, <3>6, <3>7 DEF NoLostDecision
    <2>3. QED
      BY <2>1, <2>2
  <1>5. QED
    BY <1>2, <1>3, <1>4, Shapes, Reading, Doing DEF BeginTx, Ends, CreateApproval, tables

-----------------------------------------------------------------------------
(* The invariant *)

LEMMA InitTxInv == Init => TxInv
  <1> SUFFICES ASSUME Init PROVE TxInv
    OBVIOUS
  <1>1. ask \in Scenarios /\ members \in Seeds
    BY DEF Init
  <1>2. members \in [Households -> SUBSET Citizens]
    BY <1>1, SeedsAreMembers
  <1>3. residence \in [Citizens -> Units \X Units \X Units]
    <2>1. \A c \in Citizens : (CHOOSE h \in Households : c \in members[h]) \in Households
      BY <1>1, SeedsAreMembers
    <2>2. \A h \in Households : Address(h) \in Units \X Units \X Units
      BY HouseholdCodes DEF Address
    <2>3. QED
      BY <2>1, <2>2 DEF Init
  <1> DEFINE late(q) == \E k \in Calls : ask[k].does = "ticket" /\ Request(k) = q
             units(q) == buildApprovals(Transfer[q].from, Transfer[q].to)
  <1>4. \A q \in Requests, u \in Units :
          ticket[q][u] = IF u = units(q)["source"] \/ (u = units(q)["destination"] /\ ~late(q))
                         THEN "pending" ELSE "none"
    BY DEF Init
  <1>5. ticket \in [Requests -> [Units -> {"none", "pending", "approved", "rejected"}]]
    BY DEF Init
  <1> HIDE DEF units, late
  <1>6. NoLostDecision
    <2>1. \A q \in Requests : units(q)["source"] \in Units
      BY TwoUnits DEF units
    <2>2. QED
      BY <1>4, <2>1 DEF NoLostDecision
  <1>7. Cardinality(Calls) \in Nat /\ Cardinality({}) = 0
    BY PoolIsOpen, FS_CardinalityType, FS_EmptySet
  <1>8. TypeOK
    <2>1. history \in [Requests -> 0 .. Cardinality(Calls)]
      <3>1. history = [q \in Requests |-> 0]
        BY DEF Init
      <3>2. 0 \in 0 .. Cardinality(Calls)
        BY <1>7
      <3>3. QED
        BY <3>1, <3>2
    <2>2. conn \subseteq Calls /\ Cardinality(conn) <= MaxOpenConns
      <3>1. conn = {}
        BY DEF Init
      <3>2. QED
        BY <3>1, <1>7, PoolIsOpen
    <2>3. pc \in [Calls -> Statements] /\ did \in [Calls -> SUBSET Deeds]
          /\ status \in [Requests -> {"pending", "rejected", "completed"}]
          /\ forced \subseteq Requests
      BY DEF Init, Statements
    <2>4. QED
      BY <1>1, <1>2, <1>3, <1>5, <2>1, <2>2, <2>3 DEF TypeOK
  <1>9. ASSUME NEW k \in Calls PROVE InPlace(k) /\ StillTrue(k)
    <2>1. did[k] = {} /\ pc[k] = IF ask[k].does = "ticket" THEN "insert" ELSE "check"
      BY DEF Init
    <2>2. InPlace(k)
      BY <2>1 DEF InPlace
    <2>3. ask[k].does = "ticket" => ticket[Request(k)][ask[k].unit] = "none"
      <3>1. SUFFICES ASSUME ask[k].does = "ticket"
                     PROVE  ticket[Request(k)][ask[k].unit] = "none"
        OBVIOUS
      <3>2. /\ Request(k) \in Requests /\ late(Request(k))
            /\ ask[k].unit = units(Request(k))["destination"]
        BY <1>8, <3>1, CallsAsk DEF late, units, treq
      <3>3. ask[k].unit \in Units /\ ask[k].unit # units(Request(k))["source"]
        BY <3>2, TwoUnits DEF units
      <3>4. QED
        BY <1>4, <3>2, <3>3
    <2>4. QED
      BY <2>1, <2>2, <2>3 DEF StillTrue
  <1>10. LocksExclude
    <2>1. \A k \in Calls : Holds(k) = {}
      BY DEF Init, Holds
    <2>2. QED
      BY <2>1 DEF LocksExclude
  <1>11. HistoryIsOfTheDone
    <2>1. \A q \in Requests : history[q] = 0
      BY DEF Init
    <2>2. Cardinality(DoneCalls) \in Nat
      BY <1>8, DoneIsCounted
    <2>3. QED
      BY <2>1, <2>2 DEF HistoryIsOfTheDone
  <1>12. QED
    BY <1>6, <1>8, <1>9, <1>10, <1>11 DEF TxInv, HistoryIsOfTheDone

LEMMA TxStep == TxInv /\ [Next]_vars => TxInv'
  <1> SUFFICES ASSUME TxInv, [Next]_vars PROVE TxInv'
    OBVIOUS
  <1>1. /\ TypeOK /\ NoLostDecision /\ LocksExclude /\ HistoryIsOfTheDone
        /\ \A k \in Calls : InPlace(k) /\ StillTrue(k)
    BY DEF TxInv, HistoryIsOfTheDone
  <1>2. TypeOK' /\ HistoryIsOfTheDone' /\ LocksExclude'
    BY <1>1, TypeStep, LocksStep
  <1>3. ASSUME NEW k \in Calls, Step(k) \/ GiveUp(k) \/ DeadlockAbort(k)
        PROVE  NoLostDecision' /\ \A j \in Calls : InPlace(j)' /\ StillTrue(j)'
    <2>1. NoLostDecision'
      BY <1>1, <1>3, DecisionStep
    <2>2. InPlace(k)' /\ StillTrue(k)'
      BY <1>1, <1>3, PlaceStep, OwnTruth
    <2>3. \A j \in Calls \ {k} : InPlace(j)' /\ StillTrue(j)'
      <3>1. ask' = ask /\ \A j \in Calls \ {k} : pc'[j] = pc[j] /\ did'[j] = did[j]
        BY <1>1, <1>3, OthersWait
      <3>2. \A j \in Calls \ {k} : InPlace(j)'
        BY <1>1, <3>1, PlaceKept
      <3>3. \A j \in Calls \ {k} : StillTrue(j)'
        BY <1>1, <1>3, OthersTruth
      <3>4. QED
        BY <3>2, <3>3
    <2>4. QED
      BY <2>1, <2>2, <2>3
  <1>4. ASSUME UNCHANGED vars
        PROVE  NoLostDecision' /\ \A j \in Calls : InPlace(j)' /\ StillTrue(j)'
    <2>1. NoLostDecision'
      BY <1>1, <1>4 DEF vars, tables, NoLostDecision
    <2>2. \A j \in Calls : InPlace(j)' /\ StillTrue(j)'
      BY <1>1, <1>4, PlaceKept, TruthKept DEF vars, tables
    <2>3. QED
      BY <2>1, <2>2
  <1>5. NoLostDecision' /\ \A j \in Calls : InPlace(j)' /\ StillTrue(j)'
    BY <1>3, <1>4 DEF Next
  <1>6. QED
    BY <1>2, <1>5 DEF TxInv, HistoryIsOfTheDone

LEMMA TxInvariance == Spec => []TxInv
  BY InitTxInv, TxStep, PTL DEF Spec

-----------------------------------------------------------------------------
(* Steps are atomic *)

(* What TransferWorkflow takes for the handlers' program counters, after a  *)
(* step that moves one call.                                                *)
LEMMA Untouched ==
  ASSUME UNCHANGED tables, Creating' = Creating, Forcing' = Forcing
  PROVE  UNCHANGED Workflow!vars
  BY DEF tables, Workflow!vars, Workflow!register, Workflow!requests, Workflow!handlers,
     Workflow!job

LEMMA CreatingMoves ==
  ASSUME TypeOK, NEW k \in Calls, NEW n, ask' = ask, Goto(k, n), pc[k] # "done"
  PROVE  /\ n # "done" \/ ask[k].does # "ticket" => Creating' = Creating
         /\ ask[k].does = "ticket" => Creating[Request(k)] = "destination"
         /\ ask[k].does = "ticket" /\ n = "done" =>
              Creating' = [Creating EXCEPT ![Request(k)] = "done"]
  <1>1. /\ pc'[k] = n /\ \A j \in Calls \ {k} : pc'[j] = pc[j]
        /\ \A j \in Calls : ask'[j] = ask[j] /\ Request(j)' = Request(j)
        /\ Request(k) \in Requests
    BY CallsAsk DEF Goto, TypeOK, Request
  <1>2. ASSUME n # "done" \/ ask[k].does # "ticket" PROVE Creating' = Creating
    <2>1. \A j \in Calls : (ask[j].does = "ticket" /\ pc[j] # "done")
                             <=> (ask'[j].does = "ticket" /\ pc'[j] # "done")
      BY <1>1, <1>2
    <2>2. QED
      BY <1>1, <2>1 DEF Creating
  <1>3. ask[k].does = "ticket" => Creating[Request(k)] = "destination"
    BY <1>1 DEF Creating
  <1>4. ASSUME ask[k].does = "ticket", n = "done"
        PROVE  Creating' = [Creating EXCEPT ![Request(k)] = "done"]
    <2>1. \A j \in Calls \ {k} : ask[j].does # "ticket" \/ Request(j) # Request(k)
      BY <1>4, CallsAsk
    <2>2. Creating'[Request(k)] = "done"
      BY <1>1, <1>4, <2>1 DEF Creating
    <2>3. \A q \in Requests \ {Request(k)} : Creating'[q] = Creating[q]
      BY <1>1 DEF Creating
    <2>4. /\ Creating = [q \in Requests |-> Creating[q]]
          /\ Creating' = [q \in Requests |-> Creating'[q]]
      BY DEF Creating
    <2>5. QED
      BY <1>1, <2>2, <2>3, <2>4
  <1>5. QED
    BY <1>2, <1>3, <1>4

LEMMA ForcingMoves ==
  ASSUME TypeOK, NEW k \in Calls, NEW n, ask' = ask, Goto(k, n)
  PROVE  /\ ~Forces(k) => Forcing' = Forcing
         /\ pc[k] \in {"check", "done"} /\ n \in {"check", "done"} => Forcing' = Forcing
         /\ pc[k] \notin {"check", "done"} /\ n \notin {"check", "done"} => Forcing' = Forcing
         /\ Forces(k) /\ n \notin {"check", "done"} =>
              Forcing' = [Forcing EXCEPT ![k] = Request(k)]
         /\ n = "done" => Forcing' = [Forcing EXCEPT ![k] = NoRequest]
         /\ ~Forces(k) \/ pc[k] \in {"check", "done"} => Forcing[k] = NoRequest
         /\ Forces(k) /\ pc[k] \notin {"check", "done"} =>
              Forcing[k] = Request(k) /\ Forcing[k] # NoRequest
  <1>1. /\ pc'[k] = n /\ \A j \in Calls \ {k} : pc'[j] = pc[j]
        /\ \A j \in Calls : Forces(j)' = Forces(j) /\ Request(j)' = Request(j)
        /\ Request(k) # NoRequest
    BY CallsAsk, TransfersAreRows DEF Goto, TypeOK, Request, Forces
  <1>2. /\ Forcing = [j \in Calls |-> Forcing[j]]
        /\ Forcing' = [j \in Calls |-> Forcing'[j]]
    BY DEF Forcing
  <1>3. \A j \in Calls \ {k} : Forcing'[j] = Forcing[j]
    BY <1>1 DEF Forcing
  <1>4. /\ Forcing[k] = IF Forces(k) /\ pc[k] \notin {"check", "done"}
                        THEN Request(k) ELSE NoRequest
        /\ Forcing'[k] = IF Forces(k) /\ n \notin {"check", "done"}
                         THEN Request(k) ELSE NoRequest
    BY <1>1 DEF Forcing
  <1>5. QED
    BY <1>1, <1>2, <1>3, <1>4

(* A statement that publishes nothing and does not end its call is no step  *)
(* of TransferWorkflow, unless ForceApproveTransfer has read the request.   *)
LEMMA StatementIsQuiet ==
  ASSUME TypeOK, NEW k \in Calls, NEW n, ask' = ask, UNCHANGED tables,
         pc' = pc \/ Goto(k, n), pc[k] # "done", n # "done",
         pc[k] # "check" \/ ~Forces(k), n # "check"
  PROVE  UNCHANGED Workflow!vars
  <1>1. CASE pc' = pc
    <2>1. Creating' = Creating /\ Forcing' = Forcing
      BY <1>1 DEF Creating, Forcing, Request, Forces
    <2>2. QED
      BY <2>1, Untouched
  <1>2. CASE Goto(k, n)
    BY <1>2, Untouched, CreatingMoves, ForcingMoves
  <1>3. QED
    BY <1>1, <1>2

(* A call that ends without a commit leaves its request where it was.       *)
LEMMA EndIsAbandon ==
  ASSUME TypeOK, NEW k \in Calls, Goto(k, "done"), pc[k] # "done", ask' = ask, UNCHANGED tables
  PROVE  [Workflow!Next]_Workflow!vars
  <1>1. Request(k) \in Requests
    BY CallsAsk
  <1>2. CASE ask[k].does = "ticket"
    <2>1. /\ Creating[Request(k)] = "destination"
          /\ Creating' = [Creating EXCEPT ![Request(k)] = "done"] /\ Forcing' = Forcing
      BY <1>2, CreatingMoves, ForcingMoves DEF Forces
    <2>2. Workflow!AbandonCreate(Request(k))
      BY <2>1 DEF Workflow!AbandonCreate, Workflow!register, Workflow!requests, Workflow!job,
         tables
    <2>3. QED
      BY <1>1, <2>2 DEF Workflow!Next, Workflow!CreateStep
  <1>3. CASE Forces(k) /\ pc[k] # "check"
    <2>1. /\ Forcing[k] # NoRequest /\ Forcing' = [Forcing EXCEPT ![k] = NoRequest]
          /\ Creating' = Creating
      BY <1>3, CreatingMoves, ForcingMoves DEF Forces
    <2>2. Workflow!AbandonForce(k)
      BY <2>1 DEF Workflow!AbandonForce, Workflow!register, Workflow!requests, Workflow!job,
         tables, NoRequest
    <2>3. QED
      BY <2>2 DEF Workflow!Next, Workflow!ForceStep
  <1>4. CASE ask[k].does # "ticket" /\ (~Forces(k) \/ pc[k] = "check")
    BY <1>4, CreatingMoves, ForcingMoves, Untouched
  <1>5. QED
    BY <1>2, <1>3, <1>4

LEMMA ReadIsForceRead ==
  ASSUME TypeOK, NEW k \in Calls, ForceCheck(k)
  PROVE  [Workflow!Next]_Workflow!vars
  <1>1. /\ ask' = ask /\ UNCHANGED tables /\ pc[k] = "check" /\ Forces(k)
        /\ Goto(k, "done") \/ (Goto(k, "begin") /\ status[Request(k)] # "completed")
    BY DEF ForceCheck, Read
  <1>2. CASE Goto(k, "done")
    BY <1>1, <1>2, EndIsAbandon
  <1>3. CASE Goto(k, "begin") /\ status[Request(k)] # "completed"
    <2>1. /\ Forcing[k] = NoRequest /\ Forcing' = [Forcing EXCEPT ![k] = Request(k)]
          /\ Creating' = Creating
      BY <1>1, <1>3, CreatingMoves, ForcingMoves
    <2>2. status[Request(k)] \notin {"absent", "completed", "cancelled"} /\ Request(k) \in Requests
      BY <1>3, CallsAsk DEF TypeOK
    <2>3. Workflow!ForceRead(k, Request(k))
      BY <1>1, <2>1, <2>2 DEF Workflow!ForceRead, Workflow!AuditRow, Workflow!register,
         Workflow!job, tables, NoRequest
    <2>4. QED
      BY <2>2, <2>3 DEF Workflow!Next, Workflow!ForceStep
  <1>4. QED
    BY <1>1, <1>2, <1>3

LEMMA InsertIsCreateApproval ==
  ASSUME TypeOK, NEW k \in Calls, InPlace(k), StillTrue(k), CreateApproval(k), k \in conn
  PROVE  Workflow!Next
  <1>1. ask[k].does = "ticket" /\ pc[k] = "insert"
    BY DEF CreateApproval, InPlace
  <1>2. /\ Request(k) \in Requests
        /\ ask[k].unit = buildApprovals(treq(k).from, treq(k).to)["destination"]
    BY <1>1, CallsAsk
  <1>3. ticket[Request(k)][ask[k].unit] = "none"
    BY <1>1 DEF StillTrue
  <1>4. /\ Creating[Request(k)] = "destination" /\ Forcing' = Forcing
        /\ Creating' = [Creating EXCEPT ![Request(k)] = "done"]
    BY <1>1, CreatingMoves, ForcingMoves DEF CreateApproval, Forces
  <1>5. Workflow!Approvals(Request(k))["destination"] = ask[k].unit
    BY <1>2 DEF Workflow!Approvals, treq, Workflow!buildApprovals, buildApprovals,
       Workflow!UnitAt, UnitAt, Workflow!determineApprovalLevel, determineApprovalLevel
  <1>6. Workflow!CreateApproval(Request(k), "destination", "done")
    BY <1>3, <1>4, <1>5 DEF CreateApproval, Workflow!CreateApproval, Workflow!Insertable,
       Workflow!RoleAccepted, Workflow!register, Workflow!job
  <1>7. QED
    BY <1>2, <1>6 DEF Workflow!Next, Workflow!CreateStep, Workflow!CreateApprovals

(* A commit that has written history has written all of an execution, and   *)
(* what it found when it took its locks still holds.                        *)
LEMMA CommitExecutes ==
  ASSUME TypeOK, HistoryIsOfTheDone, NEW k \in Calls, InPlace(k), StillTrue(k), Commit(k),
         "history" \in did[k]
  PROVE  MissedRemoval \/ Workflow!executeTransferInTx(Request(k))
  <1> DEFINE t == Transfer[Request(k)]
             left == Workflow!RemoveMember(members, t.from, t.citizen)
  <1>1. /\ pc[k] = "commit" /\ Executes(k) /\ Request(k) \in Requests
        /\ t.citizen \in Citizens /\ t.from \in Households /\ t.to \in Households
        /\ t.from # t.to /\ t = treq(k)
    BY CallsAsk DEF Commit, InPlace, Moved, treq
  <1>2. {"history", "joined", "address", "status"} \subseteq did[k]
    BY <1>1 DEF InPlace, Moved
  <1>3. SUFFICES ASSUME "left" \in did[k] \/ t.citizen \notin members[t.from]
                 PROVE  Workflow!executeTransferInTx(Request(k))
    BY <1>1, <1>2 DEF MissedRemoval
  <1>4. history[Request(k)] < Cardinality(Calls)
    <2>1. Cardinality(DoneCalls) < Cardinality(Calls) /\ Cardinality(DoneCalls) \in Nat
          /\ Cardinality(Calls) \in Nat
      BY <1>1, DoneIsCounted
    <2>2. history[Request(k)] \in Nat /\ history[Request(k)] <= Cardinality(DoneCalls)
      BY <1>1, <2>1 DEF TypeOK, HistoryIsOfTheDone
    <2>3. QED
      BY <2>1, <2>2
  <1>5. t.citizen \notin members[t.to]
    BY <1>1, <1>2 DEF StillTrue
  <1>6. /\ left[t.to] = members[t.to]
        /\ Workflow!AddMember(left, t.to, t.citizen) = members'
    <2>1. /\ left = [members EXCEPT ![t.from] = @ \ {t.citizen}]
          /\ Workflow!AddMember(left, t.to, t.citizen) = [left EXCEPT ![t.to] = @ \cup {t.citizen}]
      BY DEF Workflow!RemoveMember, Workflow!AddMember
    <2>2. members' = [h \in Households |->
            (members[h] \ {c \in {t.citizen} : "left" \in did[k] /\ h = t.from})
              \cup {c \in {t.citizen} : "joined" \in did[k] /\ h = t.to}]
      BY <1>1 DEF Commit
    <2>3. /\ members'[t.to] = members[t.to] \cup {t.citizen}
          /\ members'[t.from] = members[t.from] \ {t.citizen}
          /\ \A h \in Households \ {t.from, t.to} : members'[h] = members[h]
      BY <1>1, <1>2, <1>3, <2>2
    <2> HIDE DEF left, t
    <2>4. members \in [Households -> SUBSET Citizens]
      BY DEF TypeOK
    <2>5. left \in [Households -> SUBSET Citizens] /\ left[t.to] = members[t.to]
          /\ left[t.from] = members[t.from] \ {t.citizen}
          /\ \A h \in Households \ {t.from, t.to} : left[h] = members[h]
      BY <1>1, <2>1, <2>4
    <2>6. \A h \in Households : [left EXCEPT ![t.to] = @ \cup {t.citizen}][h] = members'[h]
      BY <1>1, <2>3, <2>5
    <2>7. members' = [h \in Households |-> members'[h]]
      BY <2>2
    <2>8. QED
      BY <2>1, <2>5, <2>6, <2>7
  <1>7. /\ history' = [history EXCEPT ![Request(k)] = @ + 1]
        /\ status' = [status EXCEPT ![Request(k)] = "completed"]
        /\ residence' = [residence EXCEPT ![t.citizen] = Address(t.to)]
    BY <1>1, <1>2 DEF Commit, StatusWritten
  <1>8. Workflow!Address(t.to) = Address(t.to)
    BY DEF Workflow!Address, Address
  <1> HIDE DEF left
  <1>9. Workflow!executeTransferInTx(Request(k))
    BY <1>4, <1>5, <1>6, <1>7, <1>8 DEF Workflow!executeTransferInTx, Workflow!UpdateResidence,
       Workflow!CompleteRequest, Workflow!AuditRow, left
  <1>10. QED
    BY <1>9

(* Who decides for the unit it asked for, as TransferWorkflow has it.       *)
LEMMA DecidesForUnit ==
  ASSUME TypeOK, NEW k \in Calls, StillTrue(k), "decided" \in did[k], ask[k].unit \in Units
  PROVE  LET o == [role |-> "ward_officer", unit |-> ask[k].unit]
         IN  /\ o \in [role : {"ward_officer"}, unit : Units]
             /\ Workflow!getUnitCode(o) = ask[k].unit
             /\ Workflow!MayDecide(o, Request(k))
             /\ Workflow!Completes(o, Request(k)) <=> AllApproved(k)
  <1> DEFINE o == [role |-> "ward_officer", unit |-> ask[k].unit]
  <1>1. Workflow!getUnitCode(o) = ask[k].unit
    BY DEF Workflow!getUnitCode, Workflow!UnitRoles
  <1>2. Workflow!MayDecide(o, Request(k))
    BY <1>1, HouseholdCodes DEF Workflow!MayDecide, StillTrue
  <1>3. Workflow!Completes(o, Request(k)) <=> AllApproved(k)
    <2>1. Workflow!Completes(o, Request(k)) <=> Workflow!checkAllApproved(Seen(k))
      BY <1>1 DEF Workflow!Completes, Seen
    <2>2. Seen(k)[ask[k].unit] = "approved"
      BY CallsAsk DEF Seen, TypeOK
    <2>3. QED
      BY <2>1, <2>2 DEF Workflow!checkAllApproved, AllApproved
  <1>4. QED
    BY <1>1, <1>2, <1>3

(* A commit is one step: an execution, a decision that waits, a refusal.    *)
LEMMA CommitIsAStep ==
  ASSUME TypeOK, HistoryIsOfTheDone, NEW k \in Calls, InPlace(k), StillTrue(k), Commit(k)
  PROVE  Workflow!Next \/ MissedRemoval
  <1> DEFINE o == [role |-> "ward_officer", unit |-> ask[k].unit]
             q == Request(k)
  <1>1. /\ pc[k] = "commit" /\ Goto(k, "done") /\ ask' = ask /\ q \in Requests
        /\ ask[k].does # "ticket" /\ (~Forces(k) => ask[k].unit \in Units)
    BY CallsAsk DEF Commit, InPlace, Executes, Forces, Approves
  <1>2. /\ Creating' = Creating
        /\ ~Forces(k) => Forcing' = Forcing
        /\ Forces(k) => /\ Forcing[k] = q /\ Forcing[k] # NoRequest
                        /\ Forcing' = [Forcing EXCEPT ![k] = NoRequest]
    BY <1>1, CreatingMoves, ForcingMoves
  <1>3. CASE Forces(k)
    <2>1. "history" \in did[k] /\ "decided" \notin did[k]
      BY <1>1, <1>3 DEF InPlace, Moved, Base, Forces, Executes, Approves
    <2>2. MissedRemoval \/ Workflow!executeTransferInTx(q)
      BY <2>1, CommitExecutes
    <2>3. ticket' = ticket /\ forced' = forced \cup {q}
      BY <1>3, <2>1 DEF Commit
    <2>4. ASSUME Workflow!executeTransferInTx(q) PROVE Workflow!ForceExecute(k)
      BY <1>2, <1>3, <2>3, <2>4 DEF Workflow!ForceExecute, Workflow!executeTransfer,
         Workflow!job, NoRequest
    <2>5. QED
      BY <2>2, <2>4 DEF Workflow!Next, Workflow!ForceStep
  <1>4. CASE ~Forces(k)
    <2>1. "decided" \in did[k] /\ (Approves(k) /\ "history" \in did[k] => AllApproved(k))
          /\ (Approves(k) /\ "history" \notin did[k] => ~AllApproved(k))
      BY <1>1, <1>4 DEF InPlace, Moved, Base, Executes, StillTrue
    <2>2. /\ o \in [role : {"ward_officer"}, unit : Units]
          /\ Workflow!getUnitCode(o) = ask[k].unit /\ Workflow!MayDecide(o, q)
          /\ Workflow!Completes(o, q) <=> AllApproved(k)
      BY <1>1, <1>4, <2>1, DecidesForUnit
    <2>3. Workflow!UpdateApproval(o, q, ask[k].does) /\ forced' = forced
      BY <1>4, <2>1, <2>2 DEF Workflow!UpdateApproval, Commit
    <2>4. Creating' = Creating /\ Forcing' = Forcing
      BY <1>2, <1>4
    <2> HIDE DEF o
    <2>5. CASE "history" \in did[k]
      <3>1. Approves(k) /\ Workflow!Completes(o, q)
        BY <1>1, <1>4, <2>1, <2>2, <2>5 DEF InPlace, Executes
      <3>2. MissedRemoval \/ Workflow!executeTransferInTx(q)
        BY <2>5, CommitExecutes
      <3>3. ASSUME Workflow!executeTransferInTx(q) PROVE Workflow!ApproveAndExecute(o, q)
        BY <2>2, <2>3, <2>4, <3>1, <3>3 DEF Workflow!ApproveAndExecute, Workflow!handlers,
           Workflow!job, Approves
      <3>4. QED
        BY <1>1, <2>2, <3>2, <3>3 DEF Workflow!Next, Workflow!ApproveStep
    <2>6. CASE "history" \notin did[k]
      <3>1. \/ ask[k].does = "rejected" /\ did[k] = {"locked", "decided", "status"}
            \/ ask[k].does \in {"approved", "pending"} /\ did[k] = {"locked", "decided"}
        BY <1>1, <2>6 DEF InPlace, Moved
      <3>2. UNCHANGED <<members, residence, history>>
        <4>1. members' = [h \in Households |-> members[h]]
          BY <3>1 DEF Commit
        <4>2. members = [h \in Households |-> members[h]]
          BY DEF TypeOK
        <4>3. residence' = residence /\ history' = history
          BY <3>1 DEF Commit
        <4>4. QED
          BY <4>1, <4>2, <4>3
      <3>3. CASE ask[k].does = "rejected"
        <4>1. status' = [status EXCEPT ![q] = "rejected"]
          BY <3>1, <3>3 DEF Commit, StatusWritten, Executes, Forces, Approves
        <4>2. Workflow!RejectTransfer(o, q)
          BY <2>2, <2>3, <2>4, <3>2, <3>3, <4>1 DEF Workflow!RejectTransfer,
             Workflow!UpdateRequestStatus, Workflow!register, Workflow!handlers, Workflow!job
        <4>3. QED
          BY <1>1, <2>2, <4>2 DEF Workflow!Next, Workflow!ApproveStep
      <3>4. CASE ask[k].does \in {"approved", "pending"}
        <4>1. status' = status
          BY <3>1, <3>4 DEF Commit
        <4>2. ask[k].does = "approved" => ~Workflow!Completes(o, q)
          BY <2>1, <2>2, <2>6 DEF Approves
        <4>3. Workflow!ApproveAndWait(o, q)
          BY <2>2, <2>3, <2>4, <3>2, <3>4, <4>1, <4>2 DEF Workflow!ApproveAndWait,
             Workflow!register, Workflow!handlers, Workflow!job
        <4>4. QED
          BY <1>1, <2>2, <4>3 DEF Workflow!Next, Workflow!ApproveStep
      <3>5. QED
        BY <3>1, <3>3, <3>4
    <2>7. QED
      BY <2>5, <2>6
  <1>5. QED
    BY <1>3, <1>4

LEMMA StepIsAStep ==
  ASSUME TypeOK, HistoryIsOfTheDone, NEW k \in Calls, InPlace(k), StillTrue(k),
         Step(k) \/ GiveUp(k) \/ DeadlockAbort(k)
  PROVE  [Workflow!Next \/ MissedRemoval]_Workflow!vars
  <1>1. pc[k] # "done"
    BY Shapes
  <1>2. CASE ForceCheck(k)
    BY <1>2, ReadIsForceRead
  <1>3. CASE CreateApproval(k)
    <2>1. CASE k \in conn
      BY <1>3, <2>1, InsertIsCreateApproval
    <2>2. CASE k \notin conn
      <3>1. pc' = pc /\ ask' = ask /\ UNCHANGED tables /\ pc[k] = "insert"
        BY <1>3, <2>2 DEF CreateApproval, tables
      <3>2. QED
        BY <1>1, <3>1, StatementIsQuiet
    <2>3. QED
      BY <2>1, <2>2
  <1>4. CASE Commit(k)
    BY <1>4, CommitIsAStep
  <1>5. CASE Ends(k)
    BY <1>1, <1>5, EndIsAbandon DEF Ends
  <1>6. CASE HasApprovalForUnit(k)
    <2>1. /\ ask' = ask /\ UNCHANGED tables /\ ~Forces(k)
          /\ Goto(k, "done") \/ Goto(k, "begin")
      BY <1>6 DEF HasApprovalForUnit, Read
    <2>2. CASE Goto(k, "done")
      BY <1>1, <2>1, <2>2, EndIsAbandon
    <2>3. CASE Goto(k, "begin")
      BY <1>1, <2>1, <2>3, StatementIsQuiet
    <2>4. QED
      BY <2>1, <2>2, <2>3
  <1>7. ASSUME pc[k] \notin {"check", "done"}, NEW n \in Statements \ {"check", "done"},
               Read(k, n) \/ \E d \in Deeds : Do(k, d, n)
        PROVE  UNCHANGED Workflow!vars
    BY <1>7, StatementIsQuiet DEF Read, Do
  <1>8. CASE BeginTx(k)
    <2>1. /\ pc[k] = "begin" /\ ask' = ask /\ UNCHANGED tables
          /\ Goto(k, "destination") \/ Goto(k, "lock")
      BY <1>8 DEF BeginTx
    <2>2. QED
      BY <2>1, StatementIsQuiet
  <1>9. CASE \/ GetRequestByIDForUpdate(k) \/ Decide(k) \/ CountApprovals(k) \/ GetHousehold(k)
             \/ CreateResidenceHistory(k) \/ RemoveMember(k) \/ AddMember(k)
             \/ UpdateResidence(k) \/ SetStatus(k) \/ InsertWithVisibility(k)
    <2>1. /\ pc[k] \notin {"check", "done"}
          /\ \E n \in Statements \ {"check", "done"} :
               Read(k, n) \/ \E d \in Deeds : Do(k, d, n)
      BY <1>9 DEF GetRequestByIDForUpdate, Decide, CountApprovals, GetHousehold,
         CreateResidenceHistory, RemoveMember, AddMember, UpdateResidence, SetStatus,
         InsertWithVisibility, Statements, Deeds
    <2>2. QED
      BY <1>7, <2>1
  <1>10. QED
    BY <1>2, <1>3, <1>4, <1>5, <1>6, <1>8, <1>9 DEF Step, Rollback, GiveUp, DeadlockAbort

-----------------------------------------------------------------------------
(* The theorems *)

(* Tables, calls and pool keep their types: no more connections are taken   *)
(* than there are, and no more moves made than calls.                       *)
THEOREM TypeCorrect == Spec => []TypeOK
  <1>1. TxInv => TypeOK
    BY DEF TxInv
  <1>2. QED
    BY TxInvariance, <1>1, PTL

(* No two transactions ever hold conflicting locks on one row: whatever a   *)
(* statement was granted, nobody else can have been granted before this     *)
(* transaction ends.                                                        *)
THEOREM LocksAreExclusive == Spec => []LocksExclude
  <1>1. TxInv => LocksExclude
    BY DEF TxInv
  <1>2. QED
    BY TxInvariance, <1>1, PTL

(* However approvals, refusals, overrides and late tickets interleave under *)
(* their locks, no request stays pending with nobody left to answer, or     *)
(* with a refusal.                                                          *)
THEOREM NoDecisionIsLost == Spec => []NoLostDecision
  <1>1. TxInv => NoLostDecision
    BY DEF TxInv
  <1>2. QED
    BY TxInvariance, <1>1, PTL

(* Nobody can tell the statements of WithTx apart: every step of the calls, *)
(* at any size of the pool, is a step of TransferWorkflow or none, or the   *)
(* one removal that missed.                                                 *)
THEOREM CommitsAreSteps == Spec => StepsAreAtomic
  <1>1. TxInv /\ [Next]_vars => [Workflow!Next \/ MissedRemoval]_Workflow!vars
    <2> SUFFICES ASSUME TxInv, [Next]_vars
                 PROVE  [Workflow!Next \/ MissedRemoval]_Workflow!vars
      OBVIOUS
    <2>1. CASE Next
      <3>1. PICK k \in Calls : Step(k) \/ GiveUp(k) \/ DeadlockAbort(k)
        BY <2>1 DEF Next
      <3>2. TypeOK /\ HistoryIsOfTheDone /\ InPlace(k) /\ StillTrue(k)
        BY DEF TxInv, HistoryIsOfTheDone
      <3>3. QED
        BY <3>1, <3>2, StepIsAStep
    <2>2. CASE UNCHANGED vars
      <3>1. Creating' = Creating /\ Forcing' = Forcing /\ UNCHANGED tables
        BY <2>2 DEF vars, Creating, Forcing, Request, Forces
      <3>2. QED
        BY <3>1, Untouched
    <2>3. QED
      BY <2>1, <2>2
  <1>2. QED
    BY TxInvariance, <1>1, PTL DEF Spec, StepsAreAtomic
=============================================================================
