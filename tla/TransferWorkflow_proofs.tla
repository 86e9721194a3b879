---------------------- MODULE TransferWorkflow_proofs ----------------------
(***************************************************************************)
(* Proofs about TransferWorkflow, for every geography, every set of        *)
(* citizens, requests, officers and administrators.                        *)
(***************************************************************************)
EXTENDS TransferWorkflow, TLAPS

-----------------------------------------------------------------------------
(* What the pure decisions of AdminScope return *)

LEMMA LevelIsALevel ==
  ASSUME NEW f \in Households, NEW t \in Households
  PROVE  determineApprovalLevel(f, t) \in ApprovalLevels
  BY DEF determineApprovalLevel, ApprovalLevels

(* A ticket goes to a unit code whenever the level asks for tickets. *)
LEMMA TicketUnits ==
  ASSUME NEW f \in Households, NEW t \in Households,
         determineApprovalLevel(f, t) # "none",
         NEW role \in {"source", "destination"}
  PROVE  buildApprovals(f, t)[role] \in Units
  <1> DEFINE level == determineApprovalLevel(f, t)
  <1>1. level \in {"ward", "district", "province"}
    BY LevelIsALevel DEF ApprovalLevels
  <1>2. \A h \in Households : UnitAt(level, h) \in Units
    BY <1>1, HouseholdCodes DEF UnitAt
  <1>3. QED
    BY <1>2 DEF buildApprovals

(* The two tickets of a request never meet in one unit, so the unique index *)
(* on (request_id, unit_code) cannot refuse the second (buildApprovals).    *)
THEOREM TicketsAreForTwoUnits ==
  ASSUME NEW f \in Households, NEW t \in Households,
         determineApprovalLevel(f, t) # "none"
  PROVE  buildApprovals(f, t)["source"] # buildApprovals(f, t)["destination"]
  <1> DEFINE level == determineApprovalLevel(f, t)
  <1>1. UnitAt(level, f) # UnitAt(level, t)
    BY DEF determineApprovalLevel, UnitAt
  <1>2. QED
    BY <1>1 DEF buildApprovals

LEMMA TargetIsAUnit ==
  ASSUME NEW level, NEW f \in Households
  PROVE  determineEscalationTarget(level, f) \in Units \cup {NoUnit}
  BY HouseholdCodes DEF determineEscalationTarget

LEMMA AddressIsAnAddress ==
  ASSUME NEW h \in Households
  PROVE  Address(h) \in Addresses
  BY HouseholdCodes DEF Address, Addresses

LEMMA OfficersUnit ==
  ASSUME NEW o \in Officers, getUnitCode(o) # NoUnit
  PROVE  getUnitCode(o) \in Units
  BY OfficersAreClaims DEF Claims, getUnitCode

-----------------------------------------------------------------------------
(* Type correctness *)

(* A request whose row exists, or whose handler has validated it, has its   *)
(* immutable columns: what Level and the tickets are computed from.         *)
Described ==
  \A r \in Requests : creating[r] # "idle" => transfer[r] \in Transfers

(* Rows exist exactly for the requests past their INSERT. *)
RowsExist ==
  /\ \A r \in Requests : status[r] = "absent" <=> creating[r] \in {"idle", "validated"}
  /\ \A a \in Admins : forcing[a] # NoRequest => status[forcing[a]] # "absent"
  /\ \A r \in overdue : status[r] # "absent"
  /\ \A r \in listed : status[r] # "absent"
  /\ marked # NoRequest => status[marked] # "absent"

Typing == TypeOK /\ Described /\ RowsExist

LEMMA ExecuteTyping ==
  ASSUME Typing, NEW r \in Requests, status[r] # "absent", executeTransferInTx(r)
  PROVE  /\ transfer[r] \in Transfers
         /\ registered' \subseteq Households
         /\ members' \in [Households -> SUBSET Citizens]
         /\ residence' \in [Citizens -> Addresses]
         /\ deleted' \subseteq Citizens
         /\ status' = [status EXCEPT ![r] = "completed"]
         /\ history' \in [Requests -> 0 .. MaxMoves]
         /\ audit' = audit
         /\ edited' \subseteq Citizens
  <1>1. transfer[r] \in Transfers
    BY DEF Typing, Described, RowsExist, TypeOK, CreateSteps
  <1>2. /\ transfer[r].citizen \in Citizens
        /\ transfer[r].from \in Households
        /\ transfer[r].to \in Households
    BY <1>1 DEF Transfers
  <1>3. members' \in [Households -> SUBSET Citizens]
    BY <1>2 DEF executeTransferInTx, RemoveMember, AddMember, Typing, TypeOK
  <1>4. residence' \in [Citizens -> Addresses]
    BY <1>2, AddressIsAnAddress
    DEF executeTransferInTx, UpdateResidence, Typing, TypeOK
  <1>5. history' \in [Requests -> 0 .. MaxMoves]
    BY MarkersAreNew DEF executeTransferInTx, Typing, TypeOK
  <1>6. audit' = audit
    BY DEF executeTransferInTx, AuditRow
  <1>7. QED
    BY <1>1, <1>3, <1>4, <1>5, <1>6
    DEF executeTransferInTx, CompleteRequest, Typing, TypeOK

LEMMA InitTyping == Init => Typing
  BY SeedIsARegister, MarkersAreNew
  DEF Init, Typing, TypeOK, Described, RowsExist, CreateSteps, Decisions

LEMMA HouseholdTyping == Typing /\ HouseholdStep => Typing'
  <1> SUFFICES ASSUME Typing, HouseholdStep
               PROVE  Typing'
    OBVIOUS
  <1> USE DEF Typing, TypeOK, Described, RowsExist, requests, handlers, job
  <1>1. ASSUME NEW o \in Officers, NEW h \in Households, CreateHousehold(o, h)
        PROVE  Typing'
    BY <1>1 DEF CreateHousehold
  <1>2. ASSUME NEW o \in Officers, NEW h \in Households, NEW c \in Citizens,
               AddHouseholdMember(o, h, c)
        PROVE  Typing'
    BY <1>2 DEF AddHouseholdMember
  <1>3. ASSUME NEW o \in Officers, NEW c \in Citizens, SoftDeleteCitizen(o, c)
        PROVE  Typing'
    BY <1>3 DEF SoftDeleteCitizen
  <1>4. QED
    BY <1>1, <1>2, <1>3 DEF HouseholdStep

LEMMA PatchTyping ==
  ASSUME Typing, NEW e \in Editors, PatchStep(e)
  PROVE  Typing'
  <1> USE DEF Typing, TypeOK, Described, RowsExist, register, requests, job
  <1>1. ASSUME NEW c \in Citizens, NEW body \in Patches, PatchRead(e, c, body)
        PROVE  Typing'
    <2>1. [citizen |-> c, address |-> applyUpdates(residence[c], body),
           sent |-> body.sent] \in Rows
      BY PatchesAreBodies DEF applyUpdates, Bodies, Rows, Addresses, Columns
    <2>2. QED
      BY <1>1, <2>1 DEF PatchRead
  <1>2. CASE PatchWrite(e)
    BY <1>2 DEF PatchWrite, Rows
  <1>3. CASE AbandonPatch(e)
    BY <1>3 DEF AbandonPatch
  <1>4. QED
    BY <1>1, <1>2, <1>3 DEF PatchStep

LEMMA CreateTyping ==
  ASSUME Typing, NEW r \in Requests, CreateStep(r)
  PROVE  Typing'
  <1> USE DEF Typing, TypeOK, Described, RowsExist, CreateSteps, register, job
  <1>1. ASSUME NEW c \in Citizens, NEW from \in Households, NEW to \in Households,
               ValidateRequest(r, c, from, to)
        PROVE  Typing'
    <2>1. [citizen |-> c, from |-> from, to |-> to] \in Transfers
      BY DEF Transfers
    <2>2. QED
      BY <1>1, <2>1 DEF ValidateRequest
  <1>2. CASE CreateRequest(r)
    BY <1>2 DEF CreateRequest
  <1>3. CASE CreateApprovals(r)
    <2>1. ASSUME NEW role \in {"source", "destination"}, NEW next \in CreateSteps,
                 next \notin {"idle", "validated"}, CreateApproval(r, role, next)
          PROVE  Typing'
      BY <2>1 DEF CreateApproval, Decisions
    <2>2. QED
      BY <1>3, <2>1 DEF CreateApprovals
  <1>4. CASE ExecuteUnreviewed(r)
    <2>1. status[r] # "absent" /\ executeTransferInTx(r)
      BY <1>4 DEF ExecuteUnreviewed, executeTransfer
    <2>2. QED
      BY <1>4, <2>1, ExecuteTyping DEF ExecuteUnreviewed
  <1>5. CASE AbandonCreate(r)
    BY <1>5 DEF AbandonCreate, requests
  <1>6. QED
    BY <1>1, <1>2, <1>3, <1>4, <1>5 DEF CreateStep

LEMMA ApproveTyping ==
  ASSUME Typing, NEW o \in Officers, NEW r \in Requests, ApproveStep(o, r)
  PROVE  Typing'
  <1> USE DEF Typing, TypeOK, Described, RowsExist, Decisions, register, handlers, job
  <1> DEFINE u == getUnitCode(o)
  <1>1. status[r] = "pending" /\ u \in Units
    BY OfficersUnit
    DEF ApproveStep, ApproveAndExecute, ApproveAndWait, RejectTransfer, MayDecide
  <1>2. ASSUME NEW d \in Decisions, UpdateApproval(o, r, d)
        PROVE  ticket' \in [Requests -> [Units -> Decisions \cup {"none"}]]
    BY <1>1, <1>2 DEF UpdateApproval
  <1>3. CASE ApproveAndExecute(o, r)
    <2>1. executeTransferInTx(r) /\ UpdateApproval(o, r, "approved")
      BY <1>3 DEF ApproveAndExecute
    <2>2. /\ registered' \subseteq Households
          /\ members' \in [Households -> SUBSET Citizens]
          /\ residence' \in [Citizens -> Addresses]
          /\ deleted' \subseteq Citizens
          /\ status' = [status EXCEPT ![r] = "completed"]
          /\ history' \in [Requests -> 0 .. MaxMoves]
          /\ audit' = audit
          /\ edited' \subseteq Citizens
      BY <1>1, <2>1, ExecuteTyping
    <2>3. ticket' \in [Requests -> [Units -> Decisions \cup {"none"}]]
      BY <1>2, <2>1
    <2>4. QED
      BY <1>1, <1>3, <2>2, <2>3 DEF ApproveAndExecute
  <1>4. CASE ApproveAndWait(o, r)
    BY <1>1, <1>2, <1>4 DEF ApproveAndWait
  <1>5. CASE RejectTransfer(o, r)
    BY <1>1, <1>2, <1>5 DEF RejectTransfer, UpdateRequestStatus
  <1>6. QED
    BY <1>3, <1>4, <1>5 DEF ApproveStep

LEMMA ForceTyping ==
  ASSUME Typing, NEW a \in Admins, ForceStep(a)
  PROVE  Typing'
  <1> USE DEF Typing, TypeOK, Described, RowsExist, register, job
  <1>1. ASSUME NEW r \in Requests, ForceRead(a, r)
        PROVE  Typing'
    BY <1>1 DEF ForceRead, AuditRow
  <1>2. CASE ForceExecute(a)
    <2> DEFINE r == forcing[a]
    <2>1. r \in Requests /\ status[r] # "absent" /\ executeTransferInTx(r)
      BY <1>2 DEF ForceExecute, executeTransfer
    <2>2. QED
      BY <1>2, <2>1, ExecuteTyping, MarkersAreNew DEF ForceExecute
  <1>3. CASE AbandonForce(a)
    BY <1>3 DEF AbandonForce, requests
  <1>4. QED
    BY <1>1, <1>2, <1>3 DEF ForceStep

LEMMA EscalateTyping ==
  ASSUME Typing, NEW r \in Requests, EscalateStep(r)
  PROVE  Typing'
  <1> USE DEF Typing, TypeOK, Described, RowsExist, register, handlers, job
  <1>1. CASE DeadlinePasses(r)
    BY <1>1 DEF DeadlinePasses
  <1>2. CASE EscalateRequest(r)
    <2>1. transfer[r].from \in Households
      BY <1>2 DEF EscalateRequest, Transfers, CreateSteps
    <2>2. EscalationTarget(r) \in Units \cup {NoUnit}
      BY <2>1, TargetIsAUnit DEF EscalationTarget
    <2>3. QED
      BY <1>2, <2>2, MarkersAreNew DEF EscalateRequest
  <1>3. CASE EscalateApproval(r)
    BY <1>3 DEF EscalateApproval, Insertable, RoleAccepted, AuditRow
  <1>4. CASE SkipRequest(r)
    BY <1>4 DEF SkipRequest, requests
  <1>5. QED
    BY <1>1, <1>2, <1>3, <1>4 DEF EscalateStep

LEMMA JobTyping == Typing /\ (ListExpiredPending \/ StopJob) => Typing'
  BY MarkersAreNew
  DEF Typing, TypeOK, Described, RowsExist, ListExpiredPending, StopJob,
      Escalatable, register, requests

LEMMA StutterTyping == Typing /\ UNCHANGED vars => Typing'
  BY DEF Typing, TypeOK, Described, RowsExist, vars, register, requests, handlers, job

LEMMA TypingInvariant == Spec => []Typing
  <1>1. Typing /\ [Next]_vars => Typing'
    BY HouseholdTyping, PatchTyping, CreateTyping, ApproveTyping, ForceTyping, EscalateTyping,
       JobTyping, StutterTyping DEF Next
  <1>2. QED
    BY InitTyping, <1>1, PTL DEF Spec

(* Every variable keeps its type; in particular no request ever gets the    *)
(* statuses "approved" and "cancelled" the schema also allows.              *)
THEOREM TypeCorrect == Spec => []TypeOK
  BY TypingInvariant, PTL DEF Typing

-----------------------------------------------------------------------------
(* Safety: which steps matter *)

(* What the safety properties are about. *)
core == <<members, residence, deleted, edited, transfer, status, ticket, history,
          forced, creating>>

(* Most actions (the whole of the escalation job among them, whose ticket   *)
(* the schema refuses) leave all of that alone.                             *)
LEMMA QuietSteps ==
  ASSUME \/ \E o \in Officers, h \in Households : CreateHousehold(o, h)
         \/ \E e \in Editors, c \in Citizens, body \in Patches : PatchRead(e, c, body)
         \/ \E e \in Editors : AbandonPatch(e)
         \/ \E r \in Requests, a \in Admins : ForceRead(a, r)
         \/ \E a \in Admins : AbandonForce(a)
         \/ \E r \in Requests : EscalateStep(r)
         \/ ListExpiredPending
         \/ StopJob
         \/ UNCHANGED vars
  PROVE  UNCHANGED core
  BY DEF core, CreateHousehold, PatchRead, AbandonPatch, ForceRead, AbandonForce, EscalateStep, DeadlinePasses,
         EscalateRequest, EscalateApproval, Insertable, RoleAccepted, SkipRequest,
         ListExpiredPending, StopJob, vars, register, requests, handlers

(* Where a request's tickets come from: none before its second INSERT, the  *)
(* source's first, none at all within a ward.  A handler about to execute   *)
(* a transfer by itself still finds it pending unless it was forced.        *)
TicketPlan ==
  \A r \in Requests :
    /\ creating[r] \in {"idle", "validated", "source"} => ~HasTicket(r)
    /\ creating[r] = "source" => Level(r) # "none"
    /\ creating[r] = "destination" => HasTicket(r)
    /\ HasTicket(r) =>
         Level(r) # "none" /\ ticket[r][Approvals(r)["source"]] # "none"
    /\ creating[r] = "execute" =>
         Level(r) = "none" /\ (status[r] = "pending" \/ r \in forced)
    /\ status[r] = "absent" => r \notin forced

Safety ==
  /\ TicketPlan
  /\ PendingAwaitsADecision
  /\ RefusalStops
  /\ SourceConsents
  /\ MovesOnce
  /\ ResidenceFollowsHousehold

IInv == Typing /\ Safety

LEMMA InitSafety == Init => Safety
  BY DEF Init, Safety, TicketPlan, PendingAwaitsADecision, RefusalStops, SourceConsents,
         MovesOnce, ResidenceFollowsHousehold, HasTicket, Refused

LEMMA QuietSafety == Safety /\ UNCHANGED core => Safety'
  BY DEF core, Safety, TicketPlan, PendingAwaitsADecision, RefusalStops, SourceConsents,
         MovesOnce, ResidenceFollowsHousehold, HasTicket, Refused, Level, Approvals

LEMMA EnrolSafety ==
  ASSUME IInv, NEW o \in Officers, NEW h \in Households, NEW c \in Citizens,
         AddHouseholdMember(o, h, c)
  PROVE  Safety'
  <1> USE DEF IInv, Safety, AddHouseholdMember, requests, handlers
  <1>1. (TicketPlan /\ PendingAwaitsADecision /\ RefusalStops /\ SourceConsents
           /\ MovesOnce)'
    BY DEF TicketPlan, PendingAwaitsADecision, RefusalStops, SourceConsents, MovesOnce,
           HasTicket, Refused, Level, Approvals
  <1>2. \A g \in Households : members[g] \subseteq members'[g]
    BY DEF Typing, TypeOK
  <1>3. ResidenceFollowsHousehold'
    BY <1>2 DEF ResidenceFollowsHousehold
  <1>4. QED
    BY <1>1, <1>3

LEMMA DeleteSafety ==
  ASSUME IInv, NEW o \in Officers, NEW c \in Citizens, SoftDeleteCitizen(o, c)
  PROVE  Safety'
  BY DEF IInv, Safety, TicketPlan, PendingAwaitsADecision, RefusalStops, SourceConsents,
         MovesOnce, ResidenceFollowsHousehold, HasTicket, Refused, Level, Approvals,
         SoftDeleteCitizen, requests, handlers

LEMMA PatchSafety ==
  ASSUME IInv, NEW e \in Editors, PatchWrite(e)
  PROVE  Safety'
  <1> USE DEF IInv, Safety, PatchWrite, requests
  <1>1. (TicketPlan /\ PendingAwaitsADecision /\ RefusalStops /\ SourceConsents
           /\ MovesOnce)'
    BY DEF TicketPlan, PendingAwaitsADecision, RefusalStops, SourceConsents, MovesOnce,
           HasTicket, Refused, Level, Approvals
  <1>2. \A c \in Citizens : c \notin edited' => residence'[c] = residence[c]
    BY DEF Typing, TypeOK, Rows
  <1>3. \A q \in Requests : history[q] > 0 => transfer[q].citizen \in Citizens
    BY DEF MovesOnce, Typing, TypeOK, Described, RowsExist, Transfers
  <1>4. ResidenceFollowsHousehold'
    BY <1>2, <1>3 DEF ResidenceFollowsHousehold
  <1>5. QED
    BY <1>1, <1>4

LEMMA ValidateSafety ==
  ASSUME IInv, NEW r \in Requests,
         NEW c \in Citizens, NEW from \in Households, NEW to \in Households,
         ValidateRequest(r, c, from, to)
  PROVE  Safety'
  <1> USE DEF IInv, Safety, ValidateRequest, register
  <1>1. status[r] = "absent" /\ history[r] = 0 /\ ~HasTicket(r)
    BY DEF Typing, RowsExist, TypeOK, TicketPlan, MovesOnce
  <1>2. \A q \in Requests \ {r} : transfer'[q] = transfer[q]
    BY DEF Typing, TypeOK
  <1>3. \A q \in Requests \ {r} : Level(q)' = Level(q) /\ Approvals(q)' = Approvals(q)
    BY <1>2 DEF Level, Approvals
  <1>4. \A q \in Requests : HasTicket(q)' = HasTicket(q) /\ Refused(q)' = Refused(q)
    BY DEF HasTicket, Refused
  <1>5. TicketPlan'
    BY <1>1, <1>3, <1>4 DEF TicketPlan, Typing, TypeOK
  <1>6. PendingAwaitsADecision' /\ RefusalStops' /\ MovesOnce'
    BY <1>4 DEF PendingAwaitsADecision, RefusalStops, MovesOnce
  <1>7. SourceConsents'
    BY <1>1, <1>3 DEF SourceConsents
  <1>8. ResidenceFollowsHousehold'
    BY <1>1, <1>2 DEF ResidenceFollowsHousehold
  <1>9. QED
    BY <1>5, <1>6, <1>7, <1>8

LEMMA InsertSafety ==
  ASSUME IInv, NEW r \in Requests, CreateRequest(r)
  PROVE  Safety'
  <1> USE DEF IInv, Safety, CreateRequest, register
  <1>1. status[r] = "absent" /\ history[r] = 0 /\ ~HasTicket(r)
    BY DEF Typing, RowsExist, TypeOK, TicketPlan, MovesOnce
  <1>2. \A q \in Requests : /\ Level(q)' = Level(q) /\ Approvals(q)' = Approvals(q)
                            /\ HasTicket(q)' = HasTicket(q) /\ Refused(q)' = Refused(q)
    BY DEF Level, Approvals, HasTicket, Refused
  <1>3. \A q \in Requests : status'[q] = IF q = r THEN "pending" ELSE status[q]
    BY DEF Typing, TypeOK
  <1>4. TicketPlan'
    BY <1>1, <1>2, <1>3 DEF TicketPlan, Typing, TypeOK
  <1>5. PendingAwaitsADecision' /\ RefusalStops' /\ MovesOnce'
    BY <1>1, <1>2, <1>3
    DEF PendingAwaitsADecision, RefusalStops, MovesOnce, HasTicket, Refused
  <1>6. SourceConsents'
    BY <1>2, <1>3 DEF SourceConsents
  <1>7. ResidenceFollowsHousehold'
    BY DEF ResidenceFollowsHousehold
  <1>8. QED
    BY <1>4, <1>5, <1>6, <1>7

LEMMA TicketSafety ==
  ASSUME IInv, NEW r \in Requests, CreateApprovals(r)
  PROVE  Safety'
  <1> USE DEF IInv, Safety, register
  <1> DEFINE plan == Approvals(r)
  <1>1. PICK role \in {"source", "destination"}, next \in {"destination", "done"} :
          /\ CreateApproval(r, role, next)
          /\ role = "source" <=> next = "destination"
    BY DEF CreateApprovals
  <1>2. /\ status[r] # "absent"
        /\ transfer[r].from \in Households /\ transfer[r].to \in Households
    BY <1>1 DEF CreateApproval, Typing, TypeOK, Described, RowsExist, Transfers
  <1>3. Level(r) # "none"
    BY <1>1 DEF CreateApproval, TicketPlan
  <1>4. plan[role] \in Units
    BY <1>2, <1>3, TicketUnits DEF Level, Approvals
  <1>5. /\ ticket[r][plan[role]] = "none"
        /\ ticket' = [ticket EXCEPT ![r][plan[role]] = "pending"]
    BY <1>1 DEF CreateApproval, Insertable
  <1>6. /\ ticket'[r][plan[role]] = "pending"
        /\ \A q \in Requests, u \in Units :
             q # r \/ u # plan[role] => ticket'[q][u] = ticket[q][u]
    BY <1>4, <1>5 DEF Typing, TypeOK
  <1>7. \A q \in Requests : /\ Level(q)' = Level(q) /\ Approvals(q)' = Approvals(q)
                            /\ Refused(q)' = Refused(q)
                            /\ q # r => HasTicket(q)' = HasTicket(q)
    BY <1>1, <1>4, <1>5, <1>6 DEF CreateApproval, Level, Approvals, HasTicket, Refused
  <1>8. HasTicket(r)' /\ ticket'[r][plan["source"]] # "none"
    <2>1. HasTicket(r)'
      BY <1>4, <1>6 DEF HasTicket
    <2>2. CASE role = "source"
      BY <2>1, <2>2, <1>6
    <2>3. CASE role = "destination"
      <3>1. ticket[r][plan["source"]] # "none"
        BY <1>1, <2>3 DEF CreateApproval, TicketPlan
      <3>2. plan["source"] \in Units
        BY <1>2, <1>3, TicketUnits DEF Level, Approvals
      <3>3. QED
        BY <2>1, <3>1, <3>2, <1>6
    <2>4. QED
      BY <2>2, <2>3
  <1>9. TicketPlan'
    <2>1. TicketPlan!(r)'
      BY <1>1, <1>3, <1>7, <1>8, <1>2 DEF TicketPlan, CreateApproval, Typing, TypeOK
    <2>2. \A q \in Requests \ {r} : TicketPlan!(q)'
      <3> SUFFICES ASSUME NEW q \in Requests \ {r}
                   PROVE  TicketPlan!(q)'
        OBVIOUS
      <3>1. ticket'[q] = ticket[q] /\ creating'[q] = creating[q]
        BY <1>1, <1>5 DEF CreateApproval, Typing, TypeOK
      <3>2. QED
        BY <1>1, <1>7, <3>1 DEF TicketPlan, CreateApproval
    <2>3. QED
      BY <2>1, <2>2 DEF TicketPlan
  <1>10. PendingAwaitsADecision'
    <2>1. \A q \in Requests : Refused(q) => HasTicket(q)
      BY DEF Refused, HasTicket
    <2>2. \E u \in Units : ticket'[r][u] = "pending"
      BY <1>4, <1>6
    <2>3. \A q \in Requests \ {r} : ticket'[q] = ticket[q]
      BY <1>5 DEF Typing, TypeOK
    <2>4. status' = status
      BY <1>1 DEF CreateApproval
    <2>5. QED
      BY <1>7, <2>1, <2>2, <2>3, <2>4 DEF PendingAwaitsADecision
  <1>11. RefusalStops' /\ MovesOnce' /\ ResidenceFollowsHousehold'
    BY <1>1, <1>7 DEF RefusalStops, MovesOnce, ResidenceFollowsHousehold, CreateApproval
  <1>12. SourceConsents'
    <2> SUFFICES ASSUME NEW q \in Requests, status[q] = "completed", q \notin forced,
                        Level(q) # "none"
                 PROVE  ticket'[q][Approvals(q)["source"]] = "approved"
      BY <1>1, <1>7 DEF SourceConsents, CreateApproval
    <2>1. ticket[q][Approvals(q)["source"]] = "approved"
      BY DEF SourceConsents
    <2>2. transfer[q].from \in Households /\ transfer[q].to \in Households
      BY DEF Typing, TypeOK, Described, RowsExist, Transfers
    <2>3. Approvals(q)["source"] \in Units
      BY <2>2, TicketUnits DEF Level, Approvals
    <2>4. QED
      BY <2>1, <2>3, <1>5, <1>6
  <1>13. QED
    BY <1>9, <1>10, <1>11, <1>12

LEMMA AbandonSafety ==
  ASSUME IInv, NEW r \in Requests, AbandonCreate(r)
  PROVE  Safety'
  <1> USE DEF IInv, Safety, AbandonCreate, register, requests
  <1>1. \A q \in Requests : creating'[q] = creating[q] \/ creating'[q] = "done"
    BY DEF Typing, TypeOK
  <1>2. TicketPlan'
    BY <1>1 DEF TicketPlan, HasTicket, Level, Approvals
  <1>3. QED
    BY <1>2 DEF PendingAwaitsADecision, RefusalStops, SourceConsents, MovesOnce,
                ResidenceFollowsHousehold, HasTicket, Refused, Level, Approvals

(* What executing a transfer does to the register, whoever executes it. *)
LEMMA ExecuteEffect ==
  ASSUME IInv, NEW r \in Requests, status[r] # "absent", executeTransferInTx(r),
         transfer' = transfer
  PROVE  /\ status'[r] = "completed"
         /\ \A q \in Requests \ {r} : status'[q] = status[q]
         /\ history[r] \in Nat /\ history'[r] = history[r] + 1
         /\ \A q \in Requests \ {r} : history'[q] = history[q]
         /\ ResidenceFollowsHousehold'
  <1> USE DEF IInv, Safety
  <1> DEFINE t == transfer[r]
  <1>1. /\ t.citizen \in Citizens
        /\ t.from \in Households
        /\ t.to \in Households
    BY DEF Typing, TypeOK, Described, RowsExist, Transfers
  <1>2. /\ history[r] \in Nat /\ history'[r] = history[r] + 1
        /\ \A q \in Requests \ {r} : history'[q] = history[q]
    BY MarkersAreNew DEF executeTransferInTx, Typing, TypeOK
  <1>3. /\ status'[r] = "completed"
        /\ \A q \in Requests \ {r} : status'[q] = status[q]
    BY DEF executeTransferInTx, CompleteRequest, Typing, TypeOK
  <1>4. ResidenceFollowsHousehold'
    <2> SUFFICES ASSUME NEW q \in Requests, history'[q] > 0,
                        transfer[q].citizen \notin deleted \cup edited'
                 PROVE  \E h \in Households :
                          /\ transfer[q].citizen \in members'[h]
                          /\ residence'[transfer[q].citizen] = Address(h)
      BY DEF ResidenceFollowsHousehold, executeTransferInTx
    <2> DEFINE c == transfer[q].citizen
    <2>1. CASE c = t.citizen
      <3>1. c \in members'[t.to]
        BY <1>1, <2>1 DEF executeTransferInTx, AddMember, RemoveMember, Typing, TypeOK
      <3>2. residence'[c] = Address(t.to)
        BY <1>1, <2>1 DEF executeTransferInTx, UpdateResidence, Typing, TypeOK
      <3>3. QED
        BY <1>1, <3>1, <3>2
    <2>2. CASE c # t.citizen
      <3>1. history[q] > 0
        BY <1>2, <2>2
      <3>2. PICK h \in Households : c \in members[h] /\ residence[c] = Address(h)
        BY <2>2, <3>1 DEF ResidenceFollowsHousehold, executeTransferInTx
      <3>3. c \in members'[h]
        BY <1>1, <2>2, <3>2
        DEF executeTransferInTx, AddMember, RemoveMember, Typing, TypeOK
      <3>4. residence'[c] = residence[c]
        BY <2>2 DEF executeTransferInTx, UpdateResidence, Typing, TypeOK
      <3>5. QED
        BY <3>2, <3>3, <3>4
    <2>3. QED
      BY <2>1, <2>2
  <1>5. QED
    BY <1>2, <1>3, <1>4

LEMMA ExecuteUnreviewedSafety ==
  ASSUME IInv, NEW r \in Requests, ExecuteUnreviewed(r)
  PROVE  Safety'
  <1> USE DEF IInv, Safety, ExecuteUnreviewed, executeTransfer
  <1>1. status[r] # "absent"
    BY DEF Typing, RowsExist, TypeOK
  <1>2. /\ Level(r) = "none" /\ ~HasTicket(r)
        /\ status[r] = "pending" \/ r \in forced
    BY DEF TicketPlan
  <1>3. \A q \in Requests : /\ Level(q)' = Level(q) /\ Approvals(q)' = Approvals(q)
                            /\ HasTicket(q)' = HasTicket(q) /\ Refused(q)' = Refused(q)
    BY DEF Level, Approvals, HasTicket, Refused
  <1>4. ~Refused(r)
    BY <1>2 DEF HasTicket, Refused
  <1>5. /\ status'[r] = "completed"
        /\ \A q \in Requests \ {r} : status'[q] = status[q]
        /\ history[r] \in Nat /\ history'[r] = history[r] + 1
        /\ \A q \in Requests \ {r} : history'[q] = history[q]
        /\ ResidenceFollowsHousehold'
    BY <1>1, ExecuteEffect
  <1>6. TicketPlan'
    BY <1>1, <1>2, <1>3, <1>5 DEF TicketPlan, Typing, TypeOK
  <1>7. PendingAwaitsADecision'
    BY <1>3, <1>5 DEF PendingAwaitsADecision
  <1>8. RefusalStops' /\ SourceConsents'
    BY <1>2, <1>3, <1>4, <1>5 DEF RefusalStops, SourceConsents
  <1>9. MovesOnce'
    BY <1>2, <1>5 DEF MovesOnce
  <1>10. QED
    BY <1>5, <1>6, <1>7, <1>8, <1>9

(* What deciding a ticket does to the tickets, whatever the decision.       *)
LEMMA DecisionEffect ==
  ASSUME IInv, NEW o \in Officers, NEW r \in Requests, MayDecide(o, r),
         NEW d \in Decisions, UpdateApproval(o, r, d)
  PROVE  /\ getUnitCode(o) \in Units
         /\ ticket'[r] = [ticket[r] EXCEPT ![getUnitCode(o)] = d]
         /\ \A q \in Requests \ {r} : ticket'[q] = ticket[q]
         /\ \A q \in Requests : HasTicket(q)' = HasTicket(q)
         /\ HasTicket(r) /\ ~Refused(r)
         /\ \A q \in Requests, v \in Units :
              ticket[q][v] # "none" => ticket'[q][v] # "none"
  <1> USE DEF IInv, Typing, TypeOK
  <1> DEFINE u == getUnitCode(o)
  <1>1. u \in Units /\ ticket[r][u] = "pending" /\ status[r] = "pending"
    BY OfficersUnit DEF MayDecide
  <1>2. /\ ticket'[r] = [ticket[r] EXCEPT ![u] = d]
        /\ \A q \in Requests \ {r} : ticket'[q] = ticket[q]
    BY DEF UpdateApproval
  <1>3. \A q \in Requests, v \in Units : ticket[q][v] # "none" <=> ticket'[q][v] # "none"
    BY <1>1, <1>2 DEF Decisions
  <1>4. HasTicket(r) /\ ~Refused(r)
    BY <1>1 DEF Safety, PendingAwaitsADecision, HasTicket
  <1>5. QED
    BY <1>1, <1>2, <1>3, <1>4 DEF HasTicket

LEMMA ApproveAndExecuteSafety ==
  ASSUME IInv, NEW o \in Officers, NEW r \in Requests, ApproveAndExecute(o, r)
  PROVE  Safety'
  <1> USE DEF IInv, Safety, ApproveAndExecute, handlers
  <1> DEFINE u == getUnitCode(o)
  <1>1. status[r] = "pending"
    BY DEF MayDecide
  <1>2. /\ u \in Units
        /\ ticket'[r] = [ticket[r] EXCEPT ![u] = "approved"]
        /\ \A q \in Requests \ {r} : ticket'[q] = ticket[q]
        /\ \A q \in Requests : HasTicket(q)' = HasTicket(q)
        /\ HasTicket(r) /\ ~Refused(r)
        /\ \A q \in Requests, v \in Units :
             ticket[q][v] # "none" => ticket'[q][v] # "none"
    BY DecisionEffect DEF Decisions
  <1>3. \A v \in Units : ticket'[r][v] \in {"none", "approved"}
    BY <1>2 DEF Completes, checkAllApproved
  <1>4. \A q \in Requests : Level(q)' = Level(q) /\ Approvals(q)' = Approvals(q)
    BY DEF Level, Approvals
  <1>5. /\ status'[r] = "completed"
        /\ \A q \in Requests \ {r} : status'[q] = status[q]
        /\ history[r] \in Nat /\ history'[r] = history[r] + 1
        /\ \A q \in Requests \ {r} : history'[q] = history[q]
        /\ ResidenceFollowsHousehold'
    BY <1>1, ExecuteEffect
  <1>6. \A q \in Requests \ {r} : Refused(q)' = Refused(q)
    BY <1>2 DEF Refused
  <1>7. ~Refused(r)'
    BY <1>3 DEF Refused
  <1>8. \A q \in Requests : Level(q) # "none" /\ status[q] # "absent" =>
          Approvals(q)["source"] \in Units
    BY TicketUnits
    DEF Level, Approvals, Typing, TypeOK, Described, RowsExist, Transfers
  <1>9. Level(r) # "none" /\ ticket[r][Approvals(r)["source"]] # "none"
    BY <1>2 DEF TicketPlan
  <1>10. TicketPlan'
    <2>1. \A q \in Requests : HasTicket(q) =>
            /\ Level(q) # "none"
            /\ ticket'[q][Approvals(q)["source"]] # "none"
      BY <1>2, <1>8 DEF TicketPlan, Typing, RowsExist
    <2>2. QED
      BY <1>1, <1>2, <1>4, <1>5, <1>9, <2>1 DEF TicketPlan
  <1>11. PendingAwaitsADecision'
    BY <1>2, <1>5, <1>6 DEF PendingAwaitsADecision
  <1>12. RefusalStops'
    BY <1>5, <1>6, <1>7 DEF RefusalStops
  <1>13. SourceConsents'
    <2>1. ticket'[r][Approvals(r)["source"]] = "approved"
      BY <1>1, <1>2, <1>3, <1>8, <1>9
    <2>2. \A q \in Requests \ {r} :
            status'[q] = "completed" /\ q \notin forced /\ Level(q) # "none" =>
              ticket'[q][Approvals(q)["source"]] = "approved"
      BY <1>2, <1>5 DEF SourceConsents
    <2>3. forced' = forced
      OBVIOUS
    <2>4. QED
      BY <1>4, <2>1, <2>2, <2>3 DEF SourceConsents
  <1>14. MovesOnce'
    BY <1>1, <1>5 DEF MovesOnce
  <1>15. QED
    BY <1>5, <1>10, <1>11, <1>12, <1>13, <1>14

(* A decision that completes nothing and refuses nothing leaves a ticket to *)
(* decide.                                                                  *)
LEMMA ApproveAndWaitSafety ==
  ASSUME IInv, NEW o \in Officers, NEW r \in Requests, ApproveAndWait(o, r)
  PROVE  Safety'
  <1> USE DEF IInv, Safety, ApproveAndWait, register, handlers
  <1> DEFINE u == getUnitCode(o)
  <1>1. MayDecide(o, r) /\ status[r] = "pending"
    BY DEF MayDecide
  <1>2. PICK d \in {"approved", "pending"} :
          /\ UpdateApproval(o, r, d)
          /\ d = "approved" => ~Completes(o, r)
    OBVIOUS
  <1>3. /\ u \in Units
        /\ ticket'[r] = [ticket[r] EXCEPT ![u] = d]
        /\ \A q \in Requests \ {r} : ticket'[q] = ticket[q]
        /\ \A q \in Requests : HasTicket(q)' = HasTicket(q)
        /\ HasTicket(r) /\ ~Refused(r)
        /\ \A q \in Requests, v \in Units :
             ticket[q][v] # "none" => ticket'[q][v] # "none"
    BY <1>1, <1>2, DecisionEffect DEF Decisions
  <1>4. \A q \in Requests : /\ Level(q)' = Level(q) /\ Approvals(q)' = Approvals(q)
                            /\ Refused(q)' = Refused(q)
    BY <1>2, <1>3 DEF Level, Approvals, Refused, Typing, TypeOK
  <1>5. \E v \in Units : ticket'[r][v] = "pending"
    <2>1. CASE d = "pending"
      BY <1>3, <2>1 DEF Typing, TypeOK
    <2>2. CASE d = "approved"
      <3>1. ~checkAllApproved(ticket'[r])
        BY <1>2, <1>3, <2>2 DEF Completes
      <3>2. ticket'[r][u] = "approved"
        BY <1>3, <2>2 DEF Typing, TypeOK
      <3>3. PICK v \in Units : ticket'[r][v] \notin {"none", "approved"}
        BY <1>3, <3>1, <3>2 DEF checkAllApproved
      <3>4. v # u /\ ticket[r][v] = ticket'[r][v]
        BY <1>3, <3>2, <3>3 DEF Typing, TypeOK
      <3>5. QED
        BY <1>3, <3>3, <3>4 DEF Refused, Typing, TypeOK, Decisions
    <2>3. QED
      BY <1>2, <2>1, <2>2
  <1>6. TicketPlan'
    <2>1. \A q \in Requests : Level(q) # "none" /\ HasTicket(q) =>
            Approvals(q)["source"] \in Units
      BY TicketUnits
      DEF Level, Approvals, Typing, TypeOK, Described, RowsExist, Transfers, TicketPlan
    <2>2. \A q \in Requests : HasTicket(q) =>
            /\ Level(q) # "none"
            /\ ticket'[q][Approvals(q)["source"]] # "none"
      BY <1>3, <2>1 DEF TicketPlan
    <2>3. QED
      BY <1>3, <1>4, <2>2 DEF TicketPlan
  <1>7. PendingAwaitsADecision'
    BY <1>3, <1>4, <1>5 DEF PendingAwaitsADecision
  <1>8. RefusalStops' /\ MovesOnce' /\ ResidenceFollowsHousehold'
    BY <1>4 DEF RefusalStops, MovesOnce, ResidenceFollowsHousehold
  <1>9. SourceConsents'
    BY <1>1, <1>3, <1>4 DEF SourceConsents
  <1>10. QED
    BY <1>6, <1>7, <1>8, <1>9

LEMMA RejectSafety ==
  ASSUME IInv, NEW o \in Officers, NEW r \in Requests, RejectTransfer(o, r)
  PROVE  Safety'
  <1> USE DEF IInv, Safety, RejectTransfer, register, handlers
  <1> DEFINE u == getUnitCode(o)
  <1>1. /\ status[r] = "pending"
        /\ status'[r] = "rejected"
        /\ \A q \in Requests \ {r} : status'[q] = status[q]
    BY DEF MayDecide, UpdateRequestStatus, Typing, TypeOK
  <1>2. /\ u \in Units
        /\ ticket'[r] = [ticket[r] EXCEPT ![u] = "rejected"]
        /\ \A q \in Requests \ {r} : ticket'[q] = ticket[q]
        /\ \A q \in Requests : HasTicket(q)' = HasTicket(q)
        /\ HasTicket(r) /\ ~Refused(r)
        /\ \A q \in Requests, v \in Units :
             ticket[q][v] # "none" => ticket'[q][v] # "none"
    BY DecisionEffect DEF Decisions
  <1>3. \A q \in Requests : Level(q)' = Level(q) /\ Approvals(q)' = Approvals(q)
    BY DEF Level, Approvals
  <1>4. \A q \in Requests \ {r} : Refused(q)' = Refused(q)
    BY <1>2 DEF Refused
  <1>5. Refused(r)'
    BY <1>2 DEF Refused, Typing, TypeOK
  <1>6. TicketPlan'
    <2>1. \A q \in Requests : Level(q) # "none" /\ HasTicket(q) =>
            Approvals(q)["source"] \in Units
      BY TicketUnits
      DEF Level, Approvals, Typing, TypeOK, Described, RowsExist, Transfers, TicketPlan
    <2>2. \A q \in Requests : HasTicket(q) =>
            /\ Level(q) # "none"
            /\ ticket'[q][Approvals(q)["source"]] # "none"
      BY <1>2, <2>1 DEF TicketPlan
    <2>3. QED
      BY <1>1, <1>2, <1>3, <2>2 DEF TicketPlan
  <1>7. PendingAwaitsADecision'
    BY <1>1, <1>2, <1>4 DEF PendingAwaitsADecision
  <1>8. RefusalStops' /\ MovesOnce' /\ ResidenceFollowsHousehold'
    BY <1>1, <1>4, <1>5 DEF RefusalStops, MovesOnce, ResidenceFollowsHousehold
  <1>9. SourceConsents'
    BY <1>1, <1>2, <1>3 DEF SourceConsents
  <1>10. QED
    BY <1>6, <1>7, <1>8, <1>9

LEMMA ForceExecuteSafety ==
  ASSUME IInv, NEW a \in Admins, ForceExecute(a)
  PROVE  Safety'
  <1> USE DEF IInv, Safety, ForceExecute, executeTransfer
  <1> DEFINE r == forcing[a]
  <1>1. r \in Requests /\ status[r] # "absent"
    BY DEF Typing, TypeOK, RowsExist
  <1>2. \A q \in Requests : /\ Level(q)' = Level(q) /\ Approvals(q)' = Approvals(q)
                            /\ HasTicket(q)' = HasTicket(q) /\ Refused(q)' = Refused(q)
    BY DEF Level, Approvals, HasTicket, Refused
  <1>3. /\ status'[r] = "completed"
        /\ \A q \in Requests \ {r} : status'[q] = status[q]
        /\ history[r] \in Nat /\ history'[r] = history[r] + 1
        /\ \A q \in Requests \ {r} : history'[q] = history[q]
        /\ ResidenceFollowsHousehold'
    BY <1>1, ExecuteEffect
  <1>4. TicketPlan'
    BY <1>1, <1>2, <1>3 DEF TicketPlan
  <1>5. PendingAwaitsADecision'
    BY <1>2, <1>3 DEF PendingAwaitsADecision
  <1>6. RefusalStops' /\ SourceConsents'
    BY <1>2, <1>3 DEF RefusalStops, SourceConsents
  <1>7. MovesOnce'
    BY <1>3 DEF MovesOnce
  <1>8. QED
    BY <1>3, <1>4, <1>5, <1>6, <1>7

(* Every step of the workflow keeps the inductive invariant.                *)
LEMMA StepSafety == IInv /\ [Next]_vars => Safety'
  <1> SUFFICES ASSUME IInv, [Next]_vars
               PROVE  Safety'
    OBVIOUS
  <1>1. CASE UNCHANGED core
    BY <1>1, QuietSafety DEF IInv
  <1>2. CASE HouseholdStep
    BY <1>1, <1>2, QuietSteps, EnrolSafety, DeleteSafety DEF HouseholdStep
  <1>3. ASSUME NEW e \in Editors, PatchStep(e)
        PROVE  Safety'
    BY <1>1, <1>3, QuietSteps, PatchSafety DEF PatchStep
  <1>4. ASSUME NEW r \in Requests, CreateStep(r)
        PROVE  Safety'
    BY <1>4, ValidateSafety, InsertSafety, TicketSafety, ExecuteUnreviewedSafety,
       AbandonSafety DEF CreateStep
  <1>5. ASSUME NEW o \in Officers, NEW r \in Requests, ApproveStep(o, r)
        PROVE  Safety'
    BY <1>5, ApproveAndExecuteSafety, ApproveAndWaitSafety, RejectSafety DEF ApproveStep
  <1>6. ASSUME NEW a \in Admins, ForceStep(a)
        PROVE  Safety'
    BY <1>1, <1>6, QuietSteps, ForceExecuteSafety DEF ForceStep
  <1>7. QED
    BY <1>1, <1>2, <1>3, <1>4, <1>5, <1>6, QuietSteps DEF Next

LEMMA InductiveInvariant == Spec => []IInv
  <1>1. Init => IInv
    BY InitTyping, InitSafety DEF IInv
  <1>2. IInv /\ [Next]_vars => IInv'
    <2>1. IInv /\ [Next]_vars => Typing'
      BY HouseholdTyping, PatchTyping, CreateTyping, ApproveTyping, ForceTyping, EscalateTyping,
         JobTyping, StutterTyping DEF Next, IInv
    <2>2. QED
      BY <2>1, StepSafety DEF IInv
  <1>3. QED
    BY <1>1, <1>2, PTL DEF Spec

(* A request never stays open once every unit with a ticket has answered.   *)
THEOREM OpenRequestsAwaitADecision == Spec => []PendingAwaitsADecision
  BY InductiveInvariant, PTL DEF IInv, Safety

(* One refusal stops a request, and only a refusal rejects it.              *)
THEOREM OneRefusalStops == Spec => []RefusalStops
  BY InductiveInvariant, PTL DEF IInv, Safety

(* No unforced transfer between wards happens without the source's approval.*)
THEOREM NoMoveWithoutTheSource == Spec => []SourceConsents
  BY InductiveInvariant, PTL DEF IInv, Safety

(* Completed means moved, exactly once unless an administrator forced it.   *)
THEOREM EachRequestMovesOnce == Spec => []MovesOnce
  BY InductiveInvariant, PTL DEF IInv, Safety

(* A moved citizen's address is that of a household they belong to.         *)
THEOREM AddressAndHouseholdAgree == Spec => []ResidenceFollowsHousehold
  BY InductiveInvariant, PTL DEF IInv, Safety

-----------------------------------------------------------------------------
(* What a step may never do *)

(* Tickets change in two ways only: their creator inserts one, or the unit  *)
(* decides one of a pending request.                                        *)
LEMMA TicketSteps ==
  ASSUME IInv, [Next]_vars, NEW r \in Requests, NEW u \in Units,
         ticket'[r][u] # ticket[r][u]
  PROVE  \/ ticket[r][u] = "none" /\ ticket'[r][u] = "pending"
         \/ ticket[r][u] = "pending" /\ status[r] = "pending"
  <1> USE DEF IInv, Typing, TypeOK
  <1>1. ~UNCHANGED core
    BY DEF core
  <1>2. ~HouseholdStep
    BY DEF HouseholdStep, CreateHousehold, AddHouseholdMember, SoftDeleteCitizen, requests
  <1>3. ASSUME NEW e \in Editors, PatchStep(e)
        PROVE  FALSE
    BY <1>3 DEF PatchStep, PatchRead, PatchWrite, AbandonPatch, requests
  <1>4. ASSUME NEW a \in Admins, ForceStep(a)
        PROVE  FALSE
    BY <1>4 DEF ForceStep, ForceRead, ForceExecute, AbandonForce, requests
  <1>5. ASSUME NEW q \in Requests, CreateStep(q)
        PROVE  ticket[r][u] = "none" /\ ticket'[r][u] = "pending"
    <2>1. CreateApprovals(q)
      BY <1>5 DEF CreateStep, ValidateRequest, CreateRequest, ExecuteUnreviewed,
                  AbandonCreate, requests
    <2>2. PICK role \in {"source", "destination"} :
            /\ ticket[q][Approvals(q)[role]] = "none"
            /\ ticket' = [ticket EXCEPT ![q][Approvals(q)[role]] = "pending"]
      BY <2>1 DEF CreateApprovals, CreateApproval, Insertable
    <2>3. QED
      BY <2>2
  <1>6. ASSUME NEW o \in Officers, NEW q \in Requests, ApproveStep(o, q)
        PROVE  ticket[r][u] = "pending" /\ status[r] = "pending"
    <2>1. MayDecide(o, q) /\ \E d \in Decisions : UpdateApproval(o, q, d)
      BY <1>6 DEF ApproveStep, ApproveAndExecute, ApproveAndWait, RejectTransfer, Decisions
    <2>2. QED
      BY <2>1 DEF MayDecide, UpdateApproval
  <1>7. QED
    BY <1>1, <1>2, <1>3, <1>4, <1>5, <1>6, QuietSteps DEF Next

(* A decision is final, and a closed request takes none (the row lock and   *)
(* the status check of ApproveTransfer).                                    *)
THEOREM DecisionsAreFinal == Spec => ClosedTakesNoDecision
  <1>1. IInv /\ [Next]_vars =>
          [\A r \in Requests, u \in Units :
             ticket'[r][u] # ticket[r][u] =>
               \/ ticket[r][u] = "none" /\ ticket'[r][u] = "pending"
               \/ ticket[r][u] = "pending" /\ status[r] = "pending"]_vars
    BY TicketSteps
  <1>2. QED
    BY <1>1, InductiveInvariant, PTL DEF Spec, ClosedTakesNoDecision

(* What carrying out a transfer does to the households, in the words of the *)
(* register: a Move.                                                        *)
LEMMA ExecuteMoves ==
  ASSUME IInv, NEW r \in Requests, status[r] # "absent", executeTransferInTx(r)
  PROVE  /\ transfer[r].citizen \in Citizens
         /\ transfer[r].from \in Households /\ transfer[r].to \in Households
         /\ \/ transfer[r].from = transfer[r].to
            \/ transfer[r].citizen \notin members[transfer[r].to]
         /\ members' = [h \in Households |->
              IF h = transfer[r].to THEN members[h] \cup {transfer[r].citizen}
              ELSE IF h = transfer[r].from THEN members[h] \ {transfer[r].citizen}
              ELSE members[h]]
  <1> DEFINE t == transfer[r]
  <1>1. t.citizen \in Citizens /\ t.from \in Households /\ t.to \in Households
    BY DEF IInv, Typing, TypeOK, Described, RowsExist, Transfers
  <1>2. QED
    BY <1>1 DEF executeTransferInTx, AddMember, RemoveMember, IInv, Typing, TypeOK

LEMMA HomeSteps ==
  ASSUME IInv, [Next]_vars, NEW c \in Citizens, HasHome(c)
  PROVE  HasHome(c)'
  <1> USE DEF HasHome
  <1>1. ASSUME NEW r \in Requests, status[r] # "absent", executeTransferInTx(r)
        PROVE  HasHome(c)'
    BY <1>1, ExecuteMoves
  <1>2. CASE UNCHANGED members
    BY <1>2
  <1>3. CASE UNCHANGED core
    BY <1>2, <1>3 DEF core
  <1>4. CASE HouseholdStep
    BY <1>2, <1>3, <1>4, QuietSteps
    DEF HouseholdStep, AddHouseholdMember, SoftDeleteCitizen, IInv, Typing, TypeOK
  <1>5. ASSUME NEW e \in Editors, PatchStep(e)
        PROVE  HasHome(c)'
    BY <1>2, <1>5 DEF PatchStep, PatchRead, PatchWrite, AbandonPatch, register
  <1>6. ASSUME NEW r \in Requests, CreateStep(r)
        PROVE  HasHome(c)'
    <2>1. CASE ExecuteUnreviewed(r)
      BY <1>1, <2>1 DEF ExecuteUnreviewed, executeTransfer, IInv, Typing, RowsExist, TypeOK
    <2>2. QED
      BY <1>2, <1>6, <2>1 DEF CreateStep, ValidateRequest, CreateRequest, CreateApprovals,
                    CreateApproval, AbandonCreate, register
  <1>7. ASSUME NEW o \in Officers, NEW r \in Requests, ApproveStep(o, r)
        PROVE  HasHome(c)'
    BY <1>1, <1>2, <1>7 DEF ApproveStep, ApproveAndExecute, ApproveAndWait,
         RejectTransfer, MayDecide, register
  <1>8. ASSUME NEW a \in Admins, ForceStep(a)
        PROVE  HasHome(c)'
    <2>1. CASE ForceExecute(a)
      BY <1>1, <2>1 DEF ForceExecute, executeTransfer, IInv, Typing, RowsExist, TypeOK
    <2>2. QED
      BY <1>2, <1>8, <2>1 DEF ForceStep, ForceRead, AbandonForce, register
  <1>9. QED
    BY <1>3, <1>4, <1>5, <1>6, <1>7, <1>8, QuietSteps DEF Next

(* A citizen who belongs to a household belongs to one after every step:    *)
(* leaving and joining are one commit (executeTransferInTx).                *)
THEOREM MovingIsNeverHomeless == Spec => NobodyLosesTheirHousehold
  <1>1. IInv /\ [Next]_vars =>
          [\A c \in Citizens : HasHome(c) => HasHome(c)']_vars
    BY HomeSteps
  <1>2. QED
    BY <1>1, InductiveInvariant, PTL DEF Spec, NobodyLosesTheirHousehold

-----------------------------------------------------------------------------
(* The workflow implements HouseholdRegister *)

orders == [r \in Requests |-> IF status[r] = "absent" THEN NoTransfer ELSE transfer[r]]

LEMMA InitRefines == Init => Promise!Init
  BY DEF Init, Promise!Init

(* Steps that leave the request rows and the households as they are.        *)
LEMMA QuietRefines ==
  ASSUME UNCHANGED <<members, status, forced>>,
         \A r \in Requests : status[r] # "absent" => transfer'[r] = transfer[r]
  PROVE  UNCHANGED Promise!vars
  BY DEF Promise!vars

(* An execution is a Carry while the request is pending, and an Override    *)
(* once an administrator has forced it (now or before).                     *)
LEMMA ExecuteRefines ==
  ASSUME IInv, NEW r \in Requests, status[r] # "absent", executeTransferInTx(r),
         UNCHANGED transfer,
         \/ status[r] = "pending" /\ forced' = forced
         \/ forced' = forced \cup {r}
  PROVE  Promise!Carry(r) \/ Promise!Override(r)
  <1> USE DEF IInv, Typing, TypeOK
  <1>1. status' = [status EXCEPT ![r] = "completed"]
    BY DEF executeTransferInTx, CompleteRequest
  <1>2. orders[r] = transfer[r] /\ orders' = orders
    BY <1>1 DEF orders
  <1>3. Promise!Move(orders[r])
    BY <1>2, ExecuteMoves DEF Promise!Move
  <1>4. QED
    BY <1>1, <1>2, <1>3 DEF Promise!Carry, Promise!Override, orders

LEMMA StepRefines ==
  ASSUME IInv, [Next]_vars
  PROVE  [Promise!Next]_(Promise!vars)
  <1> USE DEF IInv, Typing, TypeOK
  <1>1. CASE UNCHANGED core
    BY <1>1, QuietRefines DEF core
  <1>2. CASE HouseholdStep
    <2>1. ASSUME NEW o \in Officers, NEW h \in Households, NEW c \in Citizens,
                 AddHouseholdMember(o, h, c)
          PROVE  Promise!Enrol(h, c)
      BY <2>1 DEF AddHouseholdMember, requests, Promise!Enrol
    <2>2. ASSUME NEW o \in Officers, NEW c \in Citizens, SoftDeleteCitizen(o, c)
          PROVE  UNCHANGED Promise!vars
      BY <2>2, QuietRefines DEF SoftDeleteCitizen, requests
    <2>3. QED
      BY <1>1, <1>2, <2>1, <2>2, QuietSteps DEF HouseholdStep, Promise!Next
  <1>3. ASSUME NEW e \in Editors, PatchStep(e)
        PROVE  [Promise!Next]_(Promise!vars)
    BY <1>3, QuietRefines
    DEF PatchStep, PatchRead, PatchWrite, AbandonPatch, register, requests
  <1>4. ASSUME NEW r \in Requests, CreateStep(r)
        PROVE  [Promise!Next]_(Promise!vars)
    <2>1. ASSUME NEW c \in Citizens, NEW f \in Households, NEW t \in Households,
                 ValidateRequest(r, c, f, t)
          PROVE  UNCHANGED Promise!vars
      BY <2>1, QuietRefines DEF ValidateRequest, RowsExist, register
    <2>2. CASE CreateRequest(r)
      <3>1. status[r] = "absent" /\ transfer[r] \in Transfers
        BY <2>2 DEF CreateRequest, RowsExist, Described
      <3>2. Promise!Submit(r)
        BY <2>2, <3>1 DEF CreateRequest, register, Promise!Submit, Promise!Transfers, Transfers
      <3>3. QED
        BY <3>2 DEF Promise!Next
    <2>3. CASE CreateApprovals(r) \/ AbandonCreate(r)
      BY <2>3, QuietRefines
      DEF CreateApprovals, CreateApproval, AbandonCreate, register, requests
    <2>4. CASE ExecuteUnreviewed(r)
      <3>1. /\ status[r] # "absent"
            /\ status[r] = "pending" \/ r \in forced
        BY <2>4 DEF ExecuteUnreviewed, RowsExist, Safety, TicketPlan
      <3>2. Promise!Carry(r) \/ Promise!Override(r)
        BY <2>4, <3>1, ExecuteRefines DEF ExecuteUnreviewed, executeTransfer
      <3>3. QED
        BY <3>2 DEF Promise!Next
    <2>5. QED
      BY <1>4, <2>1, <2>2, <2>3, <2>4 DEF CreateStep
  <1>5. ASSUME NEW o \in Officers, NEW r \in Requests, ApproveStep(o, r)
        PROVE  [Promise!Next]_(Promise!vars)
    <2>1. CASE ApproveAndExecute(o, r)
      BY <2>1, ExecuteRefines DEF ApproveAndExecute, MayDecide, Promise!Next
    <2>2. CASE ApproveAndWait(o, r)
      BY <2>2, QuietRefines DEF ApproveAndWait, register
    <2>3. CASE RejectTransfer(o, r)
      <3>1. Promise!Refuse(r)
        BY <2>3 DEF RejectTransfer, MayDecide, UpdateRequestStatus, register, Promise!Refuse
      <3>2. QED
        BY <3>1 DEF Promise!Next
    <2>4. QED
      BY <1>5, <2>1, <2>2, <2>3 DEF ApproveStep
  <1>6. ASSUME NEW a \in Admins, ForceStep(a)
        PROVE  [Promise!Next]_(Promise!vars)
    <2>1. CASE ForceExecute(a)
      <3>1. forcing[a] \in Requests /\ status[forcing[a]] # "absent"
        BY <2>1 DEF ForceExecute, RowsExist
      <3>2. Promise!Carry(forcing[a]) \/ Promise!Override(forcing[a])
        BY <2>1, <3>1, ExecuteRefines DEF ForceExecute, executeTransfer
      <3>3. QED
        BY <3>1, <3>2 DEF Promise!Next
    <2>2. QED
      BY <1>1, <1>6, <2>1, QuietSteps DEF ForceStep
  <1>7. QED
    BY <1>1, <1>2, <1>3, <1>4, <1>5, <1>6, QuietSteps DEF Next

(* Every behaviour of the workflow, handlers, locks, retries and escalation *)
(* included, is a behaviour of the register it promises.                    *)
THEOREM WorkflowKeepsThePromise == Spec => KeepsThePromise
  <1>1. IInv /\ [Next]_vars => [Promise!Next]_(Promise!vars)
    BY StepRefines
  <1>2. QED
    BY InitRefines, <1>1, InductiveInvariant, PTL DEF Spec, KeepsThePromise, Promise!Spec
=============================================================================
