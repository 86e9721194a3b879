-------------------------- MODULE TransferWorkflow --------------------------
(***************************************************************************)
(* The household transfer workflow: transferSvc and the repositories it    *)
(* writes through (transfer_requests, transfer_approvals,                  *)
(* household_members, residence_histories, citizens, audit_logs).          *)
(*                                                                         *)
(* What is one step here is one commit there.  A handler that runs its     *)
(* statements on the pool commits each of them, so CreateTransferRequest,  *)
(* ForceApproveTransfer and EscalateExpiredRequests are several actions    *)
(* with a program counter, and other handlers run in between.  The body of *)
(* WithTx is one action: it commits as a whole or leaves nothing behind    *)
(* (the rolled-back run is a stuttering step, or a step of the handler's   *)
(* program counter alone).  Any handler may also stop for good between two *)
(* of its commits; the Abandon actions say what is left then.              *)
(***************************************************************************)
EXTENDS AdminScope, Naturals

CONSTANTS Citizens,
          Requests,      \* ids of transfer_requests rows
          Officers,      \* callers of the household and approve endpoints
          Admins,        \* super_admins: one force-approve call in flight each
          Editors,       \* callers of PATCH /citizens/:id, one call in flight each
          Patches,       \* the bodies they send
          NoRequest, NoTransfer, NoPatch,
          SeedHouseholds, SeedMembers, SeedAddress, \* contents at start
          MaxMoves       \* bound: residence_histories rows of one request

Addresses == Units \X Units \X Units
Transfers == [citizen : Citizens, from : Households, to : Households]

(* Of a PATCH body: which of the three address columns it carries, and what *)
(* it asks for there.                                                       *)
Columns == 1 .. 3
Bodies == [sent : SUBSET Columns, asked : Addresses]

(* A PATCH in flight: the row it is going to write, its address columns.    *)
Rows == [citizen : Citizens, address : Addresses, sent : SUBSET Columns]

ASSUME OfficersAreClaims == Officers \subseteq Claims
ASSUME PatchesAreBodies == Patches \subseteq Bodies
ASSUME SeedIsARegister ==
  /\ SeedHouseholds \subseteq Households
  /\ SeedMembers \in [Households -> SUBSET Citizens]
  /\ SeedAddress \in [Citizens -> Addresses]
ASSUME MarkersAreNew ==
  /\ NoRequest \notin Requests
  /\ NoTransfer \notin Transfers
  /\ NoPatch \notin Rows
  /\ MaxMoves \in Nat

VARIABLES
  registered,  \* households that have a row
  members,     \* members[h]: household_members rows with is_active = TRUE
  residence,   \* citizens.(province, district, ward)_code
  deleted,     \* citizens with deleted_at set
  edited,      \* citizens whose address a PATCH has changed since their last
               \* transfer (history variable)
  transfer,    \* the immutable columns of a request, set by its handler
  status,      \* transfer_requests.status; "absent": no row yet
  ticket,      \* ticket[r][u]: transfer_approvals.decision of unit u, or "none"
  overdue,     \* requests whose deadline_at has passed
  escalatedTo, \* transfer_requests.escalated_to
  history,     \* number of residence_histories rows of a request
  audit,       \* audit_logs rows written by the workflow
  forced,      \* requests a force-approve has executed (history variable)
  creating,    \* program counter of the CreateTransferRequest handler of r
  forcing,     \* request an admin's ForceApproveTransfer has read
  patching,    \* the row an editor's PATCH has read and is about to write
  listed,      \* rows EscalateExpiredRequests has listed and not yet reached
  marked       \* the row whose escalated_to it has just set, or NoRequest

register == <<registered, members, residence, deleted, edited, history>>
requests == <<transfer, status, ticket, overdue, escalatedTo, audit, forced>>
job == <<listed, marked>>
handlers == <<creating, forcing, patching, job>>
vars == <<register, requests, handlers>>

Decisions == {"pending", "approved", "rejected"}
CreateSteps == {"idle", "validated", "source", "destination", "execute", "done"}

Init ==
  /\ registered = SeedHouseholds
  /\ members = SeedMembers
  /\ residence = SeedAddress
  /\ deleted = {}
  /\ edited = {}
  /\ transfer = [r \in Requests |-> NoTransfer]
  /\ status = [r \in Requests |-> "absent"]
  /\ ticket = [r \in Requests |-> [u \in Units |-> "none"]]
  /\ overdue = {}
  /\ escalatedTo = [r \in Requests |-> NoUnit]
  /\ history = [r \in Requests |-> 0]
  /\ audit = {}
  /\ forced = {}
  /\ creating = [r \in Requests |-> "idle"]
  /\ forcing = [a \in Admins |-> NoRequest]
  /\ patching = [e \in Editors |-> NoPatch]
  /\ listed = {}
  /\ marked = NoRequest

Level(r) == determineApprovalLevel(transfer[r].from, transfer[r].to)
Approvals(r) == buildApprovals(transfer[r].from, transfer[r].to)

-----------------------------------------------------------------------------
(* What the tables accept *)

(* transfer_approvals.unit_role CHECK *)
RoleAccepted(role) == role \in {"source", "destination"}

(* INSERT INTO transfer_approvals: UNIQUE (request_id, unit_code) *)
Insertable(r, u, role) == RoleAccepted(role) /\ ticket[r][u] = "none"

(* The audit_logs row an insert leaves: its action column has a CHECK, and  *)
(* every caller discards the error.                                         *)
AuditRow(action, r) ==
  IF action \in {"create", "update", "delete"} THEN {<<action, r>>} ELSE {}

-----------------------------------------------------------------------------
(* Households and citizens *)

CreateHousehold(o, h) ==
  /\ h \notin registered
  /\ canManageUnit(o, h)
  /\ registered' = registered \cup {h}
  /\ UNCHANGED <<members, residence, deleted, edited, history, requests, handlers>>

(* Nothing asks whether the citizen already lives somewhere else: the only  *)
(* constraint is the partial unique index on (household_id, citizen_id).    *)
AddHouseholdMember(o, h, c) ==
  /\ h \in registered
  /\ canManageUnit(o, h)
  /\ c \notin members[h]
  /\ members' = [members EXCEPT ![h] = @ \cup {c}]
  /\ UNCHANGED <<registered, residence, deleted, edited, history, requests, handlers>>

(* DELETE /citizens/:id, for national roles: a soft delete, household rows  *)
(* stay.                                                                    *)
SoftDeleteCitizen(o, c) ==
  /\ o.role \in NationalRoles
  /\ c \notin deleted
  /\ deleted' = deleted \cup {c}
  /\ UNCHANGED <<registered, members, residence, edited, history, requests, handlers>>

-----------------------------------------------------------------------------
(* PATCH /citizens/:id: reads the row, changes the columns the body carries, *)
(* writes every column back                                                  *)

applyUpdates(address, body) ==
  LET column(i) == IF i \in body.sent THEN body.asked[i] ELSE address[i]
  IN  <<column(1), column(2), column(3)>>

PatchRead(e, c, body) ==
  /\ patching[e] = NoPatch
  /\ c \notin deleted
  /\ patching' = [patching EXCEPT ![e] =
                    [citizen |-> c,
                     address |-> applyUpdates(residence[c], body),
                     sent |-> body.sent]]
  /\ UNCHANGED <<register, requests, creating, forcing, job>>

(* WHERE deleted_at IS NULL, and no other condition on what was read.       *)
PatchWrite(e) ==
  LET row == patching[e]
  IN  /\ row # NoPatch
      /\ residence' = IF row.citizen \in deleted THEN residence
                      ELSE [residence EXCEPT ![row.citizen] = row.address]
      /\ edited' = IF residence' = residence THEN edited
                   ELSE edited \cup {row.citizen}
      /\ patching' = [patching EXCEPT ![e] = NoPatch]
      /\ UNCHANGED <<registered, members, deleted, history, requests, creating,
                     forcing, job>>

(* A national_id somebody has, a code no table knows, or the server stops.  *)
AbandonPatch(e) ==
  /\ patching[e] # NoPatch
  /\ patching' = [patching EXCEPT ![e] = NoPatch]
  /\ UNCHANGED <<register, requests, creating, forcing, job>>

-----------------------------------------------------------------------------
(* Executing a transfer: the statements of a transaction, then the whole *)

(* Leaving a household updates the active row, if there is one. *)
RemoveMemberForgotten(m, h, c) == m
RemoveMember(m, h, c) == [m EXCEPT ![h] = @ \ {c}]

AddMember(m, h, c) == [m EXCEPT ![h] = @ \cup {c}]

(* UPDATE citizens ... WHERE deleted_at IS NULL *)
UpdateResidenceToOld(t) ==
  residence' = [residence EXCEPT ![t.citizen] = Address(t.from)]
UpdateResidence(t) ==
  residence' = IF t.citizen \in deleted THEN residence
               ELSE [residence EXCEPT ![t.citizen] = Address(t.to)]

CompleteAsApproved(r) == status' = [status EXCEPT ![r] = "approved"]
CompleteRequest(r) == status' = [status EXCEPT ![r] = "completed"]

(* History row, out of the old household, into the new one (the unique      *)
(* index refuses a second active row, and everything rolls back), address,  *)
(* status, audit.                                                           *)
executeTransferInTx(r) ==
  LET t == transfer[r]
      left == RemoveMember(members, t.from, t.citizen)
  IN  /\ history[r] < MaxMoves
      /\ history' = [history EXCEPT ![r] = @ + 1]
      /\ t.citizen \notin left[t.to]
      /\ members' = AddMember(left, t.to, t.citizen)
      /\ UpdateResidence(t)
      /\ edited' = edited \ {t.citizen}
      /\ CompleteRequest(r)
      /\ audit' = audit \cup AuditRow("transfer_completed", r)
      /\ UNCHANGED <<registered, deleted>>

(* For callers that are not in a transaction yet.  The variant is the code  *)
(* before its atomicity fix: each statement commits on its own and the      *)
(* server stops after the second.                                           *)
executeTransferPiecemeal(r) ==
  \/ executeTransferInTx(r)
  \/ /\ members' = RemoveMember(members, transfer[r].from, transfer[r].citizen)
     /\ UNCHANGED <<registered, residence, deleted, edited, history, status, audit>>
executeTransfer(r) == executeTransferInTx(r)

-----------------------------------------------------------------------------
(* CreateTransferRequest: three reads, then one commit per statement *)

(* GetMemberHousehold returns one active household, whichever comes first. *)
ValidateRequest(r, c, from, to) ==
  /\ creating[r] = "idle"
  /\ {from, to} \subseteq registered
  /\ c \in members[from]
  /\ transfer' = [transfer EXCEPT ![r] = [citizen |-> c, from |-> from, to |-> to]]
  /\ creating' = [creating EXCEPT ![r] = "validated"]
  /\ UNCHANGED <<register, status, ticket, overdue, escalatedTo, audit, forced,
                 forcing, patching, job>>

CreateRequest(r) ==
  /\ creating[r] = "validated"
  /\ status' = [status EXCEPT ![r] = "pending"]
  /\ creating' = [creating EXCEPT ![r] = IF Level(r) = "none" THEN "execute"
                                                              ELSE "source"]
  /\ UNCHANGED <<register, transfer, ticket, overdue, escalatedTo, audit, forced,
                 forcing, patching, job>>

(* CreateApprovals inserts the source's ticket, then the destination's. *)
CreateApproval(r, role, next) ==
  LET u == Approvals(r)[role]
  IN  /\ creating[r] = role
      /\ Insertable(r, u, role)
      /\ ticket' = [ticket EXCEPT ![r][u] = "pending"]
      /\ creating' = [creating EXCEPT ![r] = next]
      /\ UNCHANGED <<register, transfer, status, overdue, escalatedTo, audit,
                     forced, forcing, patching, job>>

CreateApprovals(r) ==
  \/ CreateApproval(r, "source", "destination")
  \/ CreateApproval(r, "destination", "done")

(* Same ward: nobody is asked, the handler executes the transfer itself. *)
ExecuteUnreviewed(r) ==
  /\ creating[r] = "execute"
  /\ executeTransfer(r)
  /\ creating' = [creating EXCEPT ![r] = "done"]
  /\ UNCHANGED <<transfer, ticket, overdue, escalatedTo, forced, forcing, patching, job>>

(* A statement fails, the transaction rolls back or the server stops: what  *)
(* was committed stays.                                                     *)
AbandonCreate(r) ==
  /\ creating[r] \in {"source", "destination", "execute"}
  /\ creating' = [creating EXCEPT ![r] = "done"]
  /\ UNCHANGED <<register, requests, forcing, patching, job>>

-----------------------------------------------------------------------------
(* ApproveTransfer: one transaction under the row lock of the request *)

(* HasApprovalForUnit runs before the transaction; tickets are never        *)
(* deleted, so what it saw still holds inside.  FOR UPDATE makes status and *)
(* tickets one reading: GetPendingApprovalForUnit finds an undecided ticket *)
(* of the caller's unit.                                                    *)
MayDecideUnlocked(o, r) ==
  getUnitCode(o) # NoUnit /\ ticket[r][getUnitCode(o)] = "pending"
MayDecide(o, r) ==
  /\ status[r] = "pending"
  /\ getUnitCode(o) # NoUnit
  /\ ticket[r][getUnitCode(o)] = "pending"

UpdateApproval(o, r, decision) ==
  ticket' = [ticket EXCEPT ![r][getUnitCode(o)] = decision]

(* Over the tickets the request has now, at least one. *)
checkAnyApproved(decisions) == \E u \in Units : decisions[u] = "approved"
checkAllApproved(decisions) ==
  /\ \E u \in Units : decisions[u] # "none"
  /\ \A u \in Units : decisions[u] \in {"none", "approved"}

(* The tickets are read back after the decision is written. *)
CompletesBeforeUpdate(o, r) == checkAllApproved(ticket[r])
Completes(o, r) ==
  checkAllApproved([ticket[r] EXCEPT ![getUnitCode(o)] = "approved"])

(* The last missing approval carries the transfer out.  When the execution  *)
(* is refused the transaction takes the approval back with it.              *)
ApproveAndExecute(o, r) ==
  /\ MayDecide(o, r)
  /\ Completes(o, r)
  /\ UpdateApproval(o, r, "approved")
  /\ executeTransferInTx(r)
  /\ UNCHANGED <<transfer, overdue, escalatedTo, forced, handlers>>

(* Decision is any string the CHECK lets through: "pending" is legal too.   *)
ApproveAndWait(o, r) ==
  /\ MayDecide(o, r)
  /\ \/ UpdateApproval(o, r, "approved") /\ ~Completes(o, r)
     \/ UpdateApproval(o, r, "pending")
  /\ UNCHANGED <<register, transfer, status, overdue, escalatedTo, audit, forced,
                 handlers>>

UpdateRequestStatusForgotten(r, new) == UNCHANGED status
UpdateRequestStatus(r, new) == status' = [status EXCEPT ![r] = new]

RejectTransfer(o, r) ==
  /\ MayDecide(o, r)
  /\ UpdateApproval(o, r, "rejected")
  /\ UpdateRequestStatus(r, "rejected")
  /\ UNCHANGED <<register, transfer, overdue, escalatedTo, audit, forced, handlers>>

-----------------------------------------------------------------------------
(* ForceApproveTransfer: reads the request without a lock, executes later *)

ForceRead(a, r) ==
  /\ forcing[a] = NoRequest
  /\ status[r] \notin {"absent", "completed", "cancelled"}
  /\ audit' = audit \cup AuditRow("force_approve_transfer", r)
  /\ forcing' = [forcing EXCEPT ![a] = r]
  /\ UNCHANGED <<register, transfer, status, ticket, overdue, escalatedTo, forced,
                 creating, patching, job>>

(* The status is not looked at again. *)
ForceExecute(a) ==
  /\ forcing[a] # NoRequest
  /\ executeTransfer(forcing[a])
  /\ forced' = forced \cup {forcing[a]}
  /\ forcing' = [forcing EXCEPT ![a] = NoRequest]
  /\ UNCHANGED <<transfer, ticket, overdue, escalatedTo, creating, patching, job>>

AbandonForce(a) ==
  /\ forcing[a] # NoRequest
  /\ forcing' = [forcing EXCEPT ![a] = NoRequest]
  /\ UNCHANGED <<register, requests, creating, patching, job>>

-----------------------------------------------------------------------------
(* EscalateExpiredRequests *)

DeadlinePasses(r) ==
  /\ status[r] = "pending"
  /\ r \notin overdue
  /\ overdue' = overdue \cup {r}
  /\ UNCHANGED <<register, transfer, status, ticket, escalatedTo, audit, forced,
                 handlers>>

Escalatable == {r \in overdue : status[r] = "pending" /\ escalatedTo[r] = NoUnit}

ListExpiredPending ==
  /\ listed = {} /\ marked = NoRequest
  /\ Escalatable # {}
  /\ listed' = Escalatable
  /\ UNCHANGED <<register, requests, creating, forcing, patching, marked>>

EscalationTarget(r) == determineEscalationTarget(Level(r), transfer[r].from)

(* The UPDATE carries its own status guard; matching no row is no error. *)
EscalateRequest(r) ==
  /\ r \in listed /\ marked = NoRequest
  /\ EscalationTarget(r) # NoUnit
  /\ escalatedTo' = [escalatedTo EXCEPT ![r] =
                       IF status[r] = "pending" THEN EscalationTarget(r) ELSE @]
  /\ listed' = listed \ {r}
  /\ marked' = r
  /\ UNCHANGED <<register, transfer, status, ticket, overdue, audit, forced,
                 creating, forcing, patching>>

(* A ticket for the higher unit and an audit row, both errors discarded. *)
EscalateApproval(r) ==
  /\ marked = r
  /\ ticket' = IF Insertable(r, EscalationTarget(r), "escalated")
               THEN [ticket EXCEPT ![r][EscalationTarget(r)] = "pending"]
               ELSE ticket
  /\ audit' = audit \cup AuditRow("transfer_escalated", r)
  /\ marked' = NoRequest
  /\ UNCHANGED <<register, transfer, status, overdue, escalatedTo, forced,
                 creating, forcing, patching, listed>>

(* No unit above, or a statement failed: the loop continues. *)
SkipRequest(r) ==
  /\ r \in listed /\ marked = NoRequest
  /\ listed' = listed \ {r}
  /\ UNCHANGED <<register, requests, creating, forcing, patching, marked>>

(* The server stops in the middle of the job. *)
StopJob ==
  /\ listed # {} \/ marked # NoRequest
  /\ listed' = {}
  /\ marked' = NoRequest
  /\ UNCHANGED <<register, requests, creating, forcing, patching>>

-----------------------------------------------------------------------------

HouseholdStep ==
  \/ \E o \in Officers, h \in Households : CreateHousehold(o, h)
  \/ \E o \in Officers, h \in Households, c \in Citizens : AddHouseholdMember(o, h, c)
  \/ \E o \in Officers, c \in Citizens : SoftDeleteCitizen(o, c)

PatchStep(e) ==
  \/ \E c \in Citizens, body \in Patches : PatchRead(e, c, body)
  \/ PatchWrite(e)
  \/ AbandonPatch(e)

CreateStep(r) ==
  \/ \E c \in Citizens, from \in Households, to \in Households :
       ValidateRequest(r, c, from, to)
  \/ CreateRequest(r)
  \/ CreateApprovals(r)
  \/ ExecuteUnreviewed(r)
  \/ AbandonCreate(r)

ApproveStep(o, r) ==
  ApproveAndExecute(o, r) \/ ApproveAndWait(o, r) \/ RejectTransfer(o, r)

ForceStep(a) ==
  (\E r \in Requests : ForceRead(a, r)) \/ ForceExecute(a) \/ AbandonForce(a)

EscalateStep(r) ==
  DeadlinePasses(r) \/ EscalateRequest(r) \/ EscalateApproval(r) \/ SkipRequest(r)

Next ==
  \/ HouseholdStep
  \/ \E e \in Editors : PatchStep(e)
  \/ \E r \in Requests : CreateStep(r) \/ EscalateStep(r)
  \/ \E o \in Officers, r \in Requests : ApproveStep(o, r)
  \/ \E a \in Admins : ForceStep(a)
  \/ ListExpiredPending
  \/ StopJob

Spec == Init /\ [][Next]_vars

-----------------------------------------------------------------------------
(* Properties *)

TypeOK ==
  /\ registered \subseteq Households
  /\ members \in [Households -> SUBSET Citizens]
  /\ residence \in [Citizens -> Addresses]
  /\ deleted \subseteq Citizens
  /\ edited \subseteq Citizens
  /\ transfer \in [Requests -> Transfers \cup {NoTransfer}]
  /\ status \in [Requests -> {"absent", "pending", "rejected", "completed"}]
  /\ ticket \in [Requests -> [Units -> Decisions \cup {"none"}]]
  /\ overdue \subseteq Requests
  /\ escalatedTo \in [Requests -> Units \cup {NoUnit}]
  /\ history \in [Requests -> 0 .. MaxMoves]
  /\ audit \subseteq ({"create", "update", "delete"} \X Requests)
  /\ forced \subseteq Requests
  /\ creating \in [Requests -> CreateSteps]
  /\ forcing \in [Admins -> Requests \cup {NoRequest}]
  /\ patching \in [Editors -> Rows \cup {NoPatch}]
  /\ listed \subseteq Requests
  /\ marked \in Requests \cup {NoRequest}

HasTicket(r) == \E u \in Units : ticket[r][u] # "none"
Refused(r) == \E u \in Units : ticket[r][u] = "rejected"

(* A request never stays open once every unit that has a ticket has         *)
(* answered: while it is pending and has tickets, one of them is undecided  *)
(* and none is a refusal.  The decision and its consequence commit          *)
(* together, whatever is inserted beside them.                              *)
PendingAwaitsADecision ==
  \A r \in Requests :
    status[r] = "pending" /\ HasTicket(r) =>
      ~Refused(r) /\ \E u \in Units : ticket[r][u] = "pending"

(* One refusal stops a request: it is rejected, and it moves somebody only  *)
(* if an administrator forces it.  Conversely a rejected request carries    *)
(* the refusal of some unit.                                                *)
RefusalStops ==
  \A r \in Requests :
    /\ Refused(r) => status[r] = "rejected" \/ r \in forced
    /\ status[r] = "rejected" => Refused(r)

(* A transfer between wards that no administrator forced has been approved  *)
(* by the unit the citizen leaves, however its approvals interleaved with   *)
(* the handler that was still writing the tickets.                          *)
SourceConsents ==
  \A r \in Requests :
    status[r] = "completed" /\ r \notin forced /\ Level(r) # "none" =>
      ticket[r][Approvals(r)["source"]] = "approved"

(* A completed request has moved its citizen, exactly once unless forced;   *)
(* a request that is not completed has moved nobody.                        *)
MovesOnce ==
  \A r \in Requests :
    /\ status[r] = "completed" <=> history[r] > 0
    /\ r \notin forced => history[r] <= 1

(* The register and the address agree: a citizen some transfer has moved,   *)
(* who is not deleted and whose address no PATCH has changed since, is an   *)
(* active member of a household at the address the citizens row states.     *)
ResidenceFollowsHousehold ==
  \A r \in Requests :
    LET c == transfer[r].citizen
    IN  history[r] > 0 /\ c \notin deleted \cup edited =>
          \E h \in Households : c \in members[h] /\ residence[c] = Address(h)

(* A decision is final, and a request that is no longer pending takes no    *)
(* further decision: at most a ticket its creator is still writing appears. *)
ClosedTakesNoDecision ==
  [][\A r \in Requests, u \in Units :
       ticket'[r][u] # ticket[r][u] =>
         \/ ticket[r][u] = "none" /\ ticket'[r][u] = "pending"
         \/ ticket[r][u] = "pending" /\ status[r] = "pending"]_vars

HasHome(c) == \E h \in Households : c \in members[h]

(* Moving never passes through homelessness: a citizen who belongs to a     *)
(* household belongs to one after every step.                               *)
NobodyLosesTheirHousehold ==
  [][\A c \in Citizens : HasHome(c) => HasHome(c)']_vars

(* The workflow implements the register it promises. *)
Promise == INSTANCE HouseholdRegister WITH
  home <- members,
  order <- [r \in Requests |->
              IF status[r] = "absent" THEN NoTransfer ELSE transfer[r]],
  phase <- status,
  overridden <- forced
KeepsThePromise == Promise!Spec

-----------------------------------------------------------------------------
(* What the repository says and the code does not do *)

(* EscalateExpiredRequests creates "a new approval for the escalated level":*)
(* once the job is past that statement for a request it has marked, the     *)
(* unit in escalated_to holds a ticket to decide on.                        *)
EscalatedUnitHoldsTicket ==
  [][\A r \in Requests :
       EscalateApproval(r) /\ escalatedTo[r] # NoUnit =>
         ticket'[r][escalatedTo[r]] # "none"]_vars

(* "Only the fields sent (non-nil) are changed": a PATCH leaves the address  *)
(* columns its body does not carry as they are when it commits.             *)
OnlySentFieldsChange ==
  [][\A e \in Editors :
       PatchWrite(e) =>
         \A i \in Columns \ patching[e].sent :
           residence'[patching[e].citizen][i] = residence[patching[e].citizen][i]]_vars

(* 011_seed_test.sql on a completed request: every unit has approved.       *)
CompletedMeansAllApproved ==
  \A r \in Requests :
    status[r] = "completed" /\ r \notin forced /\ Level(r) # "none" =>
      \A role \in {"source", "destination"} :
        ticket[r][Approvals(r)[role]] = "approved"
=============================================================================
