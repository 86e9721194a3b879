-------------------------- MODULE HouseholdRegister --------------------------
(***************************************************************************)
(* What the transfer workflow promises about the register of households,   *)
(* with no handlers, tickets, deadlines or transactions in sight:          *)
(*                                                                         *)
(*   - a citizen changes household in one indivisible step;                *)
(*   - an ordinary request moves the citizen at most once, and only while  *)
(*     it is open;                                                         *)
(*   - a refused or already executed request moves somebody only when an   *)
(*     administrator overrides it;                                         *)
(*   - nothing ever turns an executed request into anything else.          *)
(*                                                                         *)
(* TransferWorkflow implements this specification.                         *)
(***************************************************************************)

CONSTANTS Citizens, Households, Requests, NoTransfer,
          SeedMembers   \* the register the service starts from

VARIABLES
  home,        \* home[h]: the active members of household h
  order,       \* order[r]: who request r moves, from where, to where
  phase,       \* "absent", "pending", "rejected" or "completed"
  overridden   \* requests an administrator executed outside the procedure

vars == <<home, order, phase, overridden>>

Transfers == [citizen : Citizens, from : Households, to : Households]

Init ==
  /\ home = SeedMembers
  /\ order = [r \in Requests |-> NoTransfer]
  /\ phase = [r \in Requests |-> "absent"]
  /\ overridden = {}

Submit(r) ==
  /\ phase[r] = "absent"
  /\ \E t \in Transfers : order' = [order EXCEPT ![r] = t]
  /\ phase' = [phase EXCEPT ![r] = "pending"]
  /\ UNCHANGED <<home, overridden>>

Refuse(r) ==
  /\ phase[r] = "pending"
  /\ phase' = [phase EXCEPT ![r] = "rejected"]
  /\ UNCHANGED <<home, order, overridden>>

(* A citizen leaves one household and joins the other, or nothing happens:  *)
(* joining a household one is an active member of is impossible.            *)
Move(t) ==
  /\ t.from = t.to \/ t.citizen \notin home[t.to]
  /\ home' = [h \in Households |->
                IF h = t.to THEN home[h] \cup {t.citizen}
                ELSE IF h = t.from THEN home[h] \ {t.citizen}
                ELSE home[h]]

Carry(r) ==
  /\ phase[r] = "pending"
  /\ Move(order[r])
  /\ phase' = [phase EXCEPT ![r] = "completed"]
  /\ UNCHANGED <<order, overridden>>

Override(r) ==
  /\ phase[r] # "absent"
  /\ Move(order[r])
  /\ phase' = [phase EXCEPT ![r] = "completed"]
  /\ overridden' = overridden \cup {r}
  /\ UNCHANGED order

(* An officer enters a citizen into a household by hand. *)
Enrol(h, c) ==
  /\ c \notin home[h]
  /\ home' = [home EXCEPT ![h] = @ \cup {c}]
  /\ UNCHANGED <<order, phase, overridden>>

Next ==
  \/ \E r \in Requests : Submit(r) \/ Refuse(r) \/ Carry(r) \/ Override(r)
  \/ \E h \in Households, c \in Citizens : Enrol(h, c)

Spec == Init /\ [][Next]_vars
=============================================================================
