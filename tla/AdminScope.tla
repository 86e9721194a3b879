----------------------------- MODULE AdminScope -----------------------------
(***************************************************************************)
(* The administrative geography of the population service and the pure     *)
(* decisions the transfer service takes from it: which level has to        *)
(* approve a change of household, which units receive a ticket, where an   *)
(* overdue request goes, and what an officer may act on.                   *)
(*                                                                         *)
(* A household row carries three codes (ward_code, district_code,          *)
(* province_code), each with its own foreign key.  Nothing in the schema   *)
(* ties the three together, so no hierarchy is assumed here: two           *)
(* households of one ward may name different provinces.                    *)
(***************************************************************************)

CONSTANTS Households,   \* rows of households (their codes never change)
          Units,        \* administrative unit codes
          Ward,         \* households.ward_code
          District,     \* households.district_code
          Province,     \* households.province_code
          NoUnit        \* the empty string / NULL where a code is expected

(* The three columns are NOT NULL foreign keys (008_household_transfer.sql) *)
ASSUME HouseholdCodes ==
  /\ Ward \in [Households -> Units]
  /\ District \in [Households -> Units]
  /\ Province \in [Households -> Units]
  /\ NoUnit \notin Units

ApprovalLevels == {"none", "ward", "district", "province"}

UnitRoles == {"ward_officer", "district_manager", "province_manager"}
NationalRoles == {"super_admin", "national_manager"}

(* A caller of a write endpoint, as its JWT claims describe it: one of the  *)
(* roles the router lets through, and the unit code that role is scoped by. *)
Claims == [role : UnitRoles \cup NationalRoles, unit : Units \cup {NoUnit}]

-----------------------------------------------------------------------------

(* The highest level at which the two households differ, tested from the    *)
(* ward outwards, each column on its own.                                   *)
determineApprovalLevel(from, to) ==
  IF Ward[from] = Ward[to] THEN "none"
  ELSE IF District[from] = District[to] THEN "ward"
  ELSE IF Province[from] = Province[to] THEN "district"
  ELSE "province"

UnitAt(level, h) ==
  IF level = "ward" THEN Ward[h]
  ELSE IF level = "district" THEN District[h]
  ELSE IF level = "province" THEN Province[h]
  ELSE NoUnit

(* One ticket for each side, at the level both have to approve.  Level      *)
(* "none" needs no ticket and has no unit here.                             *)
buildApprovals(from, to) ==
  [role \in {"source", "destination"} |->
     UnitAt(determineApprovalLevel(from, to),
            IF role = "source" THEN from ELSE to)]

(* One level up from the level that did not answer, on the source side.     *)
determineEscalationTarget(level, from) ==
  IF level = "ward" THEN District[from]
  ELSE IF level = "district" THEN Province[from]
  ELSE NoUnit

getUnitCode(claims) ==
  IF claims.role \in UnitRoles THEN claims.unit ELSE NoUnit

canManageUnit(claims, h) ==
  \/ claims.role \in NationalRoles
  \/ claims.role = "ward_officer"     /\ claims.unit = Ward[h]
  \/ claims.role = "district_manager" /\ claims.unit = District[h]
  \/ claims.role = "province_manager" /\ claims.unit = Province[h]

(* The row an executed transfer writes to citizens (UpdateResidence).       *)
Address(h) == <<Province[h], District[h], Ward[h]>>
=============================================================================
