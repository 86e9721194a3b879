------------------------- MODULE MCTransferWorkflow -------------------------
(***************************************************************************)
(* A small country for TransferWorkflow: h1 and h2 in neighbouring wards of *)
(* one district, h3 in another province, not registered at the start.      *)
(* Moves of level "none" are those within a household's own ward.          *)
(***************************************************************************)
EXTENDS TransferWorkflow, TLC

CONSTANTS h1, h2, h3, w1, w2, w3, d1, d2, p1, p2

Map(x, y, z) == [h \in Households |-> CASE h = h1 -> x [] h = h2 -> y [] h = h3 -> z]
MCWard     == Map(w1, w2, w3)
MCDistrict == Map(d1, d1, d2)
MCProvince == Map(p1, p1, p2)

Officer(role, unit) == [role |-> role, unit |-> unit]

(* The units that decide on moves between these households, and for each    *)
(* household an officer who may manage it.                                  *)
MCOfficers ==
  {Officer("ward_officer", w) : w \in {w1, w2, w3}}
    \cup {Officer("province_manager", p) : p \in {p1, p2}}

(* The same with a national manager, who may also delete citizens. *)
MCAllOfficers == MCOfficers \cup {Officer("national_manager", NoUnit)}

(* Everybody lives in h1, where the citizens rows say they do. *)
MCSeedMembers == [h \in Households |-> IF h = h1 THEN Citizens ELSE {}]
MCSeedAddress == [c \in Citizens |-> Address(h1)]

(* One body leaves the address alone, one asks for the ward next door.      *)
MCPatches ==
  {[sent |-> {}, asked |-> Address(h1)], [sent |-> {3}, asked |-> Address(h2)]}

(* Requests, citizens, administrators and editors are interchangeable. *)
MCSymmetry ==
  Permutations(Requests) \cup Permutations(Citizens) \cup Permutations(Admins)
    \cup Permutations(Editors)
=============================================================================
