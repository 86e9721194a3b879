--------------------------- MODULE MCOfficerPosts ---------------------------
(* Instances of OfficerPosts for TLC. *)
EXTENDS OfficerPosts, TLC

CONSTANTS r1, r2, u1

MCScopes == [role : Roles, unit : Units]
MCSeedScope == [role |-> r1, unit |-> u1]

MCSymmetry == Permutations(Tokens) \cup Permutations(Calls) \cup Permutations(Admins)
                \cup Permutations(Posts)
=============================================================================
