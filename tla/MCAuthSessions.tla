--------------------------- MODULE MCAuthSessions ---------------------------
(* Instances of AuthSessions for TLC. *)
EXTENDS AuthSessions, TLC

MCSymmetry == Permutations(Tokens) \cup Permutations(Calls) \cup Permutations(Admins)
=============================================================================
