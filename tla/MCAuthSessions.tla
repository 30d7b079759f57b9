--------------------------- MODULE MCAuthSessions --------------------------
(***************************************************************************)
(* Instances of AuthSessions for TLC.                                      *)
(***************************************************************************)
EXTENDS AuthSessions, TLC

Symmetry == Permutations(Calls)

=============================================================================
