---------------------------- MODULE MCMembership ----------------------------
(***************************************************************************)
(* Instances of Membership for TLC.                                        *)
(***************************************************************************)
EXTENDS Membership, TLC

\* Nothing tells the persons apart, nor the calls of one kind, and there is no liveness
\* property.
Symmetry == Permutations(Users) \cup Permutations(Invites) \cup Permutations(Accepts)
            \cup Permutations(Removals)

=============================================================================
