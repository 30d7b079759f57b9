-------------------------- MODULE MCUsageSessions --------------------------
(***************************************************************************)
(* Instances of UsageSessions for TLC.  Devices d1 and d2 belong to u1 and *)
(* are in account a1; the other devices, when there are any, belong to u2. *)
(***************************************************************************)
EXTENDS UsageSessions, TLC

CONSTANTS u1, u2, d1, d2, d3, a1

MCOwnerOf == [d \in Devices |-> IF d = d3 THEN u2 ELSE u1]
MCAccountOf == [d \in Devices |-> a1]

Symmetry == Permutations(Requests)

=============================================================================
