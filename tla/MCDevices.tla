----------------------------- MODULE MCDevices -----------------------------
(***************************************************************************)
(* Instances of Devices for TLC.  Installations i1 and i2 are the same     *)
(* machine, before and after the application was installed again.          *)
(***************************************************************************)
EXTENDS Devices, TLC

CONSTANTS i1, i2

MCHardwareOf == [i \in Installations |-> IF i = i2 THEN i1 ELSE i]

Symmetry == Permutations(Calls)

=============================================================================
