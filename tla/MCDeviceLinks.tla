--------------------------- MODULE MCDeviceLinks ---------------------------
(***************************************************************************)
(* Instances of DeviceLinks for TLC.  All the approvals are about one link *)
(* but the one called a3, when there is one.                               *)
(***************************************************************************)
EXTENDS DeviceLinks, TLC

CONSTANTS l1, l2, a3

MCLinkOf == [a \in Approvals |-> IF a = a3 THEN l2 ELSE l1]

=============================================================================
