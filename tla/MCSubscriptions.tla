-------------------------- MODULE MCSubscriptions --------------------------
(***************************************************************************)
(* Instances of Subscriptions for TLC: a monthly plan and one for life, and *)
(* codes for a trial of one period.  What a PREPAID code does, a manual     *)
(* payment of the monthly plan does too, and a LIFETIME code is like a      *)
(* payment of the plan for life.                                            *)
(***************************************************************************)
EXTENDS Subscriptions, TLC

CONSTANTS monthly, lifetime

MCKindOf == [c \in Codes |-> "TRIAL"]
MCPlanOf == [c \in Codes |-> monthly]
MCLengthOf == [c \in Codes |-> 1]

\* Nothing tells the grants apart, nor the codes, and no property is a liveness property.
GrantsAndCodes == Permutations(Grants) \cup Permutations(Codes)

=============================================================================
