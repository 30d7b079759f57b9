--------------------------- MODULE LinkHandshake ---------------------------
(***************************************************************************)
(* What a device link promises, whatever the order of approvals and polls: *)
(* an approval opens a grant of its link and closes the grant that was     *)
(* open, and an open grant is taken once, or never.                        *)
(***************************************************************************)
EXTENDS Naturals

CONSTANTS
    Approvals,
    Links,
    LinkOf      \* the link each approval is about

VARIABLES
    grant,      \* none, open, taken or replaced
    taken       \* how many times each grant was taken

vars == <<grant, taken>>

Init ==
    /\ grant = [a \in Approvals |-> "none"]
    /\ taken = [a \in Approvals |-> 0]

Open(a) ==
    /\ grant[a] = "none"
    /\ grant' = [b \in Approvals |->
          IF b = a THEN "open"
          ELSE IF LinkOf[b] = LinkOf[a] /\ grant[b] = "open" THEN "replaced" ELSE grant[b]]
    /\ UNCHANGED taken

Take(a) ==
    /\ grant[a] = "open"
    /\ grant' = [grant EXCEPT ![a] = "taken"]
    /\ taken' = [taken EXCEPT ![a] = @ + 1]

Next == \E a \in Approvals : Open(a) \/ Take(a)

Spec == Init /\ [][Next]_vars

=============================================================================
