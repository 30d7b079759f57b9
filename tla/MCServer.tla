------------------------------ MODULE MCServer ------------------------------
(* One title, a check of the administration and a run of the job at a time,  *)
(* two requests, three calls of getToken, two clerks.                        *)
EXTENDS Server
Operations == [p \in Parts |-> CASE p = "stream" -> 2 [] p = "tokens" -> 6 [] OTHER -> 3]
=============================================================================
