------------------------- MODULE MCWorkflowTurns ---------------------------
(* One root terminal with one API thread and one other poller.  There is a  *)
(* crash or a lapsed token, a policy outcome, or a second workflow.         *)
EXTENDS WorkflowTurns
Ends == {t \in Turns : turn[t].cursor = "outcome"}
Budget == faults + Cardinality(Ends) + nw <= 2
=============================================================================
