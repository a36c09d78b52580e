------------------------- MODULE MCSupervisorTakeover -------------------------
(* Small instances of SupervisorTakeover, whose constants are numbers.       *)
EXTENDS SupervisorTakeover
=============================================================================
