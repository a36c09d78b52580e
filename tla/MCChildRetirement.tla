-------------------------- MODULE MCChildRetirement --------------------------
(* The instance of ChildRetirement that TLC checks.                          *)
EXTENDS ChildRetirement
=============================================================================
