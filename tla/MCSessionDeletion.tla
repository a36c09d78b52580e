-------------------------- MODULE MCSessionDeletion --------------------------
(* The instance of SessionDeletion that TLC checks.                          *)
EXTENDS SessionDeletion
=============================================================================
