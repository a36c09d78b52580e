------------------------- MODULE MCManagedAttempts -------------------------
(***************************************************************************)
(* Instances of ManagedAttempts for TLC; the constants are in the .cfg.    *)
(***************************************************************************)
EXTENDS ManagedAttempts
=============================================================================
