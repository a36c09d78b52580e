-------------------------- MODULE MCWorkflowEffects --------------------------
(* Small instances of WorkflowEffects.                                       *)
EXTENDS WorkflowEffects, SequencesExt

CONSTANTS k1

MCKeyOrder == LET s == SetToSeq(Keys) IN [k \in Keys |-> CHOOSE i \in DOMAIN s : s[i] = k]
=============================================================================
