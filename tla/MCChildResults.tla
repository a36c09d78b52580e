--------------------------- MODULE MCChildResults ---------------------------
(* ChildResults for TLC: one assigned child and two handoffs, never ordered *)
(* by their ids.                                                            *)
EXTENDS ChildResults
CONSTANTS h1, h2
LOCAL INSTANCE TLC

HandoffSymmetry == Permutations(Handoffs)

(* What happens once in a while shares a budget: two handoffs end, with the *)
(* retry of a paste; or one child does, and there is a crash, a lapsed      *)
(* claim, a resume or the recovery of an exit.                              *)
Ended == exited \cup {inbox[n].of : n \in 1..nn}
Resumes == Cardinality({u \in Turns : turn[u].kind = "execution_resume"})
Recovered == Cardinality({c \in Handoffs : cycles[c] > 0})
Retried == Cardinality({u \in Turns : turn[u].attempts > 1})
Rare == faults + Resumes + Recovered
Budget == /\ Rare + Cardinality(Ended) <= 2 /\ Rare + nn <= 2
          /\ Ended \subseteq Handoffs \/ Cardinality(Ended) = 1
          /\ Retried > 0 => Retried = 1 /\ Rare = 0 /\ exited = {}
=============================================================================
