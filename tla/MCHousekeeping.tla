---------------------------- MODULE MCHousekeeping ----------------------------
(* One operation, one path and one Session workspace, launched into once, and  *)
(* one of the two changed once, meet a helper, a run, a deletion, the tick and *)
(* one crash.  With MCHousekeeping_stuck: a path and a linked worktree.        *)
EXTENDS Housekeeping
CONSTANTS p1, t1, s1
===============================================================================
