------------------------- MODULE HousekeepingProofs --------------------------
(***************************************************************************)
(* Full Cleanup beside agents, ordinary runs, Session deletions, the tick  *)
(* and the deaths of every process, for any items, operations and crashes; *)
(* and in the last two sections the retirement of a child, which           *)
(* housekeeping finishes.                                                  *)
(***************************************************************************)
EXTENDS Housekeeping, ChildRetirement, TLAPS

(* The operation rows are the fence: one is open at most, no agent executes *)
(* and no run works beside it, and a helper past its claim has its row.     *)
Active(o) == state[o] \in {"admitted", "running"}
Working(o) == helper[o] \in {"claimed", "privileged", "runtime"}
Fenced ==
  /\ \A o, p \in Ops : Active(o) /\ Active(p) => o = p
  /\ \A o \in Ops : Active(o) => agent = "idle" /\ run = "none"
  /\ \A o \in Ops : Working(o) => state[o] = "running"

(* A helper is started once, by the request of its own operation.           *)
StartedOnce ==
  /\ Requesting => apiOp \in Ops /\ state[apiOp] # "none"
  /\ api = "admitted" => helper[apiOp] = "none"
  /\ \A o \in Ops : state[o] = "none" => helper[o] = "none"

(* What was picked for removal stays unprotected until it is removed: no    *)
(* agent executes beside a helper, and a launch waits for a run's worktree. *)
PickIsFree ==
  /\ \A o \in Ops : /\ pick[o] # NoPick => /\ Removing(o)
                                           /\ pick[o].of \in todo[o]
                                           /\ ~held[pick[o].of.item]
                    /\ Removing(o) => todo[o] \subseteq plan[o]
  /\ runPick # NoPick => run = "run" /\ runPick.of \in runTodo
  /\ AtTree(runPick) => ~held[runPick.of.item]

(* What a row says of its helper's work: nothing was removed before the     *)
(* second look, and under a clean result only what is still to do is there. *)
Accounted ==
  \A o \in Ops :
    /\ removed[o] => state[o] = "running" /\ helper[o] # "claimed"
    /\ pick[o] # NoPick /\ pick[o].at = "gone" => ~there[pick[o].of.item]
    /\ Removing(o) /\ result[o] = "clean" =>
         \A c \in plan[o] : \/ ~there[c.item]
                            \/ c \in todo[o]
                            \/ helper[o] = "privileged" /\ c.item \notin Paths

(* Once claimed, a Session workspace keeps the authority it was claimed     *)
(* under and takes no agent, so whoever is past its claim works under it.   *)
Bound(p) == p # NoPick /\ p.at # "picked" =>
  /\ p.of.item \in Spaces
  /\ ctx[p.of.item].state # "admitted" /\ ctx[p.of.item].auth = p.of.auth
Claims ==
  /\ \A i \in Spaces : ctx[i].state # "admitted" => ctx[i].auth = authority[i] /\ ~held[i]
  /\ deleting # NoItem => ctx[deleting].state # "admitted"
  /\ \A o \in Ops : Bound(pick[o])
  /\ Bound(runPick)
  /\ Bound(mend)

(* Whoever may lose content no commit keeps was given that consent for this *)
(* very authority: in a claim, a plan, or a candidate taken from either.    *)
Backed(c) == c.allow => c.item \in Spaces /\ c.auth \in agreed[c.item]
Consented ==
  /\ \A i \in Paths : ~dirty[i]
  /\ \A i \in Spaces : ctx[i].dirty => ctx[i].state # "admitted" /\ ctx[i].auth \in agreed[i]
  /\ \A o \in Ops : \A c \in plan[o] : Backed(c)
  /\ \A c \in runTodo : Backed(c)
  /\ mend # NoPick => mend.of.item \in Spaces /\ Backed(mend.of)

(* The inductive invariant.                                                 *)
IInv == TypeOK /\ Fenced /\ StartedOnce /\ PickIsFree /\ Accounted /\ Claims /\ Consented

-----------------------------------------------------------------------------
States == {"none", "admitted", "running", "completed", "issues", "failed", "indeterminate"}
Outcomes == Stages \cup {"done", "failed"}

(* New states leave the rows what they are.                                 *)
LEMMA RowsType ==
  ASSUME TypeOK, NEW new \in [Ops -> States], SetRows(new)
  PROVE  /\ state' \in [Ops -> States]
         /\ plan' \in [Ops -> Plans]
         /\ consent' \in [Ops -> BOOLEAN]
         /\ removed' \in [Ops -> BOOLEAN]
  BY DEF TypeOK, SetRows, Plans

(* A candidate names an item, and a plan is a set of candidates.            *)
LEMMA CandidateType ==
  ASSUME TypeOK, NEW i \in Items, NEW allow \in BOOLEAN
  PROVE  CandidateOf(i, allow) \in Candidates
<1>1. version[i] \in 0 .. MaxTouches /\ authority[i] \in 0 .. MaxLaunches /\ dirty[i] \in BOOLEAN
  BY DEF TypeOK
<1>2. (IF allow THEN 0 ELSE version[i]) \in 0 .. MaxTouches
  BY <1>1, BoundsAssumption
<1>3. (allow /\ dirty[i]) \in BOOLEAN
  BY <1>1
<1> QED BY <1>1, <1>2, <1>3 DEF CandidateOf, Candidates

LEMMA PlanType == ASSUME TypeOK, NEW asked \in BOOLEAN PROVE Plan(asked) \in Plans
<1>1. ASSUME NEW i \in Items PROVE Allows(i, asked) \in BOOLEAN
  BY DEF Allows
<1> QED BY <1>1, CandidateType DEF Plan, Plans

(* What a process has picked is a candidate for an item.                    *)
LEMMA PickParts ==
  ASSUME NEW p \in Picks
  PROVE  /\ p.of \in Candidates /\ p.of.item \in Items /\ p.at \in Stages
         /\ p.of.allow \in BOOLEAN /\ p.of.auth \in 0 .. MaxLaunches
  BY DEF Picks, Candidates

(* The disk and the contexts keep their types while a Space is retired, and *)
(* the process that does it has it still, or nothing.                       *)
LEMMA AdvanceType ==
  ASSUME TypeOK, NEW p \in Picks, NEW next \in Outcomes, Advance(p, next)
  PROVE  /\ there' \in [Items -> BOOLEAN] /\ dirty' \in [Items -> BOOLEAN]
         /\ ctx' \in [Spaces -> Contexts]
         /\ After(p, next) \in Picks \cup {NoPick}
<1>1. After(p, next) \in Picks \cup {NoPick}
  BY PickParts DEF After, Picks
<1>2. [state |-> "retiring", dirty |-> p.of.allow, auth |-> p.of.auth] \in Contexts
  BY PickParts DEF Contexts
<1>3. ClaimFor(p.of) \in [Spaces -> Contexts]
  BY <1>2 DEF ClaimFor, TypeOK
<1>4. Retired(p.of.item) \in [Spaces -> Contexts]
  BY DEF Retired, TypeOK, Contexts
<1> QED BY <1>1, <1>3, <1>4 DEF Advance, Vanish, TypeOK

(* The variables keep their types at every step.                            *)
LEMMA NextType == TypeOK /\ [Next]_vars => TypeOK'
<1> SUFFICES ASSUME TypeOK, [Next]_vars PROVE TypeOK'
  OBVIOUS
<1> USE DEF TypeOK, Ops, NoOp, itemVars, diskVars, spaceVars, apiVars, rowVars, helperVars, runVars, taskVars
<1>1. ASSUME AdmitWork PROVE TypeOK'
  BY <1>1 DEF AdmitWork
<1>2. ASSUME WorkEnds PROVE TypeOK'
  BY <1>2 DEF WorkEnds
<1>3. ASSUME NEW i \in Items, Open(i) PROVE TypeOK'
  BY <1>3 DEF Open
<1>4. ASSUME NEW i \in Items, Launch(i) PROVE TypeOK'
  <2>1. CASE i \in Spaces
    <3>1. authority[i] + 1 \in 0 .. MaxLaunches
      BY <1>4, <2>1, BoundsAssumption DEF Launch
    <3> QED BY <1>4, <2>1, <3>1 DEF Launch
  <2>2. CASE i \notin Spaces
    BY <1>4, <2>2 DEF Launch
  <2> QED BY <2>1, <2>2
<1>5. ASSUME NEW i \in Items, Release(i) PROVE TypeOK'
  BY <1>5 DEF Release
<1>6. ASSUME NEW i \in Items, NEW yes \in BOOLEAN, Touch(i, yes) PROVE TypeOK'
  BY <1>6, BoundsAssumption DEF Touch
<1>7. ASSUME NEW i \in Items, NEW yes \in BOOLEAN, DeleteStarts(i, yes) PROVE TypeOK'
  <2>1. CandidateOf(i, yes).allow = yes /\ CandidateOf(i, yes).auth = authority[i]
    BY DEF CandidateOf
  <2>2. [state |-> "retiring", dirty |-> yes, auth |-> authority[i]] \in Contexts
    BY DEF Contexts
  <2>3. ctx' \in [Spaces -> Contexts]
    BY <1>7, <2>1, <2>2 DEF DeleteStarts, ClaimFor
  <2>4. agreed' \in [Spaces -> SUBSET (0 .. MaxLaunches)]
    BY <1>7 DEF DeleteStarts
  <2> QED BY <1>7, <2>3, <2>4 DEF DeleteStarts
<1>8. ASSUME DeleteEnds PROVE TypeOK'
  <2>1. Retired(deleting) \in [Spaces -> Contexts]
    BY DEF Retired, Contexts
  <2> QED BY <1>8, <2>1 DEF DeleteEnds, Vanish
<1>9. ASSUME NEW i \in Spaces, MendPick(i) PROVE TypeOK'
  <2>1. Allows(i, FALSE) \in BOOLEAN /\ i \in Items
    BY DEF Allows, Items
  <2>2. [of |-> CandidateOf(i, Allows(i, FALSE)), at |-> "picked"] \in Picks
    BY <2>1, CandidateType DEF Picks, Stages
  <2> QED BY <1>9, <2>2 DEF MendPick
<1>10. ASSUME Mend PROVE TypeOK'
  <2>1. PICK next \in Outcomes : Advance(mend, next) /\ mend' = After(mend, next)
    BY <1>10 DEF Mend, Outcomes
  <2>2. mend \in Picks
    BY <1>10 DEF Mend
  <2> QED BY <1>10, <2>1, <2>2, AdvanceType DEF Mend
<1>11. ASSUME NEW o \in Ops, NEW yes \in BOOLEAN, Confirm(o, yes) PROVE TypeOK'
  <2>1. Plan(yes) \in Plans
    BY PlanType
  <2>2. agreed' \in [Spaces -> SUBSET (0 .. MaxLaunches)]
    BY <1>11 DEF Confirm, Items
  <2> QED BY <1>11, <2>1, <2>2 DEF Confirm
<1>12. ASSUME Send PROVE TypeOK'
  BY <1>12 DEF Send, SetApi
<1>13. ASSUME TransportFails PROVE TypeOK'
  BY <1>13 DEF TransportFails, SetApi
<1>14. ASSUME Answered PROVE TypeOK'
  BY <1>14 DEF Answered, ReturnApi, SetHelper
<1>15. ASSUME RecoverSettles PROVE TypeOK'
  BY <1>15 DEF RecoverSettles, SetRows, ReturnApi, Plans
<1>16. ASSUME RecoverReconciles PROVE TypeOK'
  BY <1>16 DEF RecoverReconciles, SetRows, ReconcileRows, Reconciled, ReturnApi, Plans
<1>17. ASSUME Poll PROVE TypeOK'
  BY <1>17 DEF Poll, SetRows, ReconcileRows, Reconciled, Plans
<1>18. ASSUME ApiCrash PROVE TypeOK'
  BY BoundsAssumption, <1>18 DEF ApiCrash
<1>19. ASSUME ApiStart PROVE TypeOK'
  BY <1>19 DEF ApiStart, SetRows, ReconcileRows, Reconciled, Plans
<1>20. ASSUME NEW o \in Ops, Prove(o) PROVE TypeOK'
  <2>1. CASE Requesting
    BY <1>20, <2>1 DEF Prove, SetHelper
  <2>2. CASE ~Requesting
    <3>1. EndHelper(o, TRUE) /\ UNCHANGED <<itemVars, agent, apiVars, rowVars, runVars, taskVars, crashes>>
      BY <1>20, <2>2 DEF Prove
    <3> QED BY <3>1 DEF EndHelper, SetHelper, Plans
  <2> QED BY <2>1, <2>2
<1>21. ASSUME NEW o \in Ops, RefuseEarly(o) PROVE TypeOK'
  BY <1>21 DEF RefuseEarly, EndHelper, SetHelper, Plans
<1>22. ASSUME NEW o \in Ops, Claim(o) PROVE TypeOK'
  BY <1>22 DEF Claim, Claimable, EndHelper, SetHelper, Plans
<1>23. ASSUME NEW o \in Ops, Gate(o) PROVE TypeOK'
  <2>1. CASE IdleGate /\ Plan(consent[o]) = plan[o]
    <3>1. Privileged(plan[o]) \in Plans
      BY DEF Privileged, Plans
    <3> QED BY <1>23, <2>1, <3>1 DEF Gate, SetHelper
  <2>2. CASE ~(IdleGate /\ Plan(consent[o]) = plan[o])
    <3>1. [state EXCEPT ![o] = IF @ = "running" THEN "failed" ELSE @] \in [Ops -> States]
      BY DEF States
    <3>2. SetRows([state EXCEPT ![o] = IF @ = "running" THEN "failed" ELSE @])
      BY <1>23, <2>2 DEF Gate
    <3>3. /\ state' \in [Ops -> States] /\ plan' \in [Ops -> Plans]
          /\ consent' \in [Ops -> BOOLEAN] /\ removed' \in [Ops -> BOOLEAN]
      BY <3>1, <3>2, RowsType
    <3>4. /\ EndHelper(o, TRUE)
          /\ UNCHANGED <<itemVars, agent, apiVars, report, runVars, taskVars, crashes>>
      BY <1>23, <2>2 DEF Gate
    <3> QED BY <3>3, <3>4 DEF States, EndHelper, SetHelper, Plans
  <2> QED BY <2>1, <2>2
<1>24. ASSUME NEW o \in Ops, NEW c \in todo[o], Recheck(o, c) PROVE TypeOK'
  <2>1. c \in Candidates /\ todo[o] \ {c} \in Plans
    BY DEF Plans
  <2>2. CASE Eligible(c)
    <3>1. [of |-> c, at |-> "picked"] \in Picks
      BY <2>1 DEF Picks, Stages
    <3> QED BY <1>24, <2>2, <3>1 DEF Recheck
  <2>3. CASE ~Eligible(c)
    <3>1. PICK fails \in Verdicts(c) : result' = [result EXCEPT ![o] = Worst(@, fails)]
      BY <1>24, <2>3 DEF Recheck
    <3>2. Worst(result[o], fails) \in {"clean", "skips", "fails"}
      BY DEF Worst
    <3>3. result' \in [Ops -> {"clean", "skips", "fails"}]
      BY <3>1, <3>2
    <3> QED BY <1>24, <2>1, <2>3, <3>3 DEF Recheck
  <2> QED BY <2>2, <2>3
<1>25. ASSUME NEW o \in Ops, Remove(o) PROVE TypeOK'
  <2> DEFINE c == pick[o].of
  <2>1. todo[o] \ {c} \in Plans
    BY DEF Plans
  <2>2. Worst(result[o], there[c.item] \/ c.item \in Trees) \in {"clean", "skips", "fails"}
    BY DEF Worst
  <2>3. CASE Intact(c)
    BY <1>25, <2>1, <2>3 DEF Remove, Vanish
  <2>4. CASE ~Intact(c)
    BY <1>25, <2>1, <2>2, <2>4 DEF Remove
  <2> QED BY <2>3, <2>4
<1>26. ASSUME NEW o \in Ops, Retire(o) PROVE TypeOK'
  <2> DEFINE c == pick[o].of
  <2>1. PICK next \in Outcomes :
          /\ Advance(pick[o], next)
          /\ pick' = [pick EXCEPT ![o] = After(@, next)]
          /\ todo' = [todo EXCEPT ![o] = IF next \in Stages THEN @ ELSE @ \ {c}]
          /\ result' = [result EXCEPT ![o] = IF next = "failed" THEN Worst(@, TRUE) ELSE @]
          /\ removed' = [removed EXCEPT ![o] = @ \/ (there[c.item] /\ ~there'[c.item])]
    BY <1>26 DEF Retire, Outcomes
  <2>2. pick[o] \in Picks
    BY <1>26 DEF Retire
  <2>3. /\ there' \in [Items -> BOOLEAN] /\ dirty' \in [Items -> BOOLEAN]
        /\ ctx' \in [Spaces -> Contexts]
        /\ After(pick[o], next) \in Picks \cup {NoPick}
    BY <2>1, <2>2, AdvanceType
  <2>4. pick' \in [Ops -> Picks \cup {NoPick}]
    BY <2>1, <2>3
  <2>5. todo' \in [Ops -> Plans]
    BY <2>1 DEF Plans
  <2>6. result' \in [Ops -> {"clean", "skips", "fails"}]
    BY <2>1 DEF Worst
  <2>7. removed' \in [Ops -> BOOLEAN]
    BY <2>1
  <2> HIDE DEF c
  <2> QED BY <1>26, <2>3, <2>4, <2>5, <2>6, <2>7 DEF Retire
<1>27. ASSUME NEW o \in Ops, NextPhase(o) PROVE TypeOK'
  <2>1. plan[o] \ Privileged(plan[o]) \in Plans
    BY DEF Plans
  <2> QED BY <1>27, <2>1 DEF NextPhase, SetHelper
<1>28. ASSUME NEW o \in Ops, Complete(o) PROVE TypeOK'
  <2>1. CASE state[o] = "running"
    <3>1. [state EXCEPT ![o] = Outcome(o)] \in [Ops -> States]
      BY DEF Outcome, States
    <3>2. SetRows([state EXCEPT ![o] = Outcome(o)])
      BY <1>28, <2>1 DEF Complete
    <3>3. /\ state' \in [Ops -> States] /\ plan' \in [Ops -> Plans]
          /\ consent' \in [Ops -> BOOLEAN] /\ removed' \in [Ops -> BOOLEAN]
      BY <3>1, <3>2, RowsType
    <3> QED BY <1>28, <2>1, <3>3 DEF States, Complete, EndHelper, SetHelper, Plans
  <2>2. CASE state[o] # "running"
    BY <1>28, <2>2 DEF Complete, EndHelper, SetHelper, Plans
  <2> QED BY <2>1, <2>2
<1>29. ASSUME NEW o \in Ops, Abort(o) PROVE TypeOK'
  <2>1. [state EXCEPT ![o] = IF @ = "running" THEN "indeterminate" ELSE @] \in [Ops -> States]
    BY DEF States
  <2>2. SetRows([state EXCEPT ![o] = IF @ = "running" THEN "indeterminate" ELSE @])
    BY <1>29 DEF Abort
  <2>3. /\ state' \in [Ops -> States] /\ plan' \in [Ops -> Plans]
        /\ consent' \in [Ops -> BOOLEAN] /\ removed' \in [Ops -> BOOLEAN]
    BY <2>1, <2>2, RowsType
  <2> QED BY <1>29, <2>3 DEF States, Abort, EndHelper, SetHelper, Plans
<1>30. ASSUME NEW o \in Ops, HelperCrash(o) PROVE TypeOK'
  BY BoundsAssumption, <1>30 DEF HelperCrash, EndHelper, SetHelper, Plans
<1>31. ASSUME RunStarts PROVE TypeOK'
  <2>1. Plan(FALSE) \in Plans
    BY PlanType
  <2> QED BY <1>31, <2>1 DEF RunStarts
<1>32. ASSUME NEW c \in runTodo, RunRechecks(c) PROVE TypeOK'
  <2>1. c \in Candidates /\ runTodo \ {c} \in Plans
    BY DEF Plans
  <2>2. [of |-> c, at |-> "picked"] \in Picks
    BY <2>1 DEF Picks, Stages
  <2> QED BY <1>32, <2>1, <2>2 DEF RunRechecks
<1>33. ASSUME RunRemoves PROVE TypeOK'
  <2>1. runTodo \ {runPick.of} \in Plans
    BY DEF Plans
  <2> QED BY <1>33, <2>1 DEF RunRemoves, Vanish
<1>34. ASSUME RunRetires PROVE TypeOK'
  <2>1. PICK next \in Outcomes :
          /\ Advance(runPick, next)
          /\ runPick' = After(runPick, next)
          /\ runTodo' = IF next \in Stages THEN runTodo ELSE runTodo \ {runPick.of}
    BY <1>34 DEF RunRetires, Outcomes
  <2>2. runPick \in Picks
    BY <1>34 DEF RunRetires
  <2>3. runTodo' \in Plans
    BY <2>1 DEF Plans
  <2> QED BY <1>34, <2>1, <2>2, <2>3, AdvanceType DEF RunRetires
<1>35. ASSUME RunEnds PROVE TypeOK'
  BY <1>35 DEF RunEnds
<1>36. ASSUME RunCrash PROVE TypeOK'
  BY BoundsAssumption, <1>36 DEF RunCrash, Plans
<1>37. CASE UNCHANGED vars
  BY <1>37 DEF vars
<1> QED BY <1>1, <1>2, <1>3, <1>4, <1>5, <1>6, <1>7, <1>8, <1>9, <1>10, <1>11, <1>12, <1>13,
  <1>14, <1>15, <1>16, <1>17, <1>18, <1>19, <1>20, <1>21, <1>22, <1>23, <1>24, <1>25, <1>26,
  <1>27, <1>28, <1>29, <1>30, <1>31, <1>32, <1>33, <1>34, <1>35, <1>36, <1>37 DEF Next, ApiStep,
  HelperStep, RunStep

(* Every step keeps the fence: an operation is admitted only when no agent  *)
(* executes and no run works, all of which then ask for its row, and a row  *)
(* is settled only by its own helper or once that has exited.               *)
LEMMA NextFenced == TypeOK /\ Fenced /\ StartedOnce /\ [Next]_vars => Fenced'
<1> SUFFICES ASSUME TypeOK, Fenced, StartedOnce, [Next]_vars PROVE Fenced'
  OBVIOUS
<1> USE DEF TypeOK, Fenced, StartedOnce, Active, Working, Requesting, Exited,
  itemVars, diskVars, spaceVars, apiVars, rowVars, helperVars, runVars, taskVars
<1>1. ASSUME AdmitWork PROVE Fenced'
  BY <1>1 DEF AdmitWork, NoActiveOperation, ExecutionLock
<1>2. ASSUME WorkEnds PROVE Fenced'
  BY <1>2 DEF WorkEnds
<1>3. ASSUME NEW i \in Items, Open(i) PROVE Fenced'
  BY <1>3 DEF Open
<1>4. ASSUME NEW i \in Items, Launch(i) PROVE Fenced'
  BY <1>4 DEF Launch
<1>5. ASSUME NEW i \in Items, Release(i) PROVE Fenced'
  BY <1>5 DEF Release
<1>6. ASSUME NEW i \in Items, NEW yes \in BOOLEAN, Touch(i, yes) PROVE Fenced'
  BY <1>6 DEF Touch
<1>7. ASSUME NEW i \in Items, NEW yes \in BOOLEAN, DeleteStarts(i, yes) PROVE Fenced'
  BY <1>7 DEF DeleteStarts
<1>8. ASSUME DeleteEnds PROVE Fenced'
  BY <1>8 DEF DeleteEnds
<1>9. ASSUME NEW i \in Spaces, MendPick(i) PROVE Fenced'
  BY <1>9 DEF MendPick
<1>10. ASSUME Mend PROVE Fenced'
  BY <1>10 DEF Mend
<1>11. ASSUME NEW o \in Ops, NEW yes \in BOOLEAN, Confirm(o, yes) PROVE Fenced'
  BY <1>11 DEF Confirm, NoActiveOperation, IdleGate, HousekeepingLock, LaunchLock
<1>12. ASSUME Send PROVE Fenced'
  BY <1>12 DEF Send, SetApi
<1>13. ASSUME TransportFails PROVE Fenced'
  BY <1>13 DEF TransportFails, SetApi
<1>14. ASSUME Answered PROVE Fenced'
  BY <1>14 DEF Answered, ReturnApi, SetHelper
<1>15. ASSUME RecoverSettles PROVE Fenced'
  BY <1>15 DEF RecoverSettles, SetRows, ReturnApi
<1>16. ASSUME RecoverReconciles PROVE Fenced'
  BY <1>16 DEF RecoverReconciles, SetRows, ReconcileRows, Reconciled, ReturnApi
<1>17. ASSUME Poll PROVE Fenced'
  BY <1>17 DEF Poll, SetRows, ReconcileRows, Reconciled
<1>18. ASSUME ApiCrash PROVE Fenced'
  BY <1>18 DEF ApiCrash
<1>19. ASSUME ApiStart PROVE Fenced'
  BY <1>19 DEF ApiStart, SetRows, ReconcileRows, Reconciled
<1>20. ASSUME NEW o \in Ops, Prove(o) PROVE Fenced'
  BY <1>20 DEF Prove, EndHelper, SetHelper
<1>21. ASSUME NEW o \in Ops, RefuseEarly(o) PROVE Fenced'
  BY <1>21 DEF RefuseEarly, EndHelper, SetHelper
<1>22. ASSUME NEW o \in Ops, Claim(o) PROVE Fenced'
  BY <1>22 DEF Claim, Claimable, EndHelper, SetHelper
<1>23. ASSUME NEW o \in Ops, Gate(o) PROVE Fenced'
  BY <1>23 DEF Gate, SetRows, EndHelper, SetHelper
<1>24. ASSUME NEW o \in Ops, NEW c \in todo[o], Recheck(o, c) PROVE Fenced'
  BY <1>24 DEF Recheck
<1>25. ASSUME NEW o \in Ops, Remove(o) PROVE Fenced'
  BY <1>25 DEF Remove
<1>26. ASSUME NEW o \in Ops, Retire(o) PROVE Fenced'
  BY <1>26 DEF Retire
<1>27. ASSUME NEW o \in Ops, NextPhase(o) PROVE Fenced'
  BY <1>27 DEF NextPhase, SetHelper, PhaseOver, Removing
<1>28. ASSUME NEW o \in Ops, Complete(o) PROVE Fenced'
  BY <1>28 DEF Complete, SetRows, EndHelper, SetHelper, Outcome
<1>29. ASSUME NEW o \in Ops, Abort(o) PROVE Fenced'
  BY <1>29 DEF Abort, SetRows, Removing, EndHelper, SetHelper
<1>30. ASSUME NEW o \in Ops, HelperCrash(o) PROVE Fenced'
  BY <1>30 DEF HelperCrash, EndHelper, SetHelper
<1>31. ASSUME RunStarts PROVE Fenced'
  BY <1>31 DEF RunStarts, NoActiveOperation, HousekeepingLock
<1>32. ASSUME NEW c \in runTodo, RunRechecks(c) PROVE Fenced'
  BY <1>32 DEF RunRechecks
<1>33. ASSUME RunRemoves PROVE Fenced'
  BY <1>33 DEF RunRemoves
<1>34. ASSUME RunRetires PROVE Fenced'
  BY <1>34 DEF RunRetires
<1>35. ASSUME RunEnds PROVE Fenced'
  BY <1>35 DEF RunEnds
<1>36. ASSUME RunCrash PROVE Fenced'
  BY <1>36 DEF RunCrash
<1>37. CASE UNCHANGED vars
  BY <1>37 DEF vars
<1> QED BY <1>1, <1>2, <1>3, <1>4, <1>5, <1>6, <1>7, <1>8, <1>9, <1>10, <1>11, <1>12, <1>13,
  <1>14, <1>15, <1>16, <1>17, <1>18, <1>19, <1>20, <1>21, <1>22, <1>23, <1>24, <1>25, <1>26,
  <1>27, <1>28, <1>29, <1>30, <1>31, <1>32, <1>33, <1>34, <1>35, <1>36, <1>37 DEF Next, ApiStep,
  HelperStep, RunStep

(* Every step keeps a helper the only one of its operation.                 *)
LEMMA NextStartedOnce == TypeOK /\ Fenced /\ StartedOnce /\ [Next]_vars => StartedOnce'
<1> SUFFICES ASSUME TypeOK, Fenced, StartedOnce, [Next]_vars PROVE StartedOnce'
  OBVIOUS
<1> USE DEF TypeOK, Fenced, StartedOnce, Active, Working, Requesting, Exited, NoOp,
  itemVars, diskVars, spaceVars, apiVars, rowVars, helperVars, runVars, taskVars
<1>1. ASSUME AdmitWork PROVE StartedOnce'
  BY <1>1 DEF AdmitWork
<1>2. ASSUME WorkEnds PROVE StartedOnce'
  BY <1>2 DEF WorkEnds
<1>3. ASSUME NEW i \in Items, Open(i) PROVE StartedOnce'
  BY <1>3 DEF Open
<1>4. ASSUME NEW i \in Items, Launch(i) PROVE StartedOnce'
  BY <1>4 DEF Launch
<1>5. ASSUME NEW i \in Items, Release(i) PROVE StartedOnce'
  BY <1>5 DEF Release
<1>6. ASSUME NEW i \in Items, NEW yes \in BOOLEAN, Touch(i, yes) PROVE StartedOnce'
  BY <1>6 DEF Touch
<1>7. ASSUME NEW i \in Items, NEW yes \in BOOLEAN, DeleteStarts(i, yes) PROVE StartedOnce'
  BY <1>7 DEF DeleteStarts
<1>8. ASSUME DeleteEnds PROVE StartedOnce'
  BY <1>8 DEF DeleteEnds
<1>9. ASSUME NEW i \in Spaces, MendPick(i) PROVE StartedOnce'
  BY <1>9 DEF MendPick
<1>10. ASSUME Mend PROVE StartedOnce'
  BY <1>10 DEF Mend
<1>11. ASSUME NEW o \in Ops, NEW yes \in BOOLEAN, Confirm(o, yes) PROVE StartedOnce'
  BY <1>11 DEF Confirm
<1>12. ASSUME Send PROVE StartedOnce'
  BY <1>12 DEF Send, SetApi
<1>13. ASSUME TransportFails PROVE StartedOnce'
  BY <1>13 DEF TransportFails, SetApi
<1>14. ASSUME Answered PROVE StartedOnce'
  BY <1>14 DEF Answered, ReturnApi, SetHelper
<1>15. ASSUME RecoverSettles PROVE StartedOnce'
  BY <1>15 DEF RecoverSettles, SetRows, ReturnApi
<1>16. ASSUME RecoverReconciles PROVE StartedOnce'
  BY <1>16 DEF RecoverReconciles, SetRows, ReconcileRows, Reconciled, ReturnApi
<1>17. ASSUME Poll PROVE StartedOnce'
  BY <1>17 DEF Poll, SetRows, ReconcileRows, Reconciled
<1>18. ASSUME ApiCrash PROVE StartedOnce'
  BY <1>18 DEF ApiCrash
<1>19. ASSUME ApiStart PROVE StartedOnce'
  BY <1>19 DEF ApiStart, SetRows, ReconcileRows, Reconciled
<1>20. ASSUME NEW o \in Ops, Prove(o) PROVE StartedOnce'
  BY <1>20 DEF Prove, EndHelper, SetHelper
<1>21. ASSUME NEW o \in Ops, RefuseEarly(o) PROVE StartedOnce'
  BY <1>21 DEF RefuseEarly, EndHelper, SetHelper
<1>22. ASSUME NEW o \in Ops, Claim(o) PROVE StartedOnce'
  BY <1>22 DEF Claim, Claimable, EndHelper, SetHelper
<1>23. ASSUME NEW o \in Ops, Gate(o) PROVE StartedOnce'
  BY <1>23 DEF Gate, SetRows, EndHelper, SetHelper
<1>24. ASSUME NEW o \in Ops, NEW c \in todo[o], Recheck(o, c) PROVE StartedOnce'
  BY <1>24 DEF Recheck, Removing
<1>25. ASSUME NEW o \in Ops, Remove(o) PROVE StartedOnce'
  BY <1>25 DEF Remove
<1>26. ASSUME NEW o \in Ops, Retire(o) PROVE StartedOnce'
  BY <1>26 DEF Retire
<1>27. ASSUME NEW o \in Ops, NextPhase(o) PROVE StartedOnce'
  BY <1>27 DEF NextPhase, SetHelper, PhaseOver, Removing
<1>28. ASSUME NEW o \in Ops, Complete(o) PROVE StartedOnce'
  <2>1. helper[o] \in {"privileged", "runtime"} /\ state[o] = "running"
    BY <1>28 DEF Complete, PhaseOver, Removing
  <2>2. Outcome(o) \in {"failed", "issues", "completed"}
    BY DEF Outcome
  <2>3. state' = [state EXCEPT ![o] = Outcome(o)]
    BY <1>28, <2>1 DEF Complete, SetRows
  <2>4. helper'[o] \in {"answered", "exited"} /\ \A p \in Ops \ {o} : helper'[p] = helper[p]
    BY <1>28 DEF Complete, EndHelper, SetHelper
  <2>5. UNCHANGED <<api, apiOp>>
    BY <1>28 DEF Complete
  <2> QED BY <2>1, <2>2, <2>3, <2>4, <2>5
<1>29. ASSUME NEW o \in Ops, Abort(o) PROVE StartedOnce'
  BY <1>29 DEF Abort, SetRows, Removing, EndHelper, SetHelper
<1>30. ASSUME NEW o \in Ops, HelperCrash(o) PROVE StartedOnce'
  BY <1>30 DEF HelperCrash, EndHelper, SetHelper, Alive
<1>31. ASSUME RunStarts PROVE StartedOnce'
  BY <1>31 DEF RunStarts
<1>32. ASSUME NEW c \in runTodo, RunRechecks(c) PROVE StartedOnce'
  BY <1>32 DEF RunRechecks
<1>33. ASSUME RunRemoves PROVE StartedOnce'
  BY <1>33 DEF RunRemoves
<1>34. ASSUME RunRetires PROVE StartedOnce'
  BY <1>34 DEF RunRetires
<1>35. ASSUME RunEnds PROVE StartedOnce'
  BY <1>35 DEF RunEnds
<1>36. ASSUME RunCrash PROVE StartedOnce'
  BY <1>36 DEF RunCrash
<1>37. CASE UNCHANGED vars
  BY <1>37 DEF vars
<1> QED BY <1>1, <1>2, <1>3, <1>4, <1>5, <1>6, <1>7, <1>8, <1>9, <1>10, <1>11, <1>12, <1>13,
  <1>14, <1>15, <1>16, <1>17, <1>18, <1>19, <1>20, <1>21, <1>22, <1>23, <1>24, <1>25, <1>26,
  <1>27, <1>28, <1>29, <1>30, <1>31, <1>32, <1>33, <1>34, <1>35, <1>36, <1>37 DEF Next, ApiStep,
  HelperStep, RunStep

(* Every step keeps what is picked unprotected: the agents that could open  *)
(* it are idle, and a launch waits for the lock a run holds.                *)
LEMMA NextPickIsFree == TypeOK /\ Fenced /\ StartedOnce /\ PickIsFree /\ [Next]_vars => PickIsFree'
<1> SUFFICES ASSUME TypeOK, Fenced, StartedOnce, PickIsFree, [Next]_vars PROVE PickIsFree'
  OBVIOUS
<1> USE DEF TypeOK, Fenced, StartedOnce, PickIsFree, Active, Working, Requesting, Exited, Removing,
  AtTree, NoPick, itemVars, diskVars, spaceVars, apiVars, rowVars, helperVars, runVars, taskVars
<1>1. ASSUME AdmitWork PROVE PickIsFree'
  BY <1>1 DEF AdmitWork, NoActiveOperation, ExecutionLock
<1>2. ASSUME WorkEnds PROVE PickIsFree'
  BY <1>2 DEF WorkEnds
<1>3. ASSUME NEW i \in Items, Open(i) PROVE PickIsFree'
  BY ItemsAssumption, <1>3 DEF Open, Items
<1>4. ASSUME NEW i \in Items, Launch(i) PROVE PickIsFree'
  BY <1>4 DEF Launch, LaunchLock, NoActiveOperation
<1>5. ASSUME NEW i \in Items, Release(i) PROVE PickIsFree'
  BY <1>5 DEF Release
<1>6. ASSUME NEW i \in Items, NEW yes \in BOOLEAN, Touch(i, yes) PROVE PickIsFree'
  BY <1>6 DEF Touch
<1>7. ASSUME NEW i \in Items, NEW yes \in BOOLEAN, DeleteStarts(i, yes) PROVE PickIsFree'
  BY <1>7 DEF DeleteStarts
<1>8. ASSUME DeleteEnds PROVE PickIsFree'
  BY <1>8 DEF DeleteEnds
<1>9. ASSUME NEW i \in Spaces, MendPick(i) PROVE PickIsFree'
  BY <1>9 DEF MendPick
<1>10. ASSUME Mend PROVE PickIsFree'
  BY <1>10 DEF Mend
<1>11. ASSUME NEW o \in Ops, NEW yes \in BOOLEAN, Confirm(o, yes) PROVE PickIsFree'
  BY <1>11 DEF Confirm, NoActiveOperation, IdleGate, HousekeepingLock, LaunchLock
<1>12. ASSUME Send PROVE PickIsFree'
  BY <1>12 DEF Send, SetApi
<1>13. ASSUME TransportFails PROVE PickIsFree'
  BY <1>13 DEF TransportFails, SetApi
<1>14. ASSUME Answered PROVE PickIsFree'
  BY <1>14 DEF Answered, ReturnApi, SetHelper
<1>15. ASSUME RecoverSettles PROVE PickIsFree'
  BY <1>15 DEF RecoverSettles, SetRows, ReturnApi
<1>16. ASSUME RecoverReconciles PROVE PickIsFree'
  BY <1>16 DEF RecoverReconciles, SetRows, ReconcileRows, Reconciled, ReturnApi
<1>17. ASSUME Poll PROVE PickIsFree'
  BY <1>17 DEF Poll, SetRows, ReconcileRows, Reconciled
<1>18. ASSUME ApiCrash PROVE PickIsFree'
  BY <1>18 DEF ApiCrash
<1>19. ASSUME ApiStart PROVE PickIsFree'
  BY <1>19 DEF ApiStart, SetRows, ReconcileRows, Reconciled
<1>20. ASSUME NEW o \in Ops, Prove(o) PROVE PickIsFree'
  BY <1>20 DEF Prove, EndHelper, SetHelper
<1>21. ASSUME NEW o \in Ops, RefuseEarly(o) PROVE PickIsFree'
  BY <1>21 DEF RefuseEarly, EndHelper, SetHelper
<1>22. ASSUME NEW o \in Ops, Claim(o) PROVE PickIsFree'
  BY <1>22 DEF Claim, Claimable, EndHelper, SetHelper
<1>23. ASSUME NEW o \in Ops, Gate(o) PROVE PickIsFree'
  BY <1>23 DEF Gate, SetRows, EndHelper, SetHelper, Privileged
<1>24. ASSUME NEW o \in Ops, NEW c \in todo[o], Recheck(o, c) PROVE PickIsFree'
  BY <1>24 DEF Recheck, Eligible, Unprotected, MayRetire, Inactive
<1>25. ASSUME NEW o \in Ops, Remove(o) PROVE PickIsFree'
  BY <1>25 DEF Remove
<1>26. ASSUME NEW o \in Ops, Retire(o) PROVE PickIsFree'
  <2>1. PICK next \in Outcomes :
          /\ pick' = [pick EXCEPT ![o] = After(@, next)]
          /\ todo' = [todo EXCEPT ![o] = IF next \in Stages THEN @ ELSE @ \ {pick[o].of}]
    BY <1>26 DEF Retire, Outcomes
  <2>2. /\ After(pick[o], next) # NoPick => next \in Stages /\ After(pick[o], next).of = pick[o].of
        /\ pick[o] # NoPick
    BY <1>26 DEF Retire, After, Picks
  <2>3. /\ \A p \in Ops \ {o} : pick'[p] = pick[p] /\ todo'[p] = todo[p]
        /\ pick'[o] = After(pick[o], next)
        /\ todo'[o] = IF next \in Stages THEN todo[o] ELSE todo[o] \ {pick[o].of}
    BY <2>1
  <2>4. UNCHANGED <<held, helper, plan, runPick, runTodo>>
    BY <1>26 DEF Retire
  <2> QED BY <2>2, <2>3, <2>4
<1>27. ASSUME NEW o \in Ops, NextPhase(o) PROVE PickIsFree'
  BY <1>27 DEF NextPhase, SetHelper, PhaseOver, Removing, Privileged
<1>28. ASSUME NEW o \in Ops, Complete(o) PROVE PickIsFree'
  BY <1>28 DEF Complete, SetRows, EndHelper, SetHelper, Outcome
<1>29. ASSUME NEW o \in Ops, Abort(o) PROVE PickIsFree'
  BY <1>29 DEF Abort, SetRows, Removing, EndHelper, SetHelper
<1>30. ASSUME NEW o \in Ops, HelperCrash(o) PROVE PickIsFree'
  BY <1>30 DEF HelperCrash, EndHelper, SetHelper
<1>31. ASSUME RunStarts PROVE PickIsFree'
  BY <1>31 DEF RunStarts, NoActiveOperation, HousekeepingLock
<1>32. ASSUME NEW c \in runTodo, RunRechecks(c) PROVE PickIsFree'
  BY <1>32 DEF RunRechecks, Eligible, Unprotected, MayRetire, Inactive
<1>33. ASSUME RunRemoves PROVE PickIsFree'
  BY <1>33 DEF RunRemoves
<1>34. ASSUME RunRetires PROVE PickIsFree'
  <2>1. PICK next \in Outcomes :
          /\ runPick' = After(runPick, next)
          /\ runTodo' = IF next \in Stages THEN runTodo ELSE runTodo \ {runPick.of}
    BY <1>34 DEF RunRetires, Outcomes
  <2>2. /\ After(runPick, next) # NoPick => next \in Stages /\ After(runPick, next).of = runPick.of
        /\ runPick # NoPick
    BY <1>34 DEF RunRetires, After, Picks
  <2>3. UNCHANGED <<held, helper, plan, pick, todo, run>>
    BY <1>34 DEF RunRetires
  <2> QED BY <2>1, <2>2, <2>3
<1>35. ASSUME RunEnds PROVE PickIsFree'
  BY <1>35 DEF RunEnds
<1>36. ASSUME RunCrash PROVE PickIsFree'
  BY <1>36 DEF RunCrash
<1>37. CASE UNCHANGED vars
  BY <1>37 DEF vars
<1> QED BY <1>1, <1>2, <1>3, <1>4, <1>5, <1>6, <1>7, <1>8, <1>9, <1>10, <1>11, <1>12, <1>13,
  <1>14, <1>15, <1>16, <1>17, <1>18, <1>19, <1>20, <1>21, <1>22, <1>23, <1>24, <1>25, <1>26,
  <1>27, <1>28, <1>29, <1>30, <1>31, <1>32, <1>33, <1>34, <1>35, <1>36, <1>37 DEF Next, ApiStep,
  HelperStep, RunStep

(* Nothing comes back: an item a Space's retirement leaves was there.        *)
LEMMA AdvanceTakes ==
  ASSUME TypeOK, NEW p \in Picks, NEW next \in Outcomes, Advance(p, next)
  PROVE  /\ \A i \in Items : there'[i] => there[i]
         /\ next = "gone" => ~there'[p.of.item]
         /\ next = "done" => p.at = "gone"
  BY PickParts DEF Advance, Vanish, TypeOK, Stages

(* Every step keeps the row's account of what was removed.                  *)
LEMMA NextAccounted ==
  TypeOK /\ Fenced /\ StartedOnce /\ PickIsFree /\ Accounted /\ [Next]_vars => Accounted'
<1> SUFFICES ASSUME TypeOK, Fenced, StartedOnce, PickIsFree, Accounted, [Next]_vars PROVE Accounted'
  OBVIOUS
<1> USE DEF TypeOK, Fenced, StartedOnce, Accounted, Active, Working, Requesting, Exited, Removing,
  itemVars, diskVars, spaceVars, apiVars, rowVars, helperVars, runVars, taskVars
<1>1. ASSUME AdmitWork PROVE Accounted'
  BY <1>1 DEF AdmitWork, NoActiveOperation, ExecutionLock
<1>2. ASSUME WorkEnds PROVE Accounted'
  BY <1>2 DEF WorkEnds
<1>3. ASSUME NEW i \in Items, Open(i) PROVE Accounted'
  BY <1>3 DEF Open
<1>4. ASSUME NEW i \in Items, Launch(i) PROVE Accounted'
  BY <1>4 DEF Launch
<1>5. ASSUME NEW i \in Items, Release(i) PROVE Accounted'
  BY <1>5 DEF Release
<1>6. ASSUME NEW i \in Items, NEW yes \in BOOLEAN, Touch(i, yes) PROVE Accounted'
  BY <1>6 DEF Touch
<1>7. ASSUME NEW i \in Items, NEW yes \in BOOLEAN, DeleteStarts(i, yes) PROVE Accounted'
  BY <1>7 DEF DeleteStarts
<1>8. ASSUME DeleteEnds PROVE Accounted'
  <2>1. /\ \A i \in Items : there'[i] => there[i]
        /\ UNCHANGED <<state, removed, plan, helper, todo, result, pick>>
    BY <1>8 DEF DeleteEnds, Vanish
  <2>2. /\ \A p \in Ops : \A d \in plan[p] : d.item \in Items
        /\ \A p \in Ops : pick[p] # NoPick => pick[p].of.item \in Items
    BY PickParts DEF Plans, Candidates
  <2> QED BY <2>1, <2>2
<1>9. ASSUME NEW i \in Spaces, MendPick(i) PROVE Accounted'
  BY <1>9 DEF MendPick
<1>10. ASSUME Mend PROVE Accounted'
  <2>1. PICK next \in Outcomes : Advance(mend, next)
    BY <1>10 DEF Mend, Outcomes
  <2>2. mend \in Picks
    BY <1>10 DEF Mend
  <2>3. /\ \A i \in Items : there'[i] => there[i]
        /\ UNCHANGED <<state, removed, plan, helper, todo, result, pick>>
    BY <1>10, <2>1, <2>2, AdvanceTakes DEF Mend
  <2>4. /\ \A p \in Ops : \A d \in plan[p] : d.item \in Items
        /\ \A p \in Ops : pick[p] # NoPick => pick[p].of.item \in Items
    BY PickParts DEF Plans, Candidates
  <2> QED BY <2>3, <2>4
<1>11. ASSUME NEW o \in Ops, NEW yes \in BOOLEAN, Confirm(o, yes) PROVE Accounted'
  BY <1>11 DEF Confirm, NoActiveOperation
<1>12. ASSUME Send PROVE Accounted'
  BY <1>12 DEF Send, SetApi
<1>13. ASSUME TransportFails PROVE Accounted'
  BY <1>13 DEF TransportFails, SetApi
<1>14. ASSUME Answered PROVE Accounted'
  BY <1>14 DEF Answered, ReturnApi, SetHelper
<1>15. ASSUME RecoverSettles PROVE Accounted'
  BY <1>15 DEF RecoverSettles, SetRows, ReturnApi
<1>16. ASSUME RecoverReconciles PROVE Accounted'
  BY <1>16 DEF RecoverReconciles, SetRows, ReconcileRows, Reconciled, ReturnApi
<1>17. ASSUME Poll PROVE Accounted'
  BY <1>17 DEF Poll, SetRows, ReconcileRows, Reconciled
<1>18. ASSUME ApiCrash PROVE Accounted'
  BY <1>18 DEF ApiCrash
<1>19. ASSUME ApiStart PROVE Accounted'
  BY <1>19 DEF ApiStart, SetRows, ReconcileRows, Reconciled
<1>20. ASSUME NEW o \in Ops, Prove(o) PROVE Accounted'
  BY <1>20 DEF Prove, EndHelper, SetHelper
<1>21. ASSUME NEW o \in Ops, RefuseEarly(o) PROVE Accounted'
  BY <1>21 DEF RefuseEarly, EndHelper, SetHelper
<1>22. ASSUME NEW o \in Ops, Claim(o) PROVE Accounted'
  BY <1>22 DEF Claim, Claimable, EndHelper, SetHelper
<1>23. ASSUME NEW o \in Ops, Gate(o) PROVE Accounted'
  BY <1>23 DEF Gate, SetRows, EndHelper, SetHelper, Privileged, PickIsFree
<1>24. ASSUME NEW o \in Ops, NEW c \in todo[o], Recheck(o, c) PROVE Accounted'
  <2>1. CASE Eligible(c)
    <3>1. /\ pick' = [pick EXCEPT ![o] = [of |-> c, at |-> "picked"]] /\ UNCHANGED <<todo, result>>
          /\ UNCHANGED <<state, removed, plan, helper, there>>
      BY <1>24, <2>1 DEF Recheck
    <3> QED BY <3>1
  <2>2. CASE ~Eligible(c)
    <3>1. PICK fails : result' = [result EXCEPT ![o] = Worst(@, fails)]
      BY <1>24, <2>2 DEF Recheck
    <3>2. result'[o] # "clean" /\ \A p \in Ops \ {o} : result'[p] = result[p]
      BY <3>1 DEF Worst
    <3>3. /\ UNCHANGED <<state, removed, plan, helper, there, pick>>
          /\ \A p \in Ops \ {o} : todo'[p] = todo[p]
      BY <1>24, <2>2 DEF Recheck
    <3> QED BY <3>2, <3>3
  <2> QED BY <2>1, <2>2
<1>25. ASSUME NEW o \in Ops, Remove(o) PROVE Accounted'
  <2> DEFINE c == pick[o].of
  <2>1. /\ Removing(o) /\ c \in todo[o] /\ c.item \in Items
        /\ todo' = [todo EXCEPT ![o] = @ \ {c}] /\ pick' = [pick EXCEPT ![o] = NoPick]
        /\ UNCHANGED <<state, plan, helper>>
    <3>1. pick[o] \in Picks
      BY <1>25 DEF Remove
    <3> QED BY <1>25, <3>1, PickParts DEF Remove, PickIsFree
  <2>2. state[o] = "running"
    BY <2>1
  <2>3. \A p \in Ops : \A d \in plan[p] : d.item \in Items
    BY DEF Plans, Candidates
  <2>4. \A p \in Ops : pick[p] # NoPick => pick[p].of.item \in Items
    BY PickParts
  <2>5. CASE Intact(c)
    <3>1. /\ there' = [there EXCEPT ![c.item] = FALSE] /\ result' = result
          /\ removed' = [removed EXCEPT ![o] = TRUE]
      BY <1>25, <2>5 DEF Remove, Vanish
    <3>2. there'[c.item] = FALSE /\ \A i \in Items : there'[i] => there[i]
      BY <2>1, <3>1
    <3> QED BY <2>1, <2>2, <2>3, <2>4, <3>1, <3>2
  <2>6. CASE ~Intact(c)
    <3>1. /\ UNCHANGED <<there, removed>>
          /\ result'[o] # "clean" /\ \A p \in Ops \ {o} : result'[p] = result[p]
      BY <1>25, <2>6 DEF Remove, Worst
    <3> QED BY <2>1, <3>1
  <2> QED BY <2>5, <2>6
<1>26. ASSUME NEW o \in Ops, Retire(o) PROVE Accounted'
  <2> DEFINE c == pick[o].of
  <2>1. PICK next \in Outcomes :
          /\ Advance(pick[o], next)
          /\ pick' = [pick EXCEPT ![o] = After(@, next)]
          /\ todo' = [todo EXCEPT ![o] = IF next \in Stages THEN @ ELSE @ \ {c}]
          /\ result' = [result EXCEPT ![o] = IF next = "failed" THEN Worst(@, TRUE) ELSE @]
          /\ removed' = [removed EXCEPT ![o] = @ \/ (there[c.item] /\ ~there'[c.item])]
    BY <1>26 DEF Retire, Outcomes
  <2>2. Removing(o) /\ pick[o] # NoPick /\ pick[o] \in Picks /\ UNCHANGED <<state, plan, helper>>
    BY <1>26 DEF Retire
  <2>3. /\ \A i \in Items : there'[i] => there[i]
        /\ next = "gone" => ~there'[c.item]
        /\ next = "done" => ~there[c.item]
    BY <2>1, <2>2, AdvanceTakes
  <2>4. /\ c.item \in Items
        /\ \A p \in Ops : \A d \in plan[p] : d.item \in Items
        /\ \A p \in Ops : pick[p] # NoPick => pick[p].of.item \in Items
    BY <2>2, PickParts DEF Plans, Candidates
  <2>5. ASSUME NEW p \in Ops
        PROVE  removed'[p] => state'[p] = "running" /\ helper'[p] # "claimed"
    BY <2>1, <2>2
  <2>6. ASSUME NEW p \in Ops
        PROVE  pick'[p] # NoPick /\ pick'[p].at = "gone" => ~there'[pick'[p].of.item]
    <3>1. CASE p = o
      <4>1. pick'[o] = After(pick[o], next)
        BY <2>1
      <4>2. After(pick[o], next) # NoPick => /\ After(pick[o], next).at = next
                                             /\ After(pick[o], next).of = c
        BY <2>2 DEF After, Picks
      <4> QED BY <2>3, <3>1, <4>1, <4>2
    <3>2. CASE p # o
      BY <2>1, <2>3, <2>4, <3>2
    <3> QED BY <3>1, <3>2
  <2>7. ASSUME NEW p \in Ops, Removing(p)', result'[p] = "clean", NEW d \in plan'[p]
        PROVE  \/ ~there'[d.item] \/ d \in todo'[p]
               \/ helper'[p] = "privileged" /\ d.item \notin Paths
    <3>1. next # "failed" \/ p # o
      BY <2>1, <2>7 DEF Worst
    <3>2. Removing(p) /\ result[p] = "clean" /\ d \in plan[p]
      BY <2>1, <2>2, <2>7, <3>1
    <3>3. \/ ~there[d.item] \/ d \in todo[p]
          \/ helper[p] = "privileged" /\ d.item \notin Paths
      BY <3>2
    <3>4. d \in todo[p] => d \in todo'[p] \/ ~there'[d.item]
      BY <2>1, <2>3, <2>4, <3>1 DEF Outcomes
    <3> QED BY <2>2, <2>3, <2>4, <3>2, <3>3, <3>4
  <2> HIDE DEF c
  <2> QED BY <2>5, <2>6, <2>7
<1>27. ASSUME NEW o \in Ops, NextPhase(o) PROVE Accounted'
  BY <1>27 DEF NextPhase, SetHelper, PhaseOver, Removing, Privileged, LastPhase
<1>28. ASSUME NEW o \in Ops, Complete(o) PROVE Accounted'
  <2>1. state[o] = "running"
    BY <1>28 DEF Complete, PhaseOver
  <2>2. /\ helper'[o] \in {"answered", "exited"} /\ there' = there /\ pick'[o] = NoPick
        /\ \A p \in Ops \ {o} : /\ helper'[p] = helper[p] /\ todo'[p] = todo[p]
                                /\ result'[p] = result[p] /\ pick'[p] = pick[p]
    BY <1>28 DEF Complete, EndHelper, SetHelper
  <2>3. /\ ~removed'[o]
        /\ \A p \in Ops \ {o} : /\ state'[p] = state[p]
                                /\ removed'[p] => removed[p]
                                /\ state[p] = "running" => plan'[p] = plan[p]
    <3>1. Outcome(o) \in {"failed", "issues", "completed"}
      BY DEF Outcome
    <3>2. SetRows([state EXCEPT ![o] = Outcome(o)])
      BY <1>28, <2>1 DEF Complete
    <3> QED BY <3>1, <3>2 DEF SetRows
  <2>4. ASSUME NEW p \in Ops \ {o}
        PROVE  /\ removed'[p] => state'[p] = "running" /\ helper'[p] # "claimed"
               /\ Removing(p)' => Removing(p) /\ plan'[p] = plan[p]
    BY <2>2, <2>3
  <2> QED BY <2>2, <2>3, <2>4
<1>29. ASSUME NEW o \in Ops, Abort(o) PROVE Accounted'
  <2>1. state[o] = "running"
    BY <1>29 DEF Abort, PhaseOver
  <2>2. /\ helper'[o] \in {"answered", "exited"} /\ there' = there /\ pick'[o] = NoPick
        /\ \A p \in Ops \ {o} : /\ helper'[p] = helper[p] /\ todo'[p] = todo[p]
                                /\ result'[p] = result[p] /\ pick'[p] = pick[p]
    BY <1>29 DEF Abort, EndHelper, SetHelper
  <2>3. /\ ~removed'[o]
        /\ \A p \in Ops \ {o} : /\ state'[p] = state[p]
                                /\ removed'[p] => removed[p]
                                /\ state[p] = "running" => plan'[p] = plan[p]
    BY <1>29, <2>1 DEF Abort, SetRows
  <2>4. ASSUME NEW p \in Ops \ {o}
        PROVE  /\ removed'[p] => state'[p] = "running" /\ helper'[p] # "claimed"
               /\ Removing(p)' => Removing(p) /\ plan'[p] = plan[p]
    BY <2>2, <2>3
  <2> QED BY <2>2, <2>3, <2>4
<1>30. ASSUME NEW o \in Ops, HelperCrash(o) PROVE Accounted'
  BY <1>30 DEF HelperCrash, EndHelper, SetHelper
<1>31. ASSUME RunStarts PROVE Accounted'
  BY <1>31 DEF RunStarts
<1>32. ASSUME NEW c \in runTodo, RunRechecks(c) PROVE Accounted'
  BY <1>32 DEF RunRechecks
<1>33. ASSUME RunRemoves PROVE Accounted'
  <2>1. /\ \A i \in Items : there'[i] => there[i]
        /\ UNCHANGED <<state, removed, plan, helper, todo, result, pick>>
    BY <1>33 DEF RunRemoves, Vanish
  <2>2. /\ \A p \in Ops : \A d \in plan[p] : d.item \in Items
        /\ \A p \in Ops : pick[p] # NoPick => pick[p].of.item \in Items
    BY PickParts DEF Plans, Candidates
  <2> QED BY <2>1, <2>2
<1>34. ASSUME RunRetires PROVE Accounted'
  <2>1. PICK next \in Outcomes : Advance(runPick, next)
    BY <1>34 DEF RunRetires, Outcomes
  <2>2. runPick \in Picks
    BY <1>34 DEF RunRetires
  <2>3. /\ \A i \in Items : there'[i] => there[i]
        /\ UNCHANGED <<state, removed, plan, helper, todo, result, pick>>
    BY <1>34, <2>1, <2>2, AdvanceTakes DEF RunRetires
  <2>4. /\ \A p \in Ops : \A d \in plan[p] : d.item \in Items
        /\ \A p \in Ops : pick[p] # NoPick => pick[p].of.item \in Items
    BY PickParts DEF Plans, Candidates
  <2> QED BY <2>3, <2>4
<1>35. ASSUME RunEnds PROVE Accounted'
  BY <1>35 DEF RunEnds
<1>36. ASSUME RunCrash PROVE Accounted'
  BY <1>36 DEF RunCrash
<1>37. CASE UNCHANGED vars
  BY <1>37 DEF vars
<1> QED BY <1>1, <1>2, <1>3, <1>4, <1>5, <1>6, <1>7, <1>8, <1>9, <1>10, <1>11, <1>12, <1>13,
  <1>14, <1>15, <1>16, <1>17, <1>18, <1>19, <1>20, <1>21, <1>22, <1>23, <1>24, <1>25, <1>26,
  <1>27, <1>28, <1>29, <1>30, <1>31, <1>32, <1>33, <1>34, <1>35, <1>36, <1>37 DEF Next, ApiStep,
  HelperStep, RunStep

(* A claim is never taken back, nor given another authority.                *)
Firm == \A i \in Spaces : ctx[i].state # "admitted" =>
          ctx'[i].state # "admitted" /\ ctx'[i].auth = ctx[i].auth

(* A Space is claimed under the authority it has, and while no agent is     *)
(* bound to it; the process that retires it stays bound to its claim.       *)
LEMMA AdvanceClaims ==
  ASSUME TypeOK, NEW p \in Picks, p # NoPick, p.of.item \in Spaces, Bound(p), NEW next \in Outcomes,
         Advance(p, next)
  PROVE  /\ Firm
         /\ \A i \in Spaces : ctx'[i].state # "admitted" =>
              \/ ctx[i].state # "admitted"
              \/ ctx'[i].auth = authority[i] /\ ~held[i]
         /\ (After(p, next) # NoPick /\ After(p, next).at # "picked" =>
               /\ After(p, next).of.item \in Spaces
               /\ ctx'[After(p, next).of.item].state # "admitted"
               /\ ctx'[After(p, next).of.item].auth = After(p, next).of.auth)
<1>1. CASE p.at = "picked" /\ ClaimAllowed(p.of) /\ next = "claimed" /\ ctx' = ClaimFor(p.of)
  BY <1>1 DEF ClaimAllowed, ClaimFor, Inactive, TypeOK, Firm, After, Picks
<1>2. CASE p.at = "gone" /\ next = "done" /\ ctx' = Retired(p.of.item)
  <2>1. After(p, next) = NoPick
    BY <1>2 DEF After, Stages
  <2>2. \A i \in Spaces : /\ ctx'[i].auth = ctx[i].auth
                          /\ ctx'[i].state # "admitted" => ctx[i].state # "admitted" \/ i = p.of.item
                          /\ ctx[i].state # "admitted" => ctx'[i].state # "admitted"
    BY <1>2 DEF Retired, TypeOK, Contexts
  <2>3. ctx[p.of.item].state # "admitted"
    BY <1>2 DEF Bound
  <2> QED BY <2>1, <2>2, <2>3 DEF Firm
<1>3. CASE UNCHANGED ctx /\ p.at # "picked"
  <2>1. After(p, next) # NoPick => After(p, next).of = p.of
    BY DEF After, Picks
  <2> QED BY <1>3, <2>1 DEF Firm, Bound
<1>4. CASE UNCHANGED ctx /\ next = "failed"
  BY <1>4 DEF Firm, After, Stages
<1> QED BY <1>1, <1>2, <1>3, <1>4 DEF Advance

(* A step that writes none of them, and at most ends what helpers have      *)
(* picked, keeps the claims.                                                *)
LEMMA ClaimsStay ==
  ASSUME Claims, UNCHANGED <<ctx, authority, held, runPick, mend, deleting>>,
         \A o \in Ops : pick'[o] = pick[o] \/ pick'[o] = NoPick
  PROVE  Claims'
<1>1. /\ \A i \in Spaces : ctx'[i].state # "admitted" => ctx'[i].auth = authority'[i] /\ ~held'[i]
      /\ deleting' # NoItem => ctx'[deleting'].state # "admitted"
      /\ Bound(runPick)' /\ Bound(mend)'
  BY DEF Claims, Bound
<1>2. \A o \in Ops : Bound(pick[o])'
  BY DEF Claims, Bound
<1> QED BY <1>1, <1>2 DEF Claims

(* Every step keeps the claims.                                             *)
LEMMA NextClaims == TypeOK /\ Claims /\ Consented /\ [Next]_vars => Claims'
<1> SUFFICES ASSUME TypeOK, Claims, Consented, [Next]_vars PROVE Claims'
  OBVIOUS
<1> USE DEF TypeOK, Claims, Bound, NoPick, itemVars, diskVars, spaceVars, apiVars, rowVars, helperVars, runVars, taskVars
<1>1. ASSUME AdmitWork PROVE Claims'
  BY <1>1 DEF AdmitWork
<1>2. ASSUME WorkEnds PROVE Claims'
  BY <1>2 DEF WorkEnds
<1>3. ASSUME NEW i \in Items, Open(i) PROVE Claims'
  BY ItemsAssumption, <1>3 DEF Open
<1>4. ASSUME NEW i \in Items, Launch(i) PROVE Claims'
  BY <1>4 DEF Launch
<1>5. ASSUME NEW i \in Items, Release(i) PROVE Claims'
  BY <1>5 DEF Release
<1>6. ASSUME NEW i \in Items, NEW yes \in BOOLEAN, Touch(i, yes) PROVE Claims'
  BY <1>6 DEF Touch
<1>7. ASSUME NEW i \in Items, NEW yes \in BOOLEAN, DeleteStarts(i, yes) PROVE Claims'
  <2> DEFINE c == CandidateOf(i, yes)
  <2>1. c.item = i /\ c.auth = authority[i]
    BY DEF CandidateOf
  <2>2. /\ i \in Spaces /\ ClaimAllowed(c) /\ ctx' = ClaimFor(c) /\ deleting' = i
        /\ UNCHANGED <<authority, held, pick, runPick, mend>>
    BY <1>7 DEF DeleteStarts
  <2> HIDE DEF c
  <2>3. /\ ctx' = [ctx EXCEPT ![i] = [state |-> "retiring", dirty |-> c.allow, auth |-> authority[i]]]
        /\ ~held[i]
    BY <2>1, <2>2 DEF ClaimFor, ClaimAllowed, Inactive
  <2>4. /\ Firm
        /\ ctx'[i].state = "retiring" /\ ctx'[i].auth = authority[i]
        /\ \A j \in Spaces : j # i => ctx'[j] = ctx[j]
    BY <2>2, <2>3 DEF Firm
  <2>5. ASSUME NEW p, Bound(p), NEW q, q = p
        PROVE  q # NoPick /\ q.at # "picked" =>
                 /\ q.of.item \in Spaces
                 /\ ctx'[q.of.item].state # "admitted" /\ ctx'[q.of.item].auth = q.of.auth
    BY <2>4, <2>5 DEF Firm
  <2>6. \A j \in Spaces : ctx'[j].state # "admitted" => ctx'[j].auth = authority'[j] /\ ~held'[j]
    BY <2>2, <2>3, <2>4
  <2>7. deleting' # NoItem => ctx'[deleting'].state # "admitted"
    BY <2>2, <2>4
  <2>8. \A o \in Ops : Bound(pick[o])'
    BY <2>2, <2>5
  <2>9. Bound(runPick)' /\ Bound(mend)'
    BY <2>2, <2>5
  <2> QED BY <2>6, <2>7, <2>8, <2>9
<1>8. ASSUME DeleteEnds PROVE Claims'
  <2>1. /\ deleting \in Spaces /\ deleting # NoItem /\ deleting' = NoItem
        /\ ctx' = ctx \/ ctx' = Retired(deleting)
        /\ UNCHANGED <<authority, held, pick, runPick, mend>>
    BY <1>8 DEF DeleteEnds
  <2>2. \A i \in Spaces : /\ ctx'[i].auth = ctx[i].auth
                          /\ ctx[i].state # "admitted" => ctx'[i].state # "admitted"
                          /\ ctx'[i].state # "admitted" => ctx[i].state # "admitted" \/ i = deleting
    BY <2>1 DEF Retired, Contexts
  <2>3. \A i \in Spaces : ctx'[i].state # "admitted" => ctx'[i].auth = authority'[i] /\ ~held'[i]
    BY <2>1, <2>2
  <2>4. /\ \A o \in Ops : Bound(pick[o])'
        /\ Bound(runPick)' /\ Bound(mend)'
    BY <2>1, <2>2
  <2> QED BY <2>1, <2>3, <2>4
<1>9. ASSUME NEW i \in Spaces, MendPick(i) PROVE Claims'
  BY <1>9 DEF MendPick
<1>10. ASSUME Mend PROVE Claims'
  <2>1. PICK next \in Outcomes : Advance(mend, next) /\ mend' = After(mend, next)
    BY <1>10 DEF Mend, Outcomes
  <2>2. mend \in Picks /\ mend # NoPick /\ mend.of.item \in Spaces
    BY <1>10 DEF Mend, Consented
  <2>3. /\ Firm
        /\ \A i \in Spaces : ctx'[i].state # "admitted" =>
             \/ ctx[i].state # "admitted"
             \/ ctx'[i].auth = authority[i] /\ ~held[i]
        /\ Bound(mend)'
    BY <2>1, <2>2, AdvanceClaims
  <2>4. UNCHANGED <<authority, held, deleting, pick, runPick>>
    BY <1>10 DEF Mend
  <2> QED BY <2>1, <2>3, <2>4 DEF Firm
<1>11. ASSUME NEW o \in Ops, NEW yes \in BOOLEAN, Confirm(o, yes) PROVE Claims'
  BY <1>11 DEF Confirm
<1>12. ASSUME Send PROVE Claims'
  BY <1>12 DEF Send, SetApi
<1>13. ASSUME TransportFails PROVE Claims'
  BY <1>13 DEF TransportFails, SetApi
<1>14. ASSUME Answered PROVE Claims'
  BY <1>14 DEF Answered, ReturnApi, SetHelper
<1>15. ASSUME RecoverSettles PROVE Claims'
  BY <1>15 DEF RecoverSettles, SetRows, ReturnApi
<1>16. ASSUME RecoverReconciles PROVE Claims'
  BY <1>16 DEF RecoverReconciles, SetRows, ReconcileRows, Reconciled, ReturnApi
<1>17. ASSUME Poll PROVE Claims'
  BY <1>17 DEF Poll, SetRows, ReconcileRows, Reconciled
<1>18. ASSUME ApiCrash PROVE Claims'
  BY <1>18 DEF ApiCrash
<1>19. ASSUME ApiStart PROVE Claims'
  BY <1>19 DEF ApiStart, SetRows, ReconcileRows, Reconciled
<1>20. ASSUME NEW o \in Ops, Prove(o) PROVE Claims'
  <2>1. /\ UNCHANGED <<itemVars, agent, apiVars, rowVars, runVars, taskVars, crashes>>
        /\ pick' = pick \/ pick' = [pick EXCEPT ![o] = NoPick]
    BY <1>20 DEF Prove, EndHelper
  <2>2. \A p \in Ops : pick'[p] = pick[p] \/ pick'[p] = NoPick
    BY <2>1
  <2> QED BY <2>1, <2>2, ClaimsStay
<1>21. ASSUME NEW o \in Ops, RefuseEarly(o) PROVE Claims'
  <2>1. /\ UNCHANGED <<ctx, authority, held, runPick, mend, deleting>>
        /\ pick' = pick \/ pick' = [pick EXCEPT ![o] = NoPick]
    BY <1>21 DEF RefuseEarly, EndHelper
  <2>2. \A p \in Ops : pick'[p] = pick[p] \/ pick'[p] = NoPick
    BY <2>1
  <2> QED BY <2>1, <2>2, ClaimsStay
<1>22. ASSUME NEW o \in Ops, Claim(o) PROVE Claims'
  <2>1. /\ UNCHANGED <<ctx, authority, held, runPick, mend, deleting>>
        /\ pick' = pick \/ pick' = [pick EXCEPT ![o] = NoPick]
    BY <1>22 DEF Claim, EndHelper
  <2>2. \A p \in Ops : pick'[p] = pick[p] \/ pick'[p] = NoPick
    BY <2>1
  <2> QED BY <2>1, <2>2, ClaimsStay
<1>23. ASSUME NEW o \in Ops, Gate(o) PROVE Claims'
  <2>1. /\ UNCHANGED <<ctx, authority, held, runPick, mend, deleting>>
        /\ pick' = pick \/ pick' = [pick EXCEPT ![o] = NoPick]
    BY <1>23 DEF Gate, EndHelper
  <2>2. \A p \in Ops : pick'[p] = pick[p] \/ pick'[p] = NoPick
    BY <2>1
  <2> QED BY <2>1, <2>2, ClaimsStay
<1>24. ASSUME NEW o \in Ops, NEW c \in todo[o], Recheck(o, c) PROVE Claims'
  BY <1>24 DEF Recheck
<1>25. ASSUME NEW o \in Ops, Remove(o) PROVE Claims'
  BY <1>25 DEF Remove
<1>26. ASSUME NEW o \in Ops, Retire(o) PROVE Claims'
  <2>1. PICK next \in Outcomes : Advance(pick[o], next) /\ pick' = [pick EXCEPT ![o] = After(@, next)]
    BY <1>26 DEF Retire, Outcomes
  <2>2. pick[o] \in Picks /\ pick[o] # NoPick /\ pick[o].of.item \in Spaces
    BY <1>26 DEF Retire
  <2>3. /\ Firm
        /\ \A i \in Spaces : ctx'[i].state # "admitted" =>
             \/ ctx[i].state # "admitted"
             \/ ctx'[i].auth = authority[i] /\ ~held[i]
        /\ Bound(pick[o])'
    BY <2>1, <2>2, AdvanceClaims
  <2>4. UNCHANGED <<authority, held, deleting, runPick, mend>>
    BY <1>26 DEF Retire
  <2> QED BY <2>1, <2>3, <2>4 DEF Firm
<1>27. ASSUME NEW o \in Ops, NextPhase(o) PROVE Claims'
  BY <1>27 DEF NextPhase, SetHelper, PhaseOver, Removing
<1>28. ASSUME NEW o \in Ops, Complete(o) PROVE Claims'
  <2>1. /\ UNCHANGED <<ctx, authority, held, runPick, mend, deleting>>
        /\ pick' = pick \/ pick' = [pick EXCEPT ![o] = NoPick]
    BY <1>28 DEF Complete, EndHelper
  <2>2. \A p \in Ops : pick'[p] = pick[p] \/ pick'[p] = NoPick
    BY <2>1
  <2> QED BY <2>1, <2>2, ClaimsStay
<1>29. ASSUME NEW o \in Ops, Abort(o) PROVE Claims'
  <2>1. /\ UNCHANGED <<ctx, authority, held, runPick, mend, deleting>>
        /\ pick' = pick \/ pick' = [pick EXCEPT ![o] = NoPick]
    BY <1>29 DEF Abort, EndHelper
  <2>2. \A p \in Ops : pick'[p] = pick[p] \/ pick'[p] = NoPick
    BY <2>1
  <2> QED BY <2>1, <2>2, ClaimsStay
<1>30. ASSUME NEW o \in Ops, HelperCrash(o) PROVE Claims'
  <2>1. /\ UNCHANGED <<ctx, authority, held, runPick, mend, deleting>>
        /\ pick' = pick \/ pick' = [pick EXCEPT ![o] = NoPick]
    BY <1>30 DEF HelperCrash, EndHelper
  <2>2. \A p \in Ops : pick'[p] = pick[p] \/ pick'[p] = NoPick
    BY <2>1
  <2> QED BY <2>1, <2>2, ClaimsStay
<1>31. ASSUME RunStarts PROVE Claims'
  BY <1>31 DEF RunStarts
<1>32. ASSUME NEW c \in runTodo, RunRechecks(c) PROVE Claims'
  BY <1>32 DEF RunRechecks
<1>33. ASSUME RunRemoves PROVE Claims'
  BY <1>33 DEF RunRemoves
<1>34. ASSUME RunRetires PROVE Claims'
  <2>1. PICK next \in Outcomes : Advance(runPick, next) /\ runPick' = After(runPick, next)
    BY <1>34 DEF RunRetires, Outcomes
  <2>2. runPick \in Picks /\ runPick # NoPick /\ runPick.of.item \in Spaces
    BY <1>34 DEF RunRetires
  <2>3. /\ Firm
        /\ \A i \in Spaces : ctx'[i].state # "admitted" =>
             \/ ctx[i].state # "admitted"
             \/ ctx'[i].auth = authority[i] /\ ~held[i]
        /\ Bound(runPick)'
    BY <2>1, <2>2, AdvanceClaims
  <2>4. UNCHANGED <<authority, held, deleting, pick, mend>>
    BY <1>34 DEF RunRetires
  <2> QED BY <2>1, <2>3, <2>4 DEF Firm
<1>35. ASSUME RunEnds PROVE Claims'
  BY <1>35 DEF RunEnds
<1>36. ASSUME RunCrash PROVE Claims'
  BY <1>36 DEF RunCrash
<1>37. CASE UNCHANGED vars
  BY <1>37 DEF vars
<1> QED BY <1>1, <1>2, <1>3, <1>4, <1>5, <1>6, <1>7, <1>8, <1>9, <1>10, <1>11, <1>12, <1>13,
  <1>14, <1>15, <1>16, <1>17, <1>18, <1>19, <1>20, <1>21, <1>22, <1>23, <1>24, <1>25, <1>26,
  <1>27, <1>28, <1>29, <1>30, <1>31, <1>32, <1>33, <1>34, <1>35, <1>36, <1>37 DEF Next, ApiStep,
  HelperStep, RunStep

(* A plan allows content to be lost only where somebody agreed to that.     *)
LEMMA PlanBacked ==
  ASSUME TypeOK, Claims, Consented, NEW asked \in BOOLEAN, NEW i \in Items,
         Unprotected(i, asked), Allows(i, asked)
  PROVE  i \in Spaces /\ MayRetire(i, asked) /\ (asked \/ authority[i] \in agreed[i])
<1>1. i \in Spaces /\ (asked \/ (ctx[i].state = "retiring" /\ ctx[i].dirty))
  BY DEF Allows
<1>2. MayRetire(i, asked)
  BY <1>1, ItemsAssumption DEF Unprotected
<1> QED BY <1>1, <1>2 DEF Claims, Consented

(* A claim carries the consent of the candidate it is made for.             *)
LEMMA AdvanceConsented ==
  ASSUME TypeOK, Consented, NEW p \in Picks, p.of.item \in Spaces, Backed(p.of),
         NEW next \in Outcomes, Advance(p, next)
  PROVE  /\ \A i \in Paths : ~dirty'[i]
         /\ \A i \in Spaces : ctx'[i].dirty =>
              ctx'[i].state # "admitted" /\ ctx'[i].auth \in agreed[i]
         /\ After(p, next) # NoPick => After(p, next).of = p.of
<1>1. \A i \in Paths : ~dirty'[i]
  BY DEF Advance, Vanish, TypeOK, Consented, Items
<1>2. ASSUME ctx' = ClaimFor(p.of), NEW i \in Spaces, ctx'[i].dirty
      PROVE  ctx'[i].state # "admitted" /\ ctx'[i].auth \in agreed[i]
  BY <1>2 DEF ClaimFor, TypeOK, Consented, Backed
<1>3. ASSUME ctx' = Retired(p.of.item), NEW i \in Spaces, ctx'[i].dirty
      PROVE  ctx'[i].state # "admitted" /\ ctx'[i].auth \in agreed[i]
  <2>1. /\ ctx'[i].dirty = ctx[i].dirty /\ ctx'[i].auth = ctx[i].auth
        /\ ctx'[i].state \in {ctx[i].state, "retired"}
    <3>1. ctx[i] \in Contexts
      BY DEF TypeOK
    <3>2. CASE i = p.of.item
      <4>1. ctx'[i] = [ctx[i] EXCEPT !.state = "retired"]
        BY <1>3, <3>2 DEF Retired, TypeOK
      <4> QED BY <3>1, <4>1 DEF Contexts
    <3>3. CASE i # p.of.item
      BY <1>3, <3>3 DEF Retired, TypeOK
    <3> QED BY <3>2, <3>3
  <2> QED BY <1>3, <2>1 DEF Consented
<1>4. ASSUME ctx' = ctx, NEW i \in Spaces, ctx'[i].dirty
      PROVE  ctx'[i].state # "admitted" /\ ctx'[i].auth \in agreed[i]
  BY <1>4 DEF Consented
<1>5. After(p, next) # NoPick => After(p, next).of = p.of
  BY DEF After, Picks
<1> QED BY <1>1, <1>2, <1>3, <1>4, <1>5 DEF Advance

(* Every step keeps content from being lost without consent: consent is     *)
(* only ever added, and copied from a plan to a claim and to another plan.  *)
LEMMA NextConsented == TypeOK /\ PickIsFree /\ Claims /\ Consented /\ [Next]_vars => Consented'
<1> SUFFICES ASSUME TypeOK, PickIsFree, Claims, Consented, [Next]_vars PROVE Consented'
  OBVIOUS
<1> USE DEF TypeOK, Consented, Backed, NoPick, itemVars, diskVars, spaceVars, apiVars, rowVars, helperVars, runVars, taskVars
<1>1. ASSUME AdmitWork PROVE Consented'
  BY <1>1 DEF AdmitWork
<1>2. ASSUME WorkEnds PROVE Consented'
  BY <1>2 DEF WorkEnds
<1>3. ASSUME NEW i \in Items, Open(i) PROVE Consented'
  BY <1>3 DEF Open
<1>4. ASSUME NEW i \in Items, Launch(i) PROVE Consented'
  BY <1>4 DEF Launch
<1>5. ASSUME NEW i \in Items, Release(i) PROVE Consented'
  BY <1>5 DEF Release
<1>6. ASSUME NEW i \in Items, NEW yes \in BOOLEAN, Touch(i, yes) PROVE Consented'
  BY <1>6 DEF Touch, Items
<1>7. ASSUME NEW i \in Items, NEW yes \in BOOLEAN, DeleteStarts(i, yes) PROVE Consented'
  <2> DEFINE c == CandidateOf(i, yes)
  <2>1. c.allow = yes /\ c.item = i /\ c.auth = authority[i]
    BY DEF CandidateOf
  <2>2. /\ i \in Spaces /\ ctx' = ClaimFor(c)
        /\ agreed' = [agreed EXCEPT ![i] = IF yes THEN @ \cup {authority[i]} ELSE @]
        /\ UNCHANGED <<dirty, plan, runTodo, mend>>
    BY <1>7 DEF DeleteStarts
  <2> HIDE DEF c
  <2>3. /\ \A j \in Spaces : agreed[j] \subseteq agreed'[j]
        /\ yes => authority[i] \in agreed'[i]
    BY <2>2
  <2>4. ctx' = [ctx EXCEPT ![i] = [state |-> "retiring", dirty |-> yes, auth |-> authority[i]]]
    BY <2>1, <2>2 DEF ClaimFor
  <2>5. \A j \in Spaces : ctx'[j].dirty => ctx'[j].state # "admitted" /\ ctx'[j].auth \in agreed'[j]
    BY <2>3, <2>4
  <2> QED BY <2>2, <2>3, <2>5
<1>8. ASSUME DeleteEnds PROVE Consented'
  <2>1. /\ deleting \in Spaces
        /\ (ctx' = ctx /\ dirty' = dirty) \/ (ctx' = Retired(deleting) /\ Vanish(deleting))
        /\ UNCHANGED <<agreed, plan, runTodo, mend>>
    BY <1>8 DEF DeleteEnds
  <2>2. \A i \in Paths : ~dirty'[i]
    BY <2>1 DEF Vanish, Items
  <2>3. \A i \in Spaces : ctx'[i].dirty => ctx'[i].state # "admitted" /\ ctx'[i].auth \in agreed[i]
    <3>1. \A i \in Spaces : /\ ctx'[i].dirty = ctx[i].dirty /\ ctx'[i].auth = ctx[i].auth
                            /\ ctx'[i].state \in {ctx[i].state, "retired"}
      BY <2>1 DEF Retired, Contexts
    <3> QED BY <3>1
  <2> QED BY <2>1, <2>2, <2>3
<1>9. ASSUME NEW i \in Spaces, MendPick(i) PROVE Consented'
  <2> DEFINE c == CandidateOf(i, Allows(i, FALSE))
  <2>1. mend' = [of |-> c, at |-> "picked"] /\ UNCHANGED <<dirty, ctx, agreed, plan, runTodo>>
    BY <1>9 DEF MendPick
  <2>2. c.item = i /\ c.allow = Allows(i, FALSE) /\ c.auth = authority[i]
    BY DEF CandidateOf
  <2>3. Unprotected(i, FALSE) /\ i \in Items
    BY <1>9 DEF MendPick, Unprotected, Items
  <2>4. c.allow => authority[i] \in agreed[i]
    BY <2>2, <2>3, PlanBacked
  <2> HIDE DEF c
  <2> QED BY <2>1, <2>2, <2>4
<1>10. ASSUME Mend PROVE Consented'
  <2>1. PICK next \in Outcomes : Advance(mend, next) /\ mend' = After(mend, next)
    BY <1>10 DEF Mend, Outcomes
  <2>2. mend \in Picks /\ mend.of.item \in Spaces /\ Backed(mend.of)
    BY <1>10 DEF Mend
  <2>3. /\ \A i \in Paths : ~dirty'[i]
        /\ \A i \in Spaces : ctx'[i].dirty =>
             ctx'[i].state # "admitted" /\ ctx'[i].auth \in agreed[i]
        /\ After(mend, next) # NoPick => After(mend, next).of = mend.of
    BY <2>1, <2>2, AdvanceConsented
  <2>4. UNCHANGED <<agreed, plan, runTodo>>
    BY <1>10 DEF Mend
  <2> QED BY <2>1, <2>2, <2>3, <2>4
<1>11. ASSUME NEW o \in Ops, NEW yes \in BOOLEAN, Confirm(o, yes) PROVE Consented'
  <2>1. /\ plan' = [plan EXCEPT ![o] = Plan(yes)]
        /\ agreed' = [i \in Spaces |-> IF yes /\ MayRetire(i, yes) THEN agreed[i] \cup {authority[i]}
                                                                   ELSE agreed[i]]
        /\ UNCHANGED <<dirty, ctx, runTodo, mend>>
    BY <1>11 DEF Confirm
  <2>2. \A i \in Spaces : agreed[i] \subseteq agreed'[i]
    BY <2>1
  <2>3. ASSUME NEW c \in Plan(yes), c.allow PROVE c.item \in Spaces /\ c.auth \in agreed'[c.item]
    <3>1. PICK i \in Items : Unprotected(i, yes) /\ c = CandidateOf(i, Allows(i, yes))
      BY DEF Plan
    <3>2. c.item = i /\ c.allow = Allows(i, yes) /\ c.auth = authority[i]
      BY <3>1 DEF CandidateOf
    <3>3. i \in Spaces /\ MayRetire(i, yes) /\ (yes \/ authority[i] \in agreed[i])
      BY <2>3, <3>1, <3>2, PlanBacked
    <3> QED BY <2>1, <3>2, <3>3
  <2>4. \A p \in Ops : \A c \in plan'[p] : c.allow => c.item \in Spaces /\ c.auth \in agreed'[c.item]
    BY <2>1, <2>2, <2>3
  <2> QED BY <2>1, <2>2, <2>4
<1>12. ASSUME Send PROVE Consented'
  BY <1>12 DEF Send, SetApi
<1>13. ASSUME TransportFails PROVE Consented'
  BY <1>13 DEF TransportFails, SetApi
<1>14. ASSUME Answered PROVE Consented'
  BY <1>14 DEF Answered, ReturnApi, SetHelper
<1>15. ASSUME RecoverSettles PROVE Consented'
  BY <1>15 DEF RecoverSettles, SetRows, ReturnApi
<1>16. ASSUME RecoverReconciles PROVE Consented'
  BY <1>16 DEF RecoverReconciles, SetRows, ReconcileRows, Reconciled, ReturnApi
<1>17. ASSUME Poll PROVE Consented'
  BY <1>17 DEF Poll, SetRows, ReconcileRows, Reconciled
<1>18. ASSUME ApiCrash PROVE Consented'
  BY <1>18 DEF ApiCrash
<1>19. ASSUME ApiStart PROVE Consented'
  BY <1>19 DEF ApiStart, SetRows, ReconcileRows, Reconciled
<1>20. ASSUME NEW o \in Ops, Prove(o) PROVE Consented'
  BY <1>20 DEF Prove, EndHelper, SetHelper
<1>21. ASSUME NEW o \in Ops, RefuseEarly(o) PROVE Consented'
  BY <1>21 DEF RefuseEarly, EndHelper, SetHelper
<1>22. ASSUME NEW o \in Ops, Claim(o) PROVE Consented'
  BY <1>22 DEF Claim, Claimable, EndHelper, SetHelper
<1>23. ASSUME NEW o \in Ops, Gate(o) PROVE Consented'
  BY <1>23 DEF Gate, SetRows, EndHelper, SetHelper
<1>24. ASSUME NEW o \in Ops, NEW c \in todo[o], Recheck(o, c) PROVE Consented'
  BY <1>24 DEF Recheck
<1>25. ASSUME NEW o \in Ops, Remove(o) PROVE Consented'
  <2>1. dirty' = dirty \/ (pick[o].of.item \in Items /\ Vanish(pick[o].of.item))
    BY <1>25, PickParts DEF Remove
  <2> QED BY <1>25, <2>1 DEF Remove, Vanish, Items
<1>26. ASSUME NEW o \in Ops, Retire(o) PROVE Consented'
  <2>1. PICK next \in Outcomes : Advance(pick[o], next)
    BY <1>26 DEF Retire, Outcomes
  <2>2. pick[o] \in Picks /\ pick[o].of.item \in Spaces /\ Backed(pick[o].of)
    BY <1>26 DEF Retire, PickIsFree, Removing
  <2>3. /\ \A i \in Paths : ~dirty'[i]
        /\ \A i \in Spaces : ctx'[i].dirty =>
             ctx'[i].state # "admitted" /\ ctx'[i].auth \in agreed[i]
        /\ After(pick[o], next) # NoPick => After(pick[o], next).of = pick[o].of
    BY <2>1, <2>2, AdvanceConsented
  <2>4. UNCHANGED <<agreed, plan, runTodo, mend>>
    BY <1>26 DEF Retire
  <2> QED BY <2>1, <2>2, <2>3, <2>4
<1>27. ASSUME NEW o \in Ops, NextPhase(o) PROVE Consented'
  BY <1>27 DEF NextPhase, SetHelper, PhaseOver, Removing
<1>28. ASSUME NEW o \in Ops, Complete(o) PROVE Consented'
  BY <1>28 DEF Complete, SetRows, EndHelper, SetHelper, Outcome
<1>29. ASSUME NEW o \in Ops, Abort(o) PROVE Consented'
  BY <1>29 DEF Abort, SetRows, Removing, EndHelper, SetHelper
<1>30. ASSUME NEW o \in Ops, HelperCrash(o) PROVE Consented'
  BY <1>30 DEF HelperCrash, EndHelper, SetHelper
<1>31. ASSUME RunStarts PROVE Consented'
  <2>1. runTodo' = Plan(FALSE) /\ UNCHANGED <<dirty, ctx, agreed, plan, mend>>
    BY <1>31 DEF RunStarts
  <2>2. ASSUME NEW c \in Plan(FALSE), c.allow PROVE c.item \in Spaces /\ c.auth \in agreed[c.item]
    <3>1. PICK i \in Items : Unprotected(i, FALSE) /\ c = CandidateOf(i, Allows(i, FALSE))
      BY DEF Plan
    <3>2. c.item = i /\ c.allow = Allows(i, FALSE) /\ c.auth = authority[i]
      BY <3>1 DEF CandidateOf
    <3> QED BY <2>2, <3>1, <3>2, PlanBacked
  <2> QED BY <2>1, <2>2
<1>32. ASSUME NEW c \in runTodo, RunRechecks(c) PROVE Consented'
  BY <1>32 DEF RunRechecks
<1>33. ASSUME RunRemoves PROVE Consented'
  BY <1>33 DEF RunRemoves, Vanish, Items
<1>34. ASSUME RunRetires PROVE Consented'
  <2>1. PICK next \in Outcomes : Advance(runPick, next)
    BY <1>34 DEF RunRetires, Outcomes
  <2>2. runPick \in Picks /\ runPick.of.item \in Spaces /\ Backed(runPick.of)
    BY <1>34 DEF RunRetires, PickIsFree
  <2>3. /\ \A i \in Paths : ~dirty'[i]
        /\ \A i \in Spaces : ctx'[i].dirty =>
             ctx'[i].state # "admitted" /\ ctx'[i].auth \in agreed[i]
        /\ After(runPick, next) # NoPick => After(runPick, next).of = runPick.of
    BY <2>1, <2>2, AdvanceConsented
  <2>4. UNCHANGED <<agreed, plan, mend>> /\ runTodo' \subseteq runTodo
    BY <1>34 DEF RunRetires
  <2> QED BY <2>1, <2>2, <2>3, <2>4
<1>35. ASSUME RunEnds PROVE Consented'
  BY <1>35 DEF RunEnds
<1>36. ASSUME RunCrash PROVE Consented'
  BY <1>36 DEF RunCrash
<1>37. CASE UNCHANGED vars
  BY <1>37 DEF vars
<1> QED BY <1>1, <1>2, <1>3, <1>4, <1>5, <1>6, <1>7, <1>8, <1>9, <1>10, <1>11, <1>12, <1>13,
  <1>14, <1>15, <1>16, <1>17, <1>18, <1>19, <1>20, <1>21, <1>22, <1>23, <1>24, <1>25, <1>26,
  <1>27, <1>28, <1>29, <1>30, <1>31, <1>32, <1>33, <1>34, <1>35, <1>36, <1>37 DEF Next, ApiStep,
  HelperStep, RunStep

(* The inductive invariant holds at the start.                              *)
LEMMA InitInv == Init => IInv
<1> SUFFICES ASSUME Init PROVE IInv
  OBVIOUS
<1>1. TypeOK
  BY BoundsAssumption DEF Init, TypeOK, Plans, Contexts, NoOp, NoPick
<1>2. Fenced /\ StartedOnce /\ PickIsFree /\ Accounted
  BY <1>1 DEF Init, Fenced, StartedOnce, PickIsFree, Accounted, Active, Working, Requesting, Removing,
    AtTree, NoPick
<1>3. Claims /\ Consented
  BY <1>1, ItemsAssumption DEF Init, Claims, Bound, Consented, Backed, NoPick, Items
<1> QED BY <1>1, <1>2, <1>3 DEF IInv

(* Every step keeps the inductive invariant.                                *)
LEMMA NextInv == IInv /\ [Next]_vars => IInv'
  BY NextType, NextFenced, NextStartedOnce, NextPickIsFree, NextAccounted, NextClaims, NextConsented
  DEF IInv

(* The inductive invariant holds in every reachable state.                  *)
THEOREM Invariance == Spec => []IInv
  BY InitInv, NextInv, PTL DEF Spec

(* The variables have their types in every reachable state.                 *)
THEOREM TypeCorrect == Spec => []TypeOK
<1>1. IInv => TypeOK
  BY DEF IInv
<1> QED BY <1>1, Invariance, PTL

(* A helper that may still remove something is alone: no agent executes, no *)
(* ordinary run and no other helper works, and its row is open, whichever   *)
(* processes have died.                                                     *)
THEOREM Alone == Spec => []HelperAlone
<1>1. IInv => HelperAlone
  BY DEF IInv, Fenced, Active, Working, Removing, HelperAlone
<1> QED BY <1>1, Invariance, PTL

(* Whoever is at an item takes it: a path or tree that is still intact, or  *)
(* a Space it has claimed and whose content it may lose.                    *)
TakenBy(p, i) == /\ p # NoPick /\ p \in Picks /\ p.of.item = i
                 /\ \/ i \notin Spaces /\ Intact(p.of)
                    \/ i \in Spaces /\ p.at = "checked" /\ GitRemoves(p.of)

LEMMA AdvanceRemoves ==
  ASSUME TypeOK, NEW p \in Picks, p # NoPick, p.of.item \in Spaces, NEW next \in Outcomes,
         Advance(p, next), NEW i \in Items, Goes(i)
  PROVE  TakenBy(p, i)
<1>1. p.at = "checked" /\ GitRemoves(p.of) /\ Vanish(p.of.item)
  BY DEF Advance, Goes
<1>2. p.of.item = i
  BY <1>1 DEF Vanish, Goes, TypeOK
<1> QED BY <1>1, <1>2 DEF TakenBy

(* Only these steps take an item away.                                      *)
Ends(i) == DeleteEnds /\ deleting = i /\ i \in Spaces /\ (dirty[i] => ctx[i].dirty)

LEMMA TakesAway ==
  ASSUME [Next]_vars, NEW i \in Items, TypeOK, Consented, Goes(i)
  PROVE  \/ Ends(i)
         \/ \E o \in Ops : TakenBy(pick[o], i) /\ (Remove(o) \/ Retire(o))
         \/ TakenBy(runPick, i) /\ (RunRemoves \/ RunRetires)
         \/ TakenBy(mend, i) /\ Mend
<1>1. ASSUME NEW o \in Ops, Remove(o) PROVE TakenBy(pick[o], i)
  <2>1. /\ pick[o] # NoPick /\ pick[o] \in Picks
        /\ pick[o].of.item \notin Spaces /\ Intact(pick[o].of) /\ Vanish(pick[o].of.item)
    BY <1>1 DEF Remove, Goes, TypeOK
  <2>2. pick[o].of.item = i
    BY <2>1 DEF Vanish, Goes, TypeOK
  <2> QED BY <2>1, <2>2 DEF TakenBy
<1>2. ASSUME NEW o \in Ops, Retire(o) PROVE TakenBy(pick[o], i)
  <2>1. PICK next \in Outcomes : Advance(pick[o], next)
    BY <1>2 DEF Retire, Outcomes
  <2>2. pick[o] # NoPick /\ pick[o] \in Picks /\ pick[o].of.item \in Spaces
    BY <1>2 DEF Retire, TypeOK
  <2> QED BY <2>1, <2>2, AdvanceRemoves
<1>3. ASSUME RunRemoves PROVE TakenBy(runPick, i)
  <2>1. /\ runPick # NoPick /\ runPick \in Picks
        /\ runPick.of.item \notin Spaces /\ Intact(runPick.of) /\ Vanish(runPick.of.item)
    BY <1>3 DEF RunRemoves, Goes, TypeOK
  <2>2. runPick.of.item = i
    BY <2>1 DEF Vanish, Goes, TypeOK
  <2> QED BY <2>1, <2>2 DEF TakenBy
<1>4. ASSUME RunRetires PROVE TakenBy(runPick, i)
  <2>1. PICK next \in Outcomes : Advance(runPick, next)
    BY <1>4 DEF RunRetires, Outcomes
  <2>2. runPick # NoPick /\ runPick \in Picks /\ runPick.of.item \in Spaces
    BY <1>4 DEF RunRetires, TypeOK
  <2> QED BY <2>1, <2>2, AdvanceRemoves
<1>5. CASE DeleteEnds
  BY <1>5 DEF DeleteEnds, Ends, Vanish, Goes, TypeOK
<1>6. CASE Mend
  <2>1. PICK next \in Outcomes : Advance(mend, next)
    BY <1>6 DEF Mend, Outcomes
  <2>2. mend # NoPick /\ mend \in Picks
    BY <1>6 DEF Mend, TypeOK
  <2>3. mend.of.item \in Spaces
    BY <2>2 DEF Consented
  <2> QED BY <1>6, <2>1, <2>2, <2>3, AdvanceRemoves
<1>7. CASE /\ ~(\E o \in Ops : Remove(o) \/ Retire(o))
           /\ ~RunRemoves /\ ~RunRetires /\ ~DeleteEnds /\ ~Mend
  <2>1. there' = there
    BY <1>7 DEF Next, ApiStep, HelperStep, RunStep, AdmitWork, WorkEnds, Open, Launch, Release, Touch,
      DeleteStarts, MendPick, Confirm, Send, TransportFails, Answered, RecoverSettles,
      RecoverReconciles, Poll, ApiCrash, ApiStart, Prove, RefuseEarly, Claim, Gate, Recheck, NextPhase,
      Complete, Abort, HelperCrash, RunStarts, RunRechecks, RunEnds, RunCrash, diskVars, itemVars, vars
  <2> QED BY <2>1 DEF Goes
<1> QED BY <1>1, <1>2, <1>3, <1>4, <1>5, <1>6, <1>7

(* A Space is taken under the authority it was claimed for, which it still  *)
(* has, and while no agent is bound to it.                                  *)
LEMMA TakenClaimed ==
  ASSUME Claims, NEW p, NEW i \in Spaces, Bound(p), TakenBy(p, i)
  PROVE  p.of.item = i /\ p.of.auth = authority[i] /\ ~held[i]
  BY DEF TakenBy, Bound, Claims

(* What a helper removes was confirmed: a path with this very content, a    *)
(* Session workspace under this very authority; it is unprotected, and no   *)
(* one removes a worktree an agent is bound to.                             *)
THEOREM Confirmed == Spec => OnlyConfirmedGoes
<1> DEFINE Moved == \A i \in Items : Goes(i) =>
      /\ \A o \in Ops : RemovedBy(o, i) =>
           /\ \E c \in plan[o] : /\ c.item = i
                                 /\ i \in Paths => c.content = version[i]
                                 /\ i \in Spaces => c.auth = authority[i]
           /\ ~held[i]
      /\ i \notin Paths => ~held[i]
<1>1. ASSUME IInv, [Next]_vars, NEW i \in Items, Goes(i)
      PROVE  /\ \A o \in Ops : RemovedBy(o, i) =>
                  /\ \E c \in plan[o] : /\ c.item = i
                                        /\ i \in Paths => c.content = version[i]
                                        /\ i \in Spaces => c.auth = authority[i]
                  /\ ~held[i]
             /\ i \notin Paths => ~held[i]
  <2> USE <1>1 DEF IInv
  <2>1. CASE Ends(i)
    <3>1. pick' = pick
      BY <2>1 DEF Ends, DeleteEnds, helperVars
    <3>2. ~held[i]
      BY <2>1 DEF Ends, DeleteEnds, Claims
    <3> QED BY <3>1, <3>2 DEF RemovedBy
  <2>2. ASSUME NEW o \in Ops, TakenBy(pick[o], i), Remove(o) \/ Retire(o)
        PROVE  /\ \E c \in plan[o] : /\ c.item = i
                                     /\ i \in Paths => c.content = version[i]
                                     /\ i \in Spaces => c.auth = authority[i]
               /\ ~held[i]
               /\ \A p \in Ops \ {o} : ~RemovedBy(p, i)
    <3>1. pick[o].of \in plan[o] /\ pick[o].of.item = i /\ ~held[i]
      BY <2>2 DEF PickIsFree, TakenBy
    <3>2. i \in Paths => pick[o].of.content = version[i]
      BY <2>2, ItemsAssumption DEF TakenBy, Intact
    <3>3. i \in Spaces => pick[o].of.auth = authority[i]
      BY <2>2, TakenClaimed DEF Claims
    <3>4. \A p \in Ops \ {o} : pick'[p] = pick[p]
      BY <2>2 DEF Remove, Retire, TypeOK
    <3> QED BY <3>1, <3>2, <3>3, <3>4 DEF RemovedBy
  <2>3. ASSUME TakenBy(runPick, i), RunRemoves \/ RunRetires
        PROVE  pick' = pick /\ (i \notin Paths => ~held[i])
    BY <2>3 DEF RunRemoves, RunRetires, helperVars, TakenBy, PickIsFree, AtTree
  <2>4. ASSUME TakenBy(mend, i), Mend
        PROVE  pick' = pick /\ ~held[i]
    <3>1. i \in Spaces
      BY <2>4 DEF Consented, TakenBy
    <3> QED BY <2>4, <3>1, TakenClaimed DEF Claims, Mend, helperVars
  <2> QED BY <2>1, <2>2, <2>3, <2>4, TakesAway DEF RemovedBy
<1>2. ASSUME IInv, [Next]_vars PROVE Moved
  BY <1>1, <1>2
<1>3. Spec => [][Moved]_vars
  BY <1>2, Invariance, PTL DEF Spec
<1> QED BY <1>3, PTL DEF OnlyConfirmedGoes

(* Content no commit keeps is lost with a Session workspace only, and only  *)
(* where somebody agreed to that for this very authority, through whatever  *)
(* crashes the claim, and whoever finishes it.                              *)
THEOREM ConsentNeeded == Spec => UncommittedNeedsConsent
<1> DEFINE Moved == \A i \in Items :
      Goes(i) /\ dirty[i] => i \in Spaces /\ authority[i] \in agreed[i]
<1>1. ASSUME IInv, [Next]_vars, NEW i \in Items, Goes(i), dirty[i]
      PROVE  i \in Spaces /\ authority[i] \in agreed[i]
  <2> USE <1>1 DEF IInv
  <2>1. ASSUME NEW p, TakenBy(p, i), Bound(p), i \in Spaces => Backed(p.of)
        PROVE  i \in Spaces /\ authority[i] \in agreed[i]
    <3>1. i \in Spaces
      BY <2>1 DEF TakenBy, Intact, Consented
    <3>2. p.of.allow /\ p.of.item = i
      BY <2>1, <3>1 DEF TakenBy, GitRemoves
    <3>3. p.of.auth = authority[i]
      BY <2>1, <3>1, TakenClaimed
    <3> QED BY <2>1, <3>1, <3>2, <3>3 DEF Backed
  <2>2. CASE Ends(i)
    BY <2>2 DEF Ends, Claims, Consented
  <2>3. ASSUME NEW o \in Ops, TakenBy(pick[o], i)
        PROVE  i \in Spaces /\ authority[i] \in agreed[i]
    <3>1. Backed(pick[o].of) /\ Bound(pick[o])
      BY <2>3 DEF PickIsFree, Consented, Claims, TakenBy
    <3> QED BY <2>1, <2>3, <3>1
  <2>4. CASE TakenBy(runPick, i)
    <3>1. Backed(runPick.of) /\ Bound(runPick)
      BY <2>4 DEF PickIsFree, Consented, Claims, TakenBy
    <3> QED BY <2>1, <2>4, <3>1
  <2>5. CASE TakenBy(mend, i)
    <3>1. Backed(mend.of) /\ Bound(mend)
      BY <2>5 DEF Consented, Claims, TakenBy
    <3> QED BY <2>1, <2>5, <3>1
  <2> QED BY <2>2, <2>3, <2>4, <2>5, TakesAway
<1>2. ASSUME IInv, [Next]_vars PROVE Moved
  BY <1>1, <1>2
<1>3. Spec => [][Moved]_vars
  BY <1>2, Invariance, PTL DEF Spec
<1> QED BY <1>3, PTL DEF UncommittedNeedsConsent

(* A receipt is true: nothing was removed for an operation that failed      *)
(* without a report, and nothing of the plan is left after a completed one. *)
THEOREM Truthful == Spec => ReceiptIsTrue
<1> DEFINE Settles(o) == /\ state[o] # state'[o] /\ state'[o] = "failed" /\ ~report'[o] => ~removed[o]
                         /\ state'[o] = "completed" /\ state[o] = "running" =>
                              \A c \in plan[o] : ~there[c.item]
           Moved == \A o \in Ops :
             /\ (state[o] = "admitted" \/ (state[o] # state'[o] /\ state'[o] = "failed" /\ ~report'[o]))
                  => ~removed[o]
             /\ (state'[o] = "completed" /\ state[o] = "running")
                  => \A c \in plan[o] : ~there[c.item]
<1>1. ASSUME IInv, [Next]_vars, NEW o \in Ops PROVE Settles(o)
  <2>1. CASE state'[o] = state[o]
    BY <2>1
  <2>2. ASSUME NEW p \in Ops, (\E yes \in BOOLEAN : Confirm(p, yes)) \/ Claim(p) PROVE Settles(o)
    BY <1>1, <2>2 DEF Confirm, Claim, EndHelper, IInv, TypeOK
  <2>3. CASE RecoverSettles
    BY <1>1, <2>3 DEF RecoverSettles, SetRows, IInv, TypeOK, Accounted
  <2>4. CASE RecoverReconciles \/ Poll \/ ApiStart
    <3>1. \/ state'[o] = state[o]
          \/ state[o] = "admitted" /\ state'[o] = "failed"
          \/ state'[o] = "indeterminate"
      BY <2>4 DEF RecoverReconciles, Poll, ApiStart, ReconcileRows, SetRows, Reconciled
    <3> QED BY <1>1, <3>1 DEF IInv, Accounted
  <2>5. ASSUME NEW p \in Ops, Gate(p) PROVE Settles(o)
    BY <1>1, <2>5 DEF Gate, SetRows, IInv, TypeOK, Accounted
  <2>6. ASSUME NEW p \in Ops, Abort(p) PROVE Settles(o)
    BY <1>1, <2>6 DEF Abort, SetRows, IInv, TypeOK
  <2>7. ASSUME NEW p \in Ops, Complete(p) PROVE Settles(o)
    <3>1. CASE o # p \/ state[p] # "running"
      <4>1. state'[o] = state[o]
        BY <1>1, <2>7, <3>1 DEF Complete, SetRows, rowVars, IInv, TypeOK
      <4> QED BY <4>1
    <3>2. CASE o = p /\ state[p] = "running"
      <4>1. report'[o]
        BY <1>1, <2>7, <3>2 DEF Complete, IInv, TypeOK
      <4>2. state'[o] = Outcome(o)
        BY <1>1, <2>7, <3>2 DEF Complete, SetRows, IInv, TypeOK
      <4>3. state'[o] = "completed" => result[o] = "clean"
        BY <1>1, <4>2 DEF Outcome, IInv, TypeOK
      <4>4. result[o] = "clean" => helper[o] = "runtime" /\ todo[o] = {}
        BY <2>7, <3>2 DEF Complete, PhaseOver, LastPhase
      <4> QED BY <1>1, <4>1, <4>3, <4>4 DEF IInv, Accounted, Removing
    <3> QED BY <3>1, <3>2
  <2>8. \/ state' = state
        \/ \E p \in Ops : (\E yes \in BOOLEAN : Confirm(p, yes)) \/ Claim(p) \/ Gate(p) \/ Abort(p)
                          \/ Complete(p)
        \/ RecoverSettles \/ RecoverReconciles \/ Poll \/ ApiStart
    BY <1>1 DEF Next, ApiStep, HelperStep, RunStep, AdmitWork, WorkEnds, Open, Launch, Release, Touch,
      DeleteStarts, DeleteEnds, MendPick, Mend, Send, TransportFails, Answered, ApiCrash, Prove,
      RefuseEarly, Recheck, Remove, Retire, NextPhase, HelperCrash, RunStarts, RunRechecks, RunRemoves,
      RunRetires, RunEnds, RunCrash, rowVars, vars
  <2> QED BY <2>1, <2>2, <2>3, <2>4, <2>5, <2>6, <2>7, <2>8
<1>2. ASSUME IInv, [Next]_vars PROVE Moved
  BY <1>1, <1>2 DEF IInv, Accounted
<1>3. Spec => [][Moved]_vars
  BY <1>2, Invariance, PTL DEF Spec
<1> QED BY <1>3, PTL DEF ReceiptIsTrue

-----------------------------------------------------------------------------
(* The retirement of a child, which Full Cleanup finishes, for any number of *)
(* assignments, claims, inputs and faults.                                   *)

Chosen == {"revalidate", "recheck", "reserve", "exit"}

(* Claims are numbered as they are taken, and while the child runs nobody    *)
(* takes up the claim of another.                                            *)
Numbered ==
  /\ \A k \in 1..Len(asg) : asg[k].tok <= tokens
  /\ \A d \in Drivers : drv[d].step # "idle" => drv[d].tok \in 1..tokens
OwnClaim ==
  life = "running" => \A d, e \in Drivers :
     drv[d].step # "idle" /\ drv[e].step # "idle" /\ drv[d].tok = drv[e].tok => d = e

(* The order of the end: the runtime, the worktree, the assignment.          *)
InOrder ==
  /\ \A d \in Drivers : /\ drv[d].step \in {"clean", "seal"} => life = "exited"
                        /\ drv[d].step = "seal" => tree = "removed"
  /\ tree = "removed" => life = "exited"
  /\ \A k \in 1..Len(asg) : asg[k].done => tree = "removed"

(* A claimed child has no open workflow, and no later assignment is final.   *)
FencedChild ==
  \A k \in 1..Len(asg) : asg[k].tok # 0 => wf # "open" /\ (k # Len(asg) => asg[Len(asg)].st # "final")

(* A running child was told to exit under the one claim that is marked so,   *)
(* and then by nobody who could still tell it again.                         *)
MarkedExit ==
  /\ exits <= 1
  /\ life = "running" =>
       /\ \A d \in Drivers : drv[d].step = "exit" =>
             \E k \in 1..Len(asg) : asg[k].tok = drv[d].tok /\ asg[k].sent
       /\ exits = 1 => /\ \E k \in 1..Len(asg) : asg[k].tok # 0 /\ asg[k].sent
                       /\ \A d \in Drivers : drv[d].step # "exit"

(* It was at rest when a driver found it so, and is as long as the claim of  *)
(* that driver stands.                                                       *)
AtRest ==
  /\ busy => proc = "up"
  /\ life = "running" => \A d \in Drivers, k \in 1..Len(asg) :
       drv[d].step \in Chosen /\ asg[k].tok = drv[d].tok => ~busy

(* The inductive invariant.                                                  *)
Retirement == RTypeOK /\ Numbered /\ OwnClaim /\ InOrder /\ FencedChild /\ MarkedExit /\ AtRest

-----------------------------------------------------------------------------
(* What the actions do to the assignments.                                   *)

LEMMA RowsAre ==
  ASSUME NEW S, NEW n \in Nat, NEW f \in [1..n -> S]
  PROVE  f \in Seq(S) /\ Len(f) = n /\ DOMAIN f = 1..n
  OBVIOUS

LEMMA Rows ==
  RTypeOK => /\ Len(asg) \in Nat \ {0} /\ DOMAIN asg = 1..Len(asg)
             /\ \A k \in 1..Len(asg) : asg[k] \in Assignment
             /\ Latest = asg[Len(asg)] /\ Latest \in Assignment /\ Len(asg) \in 1..Len(asg)
<1> SUFFICES ASSUME RTypeOK PROVE /\ Len(asg) \in Nat \ {0} /\ DOMAIN asg = 1..Len(asg)
             /\ \A k \in 1..Len(asg) : asg[k] \in Assignment
             /\ Latest = asg[Len(asg)] /\ Latest \in Assignment /\ Len(asg) \in 1..Len(asg)
    OBVIOUS
<1>1. asg \in Seq(Assignment) /\ Len(asg) \in 1..MaxAssignments /\ MaxAssignments \in Nat
    BY ConstantAssumption DEF RTypeOK
<1>2. Len(asg) \in Nat \ {0} /\ DOMAIN asg = 1..Len(asg) /\ Len(asg) \in 1..Len(asg)
    BY <1>1
<1>3. \A k \in 1..Len(asg) : asg[k] \in Assignment
    BY <1>1, <1>2
<1> QED
    BY <1>2, <1>3 DEF Latest

(* Rows that change in place keep their number.                              *)
LEMMA InPlace ==
  ASSUME RTypeOK, NEW f, asg' = [k \in DOMAIN asg |-> f[k]],
         \A k \in 1..Len(asg) : f[k] \in Assignment
  PROVE  /\ asg' \in Seq(Assignment) /\ Len(asg') = Len(asg) /\ DOMAIN asg' = 1..Len(asg)
         /\ \A k \in 1..Len(asg) : asg'[k] = f[k]
<1>1. DOMAIN asg = 1..Len(asg) /\ Len(asg) \in Nat
    BY Rows
<1>2. asg' \in [1..Len(asg) -> Assignment]
    BY <1>1
<1> QED
    BY <1>1, <1>2, RowsAre

RowsTyped == asg \in Seq(Assignment) /\ DOMAIN asg = 1..Len(asg)
\* the newest row is claimed
TakenRow(s) ==
  /\ tokens' = tokens + 1 /\ tokens' \in 1..MaxTokens
  /\ RowsTyped' /\ Len(asg') = Len(asg)
  /\ \A k \in 1..Len(asg) :
       /\ k # Len(asg) => asg'[k] = asg[k]
       /\ k = Len(asg) => /\ asg'[k].tok = tokens + 1 /\ asg'[k].sent = s /\ asg'[k].intent
                          /\ asg'[k].st = asg[k].st /\ asg'[k].done = asg[k].done
\* the newest row changes its state
StateOnly(s) ==
  /\ RowsTyped' /\ Len(asg') = Len(asg)
  /\ \A k \in 1..Len(asg) :
       /\ asg'[k].tok = asg[k].tok /\ asg'[k].sent = asg[k].sent
       /\ asg'[k].done = asg[k].done /\ asg'[k].intent = asg[k].intent
       /\ asg'[k].st = IF k = Len(asg) THEN s ELSE asg[k].st
\* rows that are not marked may lose their claim
FreedOnly ==
  /\ RowsTyped' /\ Len(asg') = Len(asg)
  /\ \A k \in 1..Len(asg) :
       /\ asg'[k].st = asg[k].st /\ asg'[k].sent = asg[k].sent
       /\ asg'[k].done = asg[k].done /\ asg'[k].intent = asg[k].intent
       /\ (asg'[k].tok = 0 \/ asg'[k].tok = asg[k].tok) /\ (asg[k].sent => asg'[k].tok = asg[k].tok)
\* the rows of K are marked
MarkedOnly(K) ==
  /\ RowsTyped' /\ Len(asg') = Len(asg)
  /\ \A k \in 1..Len(asg) :
       /\ asg'[k].st = asg[k].st /\ asg'[k].tok = asg[k].tok
       /\ asg'[k].done = asg[k].done /\ asg'[k].intent = asg[k].intent
       /\ asg'[k].sent = (asg[k].sent \/ k \in K)
\* the sidecar's claim may go with its mark
FreedMark ==
  /\ RowsTyped' /\ Len(asg') = Len(asg)
  /\ \A k \in 1..Len(asg) :
       /\ asg'[k].st = asg[k].st
       /\ asg'[k].done = asg[k].done /\ asg'[k].intent = asg[k].intent
       /\ \/ asg'[k].tok = asg[k].tok /\ asg'[k].sent = asg[k].sent
          \/ asg'[k].tok = 0 /\ asg[k].tok = drv["sidecar"].tok
\* rows are sealed
SealedOnly ==
  /\ RowsTyped' /\ Len(asg') = Len(asg)
  /\ \A k \in 1..Len(asg) :
       /\ asg'[k].st = asg[k].st
       /\ \/ asg'[k] = asg[k]
          \/ asg'[k].tok = 0 /\ asg'[k].intent
\* a row is added
OneMore ==
  /\ RowsTyped' /\ Len(asg') = Len(asg) + 1
  /\ Len(asg') \in 1..MaxAssignments
  /\ \A k \in 1..Len(asg) : asg'[k] = asg[k]
  /\ asg'[Len(asg) + 1] = NewAssignment

LEMMA TakeRows ==
  ASSUME RTypeOK, NEW s \in BOOLEAN, Take(s)
  PROVE  TakenRow(s)
<1> DEFINE n == Len(asg)
           row == [asg[n] EXCEPT !.tok = tokens + 1, !.intent = TRUE, !.sent = s]
<1>1. /\ DOMAIN asg = 1..n /\ n \in Nat \ {0} /\ n \in 1..n
      /\ \A k \in 1..n : asg[k] \in Assignment
    BY Rows
<1>2. tokens' = tokens + 1 /\ tokens' \in 1..MaxTokens /\ tokens + 1 \in 0..MaxTokens
    BY ConstantAssumption DEF Take, RTypeOK
<1>3. asg' = [asg EXCEPT ![n] = row]
    BY DEF Take
<1>4. /\ row \in Assignment /\ row.tok = tokens + 1 /\ row.sent = s /\ row.intent
      /\ row.st = asg[n].st /\ row.done = asg[n].done
  <2>1. asg[n] \in Assignment
      BY <1>1
  <2> QED
      BY <2>1, <1>2 DEF Assignment
<1> HIDE DEF row
<1>5. /\ DOMAIN asg' = 1..n
      /\ \A k \in 1..n : asg'[k] = IF k = n THEN row ELSE asg[k]
    BY <1>1, <1>3
<1>6. asg' \in [1..n -> Assignment]
    BY <1>1, <1>3, <1>4
<1>7. asg' \in Seq(Assignment) /\ Len(asg') = n /\ \A k \in 1..n : asg'[k] \in Assignment
    BY <1>1, <1>6, RowsAre
<1> QED
    BY <1>1, <1>2, <1>4, <1>5, <1>7 DEF TakenRow, RowsTyped

(* The newest row alone changes its state.                                   *)
LEMMA StateRows ==
  ASSUME RTypeOK, NEW s \in {"awaiting", "final", "over"}, asg' = [asg EXCEPT ![Len(asg)].st = s]
  PROVE  StateOnly(s)
<1> DEFINE n == Len(asg)
           row == [asg[n] EXCEPT !.st = s]
<1>1. /\ DOMAIN asg = 1..n /\ n \in Nat \ {0} /\ n \in 1..n
      /\ \A k \in 1..n : asg[k] \in Assignment
    BY Rows
<1>2. asg' = [asg EXCEPT ![n] = row]
    OBVIOUS
<1>3. /\ row \in Assignment /\ row.st = s
      /\ row.tok = asg[n].tok /\ row.sent = asg[n].sent
      /\ row.intent = asg[n].intent /\ row.done = asg[n].done
  <2>1. asg[n] \in Assignment
      BY <1>1
  <2> QED
      BY <2>1 DEF Assignment
<1> HIDE DEF row
<1>4. /\ DOMAIN asg' = 1..n
      /\ \A k \in 1..n : asg'[k] = IF k = n THEN row ELSE asg[k]
    BY <1>1, <1>2
<1>5. asg' \in [1..n -> Assignment]
    BY <1>1, <1>2, <1>3
<1> QED
    BY <1>1, <1>3, <1>4, <1>5, RowsAre DEF StateOnly, RowsTyped

(* Rows that give up their claim before they were marked.                    *)
LEMMA FreedRows ==
  ASSUME RTypeOK, NEW G, \A k \in G : ~asg[k].sent,
         asg' = [k \in DOMAIN asg |-> IF k \in G THEN [asg[k] EXCEPT !.tok = 0] ELSE asg[k]]
  PROVE  FreedOnly
<1> DEFINE f == [k \in 1..Len(asg) |-> IF k \in G THEN [asg[k] EXCEPT !.tok = 0] ELSE asg[k]]
           Like(r, k) == /\ r \in Assignment /\ r.st = asg[k].st /\ r.sent = asg[k].sent
                         /\ r.done = asg[k].done /\ r.intent = asg[k].intent
                         /\ (r.tok = 0 \/ r.tok = asg[k].tok) /\ (asg[k].sent => r.tok = asg[k].tok)
<1>1. DOMAIN asg = 1..Len(asg) /\ \A k \in 1..Len(asg) : asg[k] \in Assignment
    BY Rows
<1>2. ASSUME NEW k \in 1..Len(asg) PROVE Like(f[k], k)
  <2>1. asg[k] \in Assignment /\ 0 \in 0..MaxTokens
      BY <1>1, ConstantAssumption
  <2> QED
      BY <2>1 DEF Assignment
<1>3. asg' = [k \in DOMAIN asg |-> f[k]]
    BY <1>1
<1> HIDE DEF f
<1>4. \A k \in 1..Len(asg) : Like(f[k], k)
    BY <1>2
<1>5. /\ asg' \in Seq(Assignment) /\ Len(asg') = Len(asg) /\ DOMAIN asg' = 1..Len(asg)
      /\ \A k \in 1..Len(asg) : asg'[k] = f[k]
    BY <1>3, <1>4, InPlace
<1> QED
    BY <1>4, <1>5 DEF FreedOnly, RowsTyped

LEMMA GiveUpRows ==
  ASSUME RTypeOK, NEW d \in Drivers, GiveUp(d)
  PROVE  FreedOnly
<1> DEFINE G == {k \in DOMAIN asg : asg[k].tok = drv[d].tok /\ ~asg[k].sent /\ ~asg[k].done}
<1>1. asg' = [k \in DOMAIN asg |-> IF k \in G THEN [asg[k] EXCEPT !.tok = 0] ELSE asg[k]]
    BY DEF GiveUp, Freed
<1>2. \A k \in G : ~asg[k].sent
    OBVIOUS
<1> HIDE DEF G
<1> QED
    BY <1>1, <1>2, FreedRows

LEMMA RestartRows ==
  ASSUME RTypeOK, Restart
  PROVE  FreedOnly
<1> DEFINE G == {k \in DOMAIN asg : Releasable(k)}
<1>1. asg' = [k \in DOMAIN asg |-> IF k \in G THEN [asg[k] EXCEPT !.tok = 0] ELSE asg[k]]
    BY DEF Restart
<1>2. \A k \in G : ~asg[k].sent
    BY DEF Releasable
<1> HIDE DEF G
<1> QED
    BY <1>1, <1>2, FreedRows

(* The rows of a claim that are marked.                                      *)
LEMMA ReserveRows ==
  ASSUME RTypeOK, NEW K, asg' = [k \in DOMAIN asg |->
                      IF k \in K THEN [asg[k] EXCEPT !.sent = TRUE] ELSE asg[k]]
  PROVE  MarkedOnly(K)
<1> DEFINE f == [k \in 1..Len(asg) |-> IF k \in K THEN [asg[k] EXCEPT !.sent = TRUE] ELSE asg[k]]
           Like(r, k) == /\ r \in Assignment /\ r.st = asg[k].st /\ r.tok = asg[k].tok
                         /\ r.done = asg[k].done /\ r.intent = asg[k].intent
                         /\ r.sent = (asg[k].sent \/ k \in K)
<1>1. DOMAIN asg = 1..Len(asg) /\ \A k \in 1..Len(asg) : asg[k] \in Assignment
    BY Rows
<1>2. ASSUME NEW k \in 1..Len(asg) PROVE Like(f[k], k)
  <2>1. asg[k] \in Assignment
      BY <1>1
  <2>2. CASE k \in K
    <3>1. f[k] = [asg[k] EXCEPT !.sent = TRUE]
        BY <2>2
    <3> HIDE DEF f
    <3> QED
        BY <3>1, <2>1, <2>2 DEF Assignment
  <2>3. CASE k \notin K
    <3>1. f[k] = asg[k]
        BY <2>3
    <3> HIDE DEF f
    <3> QED
        BY <3>1, <2>1, <2>3 DEF Assignment
  <2> QED
      BY <2>2, <2>3
<1>3. asg' = [k \in DOMAIN asg |-> f[k]]
    BY <1>1
<1> HIDE DEF f
<1> QED
    BY <1>2, <1>3, InPlace DEF MarkedOnly, RowsTyped

LEMMA UnreserveRows ==
  ASSUME RTypeOK, Unreserve
  PROVE  FreedMark
<1> DEFINE G == {k \in DOMAIN asg : asg[k].tok = drv["sidecar"].tok /\ asg[k].sent}
           f == [k \in 1..Len(asg) |-> IF k \in G THEN [asg[k] EXCEPT !.tok = 0, !.sent = FALSE]
                                      ELSE asg[k]]
           Like(r, k) == /\ r \in Assignment /\ r.st = asg[k].st
                         /\ r.done = asg[k].done /\ r.intent = asg[k].intent
                         /\ \/ r.tok = asg[k].tok /\ r.sent = asg[k].sent
                            \/ r.tok = 0 /\ asg[k].tok = drv["sidecar"].tok
<1>1. DOMAIN asg = 1..Len(asg) /\ \A k \in 1..Len(asg) : asg[k] \in Assignment
    BY Rows
<1>2. asg' = [k \in DOMAIN asg |-> f[k]]
    BY <1>1 DEF Unreserve
<1>3. \A k \in G : asg[k].tok = drv["sidecar"].tok
    OBVIOUS
<1> HIDE DEF G
<1>4. ASSUME NEW k \in 1..Len(asg) PROVE Like(f[k], k)
  <2>1. asg[k] \in Assignment /\ 0 \in 0..MaxTokens
      BY <1>1, ConstantAssumption
  <2>2. CASE k \in G
    <3>1. f[k] = [asg[k] EXCEPT !.tok = 0, !.sent = FALSE]
        BY <2>2
    <3> HIDE DEF f
    <3> QED
        BY <3>1, <2>1, <2>2, <1>3 DEF Assignment
  <2>3. CASE k \notin G
    <3>1. f[k] = asg[k]
        BY <2>3
    <3> HIDE DEF f
    <3> QED
        BY <3>1, <2>1, <2>3 DEF Assignment
  <2> QED
      BY <2>2, <2>3
<1> HIDE DEF f
<1> QED
    BY <1>2, <1>4, InPlace DEF FreedMark, RowsTyped

Sealed(t) == [k \in DOMAIN asg |-> IF Sealable(k, t) THEN [asg[k] EXCEPT !.tok = 0, !.done = TRUE]
                                                    ELSE asg[k]]
LEMMA SealRows ==
  ASSUME RTypeOK, NEW t \in 0..MaxTokens,
         asg' = Sealed(t)
  PROVE  SealedOnly
<1> DEFINE f == [k \in 1..Len(asg) |-> IF Sealable(k, t)
                                      THEN [asg[k] EXCEPT !.tok = 0, !.done = TRUE] ELSE asg[k]]
           Like(r, k) == /\ r \in Assignment /\ r.st = asg[k].st
                         /\ r = asg[k] \/ (r.tok = 0 /\ r.intent)
<1>1. DOMAIN asg = 1..Len(asg) /\ \A k \in 1..Len(asg) : asg[k] \in Assignment
    BY Rows
<1>2. asg' = [k \in DOMAIN asg |-> f[k]]
    BY <1>1 DEF Sealed
<1>3. ASSUME NEW k \in 1..Len(asg) PROVE Like(f[k], k)
  <2>1. asg[k] \in Assignment /\ 0 \in 0..MaxTokens
      BY <1>1, ConstantAssumption
  <2>2. CASE Sealable(k, t)
    <3>1. f[k] = [asg[k] EXCEPT !.tok = 0, !.done = TRUE] /\ asg[k].intent
        BY <2>2 DEF Sealable
    <3> HIDE DEF f
    <3> QED
        BY <3>1, <2>1 DEF Assignment
  <2>3. CASE ~Sealable(k, t)
    <3>1. f[k] = asg[k]
        BY <2>3
    <3> HIDE DEF f
    <3> QED
        BY <3>1, <2>1 DEF Assignment
  <2> QED
      BY <2>2, <2>3
<1> HIDE DEF f
<1> QED
    BY <1>2, <1>3, InPlace DEF SealedOnly, RowsTyped

LEMMA AppendRows ==
  ASSUME RTypeOK, Rereview
  PROVE  OneMore
<1> DEFINE s == [k \in DOMAIN asg |-> asg[k]]
<1>1. /\ DOMAIN asg = 1..Len(asg) /\ Len(asg) \in Nat \ {0}
      /\ \A k \in 1..Len(asg) : asg[k] \in Assignment
    BY Rows
<1>2. s \in [1..Len(asg) -> Assignment] /\ \A k \in 1..Len(asg) : s[k] = asg[k]
    BY <1>1
<1>3. NewAssignment \in Assignment
    BY ConstantAssumption DEF NewAssignment, Assignment
<1>4. asg' = Append(s, NewAssignment) /\ Len(asg) < MaxAssignments
    BY DEF Rereview
<1> HIDE DEF s
<1>5. s \in Seq(Assignment) /\ Len(s) = Len(asg) /\ DOMAIN s = 1..Len(asg)
    BY <1>1, <1>2, RowsAre
<1>6. /\ asg' \in Seq(Assignment) /\ Len(asg') = Len(asg) + 1
      /\ \A k \in 1..Len(asg) : asg'[k] = s[k]
      /\ asg'[Len(asg) + 1] = NewAssignment
    BY <1>1, <1>3, <1>4, <1>5
<1>7. DOMAIN asg' = 1..Len(asg) + 1
    BY <1>6, <1>1
<1> QED
    BY <1>1, <1>2, <1>4, <1>6, <1>7, ConstantAssumption DEF OneMore, RowsTyped

(* What a driver does: it goes to a step, keeping or losing its claim.       *)
DriversTyped == drv \in [Drivers -> Driver]
Moves(d, s, t) ==
  /\ DriversTyped' /\ drv'[d].step = s /\ drv'[d].tok = t
  /\ \A e \in Drivers : e # d => drv'[e] = drv[e]
Steps == {"idle", "check", "revalidate", "recheck", "reserve", "exit", "clean", "seal"}

LEMMA Moving ==
  ASSUME RTypeOK, NEW d \in Drivers, NEW s \in Steps, NEW t \in 0..MaxTokens,
         drv' = [drv EXCEPT ![d] = [step |-> s, tok |-> t]]
  PROVE  Moves(d, s, t)
<1> DEFINE r == [step |-> s, tok |-> t]
<1>1. r \in Driver /\ r.step = s /\ r.tok = t
    BY DEF Driver, Steps
<1>2. drv \in [Drivers -> Driver] /\ drv' = [drv EXCEPT ![d] = r]
    BY DEF RTypeOK
<1> HIDE DEF r
<1> QED
    BY <1>1, <1>2 DEF Moves, DriversTyped

LEMMA Stepping ==
  ASSUME RTypeOK, NEW d \in Drivers, NEW s \in Steps, Step(d, s)
  PROVE  Moves(d, s, drv[d].tok)
<1>1. drv[d] \in Driver /\ drv \in [Drivers -> Driver]
    BY DEF RTypeOK
<1>2. drv[d].tok \in 0..MaxTokens /\ [drv[d] EXCEPT !.step = s] = [step |-> s, tok |-> drv[d].tok]
    BY <1>1 DEF Driver
<1>3. drv' = [drv EXCEPT ![d] = [step |-> s, tok |-> drv[d].tok]]
    BY <1>1, <1>2 DEF Step
<1> QED
    BY <1>2, <1>3, Moving

LEMMA Leaving ==
  ASSUME RTypeOK, NEW d \in Drivers, Rest(d)
  PROVE  Moves(d, "idle", 0)
<1>1. drv' = [drv EXCEPT ![d] = [step |-> "idle", tok |-> 0]] /\ 0 \in 0..MaxTokens
    BY ConstantAssumption DEF Rest, Resting
<1> QED
    BY <1>1, Moving DEF Steps

(* What the types say of a state, without the sequences and the records.     *)
Plain ==
  /\ Len(asg) \in Nat \ {0} /\ Len(asg) \in 1..Len(asg)
  /\ \A k \in 1..Len(asg) :
       /\ asg[k].tok \in Nat /\ asg[k].st \in {"awaiting", "final", "over"}
       /\ asg[k].sent \in BOOLEAN /\ asg[k].done \in BOOLEAN /\ asg[k].intent \in BOOLEAN
       /\ asg[k].done => asg[k].tok = 0 /\ asg[k].intent
       /\ asg[k].tok # 0 => asg[k].intent
  /\ \A j, k \in 1..Len(asg) : asg[j].tok # 0 /\ asg[k].tok # 0 => j = k
  /\ \A d \in Drivers : drv[d].tok \in Nat /\ drv[d].step \in Steps
  /\ tokens \in Nat /\ exits \in Nat /\ busy \in BOOLEAN
  /\ wf \in {"open", "terminal", "cancelled"} /\ life \in {"running", "exited"}
  /\ life = "exited" => wf # "open"

LEMMA PlainTypes == RTypeOK => Plain
<1> SUFFICES ASSUME RTypeOK PROVE Plain
    OBVIOUS
<1>1. /\ Len(asg) \in Nat \ {0} /\ Len(asg) \in 1..Len(asg)
      /\ DOMAIN asg = 1..Len(asg) /\ \A k \in 1..Len(asg) : asg[k] \in Assignment
    BY Rows
<1>2. \A k \in 1..Len(asg) :
        /\ asg[k].tok \in Nat /\ asg[k].st \in {"awaiting", "final", "over"}
        /\ asg[k].sent \in BOOLEAN /\ asg[k].done \in BOOLEAN /\ asg[k].intent \in BOOLEAN
    BY <1>1, ConstantAssumption DEF Assignment
<1>3. \A d \in Drivers : drv[d].tok \in Nat /\ drv[d].step \in Steps
    BY ConstantAssumption DEF RTypeOK, Driver, Steps
<1>4. /\ \A k \in 1..Len(asg) :
            /\ asg[k].done => asg[k].tok = 0 /\ asg[k].intent
            /\ asg[k].tok # 0 => asg[k].intent
      /\ \A j, k \in 1..Len(asg) : asg[j].tok # 0 /\ asg[k].tok # 0 => j = k
    BY <1>1 DEF RTypeOK
<1>5. /\ tokens \in Nat /\ exits \in Nat /\ busy \in BOOLEAN
      /\ wf \in {"open", "terminal", "cancelled"} /\ life \in {"running", "exited"}
      /\ life = "exited" => wf # "open"
    BY ConstantAssumption DEF RTypeOK
<1> QED
    BY <1>1, <1>2, <1>3, <1>4, <1>5 DEF Plain

(* What keeps the invariant, in the terms of the rows and the drivers.       *)
LEMMA TakeKeeps ==
  ASSUME Retirement,
         NEW d \in Drivers,
         NEW s \in BOOLEAN,
         NEW n \in {"check", "clean"},
         drv[d].step = "idle",
         n = "clean" => life = "exited",
         asg[Len(asg)].st = "final" /\ asg[Len(asg)].done = FALSE /\ asg[Len(asg)].tok = 0,
         wf # "open",
         TakenRow(s),
         Moves(d, n, tokens + 1),
         UNCHANGED <<kind, pwf, wf, busy, life, proc, tree, exits, died, work, faults>>
  PROVE  Retirement'
<1>1. RTypeOK /\ Numbered /\ OwnClaim /\ InOrder /\ FencedChild /\ MarkedExit /\ AtRest /\ Plain
    BY PlainTypes DEF Retirement
<1>2. /\ d \in Drivers
      /\ s \in BOOLEAN
      /\ n \in {"check", "clean"}
      /\ drv[d].step = "idle"
      /\ (n = "clean" => life = "exited")
      /\ asg[Len(asg)].st = "final" /\ asg[Len(asg)].done = FALSE /\ asg[Len(asg)].tok = 0
      /\ wf # "open"
      /\ TakenRow(s)
      /\ Moves(d, n, tokens + 1)
      /\ kind' = kind /\ pwf' = pwf /\ wf' = wf /\ busy' = busy /\ life' = life /\ proc' = proc
      /\ tree' = tree /\ exits' = exits /\ died' = died /\ work' = work /\ faults' = faults
    OBVIOUS
<1>3. RTypeOK'
  <2>1. asg' \in Seq(Assignment) /\ Len(asg') \in 1..MaxAssignments /\ DOMAIN asg' = 1..Len(asg)
      BY ONLY <1>1, <1>2, Rows DEF RTypeOK, RowsTyped, TakenRow
  <2>2. \A k \in 1..Len(asg) : /\ asg'[k].done => asg'[k].tok = 0 /\ asg'[k].intent
                               /\ asg'[k].tok # 0 => asg'[k].intent
      BY ONLY <1>1, <1>2 DEF Plain, TakenRow
  <2>3. \A j, k \in 1..Len(asg) : asg'[j].tok # 0 /\ asg'[k].tok # 0 => j = k
      BY ONLY <1>1, <1>2 DEF Plain, FencedChild, TakenRow
  <2>4. drv' \in [Drivers -> Driver] /\ (life' = "exited" => proc' = "gone" /\ ~busy' /\ wf' # "open")
      BY ONLY <1>1, <1>2 DEF RTypeOK, DriversTyped, AtRest, Moves
  <2>5. /\ kind' \in {"worker", "reviewer", "handoff"} /\ pwf' \in BOOLEAN
        /\ wf' \in {"open", "terminal", "cancelled"} /\ busy' \in BOOLEAN
        /\ life' \in {"running", "exited"} /\ proc' \in {"up", "gone"} /\ tree' \in {"clean", "dirty", "removed"}
        /\ exits' \in Nat /\ died' \in 0..MaxTokens /\ tokens' \in 0..MaxTokens
        /\ work' \in 0..MaxWork /\ faults' \in 0..MaxFaults
      BY ONLY <1>1, <1>2, ConstantAssumption DEF RTypeOK, TakenRow
  <2>6. /\ \A k \in DOMAIN asg' : /\ asg'[k].done => asg'[k].tok = 0 /\ asg'[k].intent
                                  /\ asg'[k].tok # 0 => asg'[k].intent
        /\ \A j, k \in DOMAIN asg' : asg'[j].tok # 0 /\ asg'[k].tok # 0 => j = k
      BY ONLY <2>1, <2>2, <2>3
  <2> QED
      BY ONLY <2>1, <2>4, <2>5, <2>6 DEF RTypeOK
<1>4. Numbered'
    BY ONLY <1>1, <1>2 DEF Numbered, Plain, TakenRow, Moves
<1>5. OwnClaim'
    BY ONLY <1>1, <1>2 DEF OwnClaim, Plain, TakenRow, Moves, Numbered
<1>6. InOrder'
    BY ONLY <1>1, <1>2 DEF InOrder, Plain, TakenRow, Moves
<1>7. FencedChild'
    BY ONLY <1>1, <1>2 DEF FencedChild, Plain, TakenRow
<1>8. MarkedExit'
    BY ONLY <1>1, <1>2 DEF MarkedExit, Plain, TakenRow, Moves, Numbered, OwnClaim,
       FencedChild, InOrder
<1>9. AtRest'
    BY ONLY <1>1, <1>2 DEF AtRest, Plain, TakenRow, Moves, Numbered, OwnClaim, FencedChild,
       InOrder, Chosen
<1> QED
    BY ONLY <1>3, <1>4, <1>5, <1>6, <1>7, <1>8, <1>9 DEF Retirement

LEMMA ResumeKeeps ==
  ASSUME Retirement,
         NEW d \in Drivers,
         NEW i \in 1..Len(asg),
         drv[d].step = "idle" /\ life = "exited" /\ asg[i].tok # 0,
         Moves(d, "clean", asg[i].tok),
         UNCHANGED <<kind, pwf, wf, busy, life, proc, tree, exits, died, tokens, work, faults,
                     asg>>
  PROVE  Retirement'
<1>1. RTypeOK /\ Numbered /\ OwnClaim /\ InOrder /\ FencedChild /\ MarkedExit /\ AtRest /\ Plain
    BY PlainTypes DEF Retirement
<1>2. /\ d \in Drivers
      /\ i \in 1..Len(asg)
      /\ drv[d].step = "idle" /\ life = "exited" /\ asg[i].tok # 0
      /\ Moves(d, "clean", asg[i].tok)
      /\ kind' = kind /\ pwf' = pwf /\ wf' = wf /\ busy' = busy /\ life' = life /\ proc' = proc
      /\ tree' = tree /\ exits' = exits /\ died' = died /\ tokens' = tokens /\ work' = work /\ faults' = faults
      /\ asg' = asg
    OBVIOUS
<1>3. RTypeOK'
  <2>1. asg' \in Seq(Assignment) /\ Len(asg') \in 1..MaxAssignments /\ DOMAIN asg' = 1..Len(asg)
      BY ONLY <1>1, <1>2, Rows DEF RTypeOK, RowsTyped
  <2>2. \A k \in 1..Len(asg) : /\ asg'[k].done => asg'[k].tok = 0 /\ asg'[k].intent
                               /\ asg'[k].tok # 0 => asg'[k].intent
      BY ONLY <1>1, <1>2 DEF Plain
  <2>3. \A j, k \in 1..Len(asg) : asg'[j].tok # 0 /\ asg'[k].tok # 0 => j = k
      BY ONLY <1>1, <1>2 DEF Plain, FencedChild
  <2>4. drv' \in [Drivers -> Driver] /\ (life' = "exited" => proc' = "gone" /\ ~busy' /\ wf' # "open")
      BY ONLY <1>1, <1>2 DEF RTypeOK, DriversTyped, AtRest, Moves
  <2>5. /\ kind' \in {"worker", "reviewer", "handoff"} /\ pwf' \in BOOLEAN
        /\ wf' \in {"open", "terminal", "cancelled"} /\ busy' \in BOOLEAN
        /\ life' \in {"running", "exited"} /\ proc' \in {"up", "gone"} /\ tree' \in {"clean", "dirty", "removed"}
        /\ exits' \in Nat /\ died' \in 0..MaxTokens /\ tokens' \in 0..MaxTokens
        /\ work' \in 0..MaxWork /\ faults' \in 0..MaxFaults
      BY ONLY <1>1, <1>2, ConstantAssumption DEF RTypeOK
  <2>6. /\ \A k \in DOMAIN asg' : /\ asg'[k].done => asg'[k].tok = 0 /\ asg'[k].intent
                                  /\ asg'[k].tok # 0 => asg'[k].intent
        /\ \A j, k \in DOMAIN asg' : asg'[j].tok # 0 /\ asg'[k].tok # 0 => j = k
      BY ONLY <2>1, <2>2, <2>3
  <2> QED
      BY ONLY <2>1, <2>4, <2>5, <2>6 DEF RTypeOK
<1>4. Numbered'
    BY ONLY <1>1, <1>2 DEF Numbered, Plain, Moves
<1>5. OwnClaim'
    BY ONLY <1>1, <1>2 DEF OwnClaim, Plain, Moves, Numbered
<1>6. InOrder'
    BY ONLY <1>1, <1>2 DEF InOrder, Plain, Moves
<1>7. FencedChild'
    BY ONLY <1>1, <1>2 DEF FencedChild, Plain
<1>8. MarkedExit'
    BY ONLY <1>1, <1>2 DEF MarkedExit
<1>9. AtRest'
    BY ONLY <1>1, <1>2 DEF AtRest, Plain, Moves, Numbered, OwnClaim, FencedChild, InOrder,
       Chosen
<1> QED
    BY ONLY <1>3, <1>4, <1>5, <1>6, <1>7, <1>8, <1>9 DEF Retirement

LEMMA FreedKeeps ==
  ASSUME Retirement,
         FreedOnly,
         DriversTyped',
         \A d \in Drivers : drv'[d] = drv[d] \/ (drv'[d].step = "idle" /\ drv'[d].tok = 0),
         faults' \in 0..MaxFaults,
         UNCHANGED <<kind, pwf, wf, busy, life, proc, tree, exits, died, tokens, work>>
  PROVE  Retirement'
<1>1. RTypeOK /\ Numbered /\ OwnClaim /\ InOrder /\ FencedChild /\ MarkedExit /\ AtRest /\ Plain
    BY PlainTypes DEF Retirement
<1>2. /\ FreedOnly
      /\ DriversTyped'
      /\ (\A d \in Drivers : drv'[d] = drv[d] \/ (drv'[d].step = "idle" /\ drv'[d].tok = 0))
      /\ faults' \in 0..MaxFaults
      /\ kind' = kind /\ pwf' = pwf /\ wf' = wf /\ busy' = busy /\ life' = life /\ proc' = proc
      /\ tree' = tree /\ exits' = exits /\ died' = died /\ tokens' = tokens /\ work' = work
    OBVIOUS
<1>3. RTypeOK'
  <2>1. asg' \in Seq(Assignment) /\ Len(asg') \in 1..MaxAssignments /\ DOMAIN asg' = 1..Len(asg)
      BY ONLY <1>1, <1>2, Rows DEF RTypeOK, RowsTyped, FreedOnly
  <2>2. \A k \in 1..Len(asg) : /\ asg'[k].done => asg'[k].tok = 0 /\ asg'[k].intent
                               /\ asg'[k].tok # 0 => asg'[k].intent
      BY ONLY <1>1, <1>2 DEF Plain, FreedOnly
  <2>3. \A j, k \in 1..Len(asg) : asg'[j].tok # 0 /\ asg'[k].tok # 0 => j = k
      BY ONLY <1>1, <1>2 DEF Plain, FencedChild, FreedOnly
  <2>4. drv' \in [Drivers -> Driver] /\ (life' = "exited" => proc' = "gone" /\ ~busy' /\ wf' # "open")
      BY ONLY <1>1, <1>2 DEF RTypeOK, DriversTyped, AtRest
  <2>5. /\ kind' \in {"worker", "reviewer", "handoff"} /\ pwf' \in BOOLEAN
        /\ wf' \in {"open", "terminal", "cancelled"} /\ busy' \in BOOLEAN
        /\ life' \in {"running", "exited"} /\ proc' \in {"up", "gone"} /\ tree' \in {"clean", "dirty", "removed"}
        /\ exits' \in Nat /\ died' \in 0..MaxTokens /\ tokens' \in 0..MaxTokens
        /\ work' \in 0..MaxWork /\ faults' \in 0..MaxFaults
      BY ONLY <1>1, <1>2, ConstantAssumption DEF RTypeOK
  <2>6. /\ \A k \in DOMAIN asg' : /\ asg'[k].done => asg'[k].tok = 0 /\ asg'[k].intent
                                  /\ asg'[k].tok # 0 => asg'[k].intent
        /\ \A j, k \in DOMAIN asg' : asg'[j].tok # 0 /\ asg'[k].tok # 0 => j = k
      BY ONLY <2>1, <2>2, <2>3
  <2> QED
      BY ONLY <2>1, <2>4, <2>5, <2>6 DEF RTypeOK
<1>4. Numbered'
    BY ONLY <1>1, <1>2 DEF Numbered, Plain, FreedOnly
<1>5. OwnClaim'
    BY ONLY <1>1, <1>2 DEF OwnClaim, Plain, FreedOnly, Numbered
<1>6. InOrder'
    BY ONLY <1>1, <1>2 DEF InOrder, Plain, FreedOnly
<1>7. FencedChild'
    BY ONLY <1>1, <1>2 DEF FencedChild, Plain, FreedOnly
<1>8. MarkedExit'
    BY ONLY <1>1, <1>2 DEF MarkedExit, Plain, FreedOnly
<1>9. AtRest'
    BY ONLY <1>1, <1>2 DEF AtRest, Plain, FreedOnly, Numbered, OwnClaim, FencedChild, InOrder,
       Chosen
<1> QED
    BY ONLY <1>3, <1>4, <1>5, <1>6, <1>7, <1>8, <1>9 DEF Retirement

LEMMA RestKeeps ==
  ASSUME Retirement,
         NEW d \in Drivers,
         Moves(d, "idle", 0),
         faults' \in 0..MaxFaults,
         died' \in 0..MaxTokens,
         UNCHANGED <<kind, pwf, wf, busy, life, proc, tree, exits, tokens, work, asg>>
  PROVE  Retirement'
<1>1. RTypeOK /\ Numbered /\ OwnClaim /\ InOrder /\ FencedChild /\ MarkedExit /\ AtRest /\ Plain
    BY PlainTypes DEF Retirement
<1>2. /\ d \in Drivers
      /\ Moves(d, "idle", 0)
      /\ faults' \in 0..MaxFaults
      /\ died' \in 0..MaxTokens
      /\ kind' = kind /\ pwf' = pwf /\ wf' = wf /\ busy' = busy /\ life' = life /\ proc' = proc
      /\ tree' = tree /\ exits' = exits /\ tokens' = tokens /\ work' = work /\ asg' = asg
    OBVIOUS
<1>3. RTypeOK'
  <2>1. asg' \in Seq(Assignment) /\ Len(asg') \in 1..MaxAssignments /\ DOMAIN asg' = 1..Len(asg)
      BY ONLY <1>1, <1>2, Rows DEF RTypeOK, RowsTyped
  <2>2. \A k \in 1..Len(asg) : /\ asg'[k].done => asg'[k].tok = 0 /\ asg'[k].intent
                               /\ asg'[k].tok # 0 => asg'[k].intent
      BY ONLY <1>1, <1>2 DEF Plain
  <2>3. \A j, k \in 1..Len(asg) : asg'[j].tok # 0 /\ asg'[k].tok # 0 => j = k
      BY ONLY <1>1, <1>2 DEF Plain, FencedChild
  <2>4. drv' \in [Drivers -> Driver] /\ (life' = "exited" => proc' = "gone" /\ ~busy' /\ wf' # "open")
      BY ONLY <1>1, <1>2 DEF RTypeOK, DriversTyped, AtRest, Moves
  <2>5. /\ kind' \in {"worker", "reviewer", "handoff"} /\ pwf' \in BOOLEAN
        /\ wf' \in {"open", "terminal", "cancelled"} /\ busy' \in BOOLEAN
        /\ life' \in {"running", "exited"} /\ proc' \in {"up", "gone"} /\ tree' \in {"clean", "dirty", "removed"}
        /\ exits' \in Nat /\ died' \in 0..MaxTokens /\ tokens' \in 0..MaxTokens
        /\ work' \in 0..MaxWork /\ faults' \in 0..MaxFaults
      BY ONLY <1>1, <1>2, ConstantAssumption DEF RTypeOK
  <2>6. /\ \A k \in DOMAIN asg' : /\ asg'[k].done => asg'[k].tok = 0 /\ asg'[k].intent
                                  /\ asg'[k].tok # 0 => asg'[k].intent
        /\ \A j, k \in DOMAIN asg' : asg'[j].tok # 0 /\ asg'[k].tok # 0 => j = k
      BY ONLY <2>1, <2>2, <2>3
  <2> QED
      BY ONLY <2>1, <2>4, <2>5, <2>6 DEF RTypeOK
<1>4. Numbered'
    BY ONLY <1>1, <1>2 DEF Numbered, Plain, Moves
<1>5. OwnClaim'
    BY ONLY <1>1, <1>2 DEF OwnClaim, Plain, Moves, Numbered
<1>6. InOrder'
    BY ONLY <1>1, <1>2 DEF InOrder, Plain, Moves
<1>7. FencedChild'
    BY ONLY <1>1, <1>2 DEF FencedChild, Plain
<1>8. MarkedExit'
    BY ONLY <1>1, <1>2 DEF MarkedExit, Plain, Moves, Numbered, OwnClaim, FencedChild, InOrder
<1>9. AtRest'
    BY ONLY <1>1, <1>2 DEF AtRest, Plain, Moves, Numbered, OwnClaim, FencedChild, InOrder,
       Chosen
<1> QED
    BY ONLY <1>3, <1>4, <1>5, <1>6, <1>7, <1>8, <1>9 DEF Retirement

LEMMA StepKeeps ==
  ASSUME Retirement,
         NEW d \in Drivers,
         NEW s \in {"revalidate", "recheck", "reserve", "clean"},
         drv[d].step \in {"check", "revalidate", "recheck"},
         Moves(d, s, drv[d].tok),
         s = "clean" => life = "exited",
         ~busy \/ drv[d].step # "check" \/ s = "clean",
         UNCHANGED <<kind, pwf, wf, busy, life, proc, tree, exits, died, tokens, work, faults,
                     asg>>
  PROVE  Retirement'
<1>1. RTypeOK /\ Numbered /\ OwnClaim /\ InOrder /\ FencedChild /\ MarkedExit /\ AtRest /\ Plain
    BY PlainTypes DEF Retirement
<1>2. /\ d \in Drivers
      /\ s \in {"revalidate", "recheck", "reserve", "clean"}
      /\ drv[d].step \in {"check", "revalidate", "recheck"}
      /\ Moves(d, s, drv[d].tok)
      /\ (s = "clean" => life = "exited")
      /\ (~busy \/ drv[d].step # "check" \/ s = "clean")
      /\ kind' = kind /\ pwf' = pwf /\ wf' = wf /\ busy' = busy /\ life' = life /\ proc' = proc
      /\ tree' = tree /\ exits' = exits /\ died' = died /\ tokens' = tokens /\ work' = work /\ faults' = faults
      /\ asg' = asg
    OBVIOUS
<1>3. RTypeOK'
  <2>1. asg' \in Seq(Assignment) /\ Len(asg') \in 1..MaxAssignments /\ DOMAIN asg' = 1..Len(asg)
      BY ONLY <1>1, <1>2, Rows DEF RTypeOK, RowsTyped
  <2>2. \A k \in 1..Len(asg) : /\ asg'[k].done => asg'[k].tok = 0 /\ asg'[k].intent
                               /\ asg'[k].tok # 0 => asg'[k].intent
      BY ONLY <1>1, <1>2 DEF Plain
  <2>3. \A j, k \in 1..Len(asg) : asg'[j].tok # 0 /\ asg'[k].tok # 0 => j = k
      BY ONLY <1>1, <1>2 DEF Plain, FencedChild
  <2>4. drv' \in [Drivers -> Driver] /\ (life' = "exited" => proc' = "gone" /\ ~busy' /\ wf' # "open")
      BY ONLY <1>1, <1>2 DEF RTypeOK, DriversTyped, AtRest, Moves
  <2>5. /\ kind' \in {"worker", "reviewer", "handoff"} /\ pwf' \in BOOLEAN
        /\ wf' \in {"open", "terminal", "cancelled"} /\ busy' \in BOOLEAN
        /\ life' \in {"running", "exited"} /\ proc' \in {"up", "gone"} /\ tree' \in {"clean", "dirty", "removed"}
        /\ exits' \in Nat /\ died' \in 0..MaxTokens /\ tokens' \in 0..MaxTokens
        /\ work' \in 0..MaxWork /\ faults' \in 0..MaxFaults
      BY ONLY <1>1, <1>2, ConstantAssumption DEF RTypeOK
  <2>6. /\ \A k \in DOMAIN asg' : /\ asg'[k].done => asg'[k].tok = 0 /\ asg'[k].intent
                                  /\ asg'[k].tok # 0 => asg'[k].intent
        /\ \A j, k \in DOMAIN asg' : asg'[j].tok # 0 /\ asg'[k].tok # 0 => j = k
      BY ONLY <2>1, <2>2, <2>3
  <2> QED
      BY ONLY <2>1, <2>4, <2>5, <2>6 DEF RTypeOK
<1>4. Numbered'
    BY ONLY <1>1, <1>2 DEF Numbered, Plain, Moves
<1>5. OwnClaim'
    BY ONLY <1>1, <1>2 DEF OwnClaim, Plain, Moves, Numbered
<1>6. InOrder'
    BY ONLY <1>1, <1>2 DEF InOrder, Plain, Moves
<1>7. FencedChild'
    BY ONLY <1>1, <1>2 DEF FencedChild, Plain
<1>8. MarkedExit'
    BY ONLY <1>1, <1>2 DEF MarkedExit, Plain, Moves, Numbered, OwnClaim, FencedChild, InOrder
<1>9. AtRest'
    BY ONLY <1>1, <1>2 DEF AtRest, Plain, Moves, Numbered, OwnClaim, FencedChild, InOrder,
       Chosen
<1> QED
    BY ONLY <1>3, <1>4, <1>5, <1>6, <1>7, <1>8, <1>9 DEF Retirement

LEMMA ReserveKeeps ==
  ASSUME Retirement,
         NEW d \in Drivers,
         NEW K \in SUBSET (1..Len(asg)),
         drv[d].step = "reserve" /\ K # {},
         \A k \in K : asg[k].tok = drv[d].tok /\ asg[k].sent = FALSE,
         MarkedOnly(K),
         Moves(d, "exit", drv[d].tok),
         UNCHANGED <<kind, pwf, wf, busy, life, proc, tree, exits, died, tokens, work, faults>>
  PROVE  Retirement'
<1>1. RTypeOK /\ Numbered /\ OwnClaim /\ InOrder /\ FencedChild /\ MarkedExit /\ AtRest /\ Plain
    BY PlainTypes DEF Retirement
<1>2. /\ d \in Drivers
      /\ K \in SUBSET (1..Len(asg))
      /\ drv[d].step = "reserve" /\ K # {}
      /\ (\A k \in K : asg[k].tok = drv[d].tok /\ asg[k].sent = FALSE)
      /\ MarkedOnly(K)
      /\ Moves(d, "exit", drv[d].tok)
      /\ kind' = kind /\ pwf' = pwf /\ wf' = wf /\ busy' = busy /\ life' = life /\ proc' = proc
      /\ tree' = tree /\ exits' = exits /\ died' = died /\ tokens' = tokens /\ work' = work /\ faults' = faults
    OBVIOUS
<1>3. RTypeOK'
  <2>1. asg' \in Seq(Assignment) /\ Len(asg') \in 1..MaxAssignments /\ DOMAIN asg' = 1..Len(asg)
      BY ONLY <1>1, <1>2, Rows DEF RTypeOK, RowsTyped, MarkedOnly
  <2>2. \A k \in 1..Len(asg) : /\ asg'[k].done => asg'[k].tok = 0 /\ asg'[k].intent
                               /\ asg'[k].tok # 0 => asg'[k].intent
      BY ONLY <1>1, <1>2 DEF Plain, MarkedOnly
  <2>3. \A j, k \in 1..Len(asg) : asg'[j].tok # 0 /\ asg'[k].tok # 0 => j = k
      BY ONLY <1>1, <1>2 DEF Plain, FencedChild, MarkedOnly
  <2>4. drv' \in [Drivers -> Driver] /\ (life' = "exited" => proc' = "gone" /\ ~busy' /\ wf' # "open")
      BY ONLY <1>1, <1>2 DEF RTypeOK, DriversTyped, AtRest, Moves
  <2>5. /\ kind' \in {"worker", "reviewer", "handoff"} /\ pwf' \in BOOLEAN
        /\ wf' \in {"open", "terminal", "cancelled"} /\ busy' \in BOOLEAN
        /\ life' \in {"running", "exited"} /\ proc' \in {"up", "gone"} /\ tree' \in {"clean", "dirty", "removed"}
        /\ exits' \in Nat /\ died' \in 0..MaxTokens /\ tokens' \in 0..MaxTokens
        /\ work' \in 0..MaxWork /\ faults' \in 0..MaxFaults
      BY ONLY <1>1, <1>2, ConstantAssumption DEF RTypeOK
  <2>6. /\ \A k \in DOMAIN asg' : /\ asg'[k].done => asg'[k].tok = 0 /\ asg'[k].intent
                                  /\ asg'[k].tok # 0 => asg'[k].intent
        /\ \A j, k \in DOMAIN asg' : asg'[j].tok # 0 /\ asg'[k].tok # 0 => j = k
      BY ONLY <2>1, <2>2, <2>3
  <2> QED
      BY ONLY <2>1, <2>4, <2>5, <2>6 DEF RTypeOK
<1>4. Numbered'
    BY ONLY <1>1, <1>2 DEF Numbered, Plain, MarkedOnly, Moves
<1>5. OwnClaim'
    BY ONLY <1>1, <1>2 DEF OwnClaim, Plain, MarkedOnly, Moves, Numbered
<1>6. InOrder'
    BY ONLY <1>1, <1>2 DEF InOrder, Plain, MarkedOnly, Moves
<1>7. FencedChild'
    BY ONLY <1>1, <1>2 DEF FencedChild, Plain, MarkedOnly
<1>8. MarkedExit'
  <2>1. \A k \in 1..Len(asg) : asg[k].tok # 0 => asg[k].sent = FALSE
    <3>1. PICK i \in K : i \in 1..Len(asg) /\ asg[i].tok = drv[d].tok /\ asg[i].sent = FALSE
        BY ONLY <1>1, <1>2
    <3>2. asg[i].tok # 0
        BY ONLY <1>1, <1>2, <3>1 DEF Numbered, Plain
    <3> QED
        BY ONLY <1>1, <1>2, <3>1, <3>2 DEF Plain
  <2>2. exits' <= 1 /\ (life = "running" => exits' # 1)
      BY ONLY <1>1, <1>2, <2>1 DEF MarkedExit
  <2>3. life = "running" => \A e \in Drivers : drv'[e].step = "exit" =>
           \E k \in 1..Len(asg) : asg'[k].tok = drv'[e].tok /\ asg'[k].sent
    <3>1. PICK k \in K : asg[k].tok = drv[d].tok
        BY ONLY <1>1, <1>2
    <3>2. k \in 1..Len(asg) /\ asg'[k].tok = drv[d].tok /\ asg'[k].sent /\ drv'[d].tok = drv[d].tok
        BY ONLY <1>1, <1>2, <3>1 DEF MarkedOnly, Moves
    <3>3. ASSUME NEW e \in Drivers, e # d, drv'[e].step = "exit", life = "running"
          PROVE  \E i \in 1..Len(asg) : asg'[i].tok = drv'[e].tok /\ asg'[i].sent
        BY ONLY <1>1, <1>2, <3>3 DEF MarkedExit, MarkedOnly, Moves, Plain
    <3> QED
        BY <3>2, <3>3
  <2> QED
      BY ONLY <1>1, <1>2, <2>2, <2>3 DEF MarkedExit, MarkedOnly
<1>9. AtRest'
    BY ONLY <1>1, <1>2 DEF AtRest, Plain, MarkedOnly, Moves, Numbered, OwnClaim, FencedChild,
       InOrder, Chosen
<1> QED
    BY ONLY <1>3, <1>4, <1>5, <1>6, <1>7, <1>8, <1>9 DEF Retirement

LEMMA UnreserveKeeps ==
  ASSUME Retirement,
         drv["sidecar"].step = "exit" /\ "sidecar" \in Drivers,
         FreedMark,
         Moves("sidecar", "idle", 0),
         UNCHANGED <<kind, pwf, wf, busy, life, proc, tree, exits, died, tokens, work, faults>>
  PROVE  Retirement'
<1>1. RTypeOK /\ Numbered /\ OwnClaim /\ InOrder /\ FencedChild /\ MarkedExit /\ AtRest /\ Plain
    BY PlainTypes DEF Retirement
<1>2. /\ drv["sidecar"].step = "exit" /\ "sidecar" \in Drivers
      /\ FreedMark
      /\ Moves("sidecar", "idle", 0)
      /\ kind' = kind /\ pwf' = pwf /\ wf' = wf /\ busy' = busy /\ life' = life /\ proc' = proc
      /\ tree' = tree /\ exits' = exits /\ died' = died /\ tokens' = tokens /\ work' = work /\ faults' = faults
    OBVIOUS
<1>3. RTypeOK'
  <2>1. asg' \in Seq(Assignment) /\ Len(asg') \in 1..MaxAssignments /\ DOMAIN asg' = 1..Len(asg)
      BY ONLY <1>1, <1>2, Rows DEF RTypeOK, RowsTyped, FreedMark
  <2>2. \A k \in 1..Len(asg) : /\ asg'[k].done => asg'[k].tok = 0 /\ asg'[k].intent
                               /\ asg'[k].tok # 0 => asg'[k].intent
      BY ONLY <1>1, <1>2 DEF Plain, FreedMark
  <2>3. \A j, k \in 1..Len(asg) : asg'[j].tok # 0 /\ asg'[k].tok # 0 => j = k
      BY ONLY <1>1, <1>2 DEF Plain, FencedChild, FreedMark
  <2>4. drv' \in [Drivers -> Driver] /\ (life' = "exited" => proc' = "gone" /\ ~busy' /\ wf' # "open")
      BY ONLY <1>1, <1>2 DEF RTypeOK, DriversTyped, AtRest, Moves
  <2>5. /\ kind' \in {"worker", "reviewer", "handoff"} /\ pwf' \in BOOLEAN
        /\ wf' \in {"open", "terminal", "cancelled"} /\ busy' \in BOOLEAN
        /\ life' \in {"running", "exited"} /\ proc' \in {"up", "gone"} /\ tree' \in {"clean", "dirty", "removed"}
        /\ exits' \in Nat /\ died' \in 0..MaxTokens /\ tokens' \in 0..MaxTokens
        /\ work' \in 0..MaxWork /\ faults' \in 0..MaxFaults
      BY ONLY <1>1, <1>2, ConstantAssumption DEF RTypeOK
  <2>6. /\ \A k \in DOMAIN asg' : /\ asg'[k].done => asg'[k].tok = 0 /\ asg'[k].intent
                                  /\ asg'[k].tok # 0 => asg'[k].intent
        /\ \A j, k \in DOMAIN asg' : asg'[j].tok # 0 /\ asg'[k].tok # 0 => j = k
      BY ONLY <2>1, <2>2, <2>3
  <2> QED
      BY ONLY <2>1, <2>4, <2>5, <2>6 DEF RTypeOK
<1>4. Numbered'
    BY ONLY <1>1, <1>2 DEF Numbered, Plain, FreedMark, Moves
<1>5. OwnClaim'
    BY ONLY <1>1, <1>2 DEF OwnClaim, Plain, FreedMark, Moves, Numbered
<1>6. InOrder'
    BY ONLY <1>1, <1>2 DEF InOrder, Plain, FreedMark, Moves
<1>7. FencedChild'
    BY ONLY <1>1, <1>2 DEF FencedChild, Plain, FreedMark
<1>8. MarkedExit'
    BY ONLY <1>1, <1>2 DEF MarkedExit, Plain, FreedMark, Moves, Numbered, OwnClaim,
       FencedChild, InOrder
<1>9. AtRest'
    BY ONLY <1>1, <1>2 DEF AtRest, Plain, FreedMark, Moves, Numbered, OwnClaim, FencedChild,
       InOrder, Chosen
<1> QED
    BY ONLY <1>3, <1>4, <1>5, <1>6, <1>7, <1>8, <1>9 DEF Retirement

LEMMA ExitedKeeps ==
  ASSUME Retirement,
         NEW d \in Drivers,
         NEW s \in {"clean", "idle"},
         NEW t \in 0..MaxTokens,
         drv[d].step = "exit",
         s = "clean" => t = drv[d].tok,
         Moves(d, s, t),
         life' = "exited" /\ proc' = "gone" /\ busy' = FALSE,
         wf' \in {"terminal", "cancelled"} /\ exits' \in Nat,
         (life = "exited" /\ exits' = exits) \/ (life # "exited" /\ exits' = exits + 1),
         UNCHANGED <<kind, pwf, tree, died, tokens, work, faults, asg>>
  PROVE  Retirement'
<1>1. RTypeOK /\ Numbered /\ OwnClaim /\ InOrder /\ FencedChild /\ MarkedExit /\ AtRest /\ Plain
    BY PlainTypes DEF Retirement
<1>2. /\ d \in Drivers
      /\ s \in {"clean", "idle"}
      /\ t \in 0..MaxTokens
      /\ drv[d].step = "exit"
      /\ (s = "clean" => t = drv[d].tok)
      /\ Moves(d, s, t)
      /\ life' = "exited" /\ proc' = "gone" /\ busy' = FALSE
      /\ wf' \in {"terminal", "cancelled"} /\ exits' \in Nat
      /\ ((life = "exited" /\ exits' = exits) \/ (life # "exited" /\ exits' = exits + 1))
      /\ kind' = kind /\ pwf' = pwf /\ tree' = tree /\ died' = died /\ tokens' = tokens /\ work' = work
      /\ faults' = faults /\ asg' = asg
    OBVIOUS
<1>3. RTypeOK'
  <2>1. asg' \in Seq(Assignment) /\ Len(asg') \in 1..MaxAssignments /\ DOMAIN asg' = 1..Len(asg)
      BY ONLY <1>1, <1>2, Rows DEF RTypeOK, RowsTyped
  <2>2. \A k \in 1..Len(asg) : /\ asg'[k].done => asg'[k].tok = 0 /\ asg'[k].intent
                               /\ asg'[k].tok # 0 => asg'[k].intent
      BY ONLY <1>1, <1>2 DEF Plain
  <2>3. \A j, k \in 1..Len(asg) : asg'[j].tok # 0 /\ asg'[k].tok # 0 => j = k
      BY ONLY <1>1, <1>2 DEF Plain, FencedChild
  <2>4. drv' \in [Drivers -> Driver] /\ (life' = "exited" => proc' = "gone" /\ ~busy' /\ wf' # "open")
      BY ONLY <1>1, <1>2 DEF RTypeOK, DriversTyped, AtRest, Moves
  <2>5. /\ kind' \in {"worker", "reviewer", "handoff"} /\ pwf' \in BOOLEAN
        /\ wf' \in {"open", "terminal", "cancelled"} /\ busy' \in BOOLEAN
        /\ life' \in {"running", "exited"} /\ proc' \in {"up", "gone"} /\ tree' \in {"clean", "dirty", "removed"}
        /\ exits' \in Nat /\ died' \in 0..MaxTokens /\ tokens' \in 0..MaxTokens
        /\ work' \in 0..MaxWork /\ faults' \in 0..MaxFaults
      BY ONLY <1>1, <1>2, ConstantAssumption DEF RTypeOK
  <2>6. /\ \A k \in DOMAIN asg' : /\ asg'[k].done => asg'[k].tok = 0 /\ asg'[k].intent
                                  /\ asg'[k].tok # 0 => asg'[k].intent
        /\ \A j, k \in DOMAIN asg' : asg'[j].tok # 0 /\ asg'[k].tok # 0 => j = k
      BY ONLY <2>1, <2>2, <2>3
  <2> QED
      BY ONLY <2>1, <2>4, <2>5, <2>6 DEF RTypeOK
<1>4. Numbered'
    BY ONLY <1>1, <1>2 DEF Numbered, Plain, Moves
<1>5. OwnClaim'
    BY ONLY <1>1, <1>2 DEF OwnClaim, Plain, Moves, Numbered
<1>6. InOrder'
    BY ONLY <1>1, <1>2 DEF InOrder, Plain, Moves
<1>7. FencedChild'
    BY ONLY <1>1, <1>2 DEF FencedChild, Plain
<1>8. MarkedExit'
    BY ONLY <1>1, <1>2 DEF MarkedExit, Plain, Moves, Numbered, OwnClaim, FencedChild, InOrder
<1>9. AtRest'
    BY ONLY <1>1, <1>2 DEF AtRest, Plain, Moves, Numbered, OwnClaim, FencedChild, InOrder,
       Chosen
<1> QED
    BY ONLY <1>3, <1>4, <1>5, <1>6, <1>7, <1>8, <1>9 DEF Retirement

LEMMA UnknownKeeps ==
  ASSUME Retirement,
         NEW d \in Drivers,
         drv[d].step = "exit",
         Moves(d, "idle", 0),
         life = "running" /\ exits' = exits + 1,
         proc' \in {"up", "gone"} /\ (busy' => busy /\ proc' = "up") /\ busy' \in BOOLEAN,
         UNCHANGED <<kind, pwf, wf, life, tree, died, tokens, work, faults, asg>>
  PROVE  Retirement'
<1>1. RTypeOK /\ Numbered /\ OwnClaim /\ InOrder /\ FencedChild /\ MarkedExit /\ AtRest /\ Plain
    BY PlainTypes DEF Retirement
<1>2. /\ d \in Drivers
      /\ drv[d].step = "exit"
      /\ Moves(d, "idle", 0)
      /\ life = "running" /\ exits' = exits + 1
      /\ (proc' \in {"up", "gone"} /\ (busy' => busy /\ proc' = "up") /\ busy' \in BOOLEAN)
      /\ kind' = kind /\ pwf' = pwf /\ wf' = wf /\ life' = life /\ tree' = tree /\ died' = died
      /\ tokens' = tokens /\ work' = work /\ faults' = faults /\ asg' = asg
    OBVIOUS
<1>3. RTypeOK'
  <2>1. asg' \in Seq(Assignment) /\ Len(asg') \in 1..MaxAssignments /\ DOMAIN asg' = 1..Len(asg)
      BY ONLY <1>1, <1>2, Rows DEF RTypeOK, RowsTyped
  <2>2. \A k \in 1..Len(asg) : /\ asg'[k].done => asg'[k].tok = 0 /\ asg'[k].intent
                               /\ asg'[k].tok # 0 => asg'[k].intent
      BY ONLY <1>1, <1>2 DEF Plain
  <2>3. \A j, k \in 1..Len(asg) : asg'[j].tok # 0 /\ asg'[k].tok # 0 => j = k
      BY ONLY <1>1, <1>2 DEF Plain, FencedChild
  <2>4. drv' \in [Drivers -> Driver] /\ (life' = "exited" => proc' = "gone" /\ ~busy' /\ wf' # "open")
      BY ONLY <1>1, <1>2 DEF RTypeOK, DriversTyped, AtRest, Moves
  <2>5. /\ kind' \in {"worker", "reviewer", "handoff"} /\ pwf' \in BOOLEAN
        /\ wf' \in {"open", "terminal", "cancelled"} /\ busy' \in BOOLEAN
        /\ life' \in {"running", "exited"} /\ proc' \in {"up", "gone"} /\ tree' \in {"clean", "dirty", "removed"}
        /\ exits' \in Nat /\ died' \in 0..MaxTokens /\ tokens' \in 0..MaxTokens
        /\ work' \in 0..MaxWork /\ faults' \in 0..MaxFaults
      BY ONLY <1>1, <1>2, ConstantAssumption DEF RTypeOK
  <2>6. /\ \A k \in DOMAIN asg' : /\ asg'[k].done => asg'[k].tok = 0 /\ asg'[k].intent
                                  /\ asg'[k].tok # 0 => asg'[k].intent
        /\ \A j, k \in DOMAIN asg' : asg'[j].tok # 0 /\ asg'[k].tok # 0 => j = k
      BY ONLY <2>1, <2>2, <2>3
  <2> QED
      BY ONLY <2>1, <2>4, <2>5, <2>6 DEF RTypeOK
<1>4. Numbered'
    BY ONLY <1>1, <1>2 DEF Numbered, Plain, Moves
<1>5. OwnClaim'
    BY ONLY <1>1, <1>2 DEF OwnClaim, Plain, Moves, Numbered
<1>6. InOrder'
    BY ONLY <1>1, <1>2 DEF InOrder, Plain, Moves
<1>7. FencedChild'
    BY ONLY <1>1, <1>2 DEF FencedChild, Plain
<1>8. MarkedExit'
    BY ONLY <1>1, <1>2 DEF MarkedExit, Plain, Moves, Numbered, OwnClaim, FencedChild, InOrder
<1>9. AtRest'
    BY ONLY <1>1, <1>2 DEF AtRest, Plain, Moves, Numbered, OwnClaim, FencedChild, InOrder,
       Chosen
<1> QED
    BY ONLY <1>3, <1>4, <1>5, <1>6, <1>7, <1>8, <1>9 DEF Retirement

LEMMA CleanKeeps ==
  ASSUME Retirement,
         NEW d \in Drivers,
         drv[d].step = "clean",
         Moves(d, "seal", drv[d].tok),
         tree' = "removed",
         UNCHANGED <<kind, pwf, wf, busy, life, proc, exits, died, tokens, work, faults, asg>>
  PROVE  Retirement'
<1>1. RTypeOK /\ Numbered /\ OwnClaim /\ InOrder /\ FencedChild /\ MarkedExit /\ AtRest /\ Plain
    BY PlainTypes DEF Retirement
<1>2. /\ d \in Drivers
      /\ drv[d].step = "clean"
      /\ Moves(d, "seal", drv[d].tok)
      /\ tree' = "removed"
      /\ kind' = kind /\ pwf' = pwf /\ wf' = wf /\ busy' = busy /\ life' = life /\ proc' = proc
      /\ exits' = exits /\ died' = died /\ tokens' = tokens /\ work' = work /\ faults' = faults /\ asg' = asg
    OBVIOUS
<1>3. RTypeOK'
  <2>1. asg' \in Seq(Assignment) /\ Len(asg') \in 1..MaxAssignments /\ DOMAIN asg' = 1..Len(asg)
      BY ONLY <1>1, <1>2, Rows DEF RTypeOK, RowsTyped
  <2>2. \A k \in 1..Len(asg) : /\ asg'[k].done => asg'[k].tok = 0 /\ asg'[k].intent
                               /\ asg'[k].tok # 0 => asg'[k].intent
      BY ONLY <1>1, <1>2 DEF Plain
  <2>3. \A j, k \in 1..Len(asg) : asg'[j].tok # 0 /\ asg'[k].tok # 0 => j = k
      BY ONLY <1>1, <1>2 DEF Plain, FencedChild
  <2>4. drv' \in [Drivers -> Driver] /\ (life' = "exited" => proc' = "gone" /\ ~busy' /\ wf' # "open")
      BY ONLY <1>1, <1>2 DEF RTypeOK, DriversTyped, AtRest, Moves
  <2>5. /\ kind' \in {"worker", "reviewer", "handoff"} /\ pwf' \in BOOLEAN
        /\ wf' \in {"open", "terminal", "cancelled"} /\ busy' \in BOOLEAN
        /\ life' \in {"running", "exited"} /\ proc' \in {"up", "gone"} /\ tree' \in {"clean", "dirty", "removed"}
        /\ exits' \in Nat /\ died' \in 0..MaxTokens /\ tokens' \in 0..MaxTokens
        /\ work' \in 0..MaxWork /\ faults' \in 0..MaxFaults
      BY ONLY <1>1, <1>2, ConstantAssumption DEF RTypeOK
  <2>6. /\ \A k \in DOMAIN asg' : /\ asg'[k].done => asg'[k].tok = 0 /\ asg'[k].intent
                                  /\ asg'[k].tok # 0 => asg'[k].intent
        /\ \A j, k \in DOMAIN asg' : asg'[j].tok # 0 /\ asg'[k].tok # 0 => j = k
      BY ONLY <2>1, <2>2, <2>3
  <2> QED
      BY ONLY <2>1, <2>4, <2>5, <2>6 DEF RTypeOK
<1>4. Numbered'
    BY ONLY <1>1, <1>2 DEF Numbered, Plain, Moves
<1>5. OwnClaim'
    BY ONLY <1>1, <1>2 DEF OwnClaim, Plain, Moves, Numbered
<1>6. InOrder'
    BY ONLY <1>1, <1>2 DEF InOrder, Plain, Moves
<1>7. FencedChild'
    BY ONLY <1>1, <1>2 DEF FencedChild, Plain
<1>8. MarkedExit'
    BY ONLY <1>1, <1>2 DEF MarkedExit, Plain, Moves, Numbered, OwnClaim, FencedChild, InOrder
<1>9. AtRest'
    BY ONLY <1>1, <1>2 DEF AtRest, Plain, Moves, Numbered, OwnClaim, FencedChild, InOrder,
       Chosen
<1> QED
    BY ONLY <1>3, <1>4, <1>5, <1>6, <1>7, <1>8, <1>9 DEF Retirement

LEMMA SealKeeps ==
  ASSUME Retirement,
         NEW d \in Drivers,
         drv[d].step = "seal",
         SealedOnly,
         Moves(d, "idle", 0),
         UNCHANGED <<kind, pwf, wf, busy, life, proc, tree, exits, died, tokens, work, faults>>
  PROVE  Retirement'
<1>1. RTypeOK /\ Numbered /\ OwnClaim /\ InOrder /\ FencedChild /\ MarkedExit /\ AtRest /\ Plain
    BY PlainTypes DEF Retirement
<1>2. /\ d \in Drivers
      /\ drv[d].step = "seal"
      /\ SealedOnly
      /\ Moves(d, "idle", 0)
      /\ kind' = kind /\ pwf' = pwf /\ wf' = wf /\ busy' = busy /\ life' = life /\ proc' = proc
      /\ tree' = tree /\ exits' = exits /\ died' = died /\ tokens' = tokens /\ work' = work /\ faults' = faults
    OBVIOUS
<1>3. RTypeOK'
  <2>1. asg' \in Seq(Assignment) /\ Len(asg') \in 1..MaxAssignments /\ DOMAIN asg' = 1..Len(asg)
      BY ONLY <1>1, <1>2, Rows DEF RTypeOK, RowsTyped, SealedOnly
  <2>2. \A k \in 1..Len(asg) : /\ asg'[k].done => asg'[k].tok = 0 /\ asg'[k].intent
                               /\ asg'[k].tok # 0 => asg'[k].intent
      BY ONLY <1>1, <1>2 DEF Plain, SealedOnly
  <2>3. \A j, k \in 1..Len(asg) : asg'[j].tok # 0 /\ asg'[k].tok # 0 => j = k
      BY ONLY <1>1, <1>2 DEF Plain, FencedChild, SealedOnly
  <2>4. drv' \in [Drivers -> Driver] /\ (life' = "exited" => proc' = "gone" /\ ~busy' /\ wf' # "open")
      BY ONLY <1>1, <1>2 DEF RTypeOK, DriversTyped, AtRest, Moves
  <2>5. /\ kind' \in {"worker", "reviewer", "handoff"} /\ pwf' \in BOOLEAN
        /\ wf' \in {"open", "terminal", "cancelled"} /\ busy' \in BOOLEAN
        /\ life' \in {"running", "exited"} /\ proc' \in {"up", "gone"} /\ tree' \in {"clean", "dirty", "removed"}
        /\ exits' \in Nat /\ died' \in 0..MaxTokens /\ tokens' \in 0..MaxTokens
        /\ work' \in 0..MaxWork /\ faults' \in 0..MaxFaults
      BY ONLY <1>1, <1>2, ConstantAssumption DEF RTypeOK
  <2>6. /\ \A k \in DOMAIN asg' : /\ asg'[k].done => asg'[k].tok = 0 /\ asg'[k].intent
                                  /\ asg'[k].tok # 0 => asg'[k].intent
        /\ \A j, k \in DOMAIN asg' : asg'[j].tok # 0 /\ asg'[k].tok # 0 => j = k
      BY ONLY <2>1, <2>2, <2>3
  <2> QED
      BY ONLY <2>1, <2>4, <2>5, <2>6 DEF RTypeOK
<1>4. Numbered'
    BY ONLY <1>1, <1>2 DEF Numbered, Plain, SealedOnly, Moves
<1>5. OwnClaim'
    BY ONLY <1>1, <1>2 DEF OwnClaim, Plain, SealedOnly, Moves, Numbered
<1>6. InOrder'
    BY ONLY <1>1, <1>2 DEF InOrder, Plain, SealedOnly, Moves
<1>7. FencedChild'
    BY ONLY <1>1, <1>2 DEF FencedChild, Plain, SealedOnly
<1>8. MarkedExit'
    BY ONLY <1>1, <1>2 DEF MarkedExit, Plain, SealedOnly, Moves, Numbered, OwnClaim,
       FencedChild, InOrder
<1>9. AtRest'
    BY ONLY <1>1, <1>2 DEF AtRest, Plain, SealedOnly, Moves, Numbered, OwnClaim, FencedChild,
       InOrder, Chosen
<1> QED
    BY ONLY <1>3, <1>4, <1>5, <1>6, <1>7, <1>8, <1>9 DEF Retirement

LEMMA AcceptKeeps ==
  ASSUME Retirement,
         life = "running",
         \A k \in 1..Len(asg) : asg[k].tok = 0 /\ asg[k].done = FALSE,
         wf' = "open" /\ busy' = (proc = "up"),
         work' \in 0..MaxWork,
         UNCHANGED <<kind, pwf, life, proc, tree, exits, died, tokens, faults, asg, drv>>
  PROVE  Retirement'
<1>1. RTypeOK /\ Numbered /\ OwnClaim /\ InOrder /\ FencedChild /\ MarkedExit /\ AtRest /\ Plain
    BY PlainTypes DEF Retirement
<1>2. /\ life = "running"
      /\ (\A k \in 1..Len(asg) : asg[k].tok = 0 /\ asg[k].done = FALSE)
      /\ wf' = "open" /\ busy' = (proc = "up")
      /\ work' \in 0..MaxWork
      /\ kind' = kind /\ pwf' = pwf /\ life' = life /\ proc' = proc /\ tree' = tree /\ exits' = exits
      /\ died' = died /\ tokens' = tokens /\ faults' = faults /\ asg' = asg /\ drv' = drv
    OBVIOUS
<1>3. RTypeOK'
  <2>1. asg' \in Seq(Assignment) /\ Len(asg') \in 1..MaxAssignments /\ DOMAIN asg' = 1..Len(asg)
      BY ONLY <1>1, <1>2, Rows DEF RTypeOK, RowsTyped
  <2>2. \A k \in 1..Len(asg) : /\ asg'[k].done => asg'[k].tok = 0 /\ asg'[k].intent
                               /\ asg'[k].tok # 0 => asg'[k].intent
      BY ONLY <1>1, <1>2 DEF Plain
  <2>3. \A j, k \in 1..Len(asg) : asg'[j].tok # 0 /\ asg'[k].tok # 0 => j = k
      BY ONLY <1>1, <1>2 DEF Plain, FencedChild
  <2>4. drv' \in [Drivers -> Driver] /\ (life' = "exited" => proc' = "gone" /\ ~busy' /\ wf' # "open")
      BY ONLY <1>1, <1>2 DEF RTypeOK, DriversTyped, AtRest
  <2>5. /\ kind' \in {"worker", "reviewer", "handoff"} /\ pwf' \in BOOLEAN
        /\ wf' \in {"open", "terminal", "cancelled"} /\ busy' \in BOOLEAN
        /\ life' \in {"running", "exited"} /\ proc' \in {"up", "gone"} /\ tree' \in {"clean", "dirty", "removed"}
        /\ exits' \in Nat /\ died' \in 0..MaxTokens /\ tokens' \in 0..MaxTokens
        /\ work' \in 0..MaxWork /\ faults' \in 0..MaxFaults
      BY ONLY <1>1, <1>2, ConstantAssumption DEF RTypeOK
  <2>6. /\ \A k \in DOMAIN asg' : /\ asg'[k].done => asg'[k].tok = 0 /\ asg'[k].intent
                                  /\ asg'[k].tok # 0 => asg'[k].intent
        /\ \A j, k \in DOMAIN asg' : asg'[j].tok # 0 /\ asg'[k].tok # 0 => j = k
      BY ONLY <2>1, <2>2, <2>3
  <2> QED
      BY ONLY <2>1, <2>4, <2>5, <2>6 DEF RTypeOK
<1>4. Numbered'
    BY ONLY <1>1, <1>2 DEF Numbered, Plain
<1>5. OwnClaim'
    BY ONLY <1>1, <1>2 DEF OwnClaim, Plain, Numbered
<1>6. InOrder'
    BY ONLY <1>1, <1>2 DEF InOrder, Plain
<1>7. FencedChild'
    BY ONLY <1>1, <1>2 DEF FencedChild, Plain
<1>8. MarkedExit'
    BY ONLY <1>1, <1>2 DEF MarkedExit, Plain, Numbered, OwnClaim, FencedChild, InOrder
<1>9. AtRest'
    BY ONLY <1>1, <1>2 DEF AtRest, Plain, Numbered, OwnClaim, FencedChild, InOrder, Chosen
<1> QED
    BY ONLY <1>3, <1>4, <1>5, <1>6, <1>7, <1>8, <1>9 DEF Retirement

LEMMA WorkKeeps ==
  ASSUME Retirement,
         NEW s \in {"awaiting", "final", "over"},
         busy /\ wf = "open" /\ wf' = "terminal" /\ tree' \in {"clean", "dirty"},
         StateOnly(s),
         UNCHANGED <<kind, pwf, busy, life, proc, exits, died, tokens, work, faults, drv>>
  PROVE  Retirement'
<1>1. RTypeOK /\ Numbered /\ OwnClaim /\ InOrder /\ FencedChild /\ MarkedExit /\ AtRest /\ Plain
    BY PlainTypes DEF Retirement
<1>2. /\ s \in {"awaiting", "final", "over"}
      /\ busy /\ wf = "open" /\ wf' = "terminal" /\ tree' \in {"clean", "dirty"}
      /\ StateOnly(s)
      /\ kind' = kind /\ pwf' = pwf /\ busy' = busy /\ life' = life /\ proc' = proc /\ exits' = exits
      /\ died' = died /\ tokens' = tokens /\ work' = work /\ faults' = faults /\ drv' = drv
    OBVIOUS
<1>3. RTypeOK'
  <2>1. asg' \in Seq(Assignment) /\ Len(asg') \in 1..MaxAssignments /\ DOMAIN asg' = 1..Len(asg)
      BY ONLY <1>1, <1>2, Rows DEF RTypeOK, RowsTyped, StateOnly
  <2>2. \A k \in 1..Len(asg) : /\ asg'[k].done => asg'[k].tok = 0 /\ asg'[k].intent
                               /\ asg'[k].tok # 0 => asg'[k].intent
      BY ONLY <1>1, <1>2 DEF Plain, StateOnly
  <2>3. \A j, k \in 1..Len(asg) : asg'[j].tok # 0 /\ asg'[k].tok # 0 => j = k
      BY ONLY <1>1, <1>2 DEF Plain, FencedChild, StateOnly
  <2>4. drv' \in [Drivers -> Driver] /\ (life' = "exited" => proc' = "gone" /\ ~busy' /\ wf' # "open")
      BY ONLY <1>1, <1>2 DEF RTypeOK, DriversTyped, AtRest
  <2>5. /\ kind' \in {"worker", "reviewer", "handoff"} /\ pwf' \in BOOLEAN
        /\ wf' \in {"open", "terminal", "cancelled"} /\ busy' \in BOOLEAN
        /\ life' \in {"running", "exited"} /\ proc' \in {"up", "gone"} /\ tree' \in {"clean", "dirty", "removed"}
        /\ exits' \in Nat /\ died' \in 0..MaxTokens /\ tokens' \in 0..MaxTokens
        /\ work' \in 0..MaxWork /\ faults' \in 0..MaxFaults
      BY ONLY <1>1, <1>2, ConstantAssumption DEF RTypeOK
  <2>6. /\ \A k \in DOMAIN asg' : /\ asg'[k].done => asg'[k].tok = 0 /\ asg'[k].intent
                                  /\ asg'[k].tok # 0 => asg'[k].intent
        /\ \A j, k \in DOMAIN asg' : asg'[j].tok # 0 /\ asg'[k].tok # 0 => j = k
      BY ONLY <2>1, <2>2, <2>3
  <2> QED
      BY ONLY <2>1, <2>4, <2>5, <2>6 DEF RTypeOK
<1>4. Numbered'
    BY ONLY <1>1, <1>2 DEF Numbered, Plain, StateOnly
<1>5. OwnClaim'
    BY ONLY <1>1, <1>2 DEF OwnClaim, Plain, StateOnly, Numbered
<1>6. InOrder'
    BY ONLY <1>1, <1>2 DEF InOrder, Plain, StateOnly
<1>7. FencedChild'
    BY ONLY <1>1, <1>2 DEF FencedChild, Plain, StateOnly
<1>8. MarkedExit'
    BY ONLY <1>1, <1>2 DEF MarkedExit, Plain, StateOnly, Numbered, OwnClaim, FencedChild,
       InOrder
<1>9. AtRest'
    BY ONLY <1>1, <1>2 DEF AtRest, Plain, StateOnly, Numbered, OwnClaim, FencedChild, InOrder,
       Chosen
<1> QED
    BY ONLY <1>3, <1>4, <1>5, <1>6, <1>7, <1>8, <1>9 DEF Retirement

LEMMA QuietKeeps ==
  ASSUME Retirement,
         pwf' \in BOOLEAN,
         busy' \in BOOLEAN /\ (busy' => busy /\ proc' = "up") /\ tree' \in {"clean", "dirty", "removed"},
         (tree = "removed") <=> (tree' = "removed"),
         proc' \in {proc, "gone"},
         work' \in 0..MaxWork,
         faults' \in 0..MaxFaults,
         UNCHANGED <<kind, wf, life, exits, died, tokens, asg, drv>>
  PROVE  Retirement'
<1>1. RTypeOK /\ Numbered /\ OwnClaim /\ InOrder /\ FencedChild /\ MarkedExit /\ AtRest /\ Plain
    BY PlainTypes DEF Retirement
<1>2. /\ pwf' \in BOOLEAN
      /\ (busy' \in BOOLEAN /\ (busy' => busy /\ proc' = "up") /\ tree' \in {"clean", "dirty", "removed"})
      /\ ((tree = "removed") <=> (tree' = "removed"))
      /\ proc' \in {proc, "gone"}
      /\ work' \in 0..MaxWork
      /\ faults' \in 0..MaxFaults
      /\ kind' = kind /\ wf' = wf /\ life' = life /\ exits' = exits /\ died' = died /\ tokens' = tokens
      /\ asg' = asg /\ drv' = drv
    OBVIOUS
<1>3. RTypeOK'
  <2>1. asg' \in Seq(Assignment) /\ Len(asg') \in 1..MaxAssignments /\ DOMAIN asg' = 1..Len(asg)
      BY ONLY <1>1, <1>2, Rows DEF RTypeOK, RowsTyped
  <2>2. \A k \in 1..Len(asg) : /\ asg'[k].done => asg'[k].tok = 0 /\ asg'[k].intent
                               /\ asg'[k].tok # 0 => asg'[k].intent
      BY ONLY <1>1, <1>2 DEF Plain
  <2>3. \A j, k \in 1..Len(asg) : asg'[j].tok # 0 /\ asg'[k].tok # 0 => j = k
      BY ONLY <1>1, <1>2 DEF Plain, FencedChild
  <2>4. drv' \in [Drivers -> Driver] /\ (life' = "exited" => proc' = "gone" /\ ~busy' /\ wf' # "open")
      BY ONLY <1>1, <1>2 DEF RTypeOK, DriversTyped, AtRest
  <2>5. /\ kind' \in {"worker", "reviewer", "handoff"} /\ pwf' \in BOOLEAN
        /\ wf' \in {"open", "terminal", "cancelled"} /\ busy' \in BOOLEAN
        /\ life' \in {"running", "exited"} /\ proc' \in {"up", "gone"} /\ tree' \in {"clean", "dirty", "removed"}
        /\ exits' \in Nat /\ died' \in 0..MaxTokens /\ tokens' \in 0..MaxTokens
        /\ work' \in 0..MaxWork /\ faults' \in 0..MaxFaults
      BY ONLY <1>1, <1>2, ConstantAssumption DEF RTypeOK
  <2>6. /\ \A k \in DOMAIN asg' : /\ asg'[k].done => asg'[k].tok = 0 /\ asg'[k].intent
                                  /\ asg'[k].tok # 0 => asg'[k].intent
        /\ \A j, k \in DOMAIN asg' : asg'[j].tok # 0 /\ asg'[k].tok # 0 => j = k
      BY ONLY <2>1, <2>2, <2>3
  <2> QED
      BY ONLY <2>1, <2>4, <2>5, <2>6 DEF RTypeOK
<1>4. Numbered'
    BY ONLY <1>1, <1>2 DEF Numbered, Plain
<1>5. OwnClaim'
    BY ONLY <1>1, <1>2 DEF OwnClaim, Plain, Numbered
<1>6. InOrder'
    BY ONLY <1>1, <1>2 DEF InOrder, Plain
<1>7. FencedChild'
    BY ONLY <1>1, <1>2 DEF FencedChild, Plain
<1>8. MarkedExit'
    BY ONLY <1>1, <1>2 DEF MarkedExit, Plain, Numbered, OwnClaim, FencedChild, InOrder
<1>9. AtRest'
    BY ONLY <1>1, <1>2 DEF AtRest, Plain, Numbered, OwnClaim, FencedChild, InOrder, Chosen
<1> QED
    BY ONLY <1>3, <1>4, <1>5, <1>6, <1>7, <1>8, <1>9 DEF Retirement

LEMMA RereviewKeeps ==
  ASSUME Retirement,
         life = "running" /\ wf # "open",
         OneMore,
         UNCHANGED <<kind, pwf, wf, busy, life, proc, tree, exits, died, tokens, work, faults,
                     drv>>
  PROVE  Retirement'
<1>1. RTypeOK /\ Numbered /\ OwnClaim /\ InOrder /\ FencedChild /\ MarkedExit /\ AtRest /\ Plain
    BY PlainTypes DEF Retirement
<1>2. /\ life = "running" /\ wf # "open"
      /\ OneMore
      /\ kind' = kind /\ pwf' = pwf /\ wf' = wf /\ busy' = busy /\ life' = life /\ proc' = proc
      /\ tree' = tree /\ exits' = exits /\ died' = died /\ tokens' = tokens /\ work' = work /\ faults' = faults
      /\ drv' = drv
    OBVIOUS
<1>3. /\ Len(asg) + 1 \in Nat /\ Len(asg) \in 1..Len(asg) + 1 /\ NewAssignment \in Assignment
      /\ NewAssignment.tok = 0 /\ NewAssignment.done = FALSE /\ NewAssignment.st = "awaiting"
      /\ NewAssignment.sent = FALSE
      /\ \A k \in 1..Len(asg) + 1 : k \in 1..Len(asg) \/ k = Len(asg) + 1
    BY <1>1, ConstantAssumption DEF NewAssignment, Assignment, Plain
<1>4. RTypeOK'
  <2>1. asg' \in Seq(Assignment) /\ Len(asg') \in 1..MaxAssignments /\ DOMAIN asg' = 1..Len(asg) + 1
      BY ONLY <1>1, <1>2, <1>3, Rows DEF RTypeOK, RowsTyped, OneMore
  <2>2. \A k \in 1..Len(asg) + 1 : /\ asg'[k].done => asg'[k].tok = 0 /\ asg'[k].intent
                                   /\ asg'[k].tok # 0 => asg'[k].intent
      BY ONLY <1>1, <1>2, <1>3 DEF Plain, OneMore
  <2>3. \A j, k \in 1..Len(asg) + 1 : asg'[j].tok # 0 /\ asg'[k].tok # 0 => j = k
      BY ONLY <1>1, <1>2, <1>3 DEF Plain, FencedChild, OneMore
  <2>4. drv' \in [Drivers -> Driver] /\ (life' = "exited" => proc' = "gone" /\ ~busy' /\ wf' # "open")
      BY ONLY <1>1, <1>2, <1>3 DEF RTypeOK, DriversTyped, AtRest
  <2>5. /\ kind' \in {"worker", "reviewer", "handoff"} /\ pwf' \in BOOLEAN
        /\ wf' \in {"open", "terminal", "cancelled"} /\ busy' \in BOOLEAN
        /\ life' \in {"running", "exited"} /\ proc' \in {"up", "gone"} /\ tree' \in {"clean", "dirty", "removed"}
        /\ exits' \in Nat /\ died' \in 0..MaxTokens /\ tokens' \in 0..MaxTokens
        /\ work' \in 0..MaxWork /\ faults' \in 0..MaxFaults
      BY ONLY <1>1, <1>2, ConstantAssumption DEF RTypeOK
  <2>6. /\ \A k \in DOMAIN asg' : /\ asg'[k].done => asg'[k].tok = 0 /\ asg'[k].intent
                                  /\ asg'[k].tok # 0 => asg'[k].intent
        /\ \A j, k \in DOMAIN asg' : asg'[j].tok # 0 /\ asg'[k].tok # 0 => j = k
      BY ONLY <2>1, <2>2, <2>3
  <2> QED
      BY ONLY <2>1, <2>4, <2>5, <2>6 DEF RTypeOK
<1>5. Numbered'
    BY ONLY <1>1, <1>2, <1>3 DEF Numbered, Plain, OneMore
<1>6. OwnClaim'
    BY ONLY <1>1, <1>2, <1>3 DEF OwnClaim, Plain, OneMore, Numbered
<1>7. InOrder'
    BY ONLY <1>1, <1>2, <1>3 DEF InOrder, Plain, OneMore
<1>8. FencedChild'
    BY ONLY <1>1, <1>2, <1>3 DEF FencedChild, Plain, OneMore
<1>9. MarkedExit'
    BY ONLY <1>1, <1>2, <1>3 DEF MarkedExit, Plain, OneMore, Numbered, OwnClaim, FencedChild,
       InOrder
<1>10. AtRest'
    BY ONLY <1>1, <1>2, <1>3 DEF AtRest, Plain, OneMore, Numbered, OwnClaim, FencedChild,
       InOrder, Chosen
<1> QED
    BY ONLY <1>4, <1>5, <1>6, <1>7, <1>8, <1>9, <1>10 DEF Retirement

LEMMA OverKeeps ==
  ASSUME Retirement,
         NEW s \in {"awaiting", "final", "over"},
         s = "final" => asg[Len(asg)].st = "final",
         StateOnly(s),
         UNCHANGED <<kind, pwf, wf, busy, life, proc, tree, exits, died, tokens, work, faults,
                     drv>>
  PROVE  Retirement'
<1>1. RTypeOK /\ Numbered /\ OwnClaim /\ InOrder /\ FencedChild /\ MarkedExit /\ AtRest /\ Plain
    BY PlainTypes DEF Retirement
<1>2. /\ s \in {"awaiting", "final", "over"}
      /\ (s = "final" => asg[Len(asg)].st = "final")
      /\ StateOnly(s)
      /\ kind' = kind /\ pwf' = pwf /\ wf' = wf /\ busy' = busy /\ life' = life /\ proc' = proc
      /\ tree' = tree /\ exits' = exits /\ died' = died /\ tokens' = tokens /\ work' = work /\ faults' = faults
      /\ drv' = drv
    OBVIOUS
<1>3. RTypeOK'
  <2>1. asg' \in Seq(Assignment) /\ Len(asg') \in 1..MaxAssignments /\ DOMAIN asg' = 1..Len(asg)
      BY ONLY <1>1, <1>2, Rows DEF RTypeOK, RowsTyped, StateOnly
  <2>2. \A k \in 1..Len(asg) : /\ asg'[k].done => asg'[k].tok = 0 /\ asg'[k].intent
                               /\ asg'[k].tok # 0 => asg'[k].intent
      BY ONLY <1>1, <1>2 DEF Plain, StateOnly
  <2>3. \A j, k \in 1..Len(asg) : asg'[j].tok # 0 /\ asg'[k].tok # 0 => j = k
      BY ONLY <1>1, <1>2 DEF Plain, FencedChild, StateOnly
  <2>4. drv' \in [Drivers -> Driver] /\ (life' = "exited" => proc' = "gone" /\ ~busy' /\ wf' # "open")
      BY ONLY <1>1, <1>2 DEF RTypeOK, DriversTyped, AtRest
  <2>5. /\ kind' \in {"worker", "reviewer", "handoff"} /\ pwf' \in BOOLEAN
        /\ wf' \in {"open", "terminal", "cancelled"} /\ busy' \in BOOLEAN
        /\ life' \in {"running", "exited"} /\ proc' \in {"up", "gone"} /\ tree' \in {"clean", "dirty", "removed"}
        /\ exits' \in Nat /\ died' \in 0..MaxTokens /\ tokens' \in 0..MaxTokens
        /\ work' \in 0..MaxWork /\ faults' \in 0..MaxFaults
      BY ONLY <1>1, <1>2, ConstantAssumption DEF RTypeOK
  <2>6. /\ \A k \in DOMAIN asg' : /\ asg'[k].done => asg'[k].tok = 0 /\ asg'[k].intent
                                  /\ asg'[k].tok # 0 => asg'[k].intent
        /\ \A j, k \in DOMAIN asg' : asg'[j].tok # 0 /\ asg'[k].tok # 0 => j = k
      BY ONLY <2>1, <2>2, <2>3
  <2> QED
      BY ONLY <2>1, <2>4, <2>5, <2>6 DEF RTypeOK
<1>4. Numbered'
    BY ONLY <1>1, <1>2 DEF Numbered, Plain, StateOnly
<1>5. OwnClaim'
    BY ONLY <1>1, <1>2 DEF OwnClaim, Plain, StateOnly, Numbered
<1>6. InOrder'
    BY ONLY <1>1, <1>2 DEF InOrder, Plain, StateOnly
<1>7. FencedChild'
    BY ONLY <1>1, <1>2 DEF FencedChild, Plain, StateOnly
<1>8. MarkedExit'
    BY ONLY <1>1, <1>2 DEF MarkedExit, Plain, StateOnly, Numbered, OwnClaim, FencedChild,
       InOrder
<1>9. AtRest'
    BY ONLY <1>1, <1>2 DEF AtRest, Plain, StateOnly, Numbered, OwnClaim, FencedChild, InOrder,
       Chosen
<1> QED
    BY ONLY <1>3, <1>4, <1>5, <1>6, <1>7, <1>8, <1>9 DEF Retirement

LEMMA ObserveKeeps ==
  ASSUME Retirement,
         NEW s \in {"awaiting", "final", "over"},
         s = "final" => asg[Len(asg)].st = "final",
         StateOnly(s),
         proc = "gone" /\ life' = "exited",
         wf' \in {"terminal", "cancelled"},
         UNCHANGED <<kind, pwf, busy, proc, tree, exits, died, tokens, work, faults, drv>>
  PROVE  Retirement'
<1>1. RTypeOK /\ Numbered /\ OwnClaim /\ InOrder /\ FencedChild /\ MarkedExit /\ AtRest /\ Plain
    BY PlainTypes DEF Retirement
<1>2. /\ s \in {"awaiting", "final", "over"}
      /\ (s = "final" => asg[Len(asg)].st = "final")
      /\ StateOnly(s)
      /\ proc = "gone" /\ life' = "exited"
      /\ wf' \in {"terminal", "cancelled"}
      /\ kind' = kind /\ pwf' = pwf /\ busy' = busy /\ proc' = proc /\ tree' = tree /\ exits' = exits
      /\ died' = died /\ tokens' = tokens /\ work' = work /\ faults' = faults /\ drv' = drv
    OBVIOUS
<1>3. RTypeOK'
  <2>1. asg' \in Seq(Assignment) /\ Len(asg') \in 1..MaxAssignments /\ DOMAIN asg' = 1..Len(asg)
      BY ONLY <1>1, <1>2, Rows DEF RTypeOK, RowsTyped, StateOnly
  <2>2. \A k \in 1..Len(asg) : /\ asg'[k].done => asg'[k].tok = 0 /\ asg'[k].intent
                               /\ asg'[k].tok # 0 => asg'[k].intent
      BY ONLY <1>1, <1>2 DEF Plain, StateOnly
  <2>3. \A j, k \in 1..Len(asg) : asg'[j].tok # 0 /\ asg'[k].tok # 0 => j = k
      BY ONLY <1>1, <1>2 DEF Plain, FencedChild, StateOnly
  <2>4. drv' \in [Drivers -> Driver] /\ (life' = "exited" => proc' = "gone" /\ ~busy' /\ wf' # "open")
      BY ONLY <1>1, <1>2 DEF RTypeOK, DriversTyped, AtRest
  <2>5. /\ kind' \in {"worker", "reviewer", "handoff"} /\ pwf' \in BOOLEAN
        /\ wf' \in {"open", "terminal", "cancelled"} /\ busy' \in BOOLEAN
        /\ life' \in {"running", "exited"} /\ proc' \in {"up", "gone"} /\ tree' \in {"clean", "dirty", "removed"}
        /\ exits' \in Nat /\ died' \in 0..MaxTokens /\ tokens' \in 0..MaxTokens
        /\ work' \in 0..MaxWork /\ faults' \in 0..MaxFaults
      BY ONLY <1>1, <1>2, ConstantAssumption DEF RTypeOK
  <2>6. /\ \A k \in DOMAIN asg' : /\ asg'[k].done => asg'[k].tok = 0 /\ asg'[k].intent
                                  /\ asg'[k].tok # 0 => asg'[k].intent
        /\ \A j, k \in DOMAIN asg' : asg'[j].tok # 0 /\ asg'[k].tok # 0 => j = k
      BY ONLY <2>1, <2>2, <2>3
  <2> QED
      BY ONLY <2>1, <2>4, <2>5, <2>6 DEF RTypeOK
<1>4. Numbered'
    BY ONLY <1>1, <1>2 DEF Numbered, Plain, StateOnly
<1>5. OwnClaim'
    BY ONLY <1>1, <1>2 DEF OwnClaim, Plain, StateOnly, Numbered
<1>6. InOrder'
    BY ONLY <1>1, <1>2 DEF InOrder, Plain, StateOnly
<1>7. FencedChild'
    BY ONLY <1>1, <1>2 DEF FencedChild, Plain, StateOnly
<1>8. MarkedExit'
    BY ONLY <1>1, <1>2 DEF MarkedExit, Plain, StateOnly, Numbered, OwnClaim, FencedChild,
       InOrder
<1>9. AtRest'
    BY ONLY <1>1, <1>2 DEF AtRest, Plain, StateOnly, Numbered, OwnClaim, FencedChild, InOrder,
       Chosen
<1> QED
    BY ONLY <1>3, <1>4, <1>5, <1>6, <1>7, <1>8, <1>9 DEF Retirement

(* The actions in those terms.                                               *)
LEMMA TakeStep ==
  ASSUME Retirement, NEW d \in Drivers, NEW x \in BOOLEAN, NEW n \in {"check", "clean"},
         drv[d].step = "idle", n = "clean" => x, TakeClaim(d, x, n)
  PROVE  Retirement'
<1>1. RTypeOK /\ Plain
    BY PlainTypes DEF Retirement
<1>2. /\ n = "clean" => life = "exited"
      /\ asg[Len(asg)].st = "final" /\ asg[Len(asg)].done = FALSE /\ asg[Len(asg)].tok = 0
      /\ wf # "open" /\ UNCHANGED <<kind, pwf, wf, busy, life, proc, tree, exits, died, work,
                                    faults>>
    BY <1>1 DEF TakeClaim, Retirable, Free, Latest, child, Plain
<1>3. (x \/ kind = "handoff") \in BOOLEAN /\ Take(x \/ kind = "handoff")
    BY DEF TakeClaim
<1>4. TakenRow(x \/ kind = "handoff")
    BY <1>1, <1>3, TakeRows
<1>5. tokens + 1 \in 0..MaxTokens /\ n \in Steps
    BY <1>4, ConstantAssumption DEF TakenRow, Steps
<1>6. drv' = [drv EXCEPT ![d] = [step |-> n, tok |-> tokens + 1]]
    BY DEF TakeClaim
<1>7. Moves(d, n, tokens + 1)
    BY <1>1, <1>5, <1>6, Moving
<1> QED
    BY <1>2, <1>3, <1>4, <1>7, TakeKeeps

LEMMA ResumeStep ==
  ASSUME Retirement, NEW d \in Drivers, NEW k \in 1..Len(asg), drv[d].step = "idle", life = "exited",
         asg[k].tok # 0, drv' = [drv EXCEPT ![d] = [step |-> "clean", tok |-> asg[k].tok]],
         UNCHANGED <<kind, pwf, child, asg, exits, died, bounds>>
  PROVE  Retirement'
<1>1. RTypeOK
    BY DEF Retirement
<1>2. asg[k].tok \in 0..MaxTokens
    BY <1>1, Rows DEF Assignment
<1>3. Moves(d, "clean", asg[k].tok)
    BY <1>1, <1>2, Moving DEF Steps
<1> QED
    BY <1>3, ResumeKeeps DEF child, bounds

LEMMA GiveUpStep ==
  ASSUME Retirement, NEW d \in Drivers, GiveUp(d), UNCHANGED <<kind, pwf, child, exits, died,
                                                               bounds>>
  PROVE  Retirement'
<1>1. RTypeOK
    BY DEF Retirement
<1>2. FreedOnly /\ Moves(d, "idle", 0)
    BY <1>1, GiveUpRows, Leaving DEF GiveUp
<1>3. DriversTyped' /\ \A e \in Drivers : drv'[e] = drv[e] \/ (drv'[e].step = "idle" /\ drv'[e].tok = 0)
    BY <1>2 DEF Moves
<1>4. faults' \in 0..MaxFaults /\ UNCHANGED <<kind, pwf, wf, busy, life, proc, tree, exits,
                                              died, tokens, work>>
    BY <1>1 DEF RTypeOK, child, bounds
<1> QED
    BY <1>2, <1>3, <1>4, FreedKeeps

LEMMA LeaveStep ==
  ASSUME Retirement, NEW d \in Drivers, Rest(d), UNCHANGED <<kind, pwf, child, asg, exits,
                                                             died, bounds>>
  PROVE  Retirement'
<1>1. RTypeOK
    BY DEF Retirement
<1>2. Moves(d, "idle", 0)
    BY <1>1, Leaving
<1>3. /\ faults' \in 0..MaxFaults /\ died' \in 0..MaxTokens
      /\ UNCHANGED <<kind, pwf, wf, busy, life, proc, tree, exits, tokens, work, asg>>
    BY <1>1 DEF RTypeOK, child, bounds
<1> QED
    BY <1>2, <1>3, RestKeeps

LEMMA StepStep ==
  ASSUME Retirement, NEW d \in Drivers, NEW s \in {"revalidate", "recheck", "reserve", "clean"},
         drv[d].step \in {"check", "revalidate", "recheck"}, Step(d, s),
         s = "clean" => life = "exited", ~busy \/ drv[d].step # "check" \/ s = "clean",
         UNCHANGED <<kind, pwf, child, asg, exits, died, bounds>>
  PROVE  Retirement'
<1>1. Moves(d, s, drv[d].tok)
    BY Stepping DEF Retirement, Steps
<1> QED
    BY <1>1, StepKeeps DEF child, bounds

LEMMA CheckStep ==
  ASSUME Retirement, NEW d \in Drivers, Check(d)
  PROVE  Retirement'
<1>1. CASE life = "exited" /\ Step(d, "clean") /\ asg' = asg
    BY <1>1, StepStep DEF Check
<1>2. CASE Idle /\ asg' = asg /\ Step(d, IF drv[d].step = "check" THEN "revalidate" ELSE "reserve")
  <2>1. (IF drv[d].step = "check" THEN "revalidate" ELSE "reserve") \in {"revalidate", "reserve"}
      OBVIOUS
  <2> QED
      BY <1>2, <2>1, StepStep DEF Check, Idle
<1>3. CASE GiveUp(d)
    BY <1>3, GiveUpStep DEF Check
<1> QED
    BY <1>1, <1>2, <1>3 DEF Check

LEMMA RevalidateStep ==
  ASSUME Retirement, NEW d \in Drivers, Revalidate(d)
  PROVE  Retirement'
<1>1. CASE Step(d, IF d = "daemon" THEN "reserve" ELSE "recheck") /\ asg' = asg
  <2>1. (IF d = "daemon" THEN "reserve" ELSE "recheck") \in {"reserve", "recheck"}
      OBVIOUS
  <2> QED
      BY <1>1, <2>1, StepStep DEF Revalidate
<1>2. CASE GiveUp(d)
    BY <1>2, GiveUpStep DEF Revalidate
<1> QED
    BY <1>1, <1>2 DEF Revalidate

LEMMA ReserveStep ==
  ASSUME Retirement, NEW d \in Drivers, Reserve(d)
  PROVE  Retirement'
<1> DEFINE K == {k \in Held(drv[d].tok) : ~asg[k].sent /\ ~asg[k].done}
<1>1. CASE GiveUp(d)
    BY <1>1, GiveUpStep DEF Reserve
<1>2. CASE /\ asg' = [k \in DOMAIN asg |-> IF k \in K THEN [asg[k] EXCEPT !.sent = TRUE] ELSE asg[k]]
           /\ IF K = {} THEN Rest(d) ELSE Step(d, "exit")
  <2>1. RTypeOK /\ Plain /\ DOMAIN asg = 1..Len(asg)
      BY Rows, PlainTypes DEF Retirement
  <2>2. drv[d].step = "reserve" /\ UNCHANGED <<kind, pwf, child, exits, died, bounds>>
      BY DEF Reserve
  <2>3. /\ K \in SUBSET (1..Len(asg))
        /\ \A k \in K : asg[k].tok = drv[d].tok /\ asg[k].sent = FALSE
      BY <2>1 DEF Held, Plain
  <2> HIDE DEF K
  <2>4. MarkedOnly(K)
      BY <1>2, <2>1, ReserveRows
  <2>5. CASE K = {}
    <3>1. RowsTyped
        BY <2>1 DEF RTypeOK, RowsTyped
    <3>2. asg' = asg
        BY <1>2, <2>5, <3>1 DEF RowsTyped
    <3> QED
        BY <1>2, <2>2, <2>5, <3>2, LeaveStep
  <2>6. CASE K # {}
    <3>1. Moves(d, "exit", drv[d].tok)
        BY <1>2, <2>1, <2>6, Stepping DEF Steps
    <3> QED
        BY <2>2, <2>3, <2>4, <2>6, <3>1, ReserveKeeps DEF child, bounds
  <2> QED
      BY <2>5, <2>6
<1> QED
    BY <1>1, <1>2 DEF Reserve

LEMMA ExitStep ==
  ASSUME Retirement, NEW d \in Drivers, Exit(d)
  PROVE  Retirement'
<1>1. RTypeOK /\ drv[d].tok \in 0..MaxTokens /\ 0 \in 0..MaxTokens
    BY ConstantAssumption DEF Retirement, RTypeOK, Driver
<1>2. /\ life \in {"running", "exited"} /\ proc \in {"up", "gone"} /\ busy \in BOOLEAN
      /\ wf \in {"open", "terminal", "cancelled"} /\ exits \in Nat
      /\ life = "exited" => proc = "gone" /\ ~busy /\ wf # "open"
    BY <1>1 DEF RTypeOK
<1>3. /\ drv[d].step = "exit" /\ exits' = (IF life = "exited" THEN exits ELSE exits + 1)
      /\ \/ life' = "exited" /\ proc' = "gone" /\ Step(d, "clean")
         \/ life' = life /\ proc' \in {proc, "gone"} /\ Rest(d)
      /\ asg' = asg /\ busy' = (busy /\ proc' = "up")
      /\ wf' = IF life' = "exited" /\ wf = "open" THEN "cancelled" ELSE wf
      /\ UNCHANGED <<kind, pwf, tree, died, tokens, work, faults>>
    BY DEF Exit, Unknown, bounds
<1>4. CASE life' = "exited"
  <2>1. \E s \in {"clean", "idle"}, t \in 0..MaxTokens :
           Moves(d, s, t) /\ (s = "clean" => t = drv[d].tok)
      BY <1>1, <1>3, Stepping, Leaving DEF Steps
  <2>2. proc' = "gone" /\ busy' = FALSE
      BY <1>2, <1>3, <1>4
  <2>3. /\ wf' \in {"terminal", "cancelled"} /\ exits' \in Nat
        /\ (life = "exited" /\ exits' = exits) \/ (life # "exited" /\ exits' = exits + 1)
      BY <1>2, <1>3, <1>4
  <2> QED
      BY <1>3, <1>4, <2>1, <2>2, <2>3, ExitedKeeps
<1>5. CASE life' # "exited"
  <2>1. life = "running" /\ Rest(d) /\ life' = life /\ exits' = exits + 1 /\ wf' = wf
      BY <1>2, <1>3, <1>5
  <2>2. Moves(d, "idle", 0)
      BY <1>1, <2>1, Leaving
  <2>3. proc' \in {"up", "gone"} /\ (busy' => busy /\ proc' = "up") /\ busy' \in BOOLEAN
      BY <1>2, <1>3, <2>1, <1>5
  <2> QED
      BY <1>3, <2>1, <2>2, <2>3, UnknownKeeps
<1> QED
    BY <1>4, <1>5

LEMMA CleanStep ==
  ASSUME Retirement, NEW d \in Drivers, Clean(d)
  PROVE  Retirement'
<1>1. CASE GiveUp(d) /\ tree' = tree
    BY <1>1, GiveUpStep DEF Clean, child
<1>2. CASE Rest(d) /\ UNCHANGED <<tree, asg>>
    BY <1>2, LeaveStep DEF Clean, child
<1>3. CASE /\ tree \in {"clean", "removed"} /\ Step(d, "seal") /\ asg' = asg
           /\ tree' = IF tree = "clean" THEN "removed" ELSE tree
  <2>1. Moves(d, "seal", drv[d].tok) /\ tree' = "removed"
      BY <1>3, Stepping DEF Steps, Retirement
  <2> QED
      BY <1>3, <2>1, CleanKeeps DEF Clean, bounds
<1> QED
    BY <1>1, <1>2, <1>3 DEF Clean

LEMMA SealStep ==
  ASSUME Retirement, NEW d \in Drivers, Seal(d)
  PROVE  Retirement'
<1>1. /\ drv[d].step = "seal" /\ UNCHANGED <<kind, pwf, child, exits, died, bounds>>
      /\ GiveUp(d) \/ (asg' = Sealed(drv[d].tok) /\ Rest(d))
    BY Zenon DEF Seal, Sealed
<1>2. CASE GiveUp(d)
    BY <1>1, <1>2, GiveUpStep
<1>3. CASE asg' = Sealed(drv[d].tok) /\ Rest(d)
  <2>1. RTypeOK /\ drv[d].tok \in 0..MaxTokens
      BY DEF Retirement, RTypeOK, Driver
  <2>2. SealedOnly /\ Moves(d, "idle", 0)
      BY <1>3, <2>1, SealRows, Leaving
  <2> QED
      BY <1>1, <2>2, SealKeeps DEF child, bounds
<1> QED
    BY <1>1, <1>2, <1>3

LEMMA AcceptStep ==
  ASSUME Retirement, Quiescent, life = "running", Accept, work' \in 0..MaxWork,
         UNCHANGED <<kind, pwf, life, proc, tree, asg, drv, exits, died, tokens, faults>>
  PROVE  Retirement'
<1>1. \A k \in 1..Len(asg) : asg[k].tok = 0 /\ asg[k].done = FALSE
    BY Rows, PlainTypes DEF Quiescent, Plain, Retirement
<1>2. wf' = "open" /\ busy' = (proc = "up")
    BY DEF Accept
<1> QED
    BY <1>1, <1>2, AcceptKeeps

LEMMA WorkStep ==
  ASSUME Retirement, Work
  PROVE  Retirement'
<1> DEFINE s == IF asg[Len(asg)].st = "awaiting" THEN "final" ELSE asg[Len(asg)].st
<1>1. RTypeOK /\ s \in {"awaiting", "final", "over"}
    BY PlainTypes DEF Plain, Retirement
<1>2. asg' = [asg EXCEPT ![Len(asg)].st = s]
    BY DEF Work
<1> HIDE DEF s
<1>3. StateOnly(s)
    BY <1>1, <1>2, StateRows
<1> QED
    BY <1>1, <1>3, WorkKeeps DEF Work, bounds

LEMMA ObserveStep ==
  ASSUME Retirement, Observe
  PROVE  Retirement'
<1> DEFINE s == IF asg[Len(asg)].st = "awaiting" THEN "over" ELSE asg[Len(asg)].st
<1>1. RTypeOK /\ s \in {"awaiting", "final", "over"} /\ (s = "final" => asg[Len(asg)].st = "final")
    BY PlainTypes DEF Plain, Retirement
<1>2. asg' = [asg EXCEPT ![Len(asg)].st = s]
    BY DEF Observe
<1> HIDE DEF s
<1>3. StateOnly(s)
    BY <1>1, <1>2, StateRows
<1>4. proc = "gone" /\ life' = "exited" /\ wf' \in {"terminal", "cancelled"}
    BY <1>1 DEF Observe, RTypeOK
<1>5. UNCHANGED <<kind, pwf, busy, proc, tree, exits, died, tokens, work, faults, drv>>
    BY DEF Observe, bounds
<1> QED
    BY <1>1, <1>3, <1>4, <1>5, ObserveKeeps

LEMMA RereviewStep ==
  ASSUME Retirement, Rereview
  PROVE  Retirement'
<1>1. OneMore
    BY AppendRows DEF Retirement
<1> QED
    BY <1>1, RereviewKeeps DEF Rereview, child, bounds

LEMMA AskStep ==
  ASSUME Retirement, Ask
  PROVE  Retirement'
<1>1. CASE Quiescent /\ life = "running"
  <2>1. work' \in 0..MaxWork /\ Accept
      BY <1>1 DEF Ask, bounds, Retirement, RTypeOK
  <2> QED
      BY <1>1, <2>1, AcceptStep DEF Ask, bounds
<1>2. CASE ~(Quiescent /\ life = "running")
  <2>1. asg' = [asg EXCEPT ![Len(asg)].st = "over"]
      BY <1>2 DEF Ask
  <2>2. StateOnly("over")
      BY <2>1, StateRows DEF Retirement
  <2>3. UNCHANGED <<kind, pwf, wf, busy, life, proc, tree, exits, died, tokens, work, faults,
                    drv>>
      BY <1>2 DEF Ask, bounds
  <2> QED
      BY <2>2, <2>3, OverKeeps
<1> QED
    BY <1>1, <1>2

LEMMA SidecarDiesStep ==
  ASSUME Retirement, SidecarDies
  PROVE  Retirement'
<1>1. RTypeOK /\ "sidecar" \in Drivers
    BY DEF Retirement, Drivers
<1>2. Moves("sidecar", "idle", 0)
    BY <1>1, Leaving DEF SidecarDies
<1>3. faults' \in 0..MaxFaults /\ died' \in 0..MaxTokens
    BY <1>1, ConstantAssumption DEF SidecarDies, RTypeOK, Driver
<1> QED
    BY <1>1, <1>2, <1>3, RestKeeps DEF SidecarDies, child

LEMMA RestartStep ==
  ASSUME Retirement, Restart
  PROVE  Retirement'
<1>1. RTypeOK /\ drv \in [Drivers -> Driver] /\ Resting \in Driver
      /\ Resting.step = "idle" /\ Resting.tok = 0
    BY ConstantAssumption DEF Retirement, RTypeOK, Resting, Driver
<1>2. FreedOnly
    BY <1>1, RestartRows
<1>3. drv' = [drv EXCEPT !["daemon"] = Resting, !["keeper"] = Resting]
    BY DEF Restart
<1>4. DriversTyped' /\ \A d \in Drivers : drv'[d] = drv[d] \/ (drv'[d].step = "idle" /\ drv'[d].tok = 0)
    BY <1>1, <1>3 DEF DriversTyped
<1>5. faults' \in 0..MaxFaults
    BY <1>1, ConstantAssumption DEF Restart, RTypeOK
<1> QED
    BY <1>2, <1>4, <1>5, FreedKeeps DEF Restart, child

(* The first claim of a retirement, and the processes that go on with one.   *)
LEMMA BeginStep ==
  ASSUME Retirement, SidecarBegin \/ DaemonBegin \/ KeeperBegin
  PROVE  Retirement'
<1>1. "sidecar" \in Drivers /\ "daemon" \in Drivers /\ "keeper" \in Drivers
    BY DEF Drivers
<1>2. RTypeOK /\ Plain
    BY PlainTypes DEF Retirement
<1>3. ASSUME NEW d \in Drivers, NEW x \in BOOLEAN, drv[d].step = "idle", Resume(d, x)
      PROVE  Retirement'
  <2>1. /\ Len(asg) \in 1..Len(asg) /\ life = "exited" /\ asg[Len(asg)].tok # 0
        /\ drv' = [drv EXCEPT ![d] = [step |-> "clean", tok |-> asg[Len(asg)].tok]]
        /\ UNCHANGED <<kind, pwf, child, asg, exits, died, bounds>>
      BY <1>2, <1>3 DEF Resume, ExitSeen, Latest, Plain
  <2> QED
      BY <1>3, <2>1, ResumeStep
<1>4. CASE SidecarBegin
  <2>1. CASE kind = "handoff"
      BY <1>1, <1>3, <1>4, <2>1, TakeStep DEF SidecarBegin
  <2>2. CASE kind # "handoff"
      BY <1>1, <1>3, <1>4, <2>2, TakeStep DEF SidecarBegin
  <2> QED
      BY <2>1, <2>2
<1>5. CASE DaemonBegin
    BY <1>1, <1>3, <1>5, TakeStep DEF DaemonBegin
<1>6. CASE KeeperBegin
  <2>1. CASE Latest.intent /\ TakeClaim("keeper", TRUE, "clean")
      BY <1>1, <1>6, <2>1, TakeStep DEF KeeperBegin
  <2>2. CASE /\ Pending # {}
             /\ drv' = [drv EXCEPT !["keeper"] =
                           [step |-> "clean", tok |-> asg[CHOOSE k \in Pending : TRUE].tok]]
             /\ UNCHANGED <<kind, pwf, child, asg, exits, died, bounds>>
    <3> DEFINE k == CHOOSE i \in Pending : TRUE
    <3>1. k \in Pending
        BY <2>2
    <3> HIDE DEF k
    <3>2. k \in 1..Len(asg) /\ asg[k].tok # 0
        BY <1>2, <3>1, Rows DEF Pending
    <3>3. drv' = [drv EXCEPT !["keeper"] = [step |-> "clean", tok |-> asg[k].tok]]
        BY <2>2 DEF k
    <3> QED
        BY <1>1, <1>6, <2>2, <3>2, <3>3, ResumeStep DEF KeeperBegin
  <2> QED
      BY <1>6, <2>1, <2>2 DEF KeeperBegin
<1> QED
    BY <1>4, <1>5, <1>6

LEMMA RetirementInit == RInit => Retirement
<1> SUFFICES ASSUME RInit PROVE Retirement
    OBVIOUS
<1> DEFINE row == [NewAssignment EXCEPT !.st = "final"]
<1>1. /\ row \in Assignment /\ row.tok = 0 /\ row.done = FALSE /\ row.sent = FALSE /\ row.intent = FALSE
      /\ Resting \in Driver /\ Resting.step = "idle" /\ Resting.tok = 0
  <2>1. /\ NewAssignment \in Assignment /\ NewAssignment.tok = 0 /\ NewAssignment.done = FALSE
        /\ NewAssignment.sent = FALSE /\ NewAssignment.intent = FALSE
      BY ConstantAssumption DEF NewAssignment, Assignment
  <2>2. /\ row \in Assignment /\ row.tok = 0 /\ row.done = FALSE /\ row.sent = FALSE
        /\ row.intent = FALSE
      BY <2>1 DEF Assignment
  <2>3. Resting \in Driver /\ Resting.step = "idle" /\ Resting.tok = 0
      BY ConstantAssumption DEF Resting, Driver
  <2> QED
      BY <2>2, <2>3
<1>2. asg = <<row>> /\ drv = [d \in Drivers |-> Resting]
    BY DEF RInit
<1> HIDE DEF row
<1>3. asg \in Seq(Assignment) /\ Len(asg) = 1 /\ DOMAIN asg = 1..1 /\ asg[1] = row
    BY <1>1, <1>2
<1>4. RTypeOK
    BY <1>1, <1>2, <1>3, ConstantAssumption DEF RInit, RTypeOK
<1>5. \A k \in 1..Len(asg) : asg[k].tok = 0 /\ asg[k].done = FALSE
    BY <1>1, <1>3
<1>6. \A d \in Drivers : drv[d].step = "idle"
    BY <1>1, <1>2
<1>7. wf = "terminal" /\ tree # "removed" /\ exits = 0 /\ tokens = 0 /\ proc = "up"
    BY DEF RInit
<1>8. Numbered /\ OwnClaim /\ InOrder /\ FencedChild /\ MarkedExit /\ AtRest
    BY ONLY <1>5, <1>6, <1>7
       DEF Numbered, OwnClaim, InOrder, FencedChild, MarkedExit, AtRest, Chosen
<1> QED
    BY <1>4, <1>8 DEF Retirement

LEMMA RetirementNext == Retirement /\ [RNext]_rvars => Retirement'
<1> SUFFICES ASSUME Retirement, [RNext]_rvars PROVE Retirement'
    OBVIOUS
<1>1. RTypeOK /\ busy \in BOOLEAN /\ (busy => proc = "up") /\ proc \in {"up", "gone"}
      /\ pwf \in BOOLEAN /\ tree \in {"clean", "dirty", "removed"}
      /\ work \in 0..MaxWork /\ faults \in 0..MaxFaults /\ MaxWork \in Nat /\ MaxFaults \in Nat
    BY ConstantAssumption DEF Retirement, RTypeOK, AtRest
<1>2. CASE SidecarBegin \/ DaemonBegin \/ KeeperBegin
    BY <1>2, BeginStep
<1>3. ASSUME NEW d \in Drivers, Drive(d) PROVE Retirement'
    BY <1>3, CheckStep, RevalidateStep, ReserveStep, ExitStep, CleanStep, SealStep DEF Drive
<1>4. CASE Unreserve
  <2>1. /\ drv["sidecar"].step = "exit" /\ "sidecar" \in Drivers /\ Rest("sidecar")
        /\ UNCHANGED <<kind, pwf, child, exits, died, bounds>>
      BY <1>4, Zenon DEF Unreserve, Drivers
  <2>2. FreedMark /\ Moves("sidecar", "idle", 0)
      BY <1>1, <1>4, <2>1, UnreserveRows, Leaving
  <2> QED
      BY <2>1, <2>2, UnreserveKeeps DEF child, bounds
<1>5. CASE Input
  <2>1. work' \in 0..MaxWork
      BY <1>1, <1>5 DEF Input
  <2> QED
      BY <1>5, <2>1, AcceptStep DEF Input
<1>6. CASE Work
    BY <1>6, WorkStep
<1>7. CASE Settle
    BY <1>1, <1>7, QuietKeeps DEF Settle, bounds
<1>8. CASE Parent
  <2>1. pwf' \in BOOLEAN /\ work' \in 0..MaxWork
      BY <1>1, <1>8 DEF Parent
  <2> QED
      BY <1>1, <1>8, <2>1, QuietKeeps DEF Parent, child
<1>9. CASE Rereview
    BY <1>9, RereviewStep
<1>10. CASE Ask
    BY <1>10, AskStep
<1>11. CASE Die
  <2>1. faults' \in 0..MaxFaults
      BY <1>1, <1>11 DEF Die
  <2> QED
      BY <1>1, <1>11, <2>1, QuietKeeps DEF Die
<1>12. CASE Observe
    BY <1>12, ObserveStep
<1>13. CASE SidecarDies
    BY <1>13, SidecarDiesStep
<1>14. CASE Restart
    BY <1>14, RestartStep
<1>15. CASE Tidy
    BY <1>1, <1>15, QuietKeeps DEF Tidy, bounds
<1>16. CASE UNCHANGED rvars
    BY <1>1, <1>16, QuietKeeps DEF rvars
<1> QED
    BY <1>2, <1>3, <1>4, <1>5, <1>6, <1>7, <1>8, <1>9, <1>10, <1>11, <1>12, <1>13, <1>14, <1>15,
       <1>16 DEF RNext

THEOREM RetirementHolds == RSpec => []Retirement
    BY RetirementInit, RetirementNext, PTL DEF RSpec

(* The child is told to exit once, and what it leaves goes in order: its     *)
(* runtime, its worktree, its assignment (RetiredOnce).                      *)
THEOREM OneExit == RSpec => []RetiredOnce
<1>1. Retirement => RetiredOnce
    BY Rows DEF Retirement, MarkedExit, InOrder, RetiredOnce
<1> QED
    BY <1>1, RetirementHolds, PTL

(* No exit reaches a child that has accepted work (AcceptedWorkKept).        *)
THEOREM WorkKept == RSpec => AcceptedWorkKept
<1>1. Retirement /\ [RNext]_rvars => [exits' > exits => wf # "open" /\ ~busy]_rvars
  <2> SUFFICES ASSUME Retirement, RNext, exits' > exits PROVE wf # "open" /\ ~busy
      OBVIOUS
  <2>1. exits \in Nat /\ Plain
      BY PlainTypes DEF Retirement, RTypeOK
  <2>2. PICK d \in Drivers : Exit(d)
    <3>1. exits' = exits \/ \E d \in Drivers : Exit(d)
        BY Zenon DEF RNext, SidecarBegin, DaemonBegin, KeeperBegin, TakeClaim, Resume, Drive,
           Check,
           Revalidate, Reserve, Clean, Seal, Unreserve, Input, Work, Settle, Parent, Rereview, Ask,
           Die, Observe, SidecarDies, Restart, Tidy
    <3> QED
        BY <2>1, <3>1
  <2>3. life = "running" /\ drv[d].step = "exit"
      BY <2>1, <2>2 DEF Exit, Plain
  <2>4. PICK k \in 1..Len(asg) : asg[k].tok = drv[d].tok /\ asg[k].sent
      BY <2>3 DEF Retirement, MarkedExit
  <2>5. asg[k].tok # 0
      BY <2>1, <2>3, <2>4 DEF Retirement, Numbered, Plain
  <2> QED
      BY <2>3, <2>4, <2>5 DEF Retirement, FencedChild, AtRest, Chosen
<1> QED
    BY <1>1, RetirementHolds, PTL DEF RSpec, AcceptedWorkKept
=============================================================================
