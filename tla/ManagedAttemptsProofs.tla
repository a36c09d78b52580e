------------------------ MODULE ManagedAttemptsProofs ------------------------
(***************************************************************************)
(* What a fence ends, for any number of attempts, continuations, retries   *)
(* and faults; and, in the last section, what the slots of the providers   *)
(* keep within.                                                            *)
(***************************************************************************)
EXTENDS ManagedAttempts, ProviderCapacity, FiniteSetTheorems, TLAPS

(* Of an attempt that was never registered nothing exists.                 *)
Fresh(a) == a \notin Registered => /\ att[a] = NoAttempt /\ child[a] = NoChild
                                  /\ spc[a] = "none" /\ a \notin settled

(* A child has a workflow once its first turn was issued, which happens    *)
(* once; a continuation in progress has a turn to follow.                  *)
Started(a) == /\ child[a].wf # "none" => child[a].n > 0
              /\ spc[a] \in {"none", "registered"} => child[a].n = 0
              /\ cont[a] # "none" => child[a].n \in 1..MaxCycles

(* A fence revokes the writer, the workflow and the pane together, and     *)
(* nothing gives them back.                                                *)
Cut(a) == Revoked(a) => /\ child[a].wf = "cancelled" /\ child[a].n > 0
                        /\ child[a].op \in {"fence", "retired"}

(* The runtime of an attempt that is fenced, replaced or reported to its   *)
(* parent is gone for good.                                                *)
Ended(a) == att[a].life = "fenced" \/ att[a].replaced \/ att[a].woken
              => Revoked(a) /\ ~child[a].alive

(* Whoever sends serves a registered attempt, whoever pastes holds the     *)
(* pane, and whoever retires a runtime has fenced its attempt.             *)
Pasting == {"paste", "mark", "unlock", "failed", "unlockFailed"}
Holding == /\ job.step # "idle" => job.a \in Registered
           /\ job.step \in Pasting => child[job.a].op = "transport"
Fencing == \A f \in Fencers :
             /\ fencer[f].step # "idle" => fencer[f].a \in Attempts /\ Revoked(fencer[f].a)
             /\ fencer[f].step = "complete" => ~child[fencer[f].a].alive

(* The inductive invariant.                                                *)
AttemptInv(a) == Fresh(a) /\ Started(a) /\ Cut(a) /\ Ended(a)
IInv == TypeOK /\ Holding /\ Fencing /\ \A a \in Attempts : AttemptInv(a)

-----------------------------------------------------------------------------
(* The rows one at a time.                                                 *)
GoodRow(r) == r \in AttemptRow /\ (r.life \in TerminalStates \cup {"fence_pending", "fence_claimed"} => r.due = "none")
AttOK == att \in [Attempts -> AttemptRow] /\ \A a \in Attempts : GoodRow(att[a])
ChildOK == child \in [Attempts -> ChildRow]
Job == [step : JobSteps, by : {"none", "sender", "dispatcher"}, a : 0..MaxAttempts, read : Read]
FencerRow == [step : {"idle", "retire", "complete"}, a : 0..MaxAttempts]
OthersOK == /\ parent \in {"open", "gate", "closed"}
            /\ spc \in [Attempts -> {"none", "registered", "issued", "bound", "sending", "failed", "over"}]
            /\ settled \in SUBSET Attempts
            /\ cont \in [Attempts -> {"none", "awaiting", "recovering"}]
            /\ up \in BOOLEAN /\ faults \in 0..MaxFaults
ActorsOK == job \in Job /\ fencer \in [Fencers -> FencerRow] /\ OthersOK

(* Together they are the type invariant.                                   *)
LEMMA TypeParts == TypeOK <=> AttOK /\ ChildOK /\ ActorsOK
  BY DEF TypeOK, AttOK, ChildOK, ActorsOK, OthersOK, FencerRow, GoodRow, Job

(* The steps that act on one attempt which exists.                         *)
ActsOn(a) == \/ Replace(a) \/ Issue(a) \/ Bind(a) \/ SendBegin(a) \/ CancelAttempt(a)
             \/ DelegatorDies(a) \/ ClaimTurn(a) \/ TakeSlot(a) \/ TakeOp(a) \/ Paste(a)
             \/ MarkDelivered(a) \/ Delivered(a) \/ Failed(a) \/ UnlockFailed(a) \/ Retain(a)
             \/ Requeue(a) \/ RequeueWrite(a) \/ DeadlinePasses(a) \/ ReleaseSettled(a)
             \/ RequeueSettled(a) \/ RequeueExpired(a) \/ OpExpires(a) \/ Admit(a)
             \/ ObserveWorking(a) \/ Submit(a) \/ ContinueRead(a) \/ ContinueWrite(a)
             \/ \E f \in Fencers : FenceClaim(f, a)

(* What most steps leave of an assignment and of a child: nothing comes to *)
(* life again, and what a fence has taken stays taken.                     *)
Calm(r, s) == /\ r.status # "none" => s.status # "none"
              /\ s.replaced = r.replaced /\ s.woken = r.woken
              /\ s.life = "fenced" => r.life = "fenced"
Quiet(c, d) == /\ d.n = c.n /\ d.writer = c.writer /\ (d.alive => c.alive)
               /\ d.wf = c.wf \/ (c.wf = "open" /\ d.wf # "none")
               /\ c.op \in {"fence", "retired"} => d.op \in {"fence", "retired"}

(* The steps that do more.                                                 *)
Retaken(a) == \/ Register(a) \/ Replace(a)
              \/ \E f \in Fencers : fencer[f].a = a /\ FenceComplete(f)
Remade(a) == \/ Register(a) \/ Issue(a) \/ ContinueWrite(a)
             \/ \E f \in Fencers : FenceClaim(f, a)
AttFrame == \A b \in Attempts :
              \/ Calm(att[b], att'[b]) /\ (b \notin Registered => att'[b] = att[b])
              \/ Retaken(b)
ChildFrame == \A b \in Attempts :
                \/ Quiet(child[b], child'[b]) /\ (b \notin Registered => child'[b] = child[b])
                \/ Remade(b)

(* A step that rewrites one assignment, or none.                           *)
LEMMA OneAttempt ==
  ASSUME AttOK, NEW a \in Attempts, a \in Registered \/ Register(a),
         att' = [att EXCEPT ![a] = att'[a]], GoodRow(att'[a]),
         Calm(att[a], att'[a]) \/ Retaken(a)
  PROVE  AttOK' /\ AttFrame
<1>1. AttOK'
  BY DEF AttOK, GoodRow
<1>2. ASSUME NEW b \in Attempts, b # a PROVE att'[b] = att[b]
  BY <1>2 DEF AttOK
<1>3. ASSUME NEW b \in Attempts, b # a
      PROVE  Calm(att[b], att'[b]) /\ (b \notin Registered => att'[b] = att[b])
  BY <1>2, <1>3 DEF Calm
<1>4. \/ Calm(att[a], att'[a]) /\ (a \notin Registered => att'[a] = att[a])
      \/ Retaken(a)
  BY DEF Retaken
<1> QED BY <1>1, <1>3, <1>4 DEF AttFrame

(* A step that touches no assignment.                                      *)
LEMMA NoAttemptChanged == AttOK /\ att' = att => AttOK' /\ AttFrame
  BY DEF AttOK, AttFrame, Calm

(* A step that rewrites one child, or none.                                *)
LEMMA OneChild ==
  ASSUME ChildOK, NEW a \in Attempts, a \in Registered \/ Register(a),
         child' = [child EXCEPT ![a] = child'[a]], child'[a] \in ChildRow,
         Quiet(child[a], child'[a]) \/ Remade(a)
  PROVE  ChildOK' /\ ChildFrame
<1>1. ChildOK'
  BY DEF ChildOK
<1>2. ASSUME NEW b \in Attempts, b # a PROVE child'[b] = child[b]
  BY <1>2 DEF ChildOK
<1>3. ASSUME NEW b \in Attempts, b # a
      PROVE  Quiet(child[b], child'[b]) /\ (b \notin Registered => child'[b] = child[b])
  BY <1>2, <1>3 DEF Quiet
<1>4. \/ Quiet(child[a], child'[a]) /\ (a \notin Registered => child'[a] = child[a])
      \/ Remade(a)
  BY DEF Remade
<1> QED BY <1>1, <1>3, <1>4 DEF ChildFrame

(* A step that touches no child.                                           *)
LEMMA NoChildChanged == ChildOK /\ child' = child => ChildOK' /\ ChildFrame
  BY DEF ChildOK, ChildFrame, Quiet

(* What the retry leaves of an assignment, whatever row it was read from.  *)
LEMMA RecoveredRow ==
  ASSUME NEW r, GoodRow(r), NEW read
  PROVE  GoodRow(Recovered(r, read))
<1>1. 1 \in 0..1
  OBVIOUS
<1>2. [r EXCEPT !.life = "recovery", !.tries = 1, !.due = "set"] \in AttemptRow
  BY <1>1 DEF GoodRow, AttemptRow, LifeStates
<1>3. [r EXCEPT !.life = "fence_pending", !.due = "none"] \in AttemptRow
  BY DEF GoodRow, AttemptRow, LifeStates
<1>4. CASE MayRetry(read)
  BY <1>2, <1>4 DEF Recovered, GoodRow, AttemptRow, TerminalStates
<1>5. CASE ~MayRetry(read)
  BY <1>3, <1>5 DEF Recovered, GoodRow, AttemptRow, TerminalStates
<1> QED BY <1>4, <1>5

(* And of the child's turn.                                                *)
LEMMA RecoveredChild ==
  ASSUME NEW c \in ChildRow, NEW read
  PROVE  RecoveredTurn(c, read) \in ChildRow
  BY DEF RecoveredTurn, ChildRow

(* An attempt has not claimed anything yet.                                *)
LEMMA ClaimsZero == 0 \in 0..MaxClaims
  BY BoundAssumption

(* The steps of the holder of the admission fence.                         *)
LEMMA JobForms ==
  /\ NoJob \in Job
  /\ \A b \in {"sender", "dispatcher"}, a \in Attempts :
       [NoJob EXCEPT !.step = "slot", !.by = b, !.a = a] \in Job
  /\ \A j \in Job, s \in JobSteps, r \in Read :
       [j EXCEPT !.step = s] \in Job /\ [j EXCEPT !.step = s, !.read = r] \in Job
<1>1. NoRead \in Read
  BY DEF Read, LifeStates, NoRead
<1>2. 0 \in 0..MaxAttempts /\ Attempts \subseteq 0..MaxAttempts
  BY BoundAssumption DEF Attempts
<1>3. NoJob \in Job
  BY <1>1, <1>2 DEF NoJob, Job, JobSteps
<1>4. ASSUME NEW b \in {"sender", "dispatcher"}, NEW a \in 0..MaxAttempts, NEW j \in Job
      PROVE  [j EXCEPT !.step = "slot", !.by = b, !.a = a] \in Job
  BY DEF Job, JobSteps
<1>5. ASSUME NEW j \in Job, NEW s \in JobSteps, NEW r \in Read
      PROVE  [j EXCEPT !.step = s] \in Job /\ [j EXCEPT !.step = s, !.read = r] \in Job
  BY DEF Job
<1> QED BY <1>2, <1>3, <1>4, <1>5

(* They do act on attempts that exist: of any other there is nothing to    *)
(* act on.                                                                 *)
LEMMA Existing ==
  ASSUME Holding, \A a \in Attempts : Fresh(a) /\ Started(a), NEW a \in Attempts, ActsOn(a)
  PROVE  a \in Registered
<1>1. CASE TakeSlot(a) \/ TakeOp(a) \/ Paste(a) \/ MarkDelivered(a) \/ Delivered(a)
           \/ Failed(a) \/ UnlockFailed(a) \/ Retain(a) \/ Requeue(a) \/ RequeueWrite(a)
  <2>1. job.step # "idle" /\ job.a = a
    BY <1>1 DEF At, TakeSlot, TakeOp, Paste, MarkDelivered, Delivered, Failed, UnlockFailed, Retain, Requeue, RequeueWrite
  <2> QED BY <2>1 DEF Holding
<1>2. SUFFICES ASSUME a \notin Registered, ~(\E x \in {a} : JobStep(x)) PROVE FALSE
  BY <1>1 DEF JobStep
<1>3. att[a] = NoAttempt /\ child[a] = NoChild /\ spc[a] = "none" /\ (cont[a] # "none" => FALSE)
  <2>1. att[a] = NoAttempt /\ child[a] = NoChild /\ spc[a] = "none"
    BY <1>2 DEF Fresh
  <2>2. child[a].n = 0
    BY <2>1 DEF NoChild
  <2>3. cont[a] # "none" => child[a].n \in 1..MaxCycles
    BY DEF Started
  <2> QED BY <2>1, <2>2, <2>3, BoundAssumption
<1>4. ~Replace(a)
  BY <1>2, <1>3 DEF Replace, NoAttempt, NoChild, Replaceable
<1>5. ~Issue(a)
  BY <1>2, <1>3 DEF Issue, NoAttempt, NoChild
<1>6. ~Bind(a)
  BY <1>2, <1>3 DEF Bind, NoAttempt, NoChild
<1>7. ~SendBegin(a)
  BY <1>2, <1>3 DEF SendBegin, NoAttempt, NoChild
<1>8. ~CancelAttempt(a)
  BY <1>2, <1>3 DEF CancelAttempt, NoAttempt, NoChild, Waiting
<1>9. ~DelegatorDies(a)
  BY <1>2, <1>3 DEF DelegatorDies, NoAttempt, NoChild
<1>10. ~ClaimTurn(a)
  BY <1>2, <1>3 DEF ClaimTurn, NoAttempt, NoChild
<1>11. ~DeadlinePasses(a)
  BY <1>2, <1>3 DEF DeadlinePasses, NoAttempt, NoChild
<1>12. ~ReleaseSettled(a)
  BY <1>2, <1>3 DEF ReleaseSettled, NoAttempt, NoChild
<1>13. ~RequeueSettled(a)
  BY <1>2 DEF RequeueSettled, Fresh
<1>14. ~RequeueExpired(a)
  BY <1>2, <1>3 DEF RequeueExpired, NoAttempt, NoChild
<1>15. ~OpExpires(a)
  BY <1>2, <1>3 DEF OpExpires, NoAttempt, NoChild
<1>16. ~Admit(a)
  BY <1>2, <1>3 DEF Admit, NoAttempt, NoChild
<1>17. ~ObserveWorking(a)
  BY <1>2, <1>3 DEF ObserveWorking, NoAttempt, NoChild, Undelivered
<1>18. ~Submit(a)
  BY <1>2, <1>3 DEF Submit, NoAttempt, NoChild, ResultAccepted, Waiting
<1>19. ~ContinueRead(a)
  BY <1>2, <1>3 DEF ContinueRead, NoAttempt, NoChild, Waiting
<1>20. ~ContinueWrite(a)
  BY <1>2, <1>3 DEF ContinueWrite, NoAttempt, NoChild
<1>21. ASSUME NEW f \in Fencers PROVE ~FenceClaim(f, a)
  BY <1>3 DEF FenceClaim, NoChild
<1> QED BY <1>2, <1>4, <1>5, <1>6, <1>7, <1>8, <1>9, <1>10, <1>11, <1>12, <1>13, <1>14, <1>15, <1>16, <1>17, <1>18, <1>19, <1>20, <1>21 DEF ActsOn, JobStep

(* Every step leaves proper assignments.                                   *)
LEMMA NextAttempts == IInv /\ [Next]_vars => AttOK' /\ AttFrame
<1> SUFFICES ASSUME AttOK, ChildOK, ActorsOK, Fencing, Holding,
                     \A a \in Attempts : Fresh(a) /\ Started(a), [Next]_vars PROVE AttOK' /\ AttFrame
  BY TypeParts DEF IInv, AttemptInv
<1>1. ASSUME NEW a \in Attempts, Register(a) PROVE AttOK' /\ AttFrame
  <2>1. att' = [att EXCEPT ![a] = att'[a]]
    BY <1>1 DEF AttOK, Register
  <2>2. att'[a] = [att[a] EXCEPT !.status = "awaiting", !.life = "created"]
    BY <1>1 DEF AttOK, ChildOK, Register
  <2>4. GoodRow(att'[a])
    BY <2>2 DEF AttOK, GoodRow, AttemptRow, AssignmentStatus, LifeStates, TerminalStates
  <2>5. Retaken(a)
    BY <1>1 DEF Retaken
  <2> QED BY <2>1, <2>4, <2>5, <1>1, OneAttempt
<1>2. ASSUME NEW a \in Attempts, Replace(a) PROVE AttOK' /\ AttFrame
  <2>1. att' = [att EXCEPT ![a] = att'[a]]
    BY <1>2 DEF AttOK, Replace
  <2>2. att'[a] = [att[a] EXCEPT !.replaced = TRUE]
    BY <1>2 DEF AttOK, ChildOK, Replace
  <2>4. GoodRow(att'[a])
    BY <2>2 DEF AttOK, GoodRow, AttemptRow, AssignmentStatus, LifeStates, TerminalStates
  <2>7. a \in Registered
    BY <1>2, Existing DEF ActsOn
  <2>5. Retaken(a)
    BY <1>2 DEF Retaken
  <2> QED BY <2>1, <2>4, <2>5, <2>7, OneAttempt
<1>3. ASSUME NEW a \in Attempts, Bind(a) PROVE AttOK' /\ AttFrame
  <2>1. att' = [att EXCEPT ![a] = att'[a]]
    BY <1>3 DEF AttOK, Bind, Scheduled
  <2>2. \/ att'[a] = att[a]
        \/ att'[a] = [att[a] EXCEPT !.life = "scheduled", !.due = "set"]
    BY <1>3 DEF AttOK, ChildOK, Bind, Scheduled
  <2>4. GoodRow(att'[a])
    BY <2>2 DEF AttOK, GoodRow, AttemptRow, AssignmentStatus, LifeStates, TerminalStates
  <2>7. a \in Registered
    BY <1>3, Existing DEF ActsOn
  <2>5. Calm(att[a], att'[a])
    BY <2>2 DEF Calm, AttOK, AttemptRow
  <2> QED BY <2>1, <2>4, <2>5, <2>7, OneAttempt
<1>4. ASSUME NEW a \in Attempts, CancelAttempt(a) PROVE AttOK' /\ AttFrame
  <2>1. att' = [att EXCEPT ![a] = att'[a]]
    BY <1>4 DEF AttOK, CancelAttempt
  <2>2. \/ att'[a] = att[a]
        \/ att'[a] = [att[a] EXCEPT !.status = "cancelled"]
    BY <1>4 DEF AttOK, ChildOK, CancelAttempt
  <2>4. GoodRow(att'[a])
    BY <2>2 DEF AttOK, GoodRow, AttemptRow, AssignmentStatus, LifeStates, TerminalStates
  <2>7. a \in Registered
    BY <1>4, Existing DEF ActsOn
  <2>5. Calm(att[a], att'[a])
    BY <2>2 DEF Calm, AttOK, AttemptRow
  <2> QED BY <2>1, <2>4, <2>5, <2>7, OneAttempt
<1>5. ASSUME NEW a \in Attempts, MarkDelivered(a) PROVE AttOK' /\ AttFrame
  <2>1. att' = [att EXCEPT ![a] = att'[a]]
    BY <1>5 DEF AttOK, MarkDelivered, At
  <2>2. \/ att'[a] = att[a]
        \/ att'[a] = [att[a] EXCEPT !.life = "acknowledged", !.due = "set"]
    BY <1>5 DEF AttOK, ChildOK, MarkDelivered, At
  <2>4. GoodRow(att'[a])
    BY <2>2 DEF AttOK, GoodRow, AttemptRow, AssignmentStatus, LifeStates, TerminalStates
  <2>7. a \in Registered
    BY <1>5, Existing DEF ActsOn
  <2>5. Calm(att[a], att'[a])
    BY <2>2 DEF Calm, AttOK, AttemptRow
  <2> QED BY <2>1, <2>4, <2>5, <2>7, OneAttempt
<1>6. ASSUME NEW a \in Attempts, Retain(a) PROVE AttOK' /\ AttFrame
  <2>1. att' = [att EXCEPT ![a] = att'[a]]
    BY <1>6 DEF AttOK, Retain, At, Undelivered
  <2>2. \/ att'[a] = att[a]
        \/ att'[a] = Recovered(att[a], ReadOf(a))
    BY <1>6 DEF AttOK, ChildOK, Retain, At, Undelivered
  <2>4. GoodRow(att'[a])
    BY <2>2, RecoveredRow DEF AttOK, GoodRow, AttemptRow, AssignmentStatus, LifeStates, TerminalStates
  <2>7. a \in Registered
    BY <1>6, Existing DEF ActsOn
  <2>5. Calm(att[a], att'[a])
    BY <2>2 DEF Calm, AttOK, AttemptRow, Recovered
  <2> QED BY <2>1, <2>4, <2>5, <2>7, OneAttempt
<1>7. ASSUME NEW a \in Attempts, RequeueWrite(a) PROVE AttOK' /\ AttFrame
  <2>1. att' = [att EXCEPT ![a] = att'[a]]
    BY <1>7 DEF AttOK, RequeueWrite, At, Undelivered
  <2>2. \/ att'[a] = att[a]
        \/ att'[a] = Recovered(att[a], job.read)
    BY <1>7 DEF AttOK, ChildOK, RequeueWrite, At, Undelivered
  <2>4. GoodRow(att'[a])
    BY <2>2, RecoveredRow DEF AttOK, GoodRow, AttemptRow, AssignmentStatus, LifeStates, TerminalStates
  <2>7. a \in Registered
    BY <1>7, Existing DEF ActsOn
  <2>5. Calm(att[a], att'[a])
    BY <2>2 DEF Calm, AttOK, AttemptRow, Recovered
  <2> QED BY <2>1, <2>4, <2>5, <2>7, OneAttempt
<1>8. ASSUME NEW a \in Attempts, DeadlinePasses(a) PROVE AttOK' /\ AttFrame
  <2>1. att' = [att EXCEPT ![a] = att'[a]]
    BY <1>8 DEF AttOK, DeadlinePasses
  <2>2. att'[a] = [att[a] EXCEPT !.due = "past"]
    BY <1>8 DEF AttOK, ChildOK, DeadlinePasses
  <2>3. att[a].due = "set"
    BY BoundAssumption, <1>8 DEF DeadlinePasses
  <2>4. GoodRow(att'[a])
    BY <2>2, <2>3 DEF AttOK, GoodRow, AttemptRow, AssignmentStatus, LifeStates, TerminalStates
  <2>7. a \in Registered
    BY <1>8, Existing DEF ActsOn
  <2>5. Calm(att[a], att'[a])
    BY <2>2 DEF Calm, AttOK, AttemptRow
  <2> QED BY <2>1, <2>4, <2>5, <2>7, OneAttempt
<1>9. ASSUME NEW a \in Attempts, Admit(a) PROVE AttOK' /\ AttFrame
  <2>1. att' = [att EXCEPT ![a] = att'[a]]
    BY <1>9 DEF AttOK, Admit, Undelivered
  <2>2. \/ att'[a] = att[a]
        \/ att'[a] = [att[a] EXCEPT !.life = "admitted", !.admitted = TRUE, !.due = "none"]
    BY <1>9 DEF AttOK, ChildOK, Admit, Undelivered
  <2>4. GoodRow(att'[a])
    BY <2>2 DEF AttOK, GoodRow, AttemptRow, AssignmentStatus, LifeStates, TerminalStates
  <2>7. a \in Registered
    BY <1>9, Existing DEF ActsOn
  <2>5. Calm(att[a], att'[a])
    BY <2>2 DEF Calm, AttOK, AttemptRow
  <2> QED BY <2>1, <2>4, <2>5, <2>7, OneAttempt
<1>10. ASSUME NEW a \in Attempts, ObserveWorking(a) PROVE AttOK' /\ AttFrame
  <2>1. att' = [att EXCEPT ![a] = att'[a]]
    BY <1>10 DEF AttOK, ObserveWorking
  <2>2. att'[a] = [att[a] EXCEPT !.life = "admitted"]
    BY <1>10 DEF AttOK, ChildOK, ObserveWorking
  <2>4. GoodRow(att'[a])
    BY <2>2 DEF AttOK, GoodRow, AttemptRow, AssignmentStatus, LifeStates, TerminalStates
  <2>7. a \in Registered
    BY <1>10, Existing DEF ActsOn
  <2>5. Calm(att[a], att'[a])
    BY <2>2 DEF Calm, AttOK, AttemptRow
  <2> QED BY <2>1, <2>4, <2>5, <2>7, OneAttempt
<1>11. ASSUME NEW a \in Attempts, Submit(a) PROVE AttOK' /\ AttFrame
  <2>1. att' = [att EXCEPT ![a] = att'[a]]
    BY <1>11 DEF AttOK, Submit
  <2>2. \/ att'[a] = [att[a] EXCEPT !.status = "claimed"]
        \/ att'[a] = [att[a] EXCEPT !.status = "claimed", !.life = "completed", !.due = "none"]
    BY <1>11 DEF AttOK, ChildOK, Submit
  <2>4. GoodRow(att'[a])
    BY <2>2 DEF AttOK, GoodRow, AttemptRow, AssignmentStatus, LifeStates, TerminalStates
  <2>7. a \in Registered
    BY <1>11, Existing DEF ActsOn
  <2>5. Calm(att[a], att'[a])
    BY <2>2 DEF Calm, AttOK, AttemptRow
  <2> QED BY <2>1, <2>4, <2>5, <2>7, OneAttempt
<1>12. ASSUME NEW a \in Attempts, ContinueRead(a) PROVE AttOK' /\ AttFrame
  <2>1. att' = [att EXCEPT ![a] = att'[a]]
    BY <1>12 DEF AttOK, ContinueRead
  <2>2. \/ att'[a] = att[a]
        \/ att'[a] = [att[a] EXCEPT !.status = "reported"]
    BY <1>12 DEF AttOK, ChildOK, ContinueRead
  <2>4. GoodRow(att'[a])
    BY <2>2 DEF AttOK, GoodRow, AttemptRow, AssignmentStatus, LifeStates, TerminalStates
  <2>7. a \in Registered
    BY <1>12, Existing DEF ActsOn
  <2>5. Calm(att[a], att'[a])
    BY <2>2 DEF Calm, AttOK, AttemptRow
  <2> QED BY <2>1, <2>4, <2>5, <2>7, OneAttempt
<1>13. ASSUME NEW a \in Attempts, ContinueWrite(a) PROVE AttOK' /\ AttFrame
  <2>1. att' = [att EXCEPT ![a] = att'[a]]
    BY <1>13 DEF AttOK, ContinueWrite
  <2>2. \/ att'[a] = [att[a] EXCEPT !.life = "scheduled", !.admitted = FALSE, !.tries = 0, !.due = "set",
                           !.status = att[a].status]
        \/ att'[a] = [att[a] EXCEPT !.life = "scheduled", !.admitted = FALSE, !.tries = 0, !.due = "set",
                           !.status = "recovering"]
    BY <1>13 DEF AttOK, ContinueWrite
  <2>3. 0 \in 0..1 /\ GoodRow(att[a])
    BY DEF AttOK
  <2>4. GoodRow(att'[a])
    BY <2>2, <2>3 DEF GoodRow, AttemptRow, AssignmentStatus, LifeStates, TerminalStates
  <2>7. a \in Registered
    BY <1>13, Existing DEF ActsOn
  <2>5. Calm(att[a], att'[a])
    BY <2>2 DEF Calm, AttOK, AttemptRow
  <2> QED BY <2>1, <2>4, <2>5, <2>7, OneAttempt
<1>14. ASSUME NEW f \in Fencers, NEW a \in Attempts, FenceClaim(f, a) PROVE AttOK' /\ AttFrame
  <2>1. att' = [att EXCEPT ![a] = att'[a]]
    BY <1>14 DEF AttOK, FenceClaim
  <2>2. att'[a] = [att[a] EXCEPT !.status = "fenced", !.life = "fence_claimed", !.due = "none"]
    BY <1>14 DEF AttOK, ChildOK, FenceClaim
  <2>4. GoodRow(att'[a])
    BY <2>2 DEF AttOK, GoodRow, AttemptRow, AssignmentStatus, LifeStates, TerminalStates
  <2>7. a \in Registered
    BY <1>14, Existing DEF ActsOn
  <2>5. Calm(att[a], att'[a])
    BY <2>2 DEF Calm, AttOK, AttemptRow
  <2> QED BY <2>1, <2>4, <2>5, <2>7, OneAttempt
<1>15. ASSUME NEW f \in Fencers, FenceComplete(f) PROVE AttOK' /\ AttFrame
  <2>1. CASE att' = att
    BY <2>1, NoAttemptChanged
  <2>2. CASE att' # att
    <3> DEFINE a == fencer[f].a
    <3>1. a \in Attempts
      BY <1>15 DEF FenceComplete, Fencing
    <3>2. att[a].life = "fence_claimed" /\ att' = [att EXCEPT ![a].life = "fenced", ![a].woken = @ \/ parent = "open"]
      BY <1>15, <2>2 DEF FenceComplete
    <3>3. att' = [att EXCEPT ![a] = att'[a]]
      BY <3>1, <3>2 DEF AttOK
    <3>4. att'[a] = [att[a] EXCEPT !.life = "fenced", !.woken = att[a].woken \/ parent = "open"]
      BY <3>1, <3>2 DEF AttOK, AttemptRow
    <3>45. (att[a].woken \/ parent = "open") \in BOOLEAN /\ GoodRow(att[a])
      BY <3>1 DEF AttOK, GoodRow, AttemptRow
    <3>5. GoodRow(att'[a])
      BY <3>45, <3>1, <3>2, <3>4 DEF AttOK, GoodRow, AttemptRow, AssignmentStatus, LifeStates, TerminalStates
    <3>6. a \in Registered /\ Retaken(a)
      BY <1>15, <3>1 DEF FenceComplete, Fencing, Revoked, Retaken
    <3> QED BY <3>1, <3>3, <3>5, <3>6, OneAttempt
  <2> QED BY <2>1, <2>2
<1>16. ASSUME ReconcileTimeouts PROVE AttOK' /\ AttFrame
  <2>1. ASSUME NEW a \in Attempts PROVE GoodRow(att'[a])
    <3>1. \/ att'[a] = att[a]
          \/ att'[a] = [att[a] EXCEPT !.life = "failed", !.due = "none"]
          \/ att'[a] = Recovered(att[a], ReadOf(a))
      BY <1>16 DEF ReconcileTimeouts
    <3>2. GoodRow(Recovered(att[a], ReadOf(a)))
      BY RecoveredRow DEF AttOK
    <3> QED BY <3>1, <3>2 DEF AttOK, GoodRow, AttemptRow, AssignmentStatus, LifeStates, TerminalStates
  <2>2. DOMAIN att' = Attempts /\ att' = [a \in Attempts |-> att'[a]]
    BY <1>16 DEF ReconcileTimeouts
  <2>3. ASSUME NEW a \in Attempts PROVE Calm(att[a], att'[a])
    <3>1. \/ att'[a] = att[a]
          \/ att'[a] = [att[a] EXCEPT !.life = "failed", !.due = "none"]
          \/ att'[a] = Recovered(att[a], ReadOf(a))
      BY <1>16 DEF ReconcileTimeouts
    <3> QED BY <3>1 DEF Calm, AttOK, AttemptRow, Recovered
  <2>4. ASSUME NEW a \in Attempts, a \notin Registered PROVE att'[a] = att[a]
    <3>1. a \notin Overdue
      BY <2>4 DEF Fresh, NoAttempt, Overdue, Watched
    <3> QED BY <1>16, <3>1 DEF ReconcileTimeouts
  <2>5. AttFrame
    BY <2>3, <2>4 DEF AttFrame
  <2> QED BY <2>1, <2>2, <2>5 DEF AttOK, GoodRow
<1>17. ASSUME ParentCloses PROVE AttOK' /\ AttFrame
  <2>1. ASSUME NEW a \in Attempts PROVE GoodRow(att'[a])
    <3>1. \/ att'[a] = att[a]
          \/ att'[a] = [att[a] EXCEPT !.status = "cancelled", !.life = "failed", !.due = "none"]
          \/ att'[a] = [att[a] EXCEPT !.status = "cancelled"]
      BY <1>17 DEF ParentCloses, AttOK, AttemptRow
    <3> QED BY <3>1 DEF AttOK, GoodRow, AttemptRow, AssignmentStatus, LifeStates, TerminalStates
  <2>2. DOMAIN att' = Attempts /\ att' = [a \in Attempts |-> att'[a]]
    BY <1>17 DEF ParentCloses
  <2>3. ASSUME NEW a \in Attempts PROVE Calm(att[a], att'[a])
    <3>1. \/ att'[a] = att[a]
          \/ att'[a] = [att[a] EXCEPT !.status = "cancelled", !.life = "failed", !.due = "none"]
          \/ att'[a] = [att[a] EXCEPT !.status = "cancelled"]
      BY <1>17 DEF ParentCloses, AttOK, AttemptRow
    <3> QED BY <3>1 DEF Calm, AttOK, AttemptRow
  <2>4. ASSUME NEW a \in Attempts, a \notin Registered PROVE att'[a] = att[a]
    <3>1. att[a].status = "none"
      BY <2>4 DEF Registered
    <3> QED BY <1>17, <3>1 DEF ParentCloses, Active
  <2>5. AttFrame
    BY <2>3, <2>4 DEF AttFrame
  <2> QED BY <2>1, <2>2, <2>5 DEF AttOK, GoodRow
<1>18. ASSUME NEW a \in Attempts, Issue(a) PROVE AttOK' /\ AttFrame
  BY <1>18, NoAttemptChanged DEF Issue
<1>19. ASSUME NEW a \in Attempts, SendBegin(a) PROVE AttOK' /\ AttFrame
  BY <1>19, NoAttemptChanged DEF SendBegin
<1>20. ASSUME NEW a \in Attempts, DelegatorDies(a) PROVE AttOK' /\ AttFrame
  BY <1>20, NoAttemptChanged DEF DelegatorDies
<1>21. ASSUME NEW a \in Attempts, ClaimTurn(a) PROVE AttOK' /\ AttFrame
  BY <1>21, NoAttemptChanged DEF ClaimTurn
<1>22. ASSUME NEW a \in Attempts, TakeSlot(a) PROVE AttOK' /\ AttFrame
  BY <1>22, NoAttemptChanged DEF TakeSlot, At
<1>23. ASSUME NEW a \in Attempts, TakeOp(a) PROVE AttOK' /\ AttFrame
  BY <1>23, NoAttemptChanged DEF TakeOp, At
<1>24. ASSUME NEW a \in Attempts, Paste(a) PROVE AttOK' /\ AttFrame
  BY <1>24, NoAttemptChanged DEF Paste, At
<1>25. ASSUME NEW a \in Attempts, Delivered(a) PROVE AttOK' /\ AttFrame
  BY <1>25, NoAttemptChanged DEF Delivered, At
<1>26. ASSUME NEW a \in Attempts, Failed(a) PROVE AttOK' /\ AttFrame
  BY <1>26, NoAttemptChanged DEF Failed, At
<1>27. ASSUME NEW a \in Attempts, UnlockFailed(a) PROVE AttOK' /\ AttFrame
  BY <1>27, NoAttemptChanged DEF UnlockFailed, At
<1>28. ASSUME NEW a \in Attempts, Requeue(a) PROVE AttOK' /\ AttFrame
  BY <1>28, NoAttemptChanged DEF Requeue, At
<1>29. ASSUME NEW a \in Attempts, ReleaseSettled(a) PROVE AttOK' /\ AttFrame
  BY <1>29, NoAttemptChanged DEF ReleaseSettled
<1>30. ASSUME NEW a \in Attempts, RequeueSettled(a) PROVE AttOK' /\ AttFrame
  BY <1>30, NoAttemptChanged DEF RequeueSettled
<1>31. ASSUME NEW a \in Attempts, RequeueExpired(a) PROVE AttOK' /\ AttFrame
  BY <1>31, NoAttemptChanged DEF RequeueExpired
<1>32. ASSUME NEW a \in Attempts, OpExpires(a) PROVE AttOK' /\ AttFrame
  BY <1>32, NoAttemptChanged DEF OpExpires
<1>33. ASSUME NEW f \in Fencers, Retire(f) PROVE AttOK' /\ AttFrame
  BY <1>33, NoAttemptChanged DEF Retire
<1>34. ASSUME Crash PROVE AttOK' /\ AttFrame
  BY <1>34, NoAttemptChanged DEF Crash
<1>35. ASSUME Restart PROVE AttOK' /\ AttFrame
  BY <1>35, NoAttemptChanged DEF Restart
<1>36. ASSUME ParentGates PROVE AttOK' /\ AttFrame
  BY <1>36, NoAttemptChanged DEF ParentGates
<1>37. ASSUME ParentResumes PROVE AttOK' /\ AttFrame
  BY <1>37, NoAttemptChanged DEF ParentResumes
<1>38. CASE UNCHANGED vars
  BY <1>38, NoAttemptChanged DEF vars
<1> QED BY <1>1, <1>2, <1>3, <1>4, <1>5, <1>6, <1>7, <1>8, <1>9, <1>10, <1>11, <1>12, <1>13, <1>14, <1>15, <1>16, <1>17, <1>18, <1>19, <1>20, <1>21, <1>22, <1>23, <1>24, <1>25, <1>26, <1>27, <1>28, <1>29, <1>30, <1>31, <1>32, <1>33, <1>34, <1>35, <1>36, <1>37, <1>38 DEF Next, JobStep, FenceStep

(* Every step leaves proper children.                                      *)
LEMMA NextChildren == IInv /\ [Next]_vars => ChildOK' /\ ChildFrame
<1> SUFFICES ASSUME AttOK, ChildOK, ActorsOK, Fencing, Holding,
                     \A a \in Attempts : Fresh(a) /\ Started(a), [Next]_vars PROVE ChildOK' /\ ChildFrame
  BY TypeParts DEF IInv, AttemptInv
<1>1. ASSUME NEW a \in Attempts, Register(a) PROVE ChildOK' /\ ChildFrame
  <2>1. child' = [child EXCEPT ![a] = child'[a]]
    BY <1>1 DEF ChildOK, Register
  <2>2. child'[a] = [child[a] EXCEPT !.alive = TRUE, !.writer = TRUE]
    BY <1>1 DEF AttOK, ChildOK, Register
  <2>4. child'[a] \in ChildRow
    BY <2>2 DEF ChildOK, ChildRow
  <2>5. Remade(a)
    BY <1>1 DEF Remade
  <2> QED BY <2>1, <2>4, <2>5, <1>1, OneChild
<1>2. ASSUME NEW a \in Attempts, Issue(a) PROVE ChildOK' /\ ChildFrame
  <2>1. child' = [child EXCEPT ![a] = child'[a]]
    BY <1>2 DEF ChildOK, Issue
  <2>2. \/ child'[a] = child[a]
        \/ child'[a] = [child[a] EXCEPT !.wf = "open", !.n = 1, !.state = "sent"]
    BY <1>2 DEF ChildOK, Issue
  <2>3. \/ child'[a] = child[a]
        \/ \E n \in 0..MaxCycles + 1 : child'[a] = [child[a] EXCEPT !.wf = "open", !.n = n, !.state = "sent"]
    <3>1. 1 \in 0..MaxCycles + 1
      BY BoundAssumption
    <3> QED BY <2>2, <3>1
  <2>4. child'[a] \in ChildRow
    BY <2>3 DEF ChildOK, ChildRow
  <2>7. a \in Registered
    BY <1>2, Existing DEF ActsOn
  <2>5. Remade(a)
    BY <1>2 DEF Remade
  <2> QED BY <2>1, <2>4, <2>5, <2>7, OneChild
<1>3. ASSUME NEW a \in Attempts, ClaimTurn(a) PROVE ChildOK' /\ ChildFrame
  <2>1. child' = [child EXCEPT ![a] = child'[a]]
    BY <1>3 DEF ChildOK, ClaimTurn
  <2>2. \/ child'[a] = [child[a] EXCEPT !.state = "claimed", !.claims = child[a].claims + 1]
        \/ child'[a] = [child[a] EXCEPT !.state = "cancelled", !.wf = "cancelled"]
    BY <1>3 DEF ChildOK, ClaimTurn
  <2>3. \/ \E n \in 0..MaxClaims : child'[a] = [child[a] EXCEPT !.state = "claimed", !.claims = n]
        \/ child'[a] = [child[a] EXCEPT !.state = "cancelled", !.wf = "cancelled"]
    <3>1. child[a].claims \in 0..MaxClaims /\ child[a].claims < MaxClaims
      BY <1>3 DEF ClaimTurn, ChildOK, ChildRow
    <3>2. child[a].claims + 1 \in 0..MaxClaims
      BY BoundAssumption, <3>1
    <3> QED BY <2>2, <3>2
  <2>4. child'[a] \in ChildRow
    BY <2>3 DEF ChildOK, ChildRow
  <2>7. a \in Registered
    BY <1>3, Existing DEF ActsOn
  <2>6. child[a].wf = "open"
    BY <1>3 DEF ClaimTurn
  <2>5. Quiet(child[a], child'[a])
    BY <2>2, <2>6 DEF Quiet, ChildOK, ChildRow
  <2> QED BY <2>1, <2>4, <2>5, <2>7, OneChild
<1>4. ASSUME NEW a \in Attempts, TakeSlot(a) PROVE ChildOK' /\ ChildFrame
  <2>1. child' = [child EXCEPT ![a] = child'[a]]
    BY <1>4 DEF ChildOK, TakeSlot, At, Refused
  <2>2. \/ child'[a] = child[a]
        \/ child'[a] = [child[a] EXCEPT !.lease = TRUE]
    BY <1>4 DEF AttOK, ChildOK, TakeSlot, At, Refused
  <2>4. child'[a] \in ChildRow
    BY <2>2 DEF ChildOK, ChildRow
  <2>7. a \in Registered
    BY <1>4, Existing DEF ActsOn
  <2>5. Quiet(child[a], child'[a])
    BY <2>2 DEF Quiet, ChildOK, ChildRow
  <2> QED BY <2>1, <2>4, <2>5, <2>7, OneChild
<1>5. ASSUME NEW a \in Attempts, TakeOp(a) PROVE ChildOK' /\ ChildFrame
  <2>1. child' = [child EXCEPT ![a] = child'[a]]
    BY <1>5 DEF ChildOK, TakeOp, At, Refused
  <2>2. \/ child'[a] = [child[a] EXCEPT !.op = "transport"]
        \/ child'[a] = [child[a] EXCEPT !.lease = FALSE]
    BY <1>5 DEF AttOK, ChildOK, TakeOp, At, Refused
  <2>4. child'[a] \in ChildRow
    BY <2>2 DEF ChildOK, ChildRow
  <2>7. a \in Registered
    BY <1>5, Existing DEF ActsOn
  <2>6. child'[a].op = "transport" => child[a].op \in {"none", "lapsed"} \/ child'[a].op = child[a].op
    BY <1>5 DEF TakeOp, ChildOK, ChildRow, At, Refused
  <2>5. Quiet(child[a], child'[a])
    BY <2>2, <2>6 DEF Quiet, ChildOK, ChildRow
  <2> QED BY <2>1, <2>4, <2>5, <2>7, OneChild
<1>6. ASSUME NEW a \in Attempts, Paste(a) PROVE ChildOK' /\ ChildFrame
  <2>1. child' = [child EXCEPT ![a] = child'[a]]
    BY <1>6 DEF ChildOK, Paste, At
  <2>2. \/ child'[a] = child[a]
        \/ child'[a] = [child[a] EXCEPT !.pasted = TRUE]
    BY <1>6 DEF AttOK, ChildOK, Paste, At
  <2>4. child'[a] \in ChildRow
    BY <2>2 DEF ChildOK, ChildRow
  <2>7. a \in Registered
    BY <1>6, Existing DEF ActsOn
  <2>5. Quiet(child[a], child'[a])
    BY <2>2 DEF Quiet, ChildOK, ChildRow
  <2> QED BY <2>1, <2>4, <2>5, <2>7, OneChild
<1>7. ASSUME NEW a \in Attempts, Delivered(a) PROVE ChildOK' /\ ChildFrame
  <2>1. child' = [child EXCEPT ![a] = child'[a]]
    BY <1>7 DEF ChildOK, Delivered, At
  <2>2. \/ child'[a] = [ReleasedOp(child[a]) EXCEPT !.state = "sent"]
        \/ child'[a] = [ReleasedOp(child[a]) EXCEPT !.state = child[a].state]
    BY <1>7 DEF ChildOK, Delivered, At
  <2>3. ReleasedOp(child[a]) \in ChildRow /\ child[a] \in ChildRow
    BY DEF ReleasedOp, ChildOK, ChildRow
  <2>4. child'[a] \in ChildRow
    BY <2>2, <2>3 DEF ChildRow
  <2>7. a \in Registered
    BY <1>7, Existing DEF ActsOn
  <2>5. Quiet(child[a], child'[a])
    BY <2>2 DEF Quiet, ChildOK, ChildRow, ReleasedOp
  <2> QED BY <2>1, <2>4, <2>5, <2>7, OneChild
<1>8. ASSUME NEW a \in Attempts, Failed(a) PROVE ChildOK' /\ ChildFrame
  <2>1. child' = [child EXCEPT ![a] = child'[a]]
    BY <1>8 DEF ChildOK, Failed, At
  <2>2. child'[a] = [child[a] EXCEPT !.lease = child[a].lease /\ child[a].receipt]
    BY <1>8 DEF AttOK, ChildOK, Failed, At, ChildRow
  <2>4. child'[a] \in ChildRow
    BY <2>2 DEF ChildOK, ChildRow
  <2>7. a \in Registered
    BY <1>8, Existing DEF ActsOn
  <2>5. Quiet(child[a], child'[a])
    BY <2>2 DEF Quiet, ChildOK, ChildRow
  <2> QED BY <2>1, <2>4, <2>5, <2>7, OneChild
<1>9. ASSUME NEW a \in Attempts, UnlockFailed(a) PROVE ChildOK' /\ ChildFrame
  <2>1. child' = [child EXCEPT ![a] = child'[a]]
    BY <1>9 DEF ChildOK, UnlockFailed, At, ReleasedOp
  <2>2. child'[a] = ReleasedOp(child[a])
    BY <1>9 DEF AttOK, ChildOK, UnlockFailed, At, ReleasedOp
  <2>4. child'[a] \in ChildRow
    BY <2>2 DEF ChildOK, ChildRow, ReleasedOp
  <2>7. a \in Registered
    BY <1>9, Existing DEF ActsOn
  <2>5. Quiet(child[a], child'[a])
    BY <2>2 DEF Quiet, ChildOK, ChildRow, ReleasedOp
  <2> QED BY <2>1, <2>4, <2>5, <2>7, OneChild
<1>10. ASSUME NEW a \in Attempts, Retain(a) PROVE ChildOK' /\ ChildFrame
  <2>1. child' = [child EXCEPT ![a] = child'[a]]
    BY <1>10 DEF ChildOK, Retain, At, Undelivered
  <2>2. \/ child'[a] = child[a]
        \/ child'[a] = RecoveredTurn(child[a], ReadOf(a))
    BY <1>10 DEF AttOK, ChildOK, Retain, At, Undelivered
  <2>4. child'[a] \in ChildRow
    BY <2>2, RecoveredChild DEF ChildOK, ChildRow
  <2>7. a \in Registered
    BY <1>10, Existing DEF ActsOn
  <2>5. Quiet(child[a], child'[a])
    BY <2>2 DEF Quiet, ChildOK, ChildRow, RecoveredTurn
  <2> QED BY <2>1, <2>4, <2>5, <2>7, OneChild
<1>11. ASSUME NEW a \in Attempts, Requeue(a) PROVE ChildOK' /\ ChildFrame
  <2>1. child' = [child EXCEPT ![a] = child'[a]]
    BY <1>11 DEF ChildOK, Requeue, At, ReadOf
  <2>2. \/ child'[a] = child[a]
        \/ child'[a] = [child[a] EXCEPT !.state = "cancelled", !.wf = "gate"]
        \/ child'[a] = [child[a] EXCEPT !.state = "queued"]
    BY <1>11 DEF ChildOK, Requeue, At, ReadOf, ChildRow
  <2>3. child[a] \in ChildRow
    BY DEF ChildOK
  <2>4. child'[a] \in ChildRow
    BY <2>2, <2>3 DEF ChildRow
  <2>7. a \in Registered
    BY <1>11, Existing DEF ActsOn
  <2>6. child[a].wf # "open" => child'[a] = child[a]
    BY <1>11 DEF Requeue, At, ChildOK
  <2>5. Quiet(child[a], child'[a])
    BY <2>2, <2>6 DEF Quiet, ChildOK, ChildRow
  <2> QED BY <2>1, <2>4, <2>5, <2>7, OneChild
<1>12. ASSUME NEW a \in Attempts, RequeueWrite(a) PROVE ChildOK' /\ ChildFrame
  <2>1. child' = [child EXCEPT ![a] = child'[a]]
    BY <1>12 DEF ChildOK, RequeueWrite, At, Undelivered
  <2>2. \/ child'[a] = child[a]
        \/ child'[a] = RecoveredTurn(child[a], job.read)
    BY <1>12 DEF AttOK, ChildOK, RequeueWrite, At, Undelivered
  <2>4. child'[a] \in ChildRow
    BY <2>2, RecoveredChild DEF ChildOK, ChildRow
  <2>7. a \in Registered
    BY <1>12, Existing DEF ActsOn
  <2>5. Quiet(child[a], child'[a])
    BY <2>2 DEF Quiet, ChildOK, ChildRow, RecoveredTurn
  <2> QED BY <2>1, <2>4, <2>5, <2>7, OneChild
<1>13. ASSUME NEW a \in Attempts, ReleaseSettled(a) PROVE ChildOK' /\ ChildFrame
  <2>1. child' = [child EXCEPT ![a] = child'[a]]
    BY <1>13 DEF ChildOK, ReleaseSettled
  <2>2. child'[a] = [child[a] EXCEPT !.lease = FALSE]
    BY <1>13 DEF AttOK, ChildOK, ReleaseSettled
  <2>4. child'[a] \in ChildRow
    BY <2>2 DEF ChildOK, ChildRow
  <2>7. a \in Registered
    BY <1>13, Existing DEF ActsOn
  <2>5. Quiet(child[a], child'[a])
    BY <2>2 DEF Quiet, ChildOK, ChildRow
  <2> QED BY <2>1, <2>4, <2>5, <2>7, OneChild
<1>14. ASSUME NEW a \in Attempts, RequeueSettled(a) PROVE ChildOK' /\ ChildFrame
  <2>1. child' = [child EXCEPT ![a] = child'[a]]
    BY <1>14 DEF ChildOK, RequeueSettled
  <2>2. \/ child'[a] = child[a]
        \/ child'[a] = [child[a] EXCEPT !.wf = "gate", !.state = "cancelled"]
        \/ child'[a] = [child[a] EXCEPT !.state = "queued", !.settledReason = TRUE]
    BY <1>14 DEF AttOK, ChildOK, RequeueSettled
  <2>4. child'[a] \in ChildRow
    BY <2>2 DEF ChildOK, ChildRow
  <2>7. a \in Registered
    BY <1>14, Existing DEF ActsOn
  <2>6. child[a].wf # "open" => child'[a] = child[a]
    BY <1>14 DEF RequeueSettled, ChildOK
  <2>5. Quiet(child[a], child'[a])
    BY <2>2, <2>6 DEF Quiet, ChildOK, ChildRow
  <2> QED BY <2>1, <2>4, <2>5, <2>7, OneChild
<1>15. ASSUME NEW a \in Attempts, RequeueExpired(a) PROVE ChildOK' /\ ChildFrame
  <2>1. child' = [child EXCEPT ![a] = child'[a]]
    BY <1>15 DEF ChildOK, RequeueExpired
  <2>2. child'[a] = [child[a] EXCEPT !.state = "queued"]
    BY <1>15 DEF AttOK, ChildOK, RequeueExpired
  <2>4. child'[a] \in ChildRow
    BY <2>2 DEF ChildOK, ChildRow
  <2>7. a \in Registered
    BY <1>15, Existing DEF ActsOn
  <2>5. Quiet(child[a], child'[a])
    BY <2>2 DEF Quiet, ChildOK, ChildRow
  <2> QED BY <2>1, <2>4, <2>5, <2>7, OneChild
<1>16. ASSUME NEW a \in Attempts, OpExpires(a) PROVE ChildOK' /\ ChildFrame
  <2>1. child' = [child EXCEPT ![a] = child'[a]]
    BY <1>16 DEF ChildOK, OpExpires
  <2>2. child'[a] = [child[a] EXCEPT !.op = "lapsed"]
    BY <1>16 DEF AttOK, ChildOK, OpExpires
  <2>4. child'[a] \in ChildRow
    BY <2>2 DEF ChildOK, ChildRow
  <2>7. a \in Registered
    BY <1>16, Existing DEF ActsOn
  <2>6. child[a].op = "orphan"
    BY <1>16 DEF OpExpires
  <2>5. Quiet(child[a], child'[a])
    BY <2>2, <2>6 DEF Quiet, ChildOK, ChildRow
  <2> QED BY <2>1, <2>4, <2>5, <2>7, OneChild
<1>17. ASSUME NEW a \in Attempts, Admit(a) PROVE ChildOK' /\ ChildFrame
  <2>1. child' = [child EXCEPT ![a] = child'[a]]
    BY <1>17 DEF ChildOK, Admit, Undelivered
  <2>2. \/ child'[a] = [child[a] EXCEPT !.receipt = TRUE, !.settledReason = FALSE]
        \/ child'[a] = [child[a] EXCEPT !.receipt = TRUE, !.settledReason = FALSE, !.state = "sent", !.lease = TRUE]
    BY <1>17 DEF AttOK, ChildOK, Admit, Undelivered, ChildRow
  <2>4. child'[a] \in ChildRow
    BY <2>2 DEF ChildOK, ChildRow
  <2>7. a \in Registered
    BY <1>17, Existing DEF ActsOn
  <2>5. Quiet(child[a], child'[a])
    BY <2>2 DEF Quiet, ChildOK, ChildRow
  <2> QED BY <2>1, <2>4, <2>5, <2>7, OneChild
<1>18. ASSUME NEW a \in Attempts, Submit(a) PROVE ChildOK' /\ ChildFrame
  <2>1. child' = [child EXCEPT ![a] = child'[a]]
    BY <1>18 DEF ChildOK, Submit
  <2>2. \/ child'[a] = [child[a] EXCEPT !.wf = "terminal"]
        \/ child'[a] = [child[a] EXCEPT !.wf = "terminal", !.state = "cancelled"]
    BY <1>18 DEF AttOK, ChildOK, Submit
  <2>4. child'[a] \in ChildRow
    BY <2>2 DEF ChildOK, ChildRow
  <2>7. a \in Registered
    BY <1>18, Existing DEF ActsOn
  <2>6. child[a].wf = "open"
    BY <1>18 DEF Submit, ResultAccepted
  <2>5. Quiet(child[a], child'[a])
    BY <2>2, <2>6 DEF Quiet, ChildOK, ChildRow
  <2> QED BY <2>1, <2>4, <2>5, <2>7, OneChild
<1>19. ASSUME NEW a \in Attempts, ContinueWrite(a) PROVE ChildOK' /\ ChildFrame
  <2>1. child' = [child EXCEPT ![a] = child'[a]]
    BY <1>19 DEF ChildOK, ContinueWrite
  <2>2. child'[a] = [child[a] EXCEPT !.n = child[a].n + 1, !.state = "queued", !.receipt = FALSE, !.settledReason = FALSE,
                     !.claims = 0, !.pasted = FALSE]
    BY <1>19 DEF ChildOK, ContinueWrite
  <2>3. \E n \in 0..MaxCycles + 1 :
          child'[a] = [child[a] EXCEPT !.n = n, !.state = "queued", !.receipt = FALSE, !.settledReason = FALSE,
                       !.claims = 0, !.pasted = FALSE]
    <3>1. child[a].n \in 1..MaxCycles
      BY <1>19 DEF ContinueWrite, Started
    <3>2. child[a].n + 1 \in 0..MaxCycles + 1
      BY BoundAssumption, <3>1
    <3> QED BY <2>2, <3>2
  <2>4. child'[a] \in ChildRow
    BY <2>3, ClaimsZero DEF ChildOK, ChildRow
  <2>7. a \in Registered
    BY <1>19, Existing DEF ActsOn
  <2>5. Remade(a)
    BY <1>19 DEF Remade
  <2> QED BY <2>1, <2>4, <2>5, <2>7, OneChild
<1>20. ASSUME NEW f \in Fencers, NEW a \in Attempts, FenceClaim(f, a) PROVE ChildOK' /\ ChildFrame
  <2>1. child' = [child EXCEPT ![a] = child'[a]]
    BY <1>20 DEF ChildOK, FenceClaim
  <2>2. \/ child'[a] = [child[a] EXCEPT !.writer = FALSE, !.op = "fence", !.lease = FALSE, !.wf = "cancelled"]
        \/ child'[a] = [child[a] EXCEPT !.writer = FALSE, !.op = "fence", !.lease = FALSE, !.wf = "cancelled", !.state = "cancelled"]
    BY <1>20 DEF AttOK, ChildOK, FenceClaim
  <2>4. child'[a] \in ChildRow
    BY <2>2 DEF ChildOK, ChildRow
  <2>7. a \in Registered
    BY <1>20, Existing DEF ActsOn
  <2>5. Remade(a)
    BY <1>20 DEF Remade
  <2> QED BY <2>1, <2>4, <2>5, <2>7, OneChild
<1>21. ASSUME NEW f \in Fencers, Retire(f) PROVE ChildOK' /\ ChildFrame
  <2>1. CASE child' = child
    BY <2>1, NoChildChanged
  <2>2. ASSUME NEW a \in Attempts, a \in Registered, child' = [child EXCEPT ![a].alive = FALSE]
        PROVE  ChildOK' /\ ChildFrame
    <3>1. child' = [child EXCEPT ![a] = child'[a]] /\ child'[a] = [child[a] EXCEPT !.alive = FALSE]
      BY <2>2 DEF ChildOK
    <3>2. child'[a] \in ChildRow
      BY <3>1 DEF ChildOK, ChildRow
    <3>3. child[a] \in ChildRow
      BY DEF ChildOK
    <3>4. Quiet(child[a], child'[a])
      BY <3>1, <3>3 DEF ChildRow, Quiet
    <3> QED BY <2>2, <3>1, <3>2, <3>4, OneChild
  <2>3. fencer[f].a \in Attempts /\ fencer[f].a \in Registered
    BY <1>21 DEF Retire, Fencing, Revoked
  <2> QED BY <1>21, <2>1, <2>2, <2>3 DEF Retire
<1>22. ASSUME NEW f \in Fencers, FenceComplete(f) PROVE ChildOK' /\ ChildFrame
  <2>1. CASE child' = child
    BY <2>1, NoChildChanged
  <2>2. ASSUME NEW a \in Attempts, a \in Registered, child' = [child EXCEPT ![a].op = "retired"]
        PROVE  ChildOK' /\ ChildFrame
    <3>1. child' = [child EXCEPT ![a] = child'[a]] /\ child'[a] = [child[a] EXCEPT !.op = "retired"]
      BY <2>2 DEF ChildOK
    <3>2. child'[a] \in ChildRow
      BY <3>1 DEF ChildOK, ChildRow
    <3>3. Quiet(child[a], child'[a])
      BY <3>1 DEF ChildOK, ChildRow, Quiet
    <3> QED BY <2>2, <3>1, <3>2, <3>3, OneChild
  <2>3. fencer[f].a \in Attempts /\ fencer[f].a \in Registered
    BY <1>22 DEF FenceComplete, Fencing, Revoked
  <2> QED BY <1>22, <2>1, <2>2, <2>3 DEF FenceComplete
<1>23. ASSUME ReconcileTimeouts PROVE ChildOK' /\ ChildFrame
  <2>1. ASSUME NEW a \in Attempts PROVE child'[a] \in ChildRow /\ Quiet(child[a], child'[a])
    <3>1. \/ child'[a] = child[a]
          \/ child'[a] = [child[a] EXCEPT !.state = "cancelled"]
          \/ child'[a] = [RecoveredTurn(child[a], ReadOf(a)) EXCEPT !.lease = FALSE]
      BY <1>23 DEF ReconcileTimeouts, ChildOK, ChildRow
    <3>2. RecoveredTurn(child[a], ReadOf(a)) \in ChildRow
      BY RecoveredChild DEF ChildOK
    <3>3. [RecoveredTurn(child[a], ReadOf(a)) EXCEPT !.lease = FALSE] \in ChildRow
      BY <3>2 DEF ChildRow
    <3>4. child'[a] \in ChildRow
      BY <3>1, <3>3 DEF ChildOK, ChildRow
    <3>5. Quiet(child[a], child'[a])
      BY <3>1 DEF ChildOK, ChildRow, RecoveredTurn, Quiet
    <3> QED BY <3>4, <3>5
  <2>2. DOMAIN child' = Attempts /\ child' = [a \in Attempts |-> child'[a]]
    BY <1>23 DEF ReconcileTimeouts
  <2>3. ASSUME NEW a \in Attempts, a \notin Registered PROVE child'[a] = child[a]
    <3>1. a \notin Overdue
      BY <2>3 DEF Fresh, NoAttempt, Overdue, Watched
    <3> QED BY <1>23, <3>1 DEF ReconcileTimeouts
  <2>4. ChildFrame
    BY <2>1, <2>3 DEF ChildFrame
  <2> QED BY <2>1, <2>2, <2>4 DEF ChildOK
<1>24. ASSUME Crash PROVE ChildOK' /\ ChildFrame
  <2>1. ASSUME NEW a \in Attempts PROVE child'[a] \in ChildRow /\ Quiet(child[a], child'[a])
    <3>1. child'[a] = [child[a] EXCEPT !.op = IF @ = "transport" THEN "orphan" ELSE @]
      BY <1>24 DEF Crash
    <3> QED BY <3>1 DEF ChildOK, ChildRow, Quiet
  <2>2. DOMAIN child' = Attempts /\ child' = [a \in Attempts |-> child'[a]]
    BY <1>24 DEF Crash
  <2>3. ASSUME NEW a \in Attempts, a \notin Registered PROVE child'[a] = child[a]
    <3>1. child'[a] = [child[a] EXCEPT !.op = IF @ = "transport" THEN "orphan" ELSE @]
      BY <1>24 DEF Crash
    <3>2. child[a] = NoChild
      BY <2>3 DEF Fresh
    <3> QED BY <3>1, <3>2 DEF NoChild
  <2>4. ChildFrame
    BY <2>1, <2>3 DEF ChildFrame
  <2> QED BY <2>1, <2>2, <2>4 DEF ChildOK
<1>25. ASSUME Restart PROVE ChildOK' /\ ChildFrame
  <2>1. ASSUME NEW a \in Attempts
        PROVE  \/ child'[a] = child[a]
               \/ child[a].wf = "open" /\ child'[a] = [child[a] EXCEPT !.state = "queued"]
    BY <1>25 DEF Restart
  <2>2. DOMAIN child' = Attempts /\ child' = [a \in Attempts |-> child'[a]]
    BY <1>25 DEF Restart
  <2>3. ASSUME NEW a \in Attempts PROVE child'[a] \in ChildRow /\ Quiet(child[a], child'[a])
    <3>1. child'[a] = child[a] \/ child'[a] = [child[a] EXCEPT !.state = "queued"]
      BY <2>1
    <3>2. child'[a] \in ChildRow
      BY <3>1 DEF ChildOK, ChildRow
    <3>3. Quiet(child[a], child'[a])
      BY <3>1 DEF ChildOK, ChildRow, Quiet
    <3> QED BY <3>2, <3>3
  <2>4. ASSUME NEW a \in Attempts, a \notin Registered PROVE child'[a] = child[a]
    <3>1. child[a] = NoChild
      BY <2>4 DEF Fresh
    <3>2. child[a].wf # "open"
      BY <3>1 DEF NoChild
    <3> QED BY <2>1, <3>2
  <2>5. ChildFrame
    BY <2>3, <2>4 DEF ChildFrame
  <2> QED BY <2>2, <2>3, <2>5 DEF ChildOK
<1>26. ASSUME NEW a \in Attempts, Replace(a) PROVE ChildOK' /\ ChildFrame
  BY <1>26, NoChildChanged DEF Replace
<1>27. ASSUME NEW a \in Attempts, Bind(a) PROVE ChildOK' /\ ChildFrame
  BY <1>27, NoChildChanged DEF Bind
<1>28. ASSUME NEW a \in Attempts, SendBegin(a) PROVE ChildOK' /\ ChildFrame
  BY <1>28, NoChildChanged DEF SendBegin
<1>29. ASSUME NEW a \in Attempts, CancelAttempt(a) PROVE ChildOK' /\ ChildFrame
  BY <1>29, NoChildChanged DEF CancelAttempt
<1>30. ASSUME NEW a \in Attempts, DelegatorDies(a) PROVE ChildOK' /\ ChildFrame
  BY <1>30, NoChildChanged DEF DelegatorDies
<1>31. ASSUME NEW a \in Attempts, MarkDelivered(a) PROVE ChildOK' /\ ChildFrame
  BY <1>31, NoChildChanged DEF MarkDelivered, At
<1>32. ASSUME NEW a \in Attempts, DeadlinePasses(a) PROVE ChildOK' /\ ChildFrame
  BY <1>32, NoChildChanged DEF DeadlinePasses
<1>33. ASSUME NEW a \in Attempts, ObserveWorking(a) PROVE ChildOK' /\ ChildFrame
  BY <1>33, NoChildChanged DEF ObserveWorking
<1>34. ASSUME NEW a \in Attempts, ContinueRead(a) PROVE ChildOK' /\ ChildFrame
  BY <1>34, NoChildChanged DEF ContinueRead
<1>35. ASSUME ParentCloses PROVE ChildOK' /\ ChildFrame
  BY <1>35, NoChildChanged DEF ParentCloses
<1>36. ASSUME ParentGates PROVE ChildOK' /\ ChildFrame
  BY <1>36, NoChildChanged DEF ParentGates
<1>37. ASSUME ParentResumes PROVE ChildOK' /\ ChildFrame
  BY <1>37, NoChildChanged DEF ParentResumes
<1>38. CASE UNCHANGED vars
  BY <1>38, NoChildChanged DEF vars
<1> QED BY <1>1, <1>2, <1>3, <1>4, <1>5, <1>6, <1>7, <1>8, <1>9, <1>10, <1>11, <1>12, <1>13, <1>14, <1>15, <1>16, <1>17, <1>18, <1>19, <1>20, <1>21, <1>22, <1>23, <1>24, <1>25, <1>26, <1>27, <1>28, <1>29, <1>30, <1>31, <1>32, <1>33, <1>34, <1>35, <1>36, <1>37, <1>38 DEF Next, JobStep, FenceStep

(* The holder of the admission fence keeps to its steps.                   *)
LEMMA NextJob == AttOK /\ ActorsOK /\ [Next]_vars => job' \in Job
<1> SUFFICES ASSUME AttOK, job \in Job, [Next]_vars PROVE job' \in Job
  BY DEF ActorsOK
<1>1. ASSUME NEW a \in Attempts, SendBegin(a) PROVE job' \in Job
  <2>1. job' = [NoJob EXCEPT !.step = "slot", !.by = "sender", !.a = a] \/ job' = job
    BY <1>1 DEF SendBegin
  <2> QED BY <2>1, JobForms
<1>2. ASSUME NEW a \in Attempts, ClaimTurn(a) PROVE job' \in Job
  <2>1. job' = [NoJob EXCEPT !.step = "slot", !.by = "dispatcher", !.a = a] \/ job' = job
    BY <1>2 DEF ClaimTurn
  <2> QED BY <2>1, JobForms
<1>3. ASSUME NEW a \in Attempts, \/ TakeSlot(a) \/ TakeOp(a) \/ Paste(a) \/ MarkDelivered(a)
                                \/ Failed(a) \/ UnlockFailed(a)
      PROVE  job' \in Job
  <2> DEFINE Moves(s) == job' = [job EXCEPT !.step = s]
  <2>1. TakeSlot(a) => Moves("op") \/ Moves("retain") \/ Moves("requeue")
    BY DEF TakeSlot, Refused
  <2>2. TakeOp(a) => Moves("paste") \/ Moves("retain") \/ Moves("requeue")
    BY DEF TakeOp, Refused
  <2>3. Paste(a) => Moves("mark") \/ Moves("failed")
    BY DEF Paste
  <2>4. MarkDelivered(a) => Moves("unlock")
    BY DEF MarkDelivered
  <2>5. Failed(a) => Moves("unlockFailed")
    BY DEF Failed
  <2>6. UnlockFailed(a) => job' = NoJob \/ Moves("requeue")
    BY DEF UnlockFailed
  <2>7. \A s \in JobSteps : Moves(s) => job' \in Job
    BY DEF Job
  <2>8. {"op", "paste", "retain", "requeue", "mark", "failed", "unlock", "unlockFailed"} \subseteq JobSteps
    BY DEF JobSteps
  <2> HIDE DEF Moves
  <2> QED BY <1>3, <2>1, <2>2, <2>3, <2>4, <2>5, <2>6, <2>7, <2>8, JobForms
<1>4. ASSUME NEW a \in Attempts, Delivered(a) \/ Retain(a) \/ RequeueWrite(a) PROVE job' \in Job
  BY <1>4, JobForms DEF Delivered, Retain, RequeueWrite
<1>5. ASSUME NEW a \in Attempts, Requeue(a) PROVE job' \in Job
  <2>1. job' = NoJob \/ job' = [job EXCEPT !.step = "write", !.read = ReadOf(a)]
    BY <1>5 DEF Requeue
  <2>2. ReadOf(a) \in Read /\ "write" \in JobSteps
    BY DEF ReadOf, Read, JobSteps, AttOK, AttemptRow
  <2>3. [job EXCEPT !.step = "write", !.read = ReadOf(a)] \in Job
    BY <2>2 DEF Job
  <2> QED BY <2>1, <2>3, JobForms
<1>6. CASE Crash
  BY <1>6, JobForms DEF Crash
<1>7. ASSUME NEW a \in Attempts,
             \/ Register(a) \/ Replace(a) \/ Issue(a) \/ Bind(a) \/ CancelAttempt(a) \/ DelegatorDies(a)
             \/ DeadlinePasses(a) \/ ReleaseSettled(a) \/ RequeueSettled(a) \/ RequeueExpired(a) \/ OpExpires(a)
             \/ Admit(a) \/ ObserveWorking(a) \/ Submit(a) \/ ContinueRead(a) \/ ContinueWrite(a)
      PROVE  job' = job
  BY <1>7 DEF Register, Replace, Issue, Bind, CancelAttempt, DelegatorDies, DeadlinePasses, ReleaseSettled,
     RequeueSettled, RequeueExpired, OpExpires, Admit, ObserveWorking, Submit, ContinueRead, ContinueWrite
<1>8. ASSUME NEW f \in Fencers, FenceStep(f) PROVE job' = job
  BY <1>8 DEF FenceStep, FenceClaim, Retire, FenceComplete
<1>9. CASE \/ ReconcileTimeouts \/ Restart \/ ParentCloses \/ ParentGates \/ ParentResumes
           \/ UNCHANGED vars
  BY <1>9 DEF ReconcileTimeouts, Restart, ParentCloses, ParentGates, ParentResumes, vars
<1> QED BY <1>1, <1>2, <1>3, <1>4, <1>5, <1>6, <1>7, <1>8, <1>9 DEF Next, JobStep

(* So do the fencers.                                                      *)
LEMMA NextFencer == ActorsOK /\ Fencing /\ [Next]_vars => fencer' \in [Fencers -> FencerRow]
<1> SUFFICES ASSUME fencer \in [Fencers -> FencerRow], Fencing, [Next]_vars PROVE fencer' \in [Fencers -> FencerRow]
  BY DEF ActorsOK
<1>1. Resting \in FencerRow
  BY BoundAssumption DEF Resting, FencerRow
<1>2. ASSUME NEW f \in Fencers, NEW a \in Attempts, FenceClaim(f, a) PROVE fencer' \in [Fencers -> FencerRow]
  <2>1. [step |-> "retire", a |-> a] \in FencerRow
    BY BoundAssumption DEF Attempts, FencerRow
  <2> QED BY <1>2, <2>1 DEF FenceClaim
<1>3. ASSUME NEW f \in Fencers, Retire(f) PROVE fencer' \in [Fencers -> FencerRow]
  <2>1. [fencer[f] EXCEPT !.step = "complete"] \in FencerRow
    BY DEF FencerRow
  <2>2. fencer' = [fencer EXCEPT ![f] = [fencer[f] EXCEPT !.step = "complete"]] \/ fencer' = [fencer EXCEPT ![f] = Resting]
    BY <1>3 DEF Retire
  <2> QED BY <1>1, <2>1, <2>2
<1>4. ASSUME NEW f \in Fencers, FenceComplete(f) PROVE fencer' \in [Fencers -> FencerRow]
  BY <1>1, <1>4 DEF FenceComplete
<1>5. CASE Crash
  BY <1>1, <1>5 DEF Crash
<1>6. ASSUME NEW a \in Attempts,
             \/ Register(a) \/ Replace(a) \/ Issue(a) \/ Bind(a) \/ SendBegin(a) \/ CancelAttempt(a)
             \/ DelegatorDies(a) \/ ClaimTurn(a)
             \/ DeadlinePasses(a) \/ ReleaseSettled(a) \/ RequeueSettled(a) \/ RequeueExpired(a) \/ OpExpires(a)
             \/ Admit(a) \/ ObserveWorking(a) \/ Submit(a) \/ ContinueRead(a) \/ ContinueWrite(a)
      PROVE  fencer' = fencer
  BY <1>6 DEF Register, Replace, Issue, Bind, SendBegin, CancelAttempt, DelegatorDies, ClaimTurn, DeadlinePasses,
     ReleaseSettled, RequeueSettled, RequeueExpired, OpExpires, Admit, ObserveWorking, Submit, ContinueRead, ContinueWrite
<1>7. ASSUME NEW a \in Attempts, JobStep(a) PROVE fencer' = fencer
  BY <1>7 DEF JobStep, TakeSlot, TakeOp, Paste, MarkDelivered, Delivered, Failed, UnlockFailed, Retain, Requeue,
     RequeueWrite
<1>8. CASE \/ ReconcileTimeouts \/ Restart \/ ParentCloses \/ ParentGates \/ ParentResumes
           \/ UNCHANGED vars
  BY <1>8 DEF ReconcileTimeouts, Restart, ParentCloses, ParentGates, ParentResumes, vars
<1> QED BY <1>2, <1>3, <1>4, <1>5, <1>6, <1>7, <1>8 DEF Next, FenceStep

(* And everybody else.                                                     *)
LEMMA NextActors == IInv /\ [Next]_vars => ActorsOK'
<1> SUFFICES ASSUME AttOK, ActorsOK, OthersOK, Fencing, [Next]_vars PROVE ActorsOK'
  BY TypeParts DEF IInv, ActorsOK
<1>1. ASSUME NEW a \in Attempts, Register(a) PROVE OthersOK'
  BY <1>1 DEF OthersOK, Register
<1>2. ASSUME NEW a \in Attempts, Replace(a) PROVE OthersOK'
  BY <1>2 DEF OthersOK, Replace
<1>3. ASSUME NEW a \in Attempts, Issue(a) PROVE OthersOK'
  BY <1>3 DEF OthersOK, Issue
<1>4. ASSUME NEW a \in Attempts, Bind(a) PROVE OthersOK'
  BY <1>4 DEF OthersOK, Bind
<1>5. ASSUME NEW a \in Attempts, SendBegin(a) PROVE OthersOK'
  BY <1>5 DEF OthersOK, SendBegin
<1>6. ASSUME NEW a \in Attempts, CancelAttempt(a) PROVE OthersOK'
  BY <1>6 DEF OthersOK, CancelAttempt
<1>7. ASSUME NEW a \in Attempts, DelegatorDies(a) PROVE OthersOK'
  BY BoundAssumption, <1>7 DEF OthersOK, DelegatorDies
<1>8. ASSUME NEW a \in Attempts, ClaimTurn(a) PROVE OthersOK'
  BY <1>8 DEF OthersOK, ClaimTurn
<1>9. ASSUME NEW a \in Attempts, TakeSlot(a) PROVE OthersOK'
  BY <1>9 DEF OthersOK, TakeSlot, At
<1>10. ASSUME NEW a \in Attempts, TakeOp(a) PROVE OthersOK'
  BY <1>10 DEF OthersOK, TakeOp, At
<1>11. ASSUME NEW a \in Attempts, Paste(a) PROVE OthersOK'
  BY <1>11 DEF OthersOK, Paste, At
<1>12. ASSUME NEW a \in Attempts, MarkDelivered(a) PROVE OthersOK'
  BY <1>12 DEF OthersOK, MarkDelivered, At
<1>13. ASSUME NEW a \in Attempts, Delivered(a) PROVE OthersOK'
  BY <1>13 DEF OthersOK, Delivered, At
<1>14. ASSUME NEW a \in Attempts, Failed(a) PROVE OthersOK'
  BY <1>14 DEF OthersOK, Failed, At
<1>15. ASSUME NEW a \in Attempts, UnlockFailed(a) PROVE OthersOK'
  BY <1>15 DEF OthersOK, UnlockFailed, At
<1>16. ASSUME NEW a \in Attempts, Retain(a) PROVE OthersOK'
  BY <1>16 DEF OthersOK, Retain, At
<1>17. ASSUME NEW a \in Attempts, Requeue(a) PROVE OthersOK'
  BY <1>17 DEF OthersOK, Requeue, At
<1>18. ASSUME NEW a \in Attempts, RequeueWrite(a) PROVE OthersOK'
  BY <1>18 DEF OthersOK, RequeueWrite, At
<1>19. ASSUME NEW a \in Attempts, DeadlinePasses(a) PROVE OthersOK'
  BY <1>19 DEF OthersOK, DeadlinePasses
<1>20. ASSUME NEW a \in Attempts, ReleaseSettled(a) PROVE OthersOK'
  BY <1>20 DEF OthersOK, ReleaseSettled
<1>21. ASSUME NEW a \in Attempts, RequeueSettled(a) PROVE OthersOK'
  BY <1>21 DEF OthersOK, RequeueSettled
<1>22. ASSUME NEW a \in Attempts, RequeueExpired(a) PROVE OthersOK'
  BY <1>22 DEF OthersOK, RequeueExpired
<1>23. ASSUME NEW a \in Attempts, OpExpires(a) PROVE OthersOK'
  BY <1>23 DEF OthersOK, OpExpires
<1>24. ASSUME NEW a \in Attempts, Admit(a) PROVE OthersOK'
  BY <1>24 DEF OthersOK, Admit
<1>25. ASSUME NEW a \in Attempts, ObserveWorking(a) PROVE OthersOK'
  BY <1>25 DEF OthersOK, ObserveWorking
<1>26. ASSUME NEW a \in Attempts, Submit(a) PROVE OthersOK'
  BY <1>26 DEF OthersOK, Submit
<1>27. ASSUME NEW a \in Attempts, ContinueRead(a) PROVE OthersOK'
  BY <1>27 DEF OthersOK, ContinueRead, Waiting
<1>28. ASSUME NEW a \in Attempts, ContinueWrite(a) PROVE OthersOK'
  BY <1>28 DEF OthersOK, ContinueWrite
<1>29. ASSUME NEW f \in Fencers, NEW a \in Attempts, FenceClaim(f, a) PROVE OthersOK'
  BY <1>29 DEF OthersOK, FenceClaim
<1>30. ASSUME NEW f \in Fencers, Retire(f) PROVE OthersOK'
  BY <1>30 DEF OthersOK, Retire
<1>31. ASSUME NEW f \in Fencers, FenceComplete(f) PROVE OthersOK'
  BY <1>31 DEF OthersOK, FenceComplete
<1>32. ASSUME ReconcileTimeouts PROVE OthersOK'
  BY <1>32 DEF OthersOK, ReconcileTimeouts
<1>33. ASSUME Crash PROVE OthersOK'
  <2>1. faults' \in 0..MaxFaults
    BY BoundAssumption, <1>33 DEF OthersOK, Crash
  <2>2. spc' \in [Attempts -> {"none", "registered", "issued", "bound", "sending", "failed", "over"}]
    BY <1>33 DEF OthersOK, Crash
  <2> QED BY <1>33, <2>1, <2>2 DEF OthersOK, Crash
<1>34. ASSUME Restart PROVE OthersOK'
  BY <1>34 DEF OthersOK, Restart
<1>35. ASSUME ParentCloses PROVE OthersOK'
  BY <1>35 DEF OthersOK, ParentCloses
<1>36. ASSUME ParentGates PROVE OthersOK'
  BY <1>36 DEF OthersOK, ParentGates
<1>37. ASSUME ParentResumes PROVE OthersOK'
  BY <1>37 DEF OthersOK, ParentResumes
<1>38. ASSUME UNCHANGED vars PROVE OthersOK'
  BY <1>38 DEF OthersOK, vars
<1>39. OthersOK'
  BY <1>1, <1>2, <1>3, <1>4, <1>5, <1>6, <1>7, <1>8, <1>9, <1>10, <1>11, <1>12, <1>13, <1>14, <1>15, <1>16, <1>17, <1>18, <1>19, <1>20, <1>21, <1>22, <1>23, <1>24, <1>25, <1>26, <1>27, <1>28, <1>29, <1>30, <1>31, <1>32, <1>33, <1>34, <1>35, <1>36, <1>37, <1>38
  DEF Next, JobStep, FenceStep
<1> QED BY <1>39, NextJob, NextFencer DEF ActorsOK

(* What a step leaves of the calls, the continuations and the settled.     *)
CallFrame == \A b \in Attempts :
  /\ \/ spc'[b] = spc[b] \/ Register(b)
     \/ b \in Registered /\ spc'[b] \notin {"none", "registered"}
  /\ cont'[b] = cont[b] \/ cont'[b] = "none" \/ ContinueRead(b)
  /\ b \in settled' => b \in settled \/ b \in Registered

(* Every step keeps to that frame.                                         *)
LEMMA NextCalls == IInv /\ [Next]_vars => CallFrame
<1> SUFFICES ASSUME AttOK, ChildOK, ActorsOK, Fencing, Holding,
                    \A a \in Attempts : Fresh(a) /\ Started(a), [Next]_vars
             PROVE  CallFrame
  BY TypeParts DEF IInv, AttemptInv
<1> USE DEF ActorsOK, OthersOK
<1>0. spc' = spc /\ cont' = cont /\ settled' = settled => CallFrame
  BY DEF CallFrame
<1>1. ASSUME NEW a \in Attempts, Register(a) PROVE CallFrame
  <2>1. cont' = cont /\ settled' = settled /\ \A b \in Attempts : b # a => spc'[b] = spc[b]
    BY <1>1 DEF Register
  <2> QED BY <1>1, <2>1 DEF CallFrame
<1>2. ASSUME NEW a \in Attempts, Replace(a) PROVE CallFrame
  BY <1>2, <1>0 DEF Replace
<1>3. ASSUME NEW a \in Attempts, Issue(a) PROVE CallFrame
  <2>1. a \in Registered
    BY <1>3, Existing DEF ActsOn
  <2> QED BY <1>3, <2>1 DEF CallFrame, Issue
<1>4. ASSUME NEW a \in Attempts, Bind(a) PROVE CallFrame
  <2>1. a \in Registered
    BY <1>4, Existing DEF ActsOn
  <2> QED BY <1>4, <2>1 DEF CallFrame, Bind
<1>5. ASSUME NEW a \in Attempts, SendBegin(a) PROVE CallFrame
  <2>1. a \in Registered
    BY <1>5, Existing DEF ActsOn
  <2> QED BY <1>5, <2>1 DEF CallFrame, SendBegin
<1>6. ASSUME NEW a \in Attempts, CancelAttempt(a) PROVE CallFrame
  <2>1. a \in Registered
    BY <1>6, Existing DEF ActsOn
  <2> QED BY <1>6, <2>1 DEF CallFrame, CancelAttempt
<1>7. ASSUME NEW a \in Attempts, DelegatorDies(a) PROVE CallFrame
  <2>1. a \in Registered
    BY <1>7, Existing DEF ActsOn
  <2> QED BY <1>7, <2>1 DEF CallFrame, DelegatorDies
<1>8. ASSUME NEW a \in Attempts, ClaimTurn(a) PROVE CallFrame
  BY <1>8, <1>0 DEF ClaimTurn
<1>9. ASSUME NEW a \in Attempts, TakeSlot(a) PROVE CallFrame
  BY <1>9, <1>0 DEF TakeSlot, At
<1>10. ASSUME NEW a \in Attempts, TakeOp(a) PROVE CallFrame
  BY <1>10, <1>0 DEF TakeOp, At
<1>11. ASSUME NEW a \in Attempts, Paste(a) PROVE CallFrame
  BY <1>11, <1>0 DEF Paste, At
<1>12. ASSUME NEW a \in Attempts, MarkDelivered(a) PROVE CallFrame
  BY <1>12, <1>0 DEF MarkDelivered, At
<1>13. ASSUME NEW a \in Attempts, Delivered(a) PROVE CallFrame
  <2>1. a \in Registered
    BY <1>13, Existing DEF ActsOn
  <2> QED BY <1>13, <2>1 DEF CallFrame, Delivered, At
<1>14. ASSUME NEW a \in Attempts, Failed(a) PROVE CallFrame
  BY <1>14, <1>0 DEF Failed, At
<1>15. ASSUME NEW a \in Attempts, UnlockFailed(a) PROVE CallFrame
  <2>1. a \in Registered
    BY <1>15, Existing DEF ActsOn
  <2> QED BY <1>15, <2>1 DEF CallFrame, UnlockFailed, At
<1>16. ASSUME NEW a \in Attempts, Retain(a) PROVE CallFrame
  <2>1. a \in Registered
    BY <1>16, Existing DEF ActsOn
  <2> QED BY <1>16, <2>1 DEF CallFrame, Retain, At
<1>17. ASSUME NEW a \in Attempts, Requeue(a) PROVE CallFrame
  BY <1>17, <1>0 DEF Requeue, At
<1>18. ASSUME NEW a \in Attempts, RequeueWrite(a) PROVE CallFrame
  BY <1>18, <1>0 DEF RequeueWrite, At
<1>19. ASSUME NEW a \in Attempts, DeadlinePasses(a) PROVE CallFrame
  BY <1>19, <1>0 DEF DeadlinePasses
<1>20. ASSUME NEW a \in Attempts, ReleaseSettled(a) PROVE CallFrame
  <2>1. a \in Registered
    BY <1>20, Existing DEF ActsOn
  <2> QED BY <1>20, <2>1 DEF CallFrame, ReleaseSettled
<1>21. ASSUME NEW a \in Attempts, RequeueSettled(a) PROVE CallFrame
  <2>1. a \in Registered
    BY <1>21, Existing DEF ActsOn
  <2> QED BY <1>21, <2>1 DEF CallFrame, RequeueSettled
<1>22. ASSUME NEW a \in Attempts, RequeueExpired(a) PROVE CallFrame
  BY <1>22, <1>0 DEF RequeueExpired
<1>23. ASSUME NEW a \in Attempts, OpExpires(a) PROVE CallFrame
  BY <1>23, <1>0 DEF OpExpires
<1>24. ASSUME NEW a \in Attempts, Admit(a) PROVE CallFrame
  BY <1>24, <1>0 DEF Admit
<1>25. ASSUME NEW a \in Attempts, ObserveWorking(a) PROVE CallFrame
  BY <1>25, <1>0 DEF ObserveWorking
<1>26. ASSUME NEW a \in Attempts, Submit(a) PROVE CallFrame
  BY <1>26, <1>0 DEF Submit
<1>27. ASSUME NEW a \in Attempts, ContinueRead(a) PROVE CallFrame
  <2>1. spc' = spc /\ settled' = settled /\ \A b \in Attempts : b # a => cont'[b] = cont[b]
    BY <1>27 DEF ContinueRead
  <2> QED BY <1>27, <2>1 DEF CallFrame
<1>28. ASSUME NEW a \in Attempts, ContinueWrite(a) PROVE CallFrame
  <2>1. a \in Registered
    BY <1>28, Existing DEF ActsOn
  <2> QED BY <1>28, <2>1 DEF CallFrame, ContinueWrite
<1>29. ASSUME NEW f \in Fencers, NEW a \in Attempts, FenceClaim(f, a) PROVE CallFrame
  BY <1>29, <1>0 DEF FenceClaim
<1>30. ASSUME NEW f \in Fencers, Retire(f) PROVE CallFrame
  BY <1>30, <1>0 DEF Retire
<1>31. ASSUME NEW f \in Fencers, FenceComplete(f) PROVE CallFrame
  BY <1>31, <1>0 DEF FenceComplete
<1>32. ASSUME ReconcileTimeouts PROVE CallFrame
  BY <1>32, <1>0 DEF ReconcileTimeouts
<1>33. ASSUME Crash PROVE CallFrame
  <2>1. cont' = cont /\ settled' = {}
    BY <1>33 DEF Crash
  <2>2. ASSUME NEW b \in Attempts PROVE \/ spc'[b] = spc[b]
                                        \/ b \in Registered /\ spc'[b] \notin {"none", "registered"}
    <3>1. CASE spc[b] = "sending"
      BY <1>33, <3>1 DEF Crash, Fresh
    <3>2. CASE spc[b] # "sending"
      BY <1>33, <3>2 DEF Crash
    <3> QED BY <3>1, <3>2
  <2> QED BY <2>1, <2>2 DEF CallFrame
<1>34. ASSUME Restart PROVE CallFrame
  BY <1>34, <1>0 DEF Restart
<1>35. ASSUME ParentCloses PROVE CallFrame
  BY <1>35, <1>0 DEF ParentCloses
<1>36. ASSUME ParentGates PROVE CallFrame
  BY <1>36, <1>0 DEF ParentGates
<1>37. ASSUME ParentResumes PROVE CallFrame
  BY <1>37, <1>0 DEF ParentResumes
<1>38. CASE UNCHANGED vars
  BY <1>38, <1>0 DEF vars
<1> HIDE DEF ActorsOK, OthersOK
<1> QED BY <1>1, <1>2, <1>3, <1>4, <1>5, <1>6, <1>7, <1>8, <1>9, <1>10, <1>11, <1>12, <1>13, <1>14, <1>15, <1>16, <1>17, <1>18, <1>19, <1>20, <1>21, <1>22, <1>23, <1>24, <1>25, <1>26, <1>27, <1>28, <1>29, <1>30, <1>31, <1>32, <1>33, <1>34, <1>35, <1>36, <1>37, <1>38
  DEF Next, JobStep, FenceStep

(* Registration is for ever.                                               *)
LEMMA Stays ==
  ASSUME IInv, [Next]_vars, NEW b \in Attempts
  PROVE  /\ b \in Registered => b \in Registered'
         /\ b \in Registered' => b \in Registered \/ Register(b)
         /\ Retaken(b) \/ Remade(b) => b \in Registered \/ Register(b)
<1>1. AttOK /\ Fencing /\ Holding /\ \A a \in Attempts : Fresh(a) /\ Started(a)
  BY TypeParts DEF IInv, AttemptInv
<1>2. AttFrame
  BY NextAttempts
<1>3. CASE Register(b)
  <2>1. att'[b].status = "awaiting"
    BY <1>1, <1>3 DEF Register, AttOK, GoodRow, AttemptRow
  <2> QED BY <1>3, <2>1 DEF Registered
<1>4. ASSUME Replace(b) PROVE b \in Registered /\ b \in Registered'
  <2>1. att'[b].status = att[b].status /\ att[b].status = "fenced"
    BY <1>1, <1>4 DEF Replace, Replaceable, AttOK, GoodRow, AttemptRow
  <2> QED BY <2>1 DEF Registered
<1>5. ASSUME NEW f \in Fencers, fencer[f].a = b, FenceComplete(f)
      PROVE  b \in Registered /\ b \in Registered'
  <2>1. b \in Registered
    BY <1>1, <1>5 DEF FenceComplete, Fencing, Revoked
  <2>2. att'[b].status = att[b].status
    BY <1>1, <1>5 DEF FenceComplete, AttOK, GoodRow, AttemptRow
  <2> QED BY <2>1, <2>2 DEF Registered
<1>6. ASSUME Calm(att[b], att'[b]), b \notin Registered => att'[b] = att[b]
      PROVE  (b \in Registered => b \in Registered') /\ (b \in Registered' => b \in Registered)
  BY <1>6 DEF Calm, Registered
<1>7. Remade(b) => b \in Registered \/ Register(b)
  BY <1>1, Existing DEF Remade, ActsOn
<1>8. CASE Retaken(b) /\ ~Register(b)
  BY <1>4, <1>5, <1>8 DEF Retaken
<1> QED BY <1>2, <1>3, <1>6, <1>7, <1>8 DEF AttFrame

(* Nothing appears before its attempt is registered.                       *)
LEMMA NextFresh == IInv /\ [Next]_vars => \A b \in Attempts : Fresh(b)'
<1> SUFFICES ASSUME IInv, [Next]_vars, NEW b \in Attempts, b \notin Registered'
             PROVE  att'[b] = NoAttempt /\ child'[b] = NoChild /\ spc'[b] = "none" /\ b \notin settled'
  BY DEF Fresh
<1>1. b \notin Registered /\ ~Register(b) /\ ~Retaken(b) /\ ~Remade(b)
  <2>1. b \notin Registered
    BY Stays
  <2>2. ~Register(b)
    <3>1. AttOK
      BY TypeParts DEF IInv
    <3>2. Register(b) => att'[b].status = "awaiting"
      BY <3>1 DEF Register, AttOK, GoodRow, AttemptRow
    <3> QED BY <3>2 DEF Registered
  <2> QED BY <2>1, <2>2, Stays
<1>2. Fresh(b)
  BY DEF IInv, AttemptInv
<1>3. AttFrame /\ ChildFrame /\ CallFrame
  BY NextAttempts, NextChildren, NextCalls
<1>4. att'[b] = att[b]
  BY <1>1, <1>3 DEF AttFrame
<1>5. child'[b] = child[b]
  BY <1>1, <1>3 DEF ChildFrame
<1>6. spc'[b] = spc[b] /\ (b \in settled' => b \in settled)
  BY <1>1, <1>3 DEF CallFrame
<1> QED BY <1>1, <1>2, <1>4, <1>5, <1>6 DEF Fresh

(* The effects of the steps that change a child more than most.  The first *)
(* turn is issued once.                                                    *)
LEMMA IssueChild ==
  ASSUME ChildOK, NEW a \in Attempts, Issue(a)
  PROVE  /\ spc[a] = "registered"
         /\ child'[a].writer = child[a].writer /\ child'[a].alive = child[a].alive
         /\ child'[a].op = child[a].op
         /\ \/ child'[a].wf = child[a].wf /\ child'[a].n = child[a].n
            \/ child'[a].wf = "open" /\ child'[a].n = 1
  BY DEF Issue, ChildOK, ChildRow

(* Registration gives the writer and the runtime.                          *)
LEMMA RegisterChild ==
  ASSUME ChildOK, NEW a \in Attempts, Register(a)
  PROVE  /\ a \notin Registered /\ child'[a].writer
         /\ child'[a].wf = child[a].wf /\ child'[a].n = child[a].n
  BY DEF Register, ChildOK, ChildRow

(* A continuation adds a turn.                                             *)
LEMMA ContinueChild ==
  ASSUME ChildOK, NEW a \in Attempts, ContinueWrite(a)
  PROVE  /\ cont[a] # "none"
         /\ child'[a].writer = child[a].writer /\ child'[a].alive = child[a].alive
         /\ child'[a].op = child[a].op
         /\ child'[a].wf = child[a].wf /\ child'[a].n = child[a].n + 1
  BY DEF ContinueWrite, ChildOK, ChildRow

(* A fence revokes the writer, the pane and the workflow.                  *)
LEMMA FencedChild ==
  ASSUME ChildOK, NEW f \in Fencers, NEW a \in Attempts, FenceClaim(f, a)
  PROVE  /\ child[a].n > 0 /\ child'[a].n = child[a].n /\ ~child'[a].writer
         /\ child'[a].alive = child[a].alive
         /\ child'[a].op = "fence" /\ child'[a].wf = "cancelled"
  BY DEF FenceClaim, ChildOK, ChildRow

(* A child whose workflow exists has had a turn, and so has a continuation. *)
LEMMA NextStarted == IInv /\ [Next]_vars => \A b \in Attempts : Started(b)'
<1> SUFFICES ASSUME IInv, [Next]_vars, NEW b \in Attempts PROVE Started(b)'
  OBVIOUS
<1>1. /\ ChildOK /\ ActorsOK /\ Fresh(b) /\ Started(b)
      /\ ChildFrame /\ CallFrame
  BY TypeParts, NextChildren, NextCalls DEF IInv, AttemptInv
<1>2. child[b].n \in Nat /\ MaxCycles \in Nat
  BY <1>1, BoundAssumption DEF ChildOK, ChildRow
<1>3. \/ spc'[b] = spc[b] \/ Register(b)
      \/ spc'[b] \notin {"none", "registered"}
  BY <1>1 DEF CallFrame
<1>4. cont'[b] = cont[b] \/ cont'[b] = "none" \/ ContinueRead(b)
  BY <1>1 DEF CallFrame
<1>5. ContinueRead(b) => cont'[b] = cont[b] \/ child[b].n \in 1..MaxCycles
  BY <1>1, <1>2 DEF ContinueRead, Started
<1>6. CASE Quiet(child[b], child'[b])
  <2>1. child'[b].n = child[b].n /\ (child'[b].wf # "none" => child[b].wf # "none")
    BY <1>6 DEF Quiet
  <2>2. Register(b) => child[b].n = 0
    BY <1>1 DEF Register, Fresh, NoChild
  <2> QED BY <1>1, <1>2, <1>3, <1>4, <1>5, <2>1, <2>2 DEF Started
<1>7. CASE Register(b)
  <2>1. child'[b].wf = "none" /\ child'[b].n = 0 /\ child[b].n = 0
    BY <1>1, <1>7, RegisterChild DEF Fresh, NoChild
  <2>2. cont'[b] = cont[b]
    BY <1>7 DEF Register
  <2> QED BY <1>1, <2>1, <2>2 DEF Started
<1>8. CASE Issue(b)
  <2>1. child[b].n = 0 /\ cont'[b] = cont[b] /\ spc'[b] \notin {"none", "registered"}
    BY <1>1, <1>8, IssueChild DEF Issue, Started, ActorsOK, OthersOK
  <2>2. cont[b] = "none"
    BY <1>1, <1>2, <2>1 DEF Started
  <2>3. \/ child'[b].wf = child[b].wf /\ child'[b].n = child[b].n
        \/ child'[b].wf = "open" /\ child'[b].n = 1
    BY <1>1, <1>8, IssueChild
  <2> QED BY <1>1, <2>1, <2>2, <2>3 DEF Started
<1>9. CASE ContinueWrite(b)
  <2>1. child'[b].wf = child[b].wf /\ child'[b].n = child[b].n + 1 /\ child[b].n > 0
    BY <1>1, <1>2, <1>9, ContinueChild DEF Started
  <2>2. spc'[b] = spc[b] /\ cont'[b] = "none"
    BY <1>1, <1>9 DEF ContinueWrite, ActorsOK, OthersOK
  <2> QED BY <1>1, <1>2, <2>1, <2>2 DEF Started
<1>10. ASSUME NEW f \in Fencers, FenceClaim(f, b) PROVE Started(b)'
  <2>1. child'[b].n = child[b].n /\ child[b].n > 0
    BY <1>1, <1>10, FencedChild
  <2>2. spc'[b] = spc[b] /\ cont'[b] = cont[b]
    BY <1>10 DEF FenceClaim
  <2> QED BY <1>1, <2>1, <2>2 DEF Started
<1> QED BY <1>1, <1>6, <1>7, <1>8, <1>9, <1>10 DEF ChildFrame, Remade

(* A revoked child stays revoked.                                          *)
LEMMA StaysRevoked ==
  ASSUME IInv, [Next]_vars, NEW b \in Attempts, Revoked(b)
  PROVE  /\ Revoked(b)'
         /\ ~child[b].alive => ~child'[b].alive
         /\ child'[b].wf = "cancelled" /\ child'[b].n > 0
         /\ child'[b].op \in {"fence", "retired"}
<1>1. /\ ChildOK /\ Started(b) /\ ChildFrame /\ b \in Registered'
      /\ child[b].wf = "cancelled" /\ child[b].n > 0 /\ child[b].op \in {"fence", "retired"}
  BY TypeParts, NextChildren, Stays DEF IInv, AttemptInv, Cut, Revoked
<1>2. child[b].n \in Nat
  BY <1>1 DEF ChildOK, ChildRow
<1>3. CASE Quiet(child[b], child'[b])
  BY <1>1, <1>3 DEF Quiet, Revoked
<1>4. ~Register(b)
  BY <1>1, RegisterChild DEF Revoked
<1>5. ~Issue(b)
  BY <1>1, <1>2, IssueChild DEF Started
<1>6. CASE ContinueWrite(b)
  <2>1. /\ child'[b].writer = child[b].writer /\ child'[b].alive = child[b].alive
        /\ child'[b].op = child[b].op /\ child'[b].wf = child[b].wf
        /\ child'[b].n = child[b].n + 1
    BY <1>1, <1>6, ContinueChild
  <2> QED BY <1>1, <1>2, <2>1 DEF Revoked
<1>7. ASSUME NEW f \in Fencers, FenceClaim(f, b)
      PROVE  /\ Revoked(b)' /\ (~child[b].alive => ~child'[b].alive)
             /\ child'[b].wf = "cancelled" /\ child'[b].n > 0 /\ child'[b].op \in {"fence", "retired"}
  <2>1. /\ child'[b].n = child[b].n /\ ~child'[b].writer /\ child'[b].alive = child[b].alive
        /\ child'[b].op = "fence" /\ child'[b].wf = "cancelled"
    BY <1>1, <1>7, FencedChild
  <2> QED BY <1>1, <2>1 DEF Revoked
<1> QED BY <1>1, <1>3, <1>4, <1>5, <1>6, <1>7 DEF ChildFrame, Remade

(* A fence takes everything at once.                                       *)
LEMMA NextCut == IInv /\ [Next]_vars => \A b \in Attempts : Cut(b)'
<1> SUFFICES ASSUME IInv, [Next]_vars, NEW b \in Attempts, Revoked(b)'
             PROVE  child'[b].wf = "cancelled" /\ child'[b].n > 0 /\ child'[b].op \in {"fence", "retired"}
  BY DEF Cut
<1>1. CASE Revoked(b)
  BY <1>1, StaysRevoked
<1>2. CASE ~Revoked(b)
  <2>1. ChildOK /\ ChildFrame /\ ~child'[b].writer
    BY TypeParts, NextChildren DEF IInv, Revoked
  <2>2. ~Register(b)
    BY <2>1, RegisterChild
  <2>3. b \in Registered /\ child[b].writer
    BY <1>2, <2>2, Stays DEF Revoked
  <2>4. ~Quiet(child[b], child'[b]) /\ ~Issue(b) /\ ~ContinueWrite(b)
    BY <2>1, <2>3, IssueChild, ContinueChild DEF Quiet
  <2>5. ASSUME NEW f \in Fencers, FenceClaim(f, b)
        PROVE  child'[b].wf = "cancelled" /\ child'[b].n > 0 /\ child'[b].op \in {"fence", "retired"}
    BY <2>1, <2>5, FencedChild
  <2> QED BY <2>1, <2>2, <2>4, <2>5 DEF ChildFrame, Remade
<1> QED BY <1>1, <1>2

(* Whoever retires a runtime has fenced its attempt.                       *)
LEMMA NextFencing == IInv /\ [Next]_vars => Fencing'
<1> SUFFICES ASSUME IInv, [Next]_vars, NEW f \in Fencers
             PROVE  /\ fencer'[f].step # "idle" =>
                         /\ fencer'[f].a \in Attempts /\ fencer'[f].a \in Registered'
                         /\ ~child'[fencer'[f].a].writer
                    /\ fencer'[f].step = "complete" => ~child'[fencer'[f].a].alive
  BY DEF Fencing, Revoked
<1>1. /\ ChildOK /\ fencer \in [Fencers -> FencerRow]
      /\ fencer[f].step # "idle" => fencer[f].a \in Attempts /\ Revoked(fencer[f].a)
      /\ fencer[f].step = "complete" => ~child[fencer[f].a].alive
  BY TypeParts DEF IInv, ActorsOK, Fencing
<1>2. CASE fencer'[f] = fencer[f]
  BY <1>1, <1>2, StaysRevoked DEF Revoked
<1>3. CASE fencer'[f] = Resting
  BY <1>3 DEF Resting
<1>4. ASSUME NEW a \in Attempts, FenceClaim(f, a)
      PROVE  fencer'[f].step = "retire" /\ fencer'[f].a = a /\ Revoked(a)'
  <2>1. fencer'[f] = [step |-> "retire", a |-> a]
    BY <1>1, <1>4 DEF FenceClaim
  <2>2. ~child'[a].writer
    BY <1>1, <1>4, FencedChild
  <2>3. a \in Registered
    <3>1. Holding /\ \A x \in Attempts : Fresh(x) /\ Started(x)
      BY DEF IInv, AttemptInv
    <3> QED BY <1>4, <3>1, Existing DEF ActsOn
  <2>4. a \in Registered'
    BY <2>3, Stays
  <2> QED BY <2>1, <2>2, <2>4 DEF Revoked
<1>5. CASE Retire(f) /\ fencer'[f] # Resting
  <2>1. fencer[f].step = "retire" /\ fencer[f].a \in Attempts /\ Revoked(fencer[f].a)
    BY <1>1, <1>5 DEF Retire
  <2>2. fencer'[f].a = fencer[f].a /\ fencer'[f].step = "complete"
    BY <1>1, <1>5 DEF Retire, FencerRow
  <2>3. ~child'[fencer[f].a].alive
    BY <1>1, <1>5, <2>1 DEF Retire, ChildOK, ChildRow
  <2> QED BY <2>1, <2>2, <2>3, StaysRevoked DEF Revoked
<1>6. \/ fencer'[f] = fencer[f] \/ fencer'[f] = Resting \/ Retire(f)
      \/ \E a \in Attempts : FenceClaim(f, a)
  <2> DEFINE Z == \/ fencer'[f] = fencer[f] \/ fencer'[f] = Resting \/ Retire(f)
                  \/ \E a \in Attempts : FenceClaim(f, a)
  <2>0. fencer' = fencer => Z
    OBVIOUS
  <2>1. ASSUME NEW a \in Attempts, Register(a) PROVE Z
    BY <2>1, <2>0 DEF Register
  <2>2. ASSUME NEW a \in Attempts, Replace(a) PROVE Z
    BY <2>2, <2>0 DEF Replace
  <2>3. ASSUME NEW a \in Attempts, Issue(a) PROVE Z
    BY <2>3, <2>0 DEF Issue
  <2>4. ASSUME NEW a \in Attempts, Bind(a) PROVE Z
    BY <2>4, <2>0 DEF Bind
  <2>5. ASSUME NEW a \in Attempts, SendBegin(a) PROVE Z
    BY <2>5, <2>0 DEF SendBegin
  <2>6. ASSUME NEW a \in Attempts, CancelAttempt(a) PROVE Z
    BY <2>6, <2>0 DEF CancelAttempt
  <2>7. ASSUME NEW a \in Attempts, DelegatorDies(a) PROVE Z
    BY <2>7, <2>0 DEF DelegatorDies
  <2>8. ASSUME NEW a \in Attempts, ClaimTurn(a) PROVE Z
    BY <2>8, <2>0 DEF ClaimTurn
  <2>9. ASSUME NEW a \in Attempts, TakeSlot(a) PROVE Z
    BY <2>9, <2>0 DEF TakeSlot, At
  <2>10. ASSUME NEW a \in Attempts, TakeOp(a) PROVE Z
    BY <2>10, <2>0 DEF TakeOp, At
  <2>11. ASSUME NEW a \in Attempts, Paste(a) PROVE Z
    BY <2>11, <2>0 DEF Paste, At
  <2>12. ASSUME NEW a \in Attempts, MarkDelivered(a) PROVE Z
    BY <2>12, <2>0 DEF MarkDelivered, At
  <2>13. ASSUME NEW a \in Attempts, Delivered(a) PROVE Z
    BY <2>13, <2>0 DEF Delivered, At
  <2>14. ASSUME NEW a \in Attempts, Failed(a) PROVE Z
    BY <2>14, <2>0 DEF Failed, At
  <2>15. ASSUME NEW a \in Attempts, UnlockFailed(a) PROVE Z
    BY <2>15, <2>0 DEF UnlockFailed, At
  <2>16. ASSUME NEW a \in Attempts, Retain(a) PROVE Z
    BY <2>16, <2>0 DEF Retain, At
  <2>17. ASSUME NEW a \in Attempts, Requeue(a) PROVE Z
    BY <2>17, <2>0 DEF Requeue, At
  <2>18. ASSUME NEW a \in Attempts, RequeueWrite(a) PROVE Z
    BY <2>18, <2>0 DEF RequeueWrite, At
  <2>19. ASSUME NEW a \in Attempts, DeadlinePasses(a) PROVE Z
    BY <2>19, <2>0 DEF DeadlinePasses
  <2>20. ASSUME NEW a \in Attempts, ReleaseSettled(a) PROVE Z
    BY <2>20, <2>0 DEF ReleaseSettled
  <2>21. ASSUME NEW a \in Attempts, RequeueSettled(a) PROVE Z
    BY <2>21, <2>0 DEF RequeueSettled
  <2>22. ASSUME NEW a \in Attempts, RequeueExpired(a) PROVE Z
    BY <2>22, <2>0 DEF RequeueExpired
  <2>23. ASSUME NEW a \in Attempts, OpExpires(a) PROVE Z
    BY <2>23, <2>0 DEF OpExpires
  <2>24. ASSUME NEW a \in Attempts, Admit(a) PROVE Z
    BY <2>24, <2>0 DEF Admit
  <2>25. ASSUME NEW a \in Attempts, ObserveWorking(a) PROVE Z
    BY <2>25, <2>0 DEF ObserveWorking
  <2>26. ASSUME NEW a \in Attempts, Submit(a) PROVE Z
    BY <2>26, <2>0 DEF Submit
  <2>27. ASSUME NEW a \in Attempts, ContinueRead(a) PROVE Z
    BY <2>27, <2>0 DEF ContinueRead
  <2>28. ASSUME NEW a \in Attempts, ContinueWrite(a) PROVE Z
    BY <2>28, <2>0 DEF ContinueWrite
  <2>29. ASSUME NEW g \in Fencers, NEW a \in Attempts, FenceClaim(g, a) PROVE Z
    BY <1>1, <2>29 DEF FenceClaim
  <2>30. ASSUME NEW g \in Fencers, Retire(g) PROVE Z
    BY <1>1, <2>30 DEF Retire
  <2>31. ASSUME NEW g \in Fencers, FenceComplete(g) PROVE Z
    BY <1>1, <2>31 DEF FenceComplete
  <2>32. ASSUME ReconcileTimeouts PROVE Z
    BY <2>32, <2>0 DEF ReconcileTimeouts
  <2>33. ASSUME Crash PROVE Z
    BY <2>33 DEF Crash
  <2>34. ASSUME Restart PROVE Z
    BY <2>34, <2>0 DEF Restart
  <2>35. ASSUME ParentCloses PROVE Z
    BY <2>35, <2>0 DEF ParentCloses
  <2>36. ASSUME ParentGates PROVE Z
    BY <2>36, <2>0 DEF ParentGates
  <2>37. ASSUME ParentResumes PROVE Z
    BY <2>37, <2>0 DEF ParentResumes
  <2>38. ASSUME UNCHANGED vars PROVE Z
    BY <2>38, <2>0 DEF vars
  <2> HIDE DEF Z
  <2>99. Z
    BY <2>1, <2>2, <2>3, <2>4, <2>5, <2>6, <2>7, <2>8, <2>9, <2>10, <2>11, <2>12, <2>13, <2>14, <2>15, <2>16, <2>17, <2>18, <2>19, <2>20, <2>21, <2>22, <2>23, <2>24, <2>25, <2>26, <2>27, <2>28, <2>29, <2>30, <2>31, <2>32, <2>33, <2>34, <2>35, <2>36, <2>37, <2>38 DEF Next, JobStep, FenceStep
  <2> QED BY <2>99 DEF Z
<1> QED BY <1>2, <1>3, <1>4, <1>5, <1>6 DEF Revoked

(* The runtime of an attempt that was ended is gone for good.              *)
LEMMA NextEnded == IInv /\ [Next]_vars => \A b \in Attempts : Ended(b)'
<1> SUFFICES ASSUME IInv, [Next]_vars, NEW b \in Attempts,
                    att'[b].life = "fenced" \/ att'[b].replaced \/ att'[b].woken
             PROVE  Revoked(b)' /\ ~child'[b].alive
  BY DEF Ended
<1>1. /\ AttOK /\ ChildOK /\ Ended(b) /\ Fresh(b) /\ AttFrame /\ Fencing
  BY TypeParts, NextAttempts DEF IInv, AttemptInv
<1>2. CASE att[b].life = "fenced" \/ att[b].replaced \/ att[b].woken
  BY <1>1, <1>2, StaysRevoked DEF Ended
<1>3. CASE Calm(att[b], att'[b])
  BY <1>2, <1>3 DEF Calm
<1>4. CASE Replace(b)
  BY <1>2, <1>4 DEF Replace, Replaceable
<1>5. CASE Register(b)
  <2>1. att[b] = NoAttempt
    BY <1>1, <1>5 DEF Register, Fresh
  <2>2. att'[b] = [att[b] EXCEPT !.status = "awaiting", !.life = "created"]
    BY <1>1, <1>5 DEF Register, AttOK
  <2> QED BY <2>1, <2>2 DEF NoAttempt
<1>6. ASSUME NEW f \in Fencers, fencer[f].a = b, FenceComplete(f)
      PROVE  Revoked(b)' /\ ~child'[b].alive
  <2>1. Revoked(b) /\ ~child[b].alive
    BY <1>1, <1>6 DEF FenceComplete, Fencing
  <2> QED BY <2>1, StaysRevoked
<1> QED BY <1>1, <1>3, <1>4, <1>5, <1>6 DEF AttFrame, Retaken

(* Whoever sends serves a registered attempt and holds the pane.           *)
LEMMA NextHolding == IInv /\ [Next]_vars => Holding'
<1> SUFFICES ASSUME AttOK, ChildOK, ActorsOK, Fencing, Holding,
                    \A a \in Attempts : Fresh(a) /\ Started(a), Registered \subseteq Registered', [Next]_vars
             PROVE  Holding'
  BY TypeParts, Stays DEF IInv, AttemptInv, Registered
<1> DEFINE OpKept == \A b \in Attempts : child[b].op = "transport" => child'[b].op = "transport"
           Along == job'.a = job.a /\ job'.step # "idle"
<1>a. ASSUME OpKept, job' = job PROVE Holding'
  <2>1. job.step # "idle" => job.a \in Registered /\ job.a \in Registered'
    BY DEF Holding
  <2>2. job.step \in Pasting => child'[job.a].op = "transport"
    BY <1>a, <2>1 DEF Holding, Registered, Pasting
  <2> QED BY <1>a, <2>1, <2>2 DEF Holding
<1>b. ASSUME job' = NoJob PROVE Holding'
  BY <1>b DEF Holding, NoJob, Pasting
<1>c. ASSUME job.step # "idle", Along, job'.step \in Pasting => child'[job.a].op = "transport" PROVE Holding'
  BY <1>c DEF Holding, Registered
<1>d. child' = child => OpKept
  OBVIOUS
<1> HIDE DEF OpKept
<1>1. ASSUME NEW a \in Attempts, Register(a) PROVE Holding'
  <2>1. job' = job
    BY <1>1 DEF Register
  <2>2. OpKept
    BY <1>1 DEF Register, OpKept, ChildOK, ChildRow
  <2> QED BY <2>1, <2>2, <1>a
<1>2. ASSUME NEW a \in Attempts, Replace(a) PROVE Holding'
  <2>1. job' = job /\ child' = child
    BY <1>2 DEF Replace
  <2> QED BY <2>1, <1>a, <1>d
<1>3. ASSUME NEW a \in Attempts, Issue(a) PROVE Holding'
  <2>1. job' = job
    BY <1>3 DEF Issue
  <2>2. OpKept
    BY <1>3 DEF Issue, OpKept, ChildOK, ChildRow
  <2> QED BY <2>1, <2>2, <1>a
<1>4. ASSUME NEW a \in Attempts, Bind(a) PROVE Holding'
  <2>1. job' = job /\ child' = child
    BY <1>4 DEF Bind
  <2> QED BY <2>1, <1>a, <1>d
<1>5. ASSUME NEW a \in Attempts, SendBegin(a) PROVE Holding'
  <2>1. a \in Registered
    BY <1>5, Existing DEF ActsOn
  <2>2. job' = job \/ (job'.step = "slot" /\ job'.a = a)
    BY <1>5 DEF SendBegin, NoJob
  <2>3. child' = child
    BY <1>5 DEF SendBegin
  <2> QED BY <2>1, <2>2, <2>3, <1>a, <1>d DEF Holding, Pasting, Registered
<1>6. ASSUME NEW a \in Attempts, CancelAttempt(a) PROVE Holding'
  <2>1. job' = job /\ child' = child
    BY <1>6 DEF CancelAttempt
  <2> QED BY <2>1, <1>a, <1>d
<1>7. ASSUME NEW a \in Attempts, DelegatorDies(a) PROVE Holding'
  <2>1. job' = job /\ child' = child
    BY <1>7 DEF DelegatorDies
  <2> QED BY <2>1, <1>a, <1>d
<1>8. ASSUME NEW a \in Attempts, ClaimTurn(a) PROVE Holding'
  <2>1. a \in Registered
    BY <1>8, Existing DEF ActsOn
  <2>2. CASE job'.step = "slot" /\ job'.a = a
    BY <2>1, <2>2 DEF Holding, Pasting, Registered
  <2>3. CASE job' = job
    <3>1. OpKept
      BY <1>8 DEF ClaimTurn, OpKept, ChildOK, ChildRow
    <3> QED BY <2>3, <3>1, <1>a
  <2> QED BY <1>8, <2>2, <2>3 DEF ClaimTurn, NoJob
<1>9. ASSUME NEW a \in Attempts, TakeSlot(a) PROVE Holding'
  <2>1. job.step # "idle" /\ Along /\ job'.step \notin Pasting
    BY <1>9 DEF TakeSlot, At, Refused, ActorsOK, Job, Pasting
  <2> QED BY <2>1, <1>c
<1>10. ASSUME NEW a \in Attempts, TakeOp(a) PROVE Holding'
  <2>1. job.step # "idle" /\ Along /\ job.a = a
    BY <1>10 DEF TakeOp, At, Refused, ActorsOK, Job
  <2>2. job'.step \in Pasting => child'[a].op = "transport"
    BY <1>10 DEF TakeOp, At, Refused, ActorsOK, Job, Pasting, ChildOK, ChildRow
  <2> QED BY <2>1, <2>2, <1>c
<1>11. ASSUME NEW a \in Attempts, Paste(a) PROVE Holding'
  <2>1. job.step = "paste" /\ Along /\ job.a = a
    BY <1>11 DEF Paste, At, ActorsOK, Job
  <2>2. child[a].op = "transport"
    BY <2>1 DEF Holding, Pasting
  <2>3. child'[a].op = "transport"
    BY <1>11, <2>2 DEF Paste, At, ChildOK, ChildRow
  <2> QED BY <2>1, <2>3, <1>c
<1>12. ASSUME NEW a \in Attempts, MarkDelivered(a) PROVE Holding'
  <2>1. job.step = "mark" /\ Along /\ child' = child
    BY <1>12 DEF MarkDelivered, At, ActorsOK, Job
  <2> QED BY <2>1, <1>c DEF Holding, Pasting
<1>13. ASSUME NEW a \in Attempts, Delivered(a) PROVE Holding'
  BY <1>13, <1>b DEF Delivered
<1>14. ASSUME NEW a \in Attempts, Failed(a) PROVE Holding'
  <2>1. job.step = "failed" /\ Along /\ job.a = a
    BY <1>14 DEF Failed, At, ActorsOK, Job
  <2>2. child[a].op = "transport"
    BY <2>1 DEF Holding, Pasting
  <2>3. child'[a].op = "transport"
    BY <1>14, <2>2 DEF Failed, At, ChildOK, ChildRow
  <2> QED BY <2>1, <2>3, <1>c
<1>15. ASSUME NEW a \in Attempts, UnlockFailed(a) PROVE Holding'
  <2>1. CASE job' = NoJob
    BY <2>1, <1>b
  <2>2. CASE job' = [job EXCEPT !.step = "requeue"]
    <3>1. job.step # "idle" /\ Along /\ job'.step \notin Pasting
      BY <1>15, <2>2 DEF UnlockFailed, At, ActorsOK, Job, Pasting
    <3> QED BY <3>1, <1>c
  <2> QED BY <1>15, <2>1, <2>2 DEF UnlockFailed
<1>16. ASSUME NEW a \in Attempts, Retain(a) PROVE Holding'
  BY <1>16, <1>b DEF Retain
<1>17. ASSUME NEW a \in Attempts, Requeue(a) PROVE Holding'
  <2>1. CASE job' = NoJob
    BY <2>1, <1>b
  <2>2. CASE job' = [job EXCEPT !.step = "write", !.read = ReadOf(a)]
    <3>1. job.step # "idle" /\ Along /\ job'.step \notin Pasting
      BY <1>17, <2>2 DEF Requeue, At, ActorsOK, Job, Pasting
    <3> QED BY <3>1, <1>c
  <2> QED BY <1>17, <2>1, <2>2 DEF Requeue
<1>18. ASSUME NEW a \in Attempts, RequeueWrite(a) PROVE Holding'
  BY <1>18, <1>b DEF RequeueWrite
<1>19. ASSUME NEW a \in Attempts, DeadlinePasses(a) PROVE Holding'
  <2>1. job' = job /\ child' = child
    BY <1>19 DEF DeadlinePasses
  <2> QED BY <2>1, <1>a, <1>d
<1>20. ASSUME NEW a \in Attempts, ReleaseSettled(a) PROVE Holding'
  <2>1. job' = job
    BY <1>20 DEF ReleaseSettled
  <2>2. OpKept
    BY <1>20 DEF ReleaseSettled, OpKept, ChildOK, ChildRow
  <2> QED BY <2>1, <2>2, <1>a
<1>21. ASSUME NEW a \in Attempts, RequeueSettled(a) PROVE Holding'
  <2>1. job' = job
    BY <1>21 DEF RequeueSettled
  <2>2. OpKept
    BY <1>21 DEF RequeueSettled, OpKept, ChildOK, ChildRow
  <2> QED BY <2>1, <2>2, <1>a
<1>22. ASSUME NEW a \in Attempts, RequeueExpired(a) PROVE Holding'
  <2>1. job' = job
    BY <1>22 DEF RequeueExpired
  <2>2. OpKept
    BY <1>22 DEF RequeueExpired, OpKept, ChildOK, ChildRow
  <2> QED BY <2>1, <2>2, <1>a
<1>23. ASSUME NEW a \in Attempts, OpExpires(a) PROVE Holding'
  <2>1. job' = job
    BY <1>23 DEF OpExpires
  <2>2. OpKept
    BY <1>23 DEF OpExpires, OpKept, ChildOK, ChildRow
  <2> QED BY <2>1, <2>2, <1>a
<1>24. ASSUME NEW a \in Attempts, Admit(a) PROVE Holding'
  <2>1. job' = job
    BY <1>24 DEF Admit, Undelivered
  <2>2. OpKept
    BY <1>24 DEF Admit, Undelivered, OpKept, ChildOK, ChildRow
  <2> QED BY <2>1, <2>2, <1>a
<1>25. ASSUME NEW a \in Attempts, ObserveWorking(a) PROVE Holding'
  <2>1. job' = job /\ child' = child
    BY <1>25 DEF ObserveWorking
  <2> QED BY <2>1, <1>a, <1>d
<1>26. ASSUME NEW a \in Attempts, Submit(a) PROVE Holding'
  <2>1. job' = job
    BY <1>26 DEF Submit
  <2>2. OpKept
    BY <1>26 DEF Submit, OpKept, ChildOK, ChildRow
  <2> QED BY <2>1, <2>2, <1>a
<1>27. ASSUME NEW a \in Attempts, ContinueRead(a) PROVE Holding'
  <2>1. job' = job /\ child' = child
    BY <1>27 DEF ContinueRead
  <2> QED BY <2>1, <1>a, <1>d
<1>28. ASSUME NEW a \in Attempts, ContinueWrite(a) PROVE Holding'
  <2>1. job' = job
    BY <1>28 DEF ContinueWrite
  <2>2. OpKept
    BY <1>28 DEF ContinueWrite, OpKept, ChildOK, ChildRow
  <2> QED BY <2>1, <2>2, <1>a
<1>29. ASSUME NEW f \in Fencers, NEW a \in Attempts, FenceClaim(f, a) PROVE Holding'
  <2>1. job' = job
    BY <1>29 DEF FenceClaim, Fenceable
  <2>2. OpKept
    BY <1>29 DEF FenceClaim, Fenceable, OpKept, ChildOK, ChildRow
  <2> QED BY <2>1, <2>2, <1>a
<1>30. ASSUME NEW f \in Fencers, Retire(f) PROVE Holding'
  <2>1. job' = job
    BY <1>30 DEF Retire
  <2>2. OpKept
    BY <1>30 DEF Retire, OpKept, ChildOK, ChildRow
  <2> QED BY <2>1, <2>2, <1>a
<1>31. ASSUME NEW f \in Fencers, FenceComplete(f) PROVE Holding'
  <2>1. job' = job
    BY <1>31 DEF FenceComplete
  <2>2. OpKept
    BY <1>31 DEF FenceComplete, OpKept, ChildOK, ChildRow
  <2> QED BY <2>1, <2>2, <1>a
<1>32. ASSUME ReconcileTimeouts PROVE Holding'
  <2>1. job' = job
    BY <1>32 DEF ReconcileTimeouts, RecoveredTurn
  <2>2. OpKept
    BY <1>32 DEF ReconcileTimeouts, RecoveredTurn, OpKept, ChildOK, ChildRow
  <2> QED BY <2>1, <2>2, <1>a
<1>33. ASSUME Crash PROVE Holding'
  BY <1>33, <1>b DEF Crash
<1>34. ASSUME Restart PROVE Holding'
  <2>1. job' = job
    BY <1>34 DEF Restart
  <2>2. OpKept
    BY <1>34 DEF Restart, OpKept, ChildOK, ChildRow
  <2> QED BY <2>1, <2>2, <1>a
<1>35. ASSUME ParentCloses PROVE Holding'
  <2>1. job' = job /\ child' = child
    BY <1>35 DEF ParentCloses
  <2> QED BY <2>1, <1>a, <1>d
<1>36. ASSUME ParentGates PROVE Holding'
  <2>1. job' = job /\ child' = child
    BY <1>36 DEF ParentGates
  <2> QED BY <2>1, <1>a, <1>d
<1>37. ASSUME ParentResumes PROVE Holding'
  <2>1. job' = job /\ child' = child
    BY <1>37 DEF ParentResumes
  <2> QED BY <2>1, <1>a, <1>d
<1>38. CASE UNCHANGED vars
  BY <1>38, <1>a, <1>d DEF vars
<1> QED BY <1>1, <1>2, <1>3, <1>4, <1>5, <1>6, <1>7, <1>8, <1>9, <1>10, <1>11, <1>12, <1>13, <1>14, <1>15, <1>16, <1>17, <1>18, <1>19, <1>20, <1>21, <1>22, <1>23, <1>24, <1>25, <1>26, <1>27, <1>28, <1>29, <1>30, <1>31, <1>32, <1>33, <1>34, <1>35, <1>36, <1>37, <1>38
  DEF Next, JobStep, FenceStep

(* The invariant holds at first.                                           *)
LEMMA InitInv == Init => IInv
<1> SUFFICES ASSUME Init PROVE IInv
  OBVIOUS
<1>1. TypeOK
  <2>1. NoRead \in Read /\ 0 \in 0..MaxAttempts /\ 0 \in 0..MaxFaults /\ 0 \in 0..1
    BY BoundAssumption DEF NoRead, Read, LifeStates
  <2>2. NoJob \in Job /\ Resting \in FencerRow
    BY <2>1 DEF NoJob, Job, JobSteps, Resting, FencerRow
  <2>3. GoodRow(NoAttempt)
    BY <2>1 DEF NoAttempt, GoodRow, AttemptRow, AssignmentStatus, LifeStates, TerminalStates
  <2>4. 0 \in 0..MaxCycles + 1 /\ 0 \in 0..MaxClaims
    BY BoundAssumption
  <2>5. NoChild \in ChildRow
    BY <2>4 DEF NoChild, ChildRow
  <2>6. AttOK /\ ChildOK
    BY <2>3, <2>5 DEF Init, AttOK, ChildOK, GoodRow
  <2>7. ActorsOK
    BY <2>1, <2>2 DEF Init, ActorsOK, OthersOK
  <2> QED BY <2>6, <2>7, TypeParts
<1>2. Holding /\ Fencing
  BY DEF Init, Holding, Fencing, NoJob, Pasting, Resting
<1>3. ASSUME NEW a \in Attempts PROVE AttemptInv(a)
  <2>1. att[a] = NoAttempt /\ child[a] = NoChild /\ spc[a] = "none" /\ a \notin settled /\ cont[a] = "none"
    BY DEF Init
  <2>2. a \notin Registered
    BY <2>1 DEF Registered, NoAttempt
  <2> QED BY <2>1, <2>2 DEF AttemptInv, Fresh, Started, Cut, Ended, Revoked, NoAttempt, NoChild
<1> QED BY <1>1, <1>2, <1>3 DEF IInv

(* Every step keeps the invariant.                                         *)
LEMMA NextInv == IInv /\ [Next]_vars => IInv'
<1> SUFFICES ASSUME IInv, [Next]_vars PROVE IInv'
  OBVIOUS
<1>1. AttOK' /\ ChildOK' /\ ActorsOK'
  BY NextAttempts, NextChildren, NextActors
<1>2. TypeOK'
  BY <1>1, TypeParts DEF TypeOK, AttOK, ChildOK, ActorsOK, OthersOK, FencerRow, GoodRow, Job
<1>3. \A a \in Attempts : Fresh(a)' /\ Started(a)' /\ Cut(a)' /\ Ended(a)'
  BY NextFresh, NextStarted, NextCut, NextEnded
<1>4. Holding' /\ Fencing'
  BY NextHolding, NextFencing
<1> QED BY <1>2, <1>3, <1>4 DEF IInv, AttemptInv

(* The invariant holds in every state of every behaviour.                  *)
THEOREM Invariance == Spec => []IInv
  BY InitInv, NextInv, PTL DEF Spec

(* The variables keep their types, and a row whose attempt ended has no    *)
(* deadline left (managed_attempt_lifecycle in clients/database.py).       *)
THEOREM TypeCorrect == Spec => []TypeOK
<1>1. IInv => TypeOK
  BY DEF IInv
<1> QED BY <1>1, Invariance, PTL

(* The parent replaces an attempt, or is woken for it, only when its child *)
(* is gone, its writer revoked and its workflow closed                     *)
(* (complete_managed_attempt_fence, _register_child_attempt).              *)
THEOREM Replaced == Spec => []ReplacedIsGone
<1>1. IInv => ReplacedIsGone
  BY DEF IInv, AttemptInv, Ended, Cut, Revoked, ReplacedIsGone, Gone
<1> QED BY <1>1, Invariance, PTL

(* What a step can still do to a revoked attempt: paste nothing, admit     *)
(* nothing, accept nothing.                                                *)
LEMMA Dead ==
  ASSUME IInv, NEW a \in Attempts, Revoked(a)
  PROVE  ~Paste(a) /\ ~Admit(a) /\ ~Submit(a)
<1>1. child[a].op # "transport" /\ child[a].wf = "cancelled" /\ Holding
  BY DEF IInv, AttemptInv, Cut
<1>2. ~Admit(a) /\ ~Submit(a)
  BY <1>1 DEF Admit, Submit, ResultAccepted
<1>3. ~Paste(a)
  BY <1>1 DEF Paste, At, Holding, Pasting
<1> QED BY <1>2, <1>3

(* Only a paste brings text, only an admission a receipt, and only a       *)
(* submission a result.                                                    *)
Heard(b) == /\ child'[b].pasted => child[b].pasted \/ Paste(b)
            /\ child'[b].receipt => child[b].receipt \/ Admit(b)
            /\ att'[b].status = "claimed" => att[b].status = "claimed" \/ Submit(b)

(* Every step keeps to that.                                               *)
LEMMA NextHeard == IInv /\ [Next]_vars => \A b \in Attempts : Heard(b)
<1> SUFFICES ASSUME AttOK, ChildOK, Fencing, [Next]_vars, NEW b \in Attempts
             PROVE  Heard(b)
  BY TypeParts DEF IInv
<1> DEFINE C == child'[b].pasted = child[b].pasted /\ child'[b].receipt = child[b].receipt
           A == att'[b].status = "claimed" => att[b].status = "claimed"
<1>a. C /\ A => Heard(b)
  BY DEF Heard
<1>b. (child' = child => C) /\ (att' = att => A)
  OBVIOUS
<1> HIDE DEF C, A
<1>1. ASSUME NEW a \in Attempts, Register(a) PROVE Heard(b)
  <2>1. C
    BY <1>1 DEF Register, C, ChildOK, ChildRow
  <2>2. A
    BY <1>1 DEF Register, A, AttOK, GoodRow, AttemptRow
  <2> QED BY <2>1, <2>2, <1>a
<1>2. ASSUME NEW a \in Attempts, Replace(a) PROVE Heard(b)
  <2>1. C
    BY <1>2, <1>b DEF Replace
  <2>2. A
    BY <1>2 DEF Replace, A, AttOK, GoodRow, AttemptRow
  <2> QED BY <2>1, <2>2, <1>a
<1>3. ASSUME NEW a \in Attempts, Issue(a) PROVE Heard(b)
  <2>1. C
    BY <1>3 DEF Issue, C, ChildOK, ChildRow
  <2>2. A
    BY <1>3, <1>b DEF Issue
  <2> QED BY <2>1, <2>2, <1>a
<1>4. ASSUME NEW a \in Attempts, Bind(a) PROVE Heard(b)
  <2>1. C
    BY <1>4, <1>b DEF Bind
  <2>2. A
    <3>1. att'[b] = att[b] \/ att'[b] = [att[b] EXCEPT !.life = "scheduled", !.due = "set"]
      BY <1>4 DEF Bind, Scheduled, AttOK
    <3> QED BY <3>1 DEF A, AttOK, GoodRow, AttemptRow
  <2> QED BY <2>1, <2>2, <1>a
<1>5. ASSUME NEW a \in Attempts, SendBegin(a) PROVE Heard(b)
  <2>1. child' = child /\ att' = att
    BY <1>5 DEF SendBegin
  <2> QED BY <2>1, <1>a, <1>b
<1>6. ASSUME NEW a \in Attempts, CancelAttempt(a) PROVE Heard(b)
  <2>1. C
    BY <1>6, <1>b DEF CancelAttempt
  <2>2. A
    BY <1>6 DEF CancelAttempt, A, AttOK, GoodRow, AttemptRow
  <2> QED BY <2>1, <2>2, <1>a
<1>7. ASSUME NEW a \in Attempts, DelegatorDies(a) PROVE Heard(b)
  <2>1. child' = child /\ att' = att
    BY <1>7 DEF DelegatorDies
  <2> QED BY <2>1, <1>a, <1>b
<1>8. ASSUME NEW a \in Attempts, ClaimTurn(a) PROVE Heard(b)
  <2>1. C
    BY <1>8 DEF ClaimTurn, C, ChildOK, ChildRow
  <2>2. A
    BY <1>8, <1>b DEF ClaimTurn
  <2> QED BY <2>1, <2>2, <1>a
<1>9. ASSUME NEW a \in Attempts, TakeSlot(a) PROVE Heard(b)
  <2>1. C
    BY <1>9 DEF TakeSlot, At, C, ChildOK, ChildRow
  <2>2. A
    BY <1>9, <1>b DEF TakeSlot, At
  <2> QED BY <2>1, <2>2, <1>a
<1>10. ASSUME NEW a \in Attempts, TakeOp(a) PROVE Heard(b)
  <2>1. C
    BY <1>10 DEF TakeOp, At, C, ChildOK, ChildRow
  <2>2. A
    BY <1>10, <1>b DEF TakeOp, At
  <2> QED BY <2>1, <2>2, <1>a
<1>11. ASSUME NEW a \in Attempts, Paste(a) PROVE Heard(b)
  <2>1. A
    BY <1>11, <1>b DEF Paste, At
  <2>2. child'[b].receipt = child[b].receipt /\ (b # a => child'[b] = child[b])
    BY <1>11 DEF Paste, At, ChildOK, ChildRow
  <2> QED BY <1>11, <2>1, <2>2 DEF A, Heard
<1>12. ASSUME NEW a \in Attempts, MarkDelivered(a) PROVE Heard(b)
  <2>1. C
    BY <1>12, <1>b DEF MarkDelivered, At
  <2>2. A
    BY <1>12 DEF MarkDelivered, At, A, AttOK, GoodRow, AttemptRow
  <2> QED BY <2>1, <2>2, <1>a
<1>13. ASSUME NEW a \in Attempts, Delivered(a) PROVE Heard(b)
  <2>1. C
    BY <1>13 DEF Delivered, At, ReleasedOp, C, ChildOK, ChildRow
  <2>2. A
    BY <1>13, <1>b DEF Delivered, At
  <2> QED BY <2>1, <2>2, <1>a
<1>14. ASSUME NEW a \in Attempts, Failed(a) PROVE Heard(b)
  <2>1. C
    BY <1>14 DEF Failed, At, C, ChildOK, ChildRow
  <2>2. A
    BY <1>14, <1>b DEF Failed, At
  <2> QED BY <2>1, <2>2, <1>a
<1>15. ASSUME NEW a \in Attempts, UnlockFailed(a) PROVE Heard(b)
  <2>1. C
    BY <1>15 DEF UnlockFailed, At, ReleasedOp, C, ChildOK, ChildRow
  <2>2. A
    BY <1>15, <1>b DEF UnlockFailed, At
  <2> QED BY <2>1, <2>2, <1>a
<1>16. ASSUME NEW a \in Attempts, Retain(a) PROVE Heard(b)
  <2>1. C
    <3>1. child'[b] = child[b] \/ child'[b] = RecoveredTurn(child[b], ReadOf(b))
      BY <1>16 DEF Retain, At, ChildOK
    <3> QED BY <3>1 DEF RecoveredTurn, C, ChildOK, ChildRow
  <2>2. A
    <3>1. att'[b] = att[b] \/ att'[b] = Recovered(att[b], ReadOf(b))
      BY <1>16 DEF Retain, At, AttOK
    <3> QED BY <3>1 DEF Recovered, A, AttOK, GoodRow, AttemptRow
  <2> QED BY <2>1, <2>2, <1>a
<1>17. ASSUME NEW a \in Attempts, Requeue(a) PROVE Heard(b)
  <2>1. C
    BY <1>17 DEF Requeue, At, C, ChildOK, ChildRow
  <2>2. A
    BY <1>17, <1>b DEF Requeue, At
  <2> QED BY <2>1, <2>2, <1>a
<1>18. ASSUME NEW a \in Attempts, RequeueWrite(a) PROVE Heard(b)
  <2>1. C
    <3>1. child'[b] = child[b] \/ child'[b] = RecoveredTurn(child[b], job.read)
      BY <1>18 DEF RequeueWrite, At, ChildOK
    <3> QED BY <3>1 DEF RecoveredTurn, C, ChildOK, ChildRow
  <2>2. A
    <3>1. att'[b] = att[b] \/ att'[b] = Recovered(att[b], job.read)
      BY <1>18 DEF RequeueWrite, At, AttOK
    <3> QED BY <3>1 DEF Recovered, A, AttOK, GoodRow, AttemptRow
  <2> QED BY <2>1, <2>2, <1>a
<1>19. ASSUME NEW a \in Attempts, DeadlinePasses(a) PROVE Heard(b)
  <2>1. C
    BY <1>19, <1>b DEF DeadlinePasses
  <2>2. A
    BY <1>19 DEF DeadlinePasses, A, AttOK, GoodRow, AttemptRow
  <2> QED BY <2>1, <2>2, <1>a
<1>20. ASSUME NEW a \in Attempts, ReleaseSettled(a) PROVE Heard(b)
  <2>1. C
    BY <1>20 DEF ReleaseSettled, C, ChildOK, ChildRow
  <2>2. A
    BY <1>20, <1>b DEF ReleaseSettled
  <2> QED BY <2>1, <2>2, <1>a
<1>21. ASSUME NEW a \in Attempts, RequeueSettled(a) PROVE Heard(b)
  <2>1. C
    BY <1>21 DEF RequeueSettled, C, ChildOK, ChildRow
  <2>2. A
    BY <1>21, <1>b DEF RequeueSettled
  <2> QED BY <2>1, <2>2, <1>a
<1>22. ASSUME NEW a \in Attempts, RequeueExpired(a) PROVE Heard(b)
  <2>1. C
    BY <1>22 DEF RequeueExpired, C, ChildOK, ChildRow
  <2>2. A
    BY <1>22, <1>b DEF RequeueExpired
  <2> QED BY <2>1, <2>2, <1>a
<1>23. ASSUME NEW a \in Attempts, OpExpires(a) PROVE Heard(b)
  <2>1. C
    BY <1>23 DEF OpExpires, C, ChildOK, ChildRow
  <2>2. A
    BY <1>23, <1>b DEF OpExpires
  <2> QED BY <2>1, <2>2, <1>a
<1>24. ASSUME NEW a \in Attempts, Admit(a) PROVE Heard(b)
  <2>1. A
    BY <1>24 DEF Admit, A, AttOK, GoodRow, AttemptRow
  <2>2. child'[b].pasted = child[b].pasted /\ (b # a => child'[b] = child[b])
    BY <1>24 DEF Admit, ChildOK, ChildRow
  <2> QED BY <1>24, <2>1, <2>2 DEF A, Heard
<1>25. ASSUME NEW a \in Attempts, ObserveWorking(a) PROVE Heard(b)
  <2>1. C
    BY <1>25, <1>b DEF ObserveWorking
  <2>2. A
    BY <1>25 DEF ObserveWorking, A, AttOK, GoodRow, AttemptRow
  <2> QED BY <2>1, <2>2, <1>a
<1>26. ASSUME NEW a \in Attempts, Submit(a) PROVE Heard(b)
  <2>1. C
    BY <1>26 DEF Submit, C, ChildOK, ChildRow
  <2>2. b # a => att'[b] = att[b]
    BY <1>26 DEF Submit, AttOK
  <2> QED BY <1>26, <2>1, <2>2 DEF C, Heard
<1>27. ASSUME NEW a \in Attempts, ContinueRead(a) PROVE Heard(b)
  <2>1. C
    BY <1>27, <1>b DEF ContinueRead
  <2>2. A
    BY <1>27 DEF ContinueRead, A, AttOK, GoodRow, AttemptRow
  <2> QED BY <2>1, <2>2, <1>a
<1>28. ASSUME NEW a \in Attempts, ContinueWrite(a) PROVE Heard(b)
  <2>1. (child'[b].pasted => child[b].pasted) /\ (child'[b].receipt => child[b].receipt)
    BY <1>28 DEF ContinueWrite, ChildOK, ChildRow
  <2>2. A
    BY <1>28 DEF ContinueWrite, A, AttOK, GoodRow, AttemptRow
  <2> QED BY <2>1, <2>2 DEF A, Heard
<1>29. ASSUME NEW f \in Fencers, NEW a \in Attempts, FenceClaim(f, a) PROVE Heard(b)
  <2>1. C
    BY <1>29 DEF FenceClaim, C, ChildOK, ChildRow
  <2>2. A
    BY <1>29 DEF FenceClaim, A, AttOK, GoodRow, AttemptRow
  <2> QED BY <2>1, <2>2, <1>a
<1>30. ASSUME NEW f \in Fencers, Retire(f) PROVE Heard(b)
  <2>1. C
    BY <1>30 DEF Retire, C, ChildOK, ChildRow
  <2>2. A
    BY <1>30, <1>b DEF Retire
  <2> QED BY <2>1, <2>2, <1>a
<1>31. ASSUME NEW f \in Fencers, FenceComplete(f) PROVE Heard(b)
  <2>1. C
    BY <1>31 DEF FenceComplete, C, ChildOK, ChildRow
  <2>2. A
    BY <1>31 DEF FenceComplete, A, AttOK, GoodRow, AttemptRow
  <2> QED BY <2>1, <2>2, <1>a
<1>32. ASSUME ReconcileTimeouts PROVE Heard(b)
  <2>1. C
    BY <1>32 DEF ReconcileTimeouts, RecoveredTurn, C, ChildOK, ChildRow
  <2>2. A
    BY <1>32 DEF ReconcileTimeouts, Recovered, A, AttOK, GoodRow, AttemptRow
  <2> QED BY <2>1, <2>2, <1>a
<1>33. ASSUME Crash PROVE Heard(b)
  <2>1. C
    BY <1>33 DEF Crash, C, ChildOK, ChildRow
  <2>2. A
    BY <1>33, <1>b DEF Crash
  <2> QED BY <2>1, <2>2, <1>a
<1>34. ASSUME Restart PROVE Heard(b)
  <2>1. C
    BY <1>34 DEF Restart, C, ChildOK, ChildRow
  <2>2. A
    BY <1>34, <1>b DEF Restart
  <2> QED BY <2>1, <2>2, <1>a
<1>35. ASSUME ParentCloses PROVE Heard(b)
  <2>1. C
    BY <1>35, <1>b DEF ParentCloses
  <2>2. A
    BY <1>35 DEF ParentCloses, A, AttOK, GoodRow, AttemptRow
  <2> QED BY <2>1, <2>2, <1>a
<1>36. ASSUME ParentGates PROVE Heard(b)
  <2>1. child' = child /\ att' = att
    BY <1>36 DEF ParentGates
  <2> QED BY <2>1, <1>a, <1>b
<1>37. ASSUME ParentResumes PROVE Heard(b)
  <2>1. child' = child /\ att' = att
    BY <1>37 DEF ParentResumes
  <2> QED BY <2>1, <1>a, <1>b
<1>38. CASE UNCHANGED vars
  BY <1>38, <1>a, <1>b DEF vars
<1> QED BY <1>1, <1>2, <1>3, <1>4, <1>5, <1>6, <1>7, <1>8, <1>9, <1>10, <1>11, <1>12, <1>13, <1>14, <1>15, <1>16, <1>17, <1>18, <1>19, <1>20, <1>21, <1>22, <1>23, <1>24, <1>25, <1>26, <1>27, <1>28, <1>29, <1>30, <1>31, <1>32, <1>33, <1>34, <1>35, <1>36, <1>37, <1>38
  DEF Next, JobStep, FenceStep

(* From the claim of its fence on, nothing is pasted to the child, no turn *)
(* of it is admitted and no result of it accepted, whatever the sender,    *)
(* the dispatcher, the child and stale writers were doing                  *)
(* (claim_managed_attempt_fence).                                          *)
THEOREM Silent == Spec => NothingAfterFence
<1>1. ASSUME IInv, [Next]_vars, NEW a \in Attempts, Revoked(a)
      PROVE  /\ job.a = a /\ job.step = "paste" => job'.step # "mark"
             /\ ~child[a].pasted => ~child'[a].pasted
             /\ ~child[a].receipt => ~child'[a].receipt
             /\ att'[a].status = "claimed" => att[a].status = "claimed"
  <2>1. ~Paste(a) /\ ~Admit(a) /\ ~Submit(a)
    BY <1>1, Dead
  <2>2. Heard(a)
    BY <1>1, NextHeard
  <2>3. ~(job.a = a /\ job.step = "paste")
    BY <1>1 DEF IInv, AttemptInv, Cut, Holding, Pasting
  <2> QED BY <2>1, <2>2, <2>3 DEF Heard
<1>2. IInv /\ [Next]_vars => [\A a \in Attempts : Revoked(a) =>
          /\ job.a = a /\ job.step = "paste" => job'.step # "mark"
          /\ ~child[a].pasted => ~child'[a].pasted
          /\ ~child[a].receipt => ~child'[a].receipt
          /\ att'[a].status = "claimed" => att[a].status = "claimed"]_vars
  BY <1>1
<1> QED BY <1>2, Invariance, PTL DEF Spec, NothingAfterFence

-----------------------------------------------------------------------------
(* The capacity of the providers (ProviderCapacity), for any number of     *)
(* terminals, turns, limits and attempts.                                  *)

(* What the argument needs of the types: terminals hold numbers of turns.  *)
TurnRow == [n : Nat, st : {"done", "queued", "claimed", "sent", "cancelled"},
            settled : BOOLEAN, tries : Int, receipt : BOOLEAN]
Capacity == limit \in Nat /\ lease \in [Terminals -> Nat] /\ turn \in [Terminals -> TurnRow]
Holders == {t \in Terminals : lease[t] # 0}

LEMMA FewerHolders ==
  ASSUME Holders' \subseteq Holders
  PROVE  ~(InUse(lease') > InUse(lease))
<1>1. IsFiniteSet(Holders) /\ Cardinality(Holders) \in Nat
  BY CapacityAssumption, FS_Subset, FS_CardinalityType DEF Holders
<1>2. Cardinality(Holders') <= Cardinality(Holders) /\ Cardinality(Holders') \in Nat
  BY <1>1, FS_Subset, FS_CardinalityType
<1>3. InUse(lease') = Cardinality(Holders') /\ InUse(lease) = Cardinality(Holders)
  BY DEF InUse, Holders
<1> QED BY <1>1, <1>2, <1>3

LEMMA OneMoreHolder ==
  ASSUME NEW t, limit \in Nat, Holders' \subseteq Holders \cup {t}, ~Full
  PROVE  InUse(lease') <= limit
<1>1. IsFiniteSet(Holders) /\ Cardinality(Holders) \in Nat
  BY CapacityAssumption, FS_Subset, FS_CardinalityType DEF Holders
<1>2. /\ IsFiniteSet(Holders \cup {t}) /\ Cardinality(Holders \cup {t}) \in Nat
      /\ Cardinality(Holders \cup {t}) <= Cardinality(Holders) + 1
  BY <1>1, FS_AddElement, FS_CardinalityType
<1>3. Cardinality(Holders') <= Cardinality(Holders \cup {t}) /\ Cardinality(Holders') \in Nat
  BY <1>2, FS_Subset, FS_CardinalityType
<1>4. InUse(lease') = Cardinality(Holders') /\ InUse(lease) = Cardinality(Holders)
  BY DEF InUse, Holders
<1>5. Cardinality(Holders) < limit
  BY <1>1, <1>4 DEF Full
<1> QED BY <1>1, <1>2, <1>3, <1>4, <1>5

(* A slot is given to who has it, or while one is free.                    *)
LEMMA Granted ==
  ASSUME Capacity, NEW t, NEW n, Acquire(t, n)
  PROVE  Holders' \subseteq Holders \/ InUse(lease') <= limit
<1>1. CASE Decision(t, n) = "acquired"
  <2>1. lease' = [lease EXCEPT ![t] = n]
    BY <1>1 DEF Acquire
  <2>2. lease[t] = n \/ ~Full
    BY <1>1 DEF Decision
  <2>3. \A u \in Terminals : u # t => lease'[u] = lease[u]
    BY <2>1 DEF Capacity
  <2>4. CASE lease[t] = n
    <3>1. \A u \in Terminals : lease'[u] = lease[u]
      BY <2>1, <2>4 DEF Capacity
    <3> QED BY <3>1 DEF Holders
  <2>5. CASE ~Full
    <3>1. Holders' \subseteq Holders \cup {t}
      BY <2>3 DEF Holders
    <3> QED BY <2>5, <3>1, OneMoreHolder DEF Capacity
  <2> QED BY <2>2, <2>4, <2>5
<1>2. CASE Decision(t, n) # "acquired"
  BY <1>2 DEF Acquire, Holders
<1> QED BY <1>1, <1>2

(* A slot that is taken away, or not touched.                              *)
LEMMA Freed ==
  ASSUME Capacity, NEW t, NEW n,
         lease' \in {lease, Released(t, n), [lease EXCEPT ![t] = 0]}
  PROVE  Holders' \subseteq Holders /\ lease' \in [Terminals -> Nat]
<1>1. lease' = lease \/ lease' = [lease EXCEPT ![t] = 0]
  BY DEF Released
<1>2. lease' \in [Terminals -> Nat] /\ \A u \in Terminals : lease'[u] # 0 => lease[u] # 0
  BY <1>1 DEF Capacity
<1> QED BY <1>2 DEF Holders

(* What the rows of the turns become.                                      *)
LEMMA RowWritten ==
  ASSUME turn \in [Terminals -> TurnRow], NEW t, NEW r, turn' = [turn EXCEPT ![t] = r],
         t \in Terminals => r \in TurnRow
  PROVE  turn' \in [Terminals -> TurnRow]
OBVIOUS

(* A row that is written anew, field by field.                             *)
LEMMA RowReset ==
  ASSUME NEW q \in TurnRow
  PROVE  /\ [q EXCEPT !.st = "cancelled", !.settled = FALSE, !.tries = 0, !.receipt = FALSE] \in TurnRow
         /\ [q EXCEPT !.st = "sent", !.receipt = TRUE, !.settled = FALSE, !.tries = 0] \in TurnRow
<1> DEFINE k == 0
<1>1. k \in Int
  OBVIOUS
<1> HIDE DEF k
<1>2. /\ [q EXCEPT !.st = "cancelled", !.settled = FALSE, !.tries = k, !.receipt = FALSE] \in TurnRow
      /\ [q EXCEPT !.st = "sent", !.receipt = TRUE, !.settled = FALSE, !.tries = k] \in TurnRow
  BY <1>1 DEF TurnRow
<1> QED BY <1>2 DEF k

LEMMA RowClosed ==
  ASSUME turn \in [Terminals -> TurnRow], NEW t, turn' = Closed(t)
  PROVE  turn' \in [Terminals -> TurnRow]
<1> DEFINE r == [turn[t] EXCEPT !.st = "cancelled", !.settled = FALSE, !.tries = 0,
                                !.receipt = FALSE]
<1>1. ASSUME t \in Terminals PROVE r \in TurnRow
  <2>1. turn[t] \in TurnRow
    BY <1>1
  <2> QED BY <2>1, RowReset
<1>2. turn' = [turn EXCEPT ![t] = r]
  BY DEF Closed
<1> HIDE DEF r
<1> QED BY <1>1, <1>2, RowWritten

LEMMA RowRequeued ==
  ASSUME turn \in [Terminals -> TurnRow], NEW t, NEW why \in BOOLEAN, turn' = Requeued(t, why)
  PROVE  turn' \in [Terminals -> TurnRow]
<1>1. CASE Exhausted(t)
  BY <1>1, RowClosed DEF Requeued
<1>2. CASE ~Exhausted(t)
  <2> DEFINE r == [turn[t] EXCEPT !.st = "queued", !.settled = why \/ turn[t].settled]
  <2>1. t \in Terminals => r \in TurnRow
    <3>1. t \in Terminals => (why \/ turn[t].settled) \in BOOLEAN
      BY DEF TurnRow
    <3> QED BY <3>1 DEF TurnRow
  <2>2. turn' = [turn EXCEPT ![t] = r]
    BY <1>2 DEF Requeued
  <2> HIDE DEF r
  <2> QED BY <2>1, <2>2, RowWritten
<1> QED BY <1>1, <1>2

LEMMA RowCounted ==
  ASSUME turn \in [Terminals -> TurnRow], NEW t, NEW st \in {"queued", "claimed"}, NEW d \in {1, -1},
         turn' = [turn EXCEPT ![t].st = st, ![t].tries = turn[t].tries + d]
  PROVE  turn' \in [Terminals -> TurnRow]
<1> DEFINE r == [turn[t] EXCEPT !.st = st, !.tries = turn[t].tries + d]
<1>1. t \in Terminals => r \in TurnRow
  BY DEF TurnRow
<1>2. turn' = [turn EXCEPT ![t] = r]
  OBVIOUS
<1> HIDE DEF r
<1> QED BY <1>1, <1>2, RowWritten

LEMMA CapacityInit == CInit => Capacity
<1> SUFFICES ASSUME CInit PROVE Capacity
  OBVIOUS
<1>1. PICK old \in SUBSET Legacy : Start(old)
  BY DEF CInit
<1>2. lease \in [Terminals -> Nat]
  BY <1>1 DEF Start
<1>3. turn \in [Terminals -> TurnRow]
  BY <1>1 DEF Start, TurnRow
<1> QED BY <1>2, <1>3 DEF CInit, Capacity

Growth == InUse(lease') > InUse(lease) =>
            \/ InUse(lease') <= limit
            \/ \E t \in Terminals : ~turn[t].receipt /\ turn'[t].receipt /\ turn[t].settled

(* Every step keeps the types, and gives a slot only within the limit or   *)
(* to a receipt of an execution that had begun.                            *)
LEMMA CapacityStep == Capacity /\ CNext => Capacity' /\ Growth
<1> SUFFICES ASSUME Capacity, CNext PROVE Capacity' /\ Growth
  OBVIOUS
<1>l. limit \in Nat /\ lease \in [Terminals -> Nat] /\ turn \in [Terminals -> TurnRow]
  BY DEF Capacity
<1>k. ASSUME lease' = lease PROVE Growth
  <2>1. Holders' \subseteq Holders
    BY <1>k DEF Holders
  <2> QED BY <2>1, FewerHolders DEF Growth
<1>f. ASSUME NEW t, NEW n, lease' \in {lease, Released(t, n), [lease EXCEPT ![t] = 0]}
      PROVE  lease' \in [Terminals -> Nat] /\ Growth
  BY <1>f, Freed, FewerHolders DEF Growth
<1>g. ASSUME NEW t, NEW n, Acquire(t, n)
      PROVE  Growth
  BY <1>g, Granted, FewerHolders DEF Growth
<1>1. CASE SetLimit
  <2>1. limit' \in Nat /\ lease' = lease /\ turn' = turn
    BY <1>1, CapacityAssumption DEF SetLimit, rows
  <2> QED BY <1>l, <1>k, <2>1 DEF Capacity
<1>2. CASE Wake
  BY <1>2, <1>l, <1>k DEF Wake, rows, Capacity
<1>3. CASE Take
  <2>1. limit' = limit /\ lease' = lease
    BY <1>3 DEF Take
  <2> DEFINE t == Head(scan.todo)
  <2>2. turn' = turn \/ turn' = [turn EXCEPT ![t].st = "claimed", ![t].tries = turn[t].tries + 1]
    BY <1>3 DEF Take
  <2> HIDE DEF t
  <2>3. turn' \in [Terminals -> TurnRow]
    <3>1. CASE turn' = turn
      BY <1>l, <3>1
    <3>2. CASE turn' = [turn EXCEPT ![t].st = "claimed", ![t].tries = turn[t].tries + 1]
      <4> DEFINE st == "claimed"
                 d == 1
      <4>1. st \in {"queued", "claimed"} /\ d \in {1, -1}
        OBVIOUS
      <4>2. turn' = [turn EXCEPT ![t].st = st, ![t].tries = turn[t].tries + d]
        BY <3>2
      <4> QED BY <1>l, <4>1, <4>2, RowCounted
    <3> QED BY <2>2, <3>1, <3>2
  <2> QED BY <1>l, <1>k, <2>1, <2>3 DEF Capacity
<1>4. CASE AskSlot
  <2> DEFINE t == scan.at
             n == turn[t].n
  <2>1. limit' = limit /\ Acquire(t, n)
    BY <1>4 DEF AskSlot
  <2>2. turn' = turn \/ turn' = [turn EXCEPT ![t].st = "queued", ![t].tries = turn[t].tries - 1]
    BY <1>4 DEF AskSlot
  <2>n. t \in Terminals => n \in Nat
    BY <1>l DEF TurnRow
  <2> HIDE DEF t, n
  <2>3. turn' \in [Terminals -> TurnRow]
    <3>1. CASE turn' = turn
      BY <1>l, <3>1
    <3>2. CASE turn' = [turn EXCEPT ![t].st = "queued", ![t].tries = turn[t].tries - 1]
      <4> DEFINE r == [turn[t] EXCEPT !.st = "queued", !.tries = turn[t].tries - 1]
      <4>1. ASSUME t \in Terminals PROVE r \in TurnRow
        <5>1. turn[t] \in TurnRow
          BY <1>l, <4>1
        <5>2. turn[t].tries - 1 \in Int
          BY <5>1 DEF TurnRow
        <5> DEFINE k == turn[t].tries - 1
        <5> HIDE DEF k
        <5>3. r = [turn[t] EXCEPT !.st = "queued", !.tries = k]
          BY DEF k
        <5> HIDE DEF r
        <5> QED BY <5>1, <5>2, <5>3 DEF TurnRow, k
      <4>2. turn' = [turn EXCEPT ![t] = r]
        BY <3>2
      <4> HIDE DEF r
      <4> QED BY <1>l, <4>1, <4>2, RowWritten
    <3> QED BY <2>2, <3>1, <3>2
  <2>4. lease' \in [Terminals -> Nat]
    <3>1. lease' = lease \/ lease' = [lease EXCEPT ![t] = n]
      BY <2>1 DEF Acquire
    <3> QED BY <1>l, <2>n, <3>1
  <2> QED BY <1>l, <1>g, <2>1, <2>3, <2>4 DEF Capacity
<1>5. CASE PasteTurn
  <2> DEFINE t == scan.at
             n == turn[t].n
  <2>1. limit' = limit /\ lease' \in {lease, Released(t, n)}
    BY <1>5 DEF PasteTurn
  <2>2. turn' = turn \/ turn' = [turn EXCEPT ![t].st = "sent"] \/ turn' = Requeued(t, FALSE)
    BY <1>5 DEF PasteTurn
  <2> HIDE DEF t, n
  <2>3. turn' \in [Terminals -> TurnRow]
    <3>1. CASE turn' = turn
      BY <1>l, <3>1
    <3>2. CASE turn' = [turn EXCEPT ![t].st = "sent"]
      BY <1>l, <3>2 DEF TurnRow
    <3>3. CASE turn' = Requeued(t, FALSE)
      BY <1>l, <3>3, RowRequeued
    <3> QED BY <2>2, <3>1, <3>2, <3>3
  <2> QED BY <1>l, <1>f, <2>1, <2>3 DEF Capacity
<1>6. CASE Probe
  <2>1. limit' = limit
    BY <1>6 DEF Probe
  <2>2. CASE UNCHANGED <<turn, lease>>
    BY <1>l, <1>k, <2>1, <2>2 DEF Capacity
  <2>3. CASE Cancel(look.at)
    <3>1. lease' = [lease EXCEPT ![look.at] = 0] /\ turn' = Closed(look.at)
      BY <2>3 DEF Cancel
    <3> QED BY <1>l, <1>f, <2>1, <3>1, RowClosed DEF Capacity
  <2> QED BY <1>6, <2>2, <2>3 DEF Probe
<1>7. CASE GiveBack
  <2> DEFINE t == look.at
             n == look.saw
  <2>1. UNCHANGED <<limit, turn>> /\ lease' \in {lease, Released(t, n)}
    BY <1>7 DEF GiveBack
  <2> HIDE DEF t, n
  <2>2. lease' \in [Terminals -> Nat] /\ Growth
    BY <1>f, <2>1
  <2> QED BY <1>l, <2>1, <2>2 DEF Capacity
<1>8. CASE PutBack
  <2>1. limit' = limit /\ lease' = lease /\ (turn' = turn \/ turn' = Requeued(look.at, TRUE))
    BY <1>8 DEF PutBack
  <2>2. turn' \in [Terminals -> TurnRow]
    BY <1>l, <2>1, RowRequeued
  <2> QED BY <1>l, <1>k, <2>1, <2>2 DEF Capacity
<1>9. CASE SettleExited
  <2>1. limit' = limit
    BY <1>9 DEF SettleExited
  <2>2. CASE UNCHANGED <<lease, wf, turn>>
    BY <1>l, <1>k, <2>1, <2>2 DEF Capacity
  <2>3. CASE Cancel(retire)
    <3>1. lease' = [lease EXCEPT ![retire] = 0] /\ turn' = Closed(retire)
      BY <2>3 DEF Cancel
    <3> QED BY <1>l, <1>f, <2>1, <3>1, RowClosed DEF Capacity
  <2> QED BY <1>9, <2>2, <2>3 DEF SettleExited
<1>10. ASSUME NEW t \in Terminals, NewTurn(t)
       PROVE  Capacity' /\ Growth
  <2> DEFINE r == [n |-> turn[t].n + 1, st |-> "queued", settled |-> FALSE, tries |-> 0,
                   receipt |-> FALSE]
  <2>1. r \in TurnRow
    BY <1>l DEF TurnRow
  <2>2. turn' = [turn EXCEPT ![t] = r] /\ limit' = limit /\ lease' = lease
    BY <1>10 DEF NewTurn
  <2> HIDE DEF r
  <2>3. turn' \in [Terminals -> TurnRow]
    BY <1>l, <2>1, <2>2, RowWritten
  <2> QED BY <1>l, <1>k, <2>2, <2>3 DEF Capacity
<1>11. ASSUME NEW t \in Terminals, Begin(t) \/ Die(t) \/ Look(t) \/ ClaimExited(t) \/ ContinuationEnds(t)
       PROVE  Capacity' /\ Growth
  <2>1. UNCHANGED <<limit, lease, turn>>
    BY <1>11 DEF Begin, Die, Look, ClaimExited, ContinuationEnds, rows
  <2> QED BY <1>l, <1>k, <2>1 DEF Capacity
<1>12. ASSUME NEW t \in Terminals, Receipt(t)
       PROVE  Capacity' /\ Growth
  <2> DEFINE r == [turn[t] EXCEPT !.st = "sent", !.receipt = TRUE, !.settled = FALSE, !.tries = 0]
  <2>0. turn[t] \in TurnRow
    BY <1>l
  <2>1. r \in TurnRow /\ r.receipt = TRUE /\ turn[t].n \in Nat
    <3>1. r \in TurnRow
      BY <2>0, RowReset
    <3>2. r.receipt = TRUE /\ turn[t].n \in Nat
      BY <2>0 DEF TurnRow
    <3> QED BY <3>1, <3>2
  <2>2. turn' = [turn EXCEPT ![t] = r] /\ limit' = limit /\ ~turn[t].receipt
        /\ lease' = IF Restores(t) THEN [lease EXCEPT ![t] = turn[t].n] ELSE lease
    BY <1>12 DEF Receipt
  <2> HIDE DEF r
  <2>3. turn' \in [Terminals -> TurnRow] /\ turn'[t].receipt = TRUE
    BY <1>l, <2>1, <2>2
  <2>4. lease' \in [Terminals -> Nat]
    BY <1>l, <2>1, <2>2
  <2>5. Growth
    <3>1. CASE Restores(t)
      BY <2>2, <2>3, <3>1 DEF Restores, Growth
    <3>2. CASE ~Restores(t)
      BY <1>k, <2>2, <3>2
    <3> QED BY <3>1, <3>2
  <2> QED BY <1>l, <2>2, <2>3, <2>4, <2>5 DEF Capacity
<1>13. ASSUME NEW t \in Terminals, Complete(t)
       PROVE  Capacity' /\ Growth
  BY <1>13, <1>l, <1>k, RowClosed DEF Complete, Capacity
<1>14. ASSUME NEW t \in Terminals, Finish(t)
       PROVE  Capacity' /\ Growth
  <2>1. limit' = limit /\ lease' = lease /\ (turn' = turn \/ turn' = [turn EXCEPT ![t].st = "done"])
    BY <1>14 DEF Finish
  <2>2. turn' \in [Terminals -> TurnRow]
    BY <1>l, <2>1 DEF TurnRow
  <2> QED BY <1>l, <1>k, <2>1, <2>2 DEF Capacity
<1>15. ASSUME NEW t \in Terminals, Lend(t)
       PROVE  Capacity' /\ Growth
  <2> DEFINE n == turn[t].n
  <2>1. UNCHANGED <<limit, turn>> /\ lease' \in {lease, Released(t, n)}
    BY <1>15 DEF Lend
  <2> HIDE DEF n
  <2>2. lease' \in [Terminals -> Nat] /\ Growth
    BY <1>f, <2>1
  <2> QED BY <1>l, <2>1, <2>2 DEF Capacity
<1>16. ASSUME NEW t \in Terminals, Resume(t)
       PROVE  Capacity' /\ Growth
  <2>1. UNCHANGED <<limit, turn>> /\ (lease' = lease \/ Acquire(t, turn[t].n))
    BY <1>16 DEF Resume
  <2>2. turn[t].n \in Nat
    BY <1>l DEF TurnRow
  <2>3. lease' \in [Terminals -> Nat]
    BY <1>l, <2>1, <2>2 DEF Acquire
  <2> QED BY <1>l, <1>k, <1>g, <2>1, <2>3 DEF Capacity
<1> QED BY <1>1, <1>2, <1>3, <1>4, <1>5, <1>6, <1>7, <1>8, <1>9, <1>10, <1>11, <1>12, <1>13, <1>14,
           <1>15, <1>16 DEF CNext

(* acquire_provider_execution_decision counts the slots in the transaction *)
(* that takes one: slots in use grow beyond the limit only by the receipt  *)
(* of an execution that had begun before its slot was given back.          *)
THEOREM SlotsWithinLimit == CSpec => WithinLimit
<1>1. Capacity /\ [CNext]_cvars => Capacity'
  <2>1. Capacity /\ UNCHANGED cvars => Capacity'
    BY DEF Capacity, cvars
  <2> QED BY <2>1, CapacityStep
<1>2. CSpec => []Capacity
  BY CapacityInit, <1>1, PTL DEF CSpec
<1>3. Capacity /\ [CNext]_cvars => [Growth]_cvars
  BY CapacityStep
<1> QED BY <1>2, <1>3, PTL DEF CSpec, WithinLimit, Growth

(* get_terminal reads the lease before it looks at the pane and releases   *)
(* what it read: the slot of a turn queued after the look is not freed.    *)
THEOREM LateRelease == CSpec => SuccessorKept
<1> DEFINE Kept == \A t \in Terminals :
               look.step = "release" /\ look'.step # "release" /\ lease[t] # lease'[t]
                 => t = look.at /\ lease[t] = look.saw
<1>1. ASSUME Capacity, [CNext]_cvars
      PROVE  [Kept]_cvars
  <2> SUFFICES ASSUME CNext, look.step = "release", look'.step # "release", NEW t \in Terminals,
                      lease[t] # lease'[t]
               PROVE  t = look.at /\ lease[t] = look.saw
    BY <1>1
  <2>1. GiveBack
    <3>1. look' # look
      OBVIOUS
    <3> QED BY <3>1 DEF CNext, SetLimit, Wake, Take, AskSlot, PasteTurn, Probe, PutBack, SettleExited,
                        NewTurn, Begin, Receipt, Complete, Finish, Die, Lend, Look, ClaimExited,
                        Resume, ContinuationEnds, loops
  <2>2. lease' = Released(look.at, look.saw)
    BY <2>1 DEF GiveBack
  <2> QED BY <1>1, <2>2 DEF Released, Capacity
<1>2. CSpec => []Capacity
  <2>1. Capacity /\ [CNext]_cvars => Capacity'
    <3>1. Capacity /\ UNCHANGED cvars => Capacity'
      BY DEF Capacity, cvars
    <3> QED BY <3>1, CapacityStep
  <2> QED BY CapacityInit, <2>1, PTL DEF CSpec
<1> QED BY <1>1, <1>2, PTL DEF CSpec, SuccessorKept
=============================================================================
