-------------------------- MODULE ManagedAttempts --------------------------
(***************************************************************************)
(* The life of a managed handoff attempt (managed_attempt_lifecycle,       *)
(* child_assignments and the child's own workflow in clients/database.py;  *)
(* services/managed_attempt_service.py; the handoff tool in                *)
(* mcp_server/server.py).                                                  *)
(*                                                                         *)
(* A parent registers an attempt, binds the child's first turn to it and   *)
(* has the server paste the prompt.  A prompt that is not admitted before  *)
(* its deadline buys one retry to the same child; after that the attempt   *)
(* is fenced: first logically, in one transaction, then physically, by     *)
(* retiring the child's runtime, and only then may the parent be woken and *)
(* replace the attempt.                                                    *)
(*                                                                         *)
(* Every step is one transaction or one call to tmux.  requeue_workflow_   *)
(* turn and schedule_managed_handoff_continuation read in one step and     *)
(* write in a later one, because they do not begin with BEGIN IMMEDIATE.   *)
(* Each attempt here has a child terminal of its own (reviewers, which may *)
(* be used again, are not modelled); reason codes are left out; a live     *)
(* holder of the pane finishes within its 30 second token, so that only    *)
(* the token of a dead process expires.                                    *)
(* Operators that no action uses are faulty variants of their neighbours,  *)
(* with which the properties are tested.                                   *)
(***************************************************************************)
EXTENDS Naturals, FiniteSets

CONSTANTS MaxAttempts,   \* bound: attempts ever registered
          MaxCycles,     \* handoff continuations of one attempt (2 in the code)
          MaxTransport,  \* claims of one turn before its owner gate (3 in the code)
          MaxClaims,     \* bound: claims of one turn that may be counted
          MaxFaults      \* bound: server crashes and deaths of a delegator

ASSUME BoundAssumption ==
    /\ MaxAttempts \in Nat /\ MaxCycles \in Nat
    /\ MaxTransport \in Nat /\ MaxClaims \in Nat /\ MaxFaults \in Nat

VARIABLES parent,   \* status of the parent's workflow
          att,      \* assignments with their lifecycle rows
          child,    \* the attempt's child: workflow, bound turn, terminal row, runtime
          spc,      \* the delegator's tool call, per attempt
          job,      \* who holds the workflow-execution admission fence, and where it is
          settled,  \* attempts whose lease an observer released as settled
          cont,     \* what a continuation read and has not yet written
          fencer,   \* the two that may run fence_managed_attempt
          up, faults

vars == <<parent, att, child, spc, job, settled, cont, fencer, up, faults>>

Attempts == 1..MaxAttempts
Fencers  == {"daemon", "owner"}   \* reconcile_managed_attempt_fences; the tool

AssignmentStatus == {"none", "awaiting", "recovering", "claimed", "reported",
                     "cancelled", "fenced"}
Active  == {"awaiting", "recovering", "claimed", "reported"}
Waiting == {"awaiting", "recovering"}
LifeStates == {"none", "created", "scheduled", "acknowledged", "admitted",
               "recovery", "fence_pending", "fence_claimed", "fenced", "failed", "completed"}
TerminalStates == {"fenced", "failed", "completed"}   \* _MANAGED_ATTEMPT_TERMINAL_STATES
Watched == {"scheduled", "acknowledged", "recovery"}

AttemptRow == [status : AssignmentStatus, life : LifeStates, admitted : BOOLEAN,
               tries : 0..1, due : {"none", "set", "past"},
               replaced : BOOLEAN, woken : BOOLEAN]
(* op: the runtime-operation token; "orphan" and "lapsed" are transport      *)
(* tokens of a dead process, before and after their expiry, "retired" is no  *)
(* token on a terminal whose runtime_lifecycle is recovery_fenced.           *)
(* n counts the attempt's turns; state, receipt, claims, reason and pasted   *)
(* are those of the last one.  writer stands for the writer lease,           *)
(* write_enabled and the bearer token, which live and die together here.     *)
ChildRow == [wf : {"none", "open", "gate", "terminal", "cancelled"},
             n : 0..MaxCycles + 1,
             state : {"none", "queued", "claimed", "sent", "cancelled"},
             settledReason : BOOLEAN, receipt : BOOLEAN, claims : 0..MaxClaims,
             pasted : BOOLEAN, lease : BOOLEAN,
             op : {"none", "transport", "orphan", "lapsed", "fence", "retired"},
             alive : BOOLEAN, writer : BOOLEAN]
JobSteps == {"idle", "slot", "op", "paste", "mark", "unlock", "failed", "unlockFailed",
             "retain", "requeue", "write"}
Read == [life : LifeStates, tries : 0..1]

TypeOK ==
    /\ parent \in {"open", "gate", "closed"}
    /\ att \in [Attempts -> AttemptRow] /\ child \in [Attempts -> ChildRow]
    /\ \A a \in Attempts : att[a].life \in TerminalStates \cup {"fence_pending", "fence_claimed"}
                             => att[a].due = "none"
    /\ spc \in [Attempts -> {"none", "registered", "issued", "bound", "sending", "failed", "over"}]
    /\ job \in [step : JobSteps, by : {"none", "sender", "dispatcher"}, a : 0..MaxAttempts,
                read : Read]
    /\ settled \in SUBSET Attempts
    /\ cont \in [Attempts -> {"none", "awaiting", "recovering"}]
    /\ fencer \in [Fencers -> [step : {"idle", "retire", "complete"}, a : 0..MaxAttempts]]
    /\ up \in BOOLEAN /\ faults \in 0..MaxFaults

NoRead == [life |-> "none", tries |-> 0]
NoJob  == [step |-> "idle", by |-> "none", a |-> 0, read |-> NoRead]
NoAttempt == [status |-> "none", life |-> "none", admitted |-> FALSE, tries |-> 0,
              due |-> "none", replaced |-> FALSE, woken |-> FALSE]
NoChild == [wf |-> "none", n |-> 0, state |-> "none", settledReason |-> FALSE,
            receipt |-> FALSE, claims |-> 0, pasted |-> FALSE, lease |-> FALSE,
            op |-> "none", alive |-> FALSE, writer |-> FALSE]
Resting == [step |-> "idle", a |-> 0]

Init == /\ parent = "open"
        /\ att = [a \in Attempts |-> NoAttempt] /\ child = [a \in Attempts |-> NoChild]
        /\ spc = [a \in Attempts |-> "none"]
        /\ job = NoJob /\ settled = {} /\ cont = [a \in Attempts |-> "none"]
        /\ fencer = [f \in Fencers |-> Resting]
        /\ up = TRUE /\ faults = 0

Registered == {a \in Attempts : att[a].status # "none"}

-----------------------------------------------------------------------------
(* The delegator.                                                            *)

(* register_handoff_child -> _register_child_attempt, for a terminal that    *)
(* was just created.                                                         *)
Register(a) ==
    /\ parent = "open"
    /\ a \notin Registered /\ \A b \in 1..(a - 1) : b \in Registered
    /\ att' = [att EXCEPT ![a].status = "awaiting", ![a].life = "created"]
    /\ child' = [child EXCEPT ![a].alive = TRUE, ![a].writer = TRUE]
    /\ spc' = [spc EXCEPT ![a] = "registered"]
    /\ UNCHANGED <<parent, job, settled, cont, fencer, up, faults>>

(* Mutant: an attempt that is fenced only logically may be replaced.         *)
ReplaceableClaimed(a) == att[a].status = "fenced" /\ ~att[a].replaced
Replaceable(a) == att[a].status = "fenced" /\ att[a].life = "fenced" /\ ~att[a].replaced
(* The same with replaces_assignment_id = a.  The replacement is an attempt  *)
(* like any other; only what it does to the replaced row is a step here.     *)
Replace(a) ==
    /\ parent = "open" /\ Replaceable(a)
    /\ att' = [att EXCEPT ![a].replaced = TRUE]
    /\ UNCHANGED <<parent, child, spc, job, settled, cont, fencer, up, faults>>

(* issue_workflow_input_binding, under the admission fence: the first turn   *)
(* of the child is active and sent before anything is pasted, and belongs to *)
(* the attempt if that still waits for a result.                             *)
Issue(a) ==
    /\ spc[a] = "registered" /\ job.step = "idle"
    /\ IF att[a].status = "awaiting"
       THEN /\ child' = [child EXCEPT ![a].wf = "open", ![a].n = 1, ![a].state = "sent"]
            /\ spc' = [spc EXCEPT ![a] = "issued"]
       ELSE /\ spc' = [spc EXCEPT ![a] = "failed"] /\ UNCHANGED child
    /\ UNCHANGED <<parent, att, job, settled, cont, fencer, up, faults>>

Scheduled(row) == [row EXCEPT !.life = "scheduled", !.due = "set"]

(* bind_child_assignment_input_turn, whatever the lifecycle row says by now. *)
Bind(a) ==
    /\ spc[a] = "issued"
    /\ IF child[a].wf = "open"
       THEN /\ att' = [att EXCEPT ![a] = Scheduled(@)]
            /\ spc' = [spc EXCEPT ![a] = "bound"]
       ELSE /\ spc' = [spc EXCEPT ![a] = "failed"] /\ UNCHANGED att
    /\ UNCHANGED <<parent, child, job, settled, cont, fencer, up, faults>>

(* send_orchestrated_terminal_input: a turn that the queue or the provider   *)
(* already owns is accepted without a paste.                                 *)
Owned(a) == child[a].state \in {"queued", "claimed"} \/ child[a].lease \/ child[a].receipt
SendBegin(a) ==
    /\ up /\ spc[a] = "bound" /\ job.step = "idle"
    /\ IF child[a].wf = "open" /\ ~Owned(a)
       THEN /\ job' = [NoJob EXCEPT !.step = "slot", !.by = "sender", !.a = a]
            /\ spc' = [spc EXCEPT ![a] = "sending"]
       ELSE /\ spc' = [spc EXCEPT ![a] = IF child[a].wf = "open" THEN "over" ELSE "failed"]
            /\ UNCHANGED job
    /\ UNCHANGED <<parent, att, child, settled, cont, fencer, up, faults>>

(* cancel_child_assignment_attempt, after get_workflow_input_binding_        *)
(* delivery has looked for an owner of the input.                            *)
CancelAttempt(a) ==
    /\ spc[a] = "failed"
    /\ spc' = [spc EXCEPT ![a] = "over"]
    /\ att' = IF att[a].status \in Waiting /\ ~Owned(a)
              THEN [att EXCEPT ![a].status = "cancelled"] ELSE att
    /\ UNCHANGED <<parent, child, job, settled, cont, fencer, up, faults>>

(* The delegator's process dies between two of its calls.                    *)
DelegatorDies(a) ==
    /\ spc[a] \in {"registered", "issued", "bound", "failed"} /\ faults < MaxFaults
    /\ spc' = [spc EXCEPT ![a] = "over"] /\ faults' = faults + 1
    /\ UNCHANGED <<parent, att, child, job, settled, cont, fencer, up>>

-----------------------------------------------------------------------------
(* The holder of the admission fence: the server's thread that sends the     *)
(* delegator's prompt, or the dispatcher of queued turns.                    *)

(* claim_workflow_turn (and activate_workflow_turn, for a continuation).     *)
Executable(a) == /\ att[a].status \notin {"cancelled", "fenced"}
                 /\ att[a].life \notin TerminalStates \cup {"fence_claimed", "fence_pending"}
ClaimTurn(a) ==
    /\ up /\ job.step = "idle"
    /\ child[a].wf = "open" /\ child[a].state = "queued" /\ child[a].claims < MaxClaims
    /\ IF Executable(a)
       THEN /\ child' = [child EXCEPT ![a].state = "claimed", ![a].claims = @ + 1]
            /\ job' = [NoJob EXCEPT !.step = "slot", !.by = "dispatcher", !.a = a]
       ELSE /\ child' = [child EXCEPT ![a].state = "cancelled", ![a].wf = "cancelled"]
            /\ UNCHANGED job
    /\ UNCHANGED <<parent, att, spc, settled, cont, fencer, up, faults>>

Refused == IF job.by = "sender" THEN "retain" ELSE "requeue"
At(step, a) == up /\ job.step = step /\ job.a = a

(* acquire_provider_execution_slot; capacity may refuse at any time.         *)
TakeSlot(a) ==
    /\ At("slot", a)
    /\ \/ child' = [child EXCEPT ![a].lease = TRUE] /\ job' = [job EXCEPT !.step = "op"]
       \/ job' = [job EXCEPT !.step = Refused] /\ UNCHANGED child
    /\ UNCHANGED <<parent, att, spc, settled, cont, fencer, up, faults>>

(* acquire_terminal_runtime_transport; a refusal gives the slot back.        *)
TakeOp(a) ==
    /\ At("op", a)
    /\ IF child[a].op \in {"none", "lapsed"}
       THEN /\ child' = [child EXCEPT ![a].op = "transport"]
            /\ job' = [job EXCEPT !.step = "paste"]
       ELSE /\ child' = [child EXCEPT ![a].lease = FALSE]
            /\ job' = [job EXCEPT !.step = Refused]
    /\ UNCHANGED <<parent, att, spc, settled, cont, fencer, up, faults>>

(* workflow_turn_transport_fence, which only claimed turns pass through.     *)
PermittedClaim(a) == /\ child[a].state = "claimed" /\ child[a].wf = "open"
                     /\ child[a].op = "transport" /\ child[a].lease /\ ~child[a].receipt
Permitted(a) == job.by = "sender" \/ PermittedClaim(a)

(* tmux send_keys: it may fail before or after the text arrived.             *)
Paste(a) ==
    /\ At("paste", a)
    /\ \/ /\ Permitted(a) /\ child[a].alive
          /\ child' = [child EXCEPT ![a].pasted = TRUE]
          /\ \E s \in {"mark", "failed"} : job' = [job EXCEPT !.step = s]
       \/ job' = [job EXCEPT !.step = "failed"] /\ UNCHANGED child
    /\ UNCHANGED <<parent, att, spc, settled, cont, fencer, up, faults>>

(* mark_managed_attempt_prompt_delivered.                                    *)
MarkDelivered(a) ==
    /\ At("mark", a)
    /\ att' = IF att[a].life \in TerminalStates \cup {"fence_claimed"} THEN att
              ELSE [att EXCEPT ![a].life = "acknowledged", ![a].due = "set"]
    /\ job' = [job EXCEPT !.step = "unlock"]
    /\ UNCHANGED <<parent, child, spc, settled, cont, fencer, up, faults>>

ReleasedOp(c) == [c EXCEPT !.op = IF @ = "transport" THEN "none" ELSE @]

(* release_terminal_runtime_operation after a delivery, and                  *)
(* mark_workflow_turn_sent for a claimed turn.                               *)
Delivered(a) ==
    /\ At("unlock", a)
    /\ child' = [child EXCEPT ![a] =
         [ReleasedOp(@) EXCEPT !.state = IF child[a].state = "claimed" THEN "sent" ELSE child[a].state]]
    /\ job' = NoJob
    /\ spc' = IF job.by = "sender" THEN [spc EXCEPT ![a] = "over"] ELSE spc
    /\ UNCHANGED <<parent, att, settled, cont, fencer, up, faults>>

(* The finally blocks of send_input after a failed paste: the slot, unless   *)
(* the turn was admitted, then the operation.                                *)
Failed(a) ==
    /\ At("failed", a)
    /\ child' = [child EXCEPT ![a].lease = @ /\ child[a].receipt]
    /\ job' = [job EXCEPT !.step = "unlockFailed"]
    /\ UNCHANGED <<parent, att, spc, settled, cont, fencer, up, faults>>
UnlockFailed(a) ==
    /\ At("unlockFailed", a)
    /\ child' = [child EXCEPT ![a] = ReleasedOp(@)]
    /\ IF job.by = "sender"
       THEN job' = NoJob /\ spc' = [spc EXCEPT ![a] = "failed"]
       ELSE job' = [job EXCEPT !.step = "requeue"] /\ UNCHANGED spc
    /\ UNCHANGED <<parent, att, settled, cont, fencer, up, faults>>

(* _schedule_managed_attempt_recovery_in_transaction, from a lifecycle row   *)
(* read as r: the row and the turn it leaves.                                *)
Undelivered(r) == r.life \notin TerminalStates \cup {"fence_claimed"}
(* Mutant: the retry may be bought again and again.                          *)
RetryAgain(r) == r.tries <= 1
MayRetry(r) == r.tries = 0
Recovered(row, r) == IF MayRetry(r)
                     THEN [row EXCEPT !.life = "recovery", !.tries = 1, !.due = "set"]
                     ELSE [row EXCEPT !.life = "fence_pending", !.due = "none"]
RecoveredTurn(c, r) == [c EXCEPT !.state = IF MayRetry(r) THEN "queued" ELSE "cancelled",
                                 !.settledReason = FALSE]
ReadOf(a) == [life |-> att[a].life, tries |-> att[a].tries]

(* queue_workflow_input_for_provider, after an admission was refused.        *)
Retain(a) ==
    /\ At("retain", a)
    /\ IF child[a].wf = "open" /\ child[a].state = "sent" /\ child[a].n = 1
       THEN /\ IF Undelivered(att[a]) /\ ~att[a].admitted
               THEN /\ att' = [att EXCEPT ![a] = Recovered(@, ReadOf(a))]
                    /\ child' = [child EXCEPT ![a] = RecoveredTurn(@, ReadOf(a))]
                    /\ spc' = [spc EXCEPT ![a] = "over"]
               ELSE /\ spc' = [spc EXCEPT ![a] = "failed"] /\ UNCHANGED <<att, child>>
       ELSE spc' = [spc EXCEPT ![a] = "failed"] /\ UNCHANGED <<att, child>>
    /\ job' = NoJob
    /\ UNCHANGED <<parent, settled, cont, fencer, up, faults>>

(* requeue_workflow_turn by the claimant.  An admitted turn takes the common *)
(* path, whose compare-and-set makes it one step.                            *)
Requeue(a) ==
    /\ At("requeue", a)
    /\ IF child[a].state = "claimed" /\ child[a].wf = "open"
       THEN IF ~att[a].admitted
            THEN /\ job' = [job EXCEPT !.step = "write", !.read = ReadOf(a)]
                 /\ UNCHANGED child
            ELSE /\ job' = NoJob
                 /\ child' = [child EXCEPT
                      ![a].state = IF child[a].claims >= MaxTransport THEN "cancelled" ELSE "queued",
                      ![a].wf = IF child[a].claims >= MaxTransport THEN "gate" ELSE @]
       ELSE job' = NoJob /\ UNCHANGED child
    /\ UNCHANGED <<parent, att, spc, settled, cont, fencer, up, faults>>

(* Its managed branch writes what it derived from the row it has read.       *)
RequeueWrite(a) ==
    /\ At("write", a)
    /\ IF Undelivered(job.read)
       THEN /\ att' = [att EXCEPT ![a] = Recovered(@, job.read)]
            /\ child' = [child EXCEPT ![a] = RecoveredTurn(@, job.read)]
       ELSE UNCHANGED <<att, child>>
    /\ job' = NoJob
    /\ UNCHANGED <<parent, spc, settled, cont, fencer, up, faults>>

JobStep(a) == \/ TakeSlot(a) \/ TakeOp(a) \/ Paste(a) \/ MarkDelivered(a) \/ Delivered(a)
              \/ Failed(a) \/ UnlockFailed(a) \/ Retain(a) \/ Requeue(a) \/ RequeueWrite(a)

-----------------------------------------------------------------------------
(* Time, observers and the restart.                                          *)

DeadlinePasses(a) ==
    /\ att[a].due = "set"
    /\ att' = [att EXCEPT ![a].due = "past"]
    /\ UNCHANGED <<parent, child, spc, job, settled, cont, fencer, up, faults>>

(* reconcile_managed_attempt_timeouts: every overdue row in one transaction. *)
Overdue == {a \in Attempts : /\ att[a].life \in Watched
                             /\ ~att[a].admitted /\ att[a].due = "past"}
Abandoned(a) == att[a].status \notin Active \/ parent # "open"
ReconcileTimeouts ==
    /\ up /\ Overdue # {}
    /\ att' = [a \in Attempts |->
                 IF a \notin Overdue THEN att[a]
                 ELSE IF Abandoned(a) THEN [att[a] EXCEPT !.life = "failed", !.due = "none"]
                 ELSE Recovered(att[a], ReadOf(a))]
    /\ child' = [a \in Attempts |->
                 IF a \notin Overdue THEN child[a]
                 ELSE IF Abandoned(a)
                      THEN [child[a] EXCEPT !.state = IF @ \in {"queued", "claimed"}
                                                      THEN "cancelled" ELSE @]
                 ELSE [RecoveredTurn(child[a], ReadOf(a)) EXCEPT !.lease = FALSE]]
    /\ UNCHANGED <<parent, spc, job, settled, cont, fencer, up, faults>>

(* get_terminal saw a provider that does not process: it releases the lease  *)
(* it had read and, when that turn has no receipt, queues it again.          *)
ReleaseSettled(a) ==
    /\ up /\ child[a].lease /\ ~child[a].receipt
    /\ child' = [child EXCEPT ![a].lease = FALSE]
    /\ settled' = settled \cup {a}
    /\ UNCHANGED <<parent, att, spc, job, cont, fencer, up, faults>>
RequeueSettled(a) ==
    /\ up /\ a \in settled
    /\ settled' = settled \ {a}
    /\ IF /\ child[a].wf = "open" /\ child[a].state \in {"claimed", "sent"}
          /\ ~child[a].lease /\ ~child[a].receipt
       THEN IF child[a].claims >= MaxTransport
            THEN child' = [child EXCEPT ![a].wf = "gate", ![a].state = "cancelled"]
            ELSE child' = [child EXCEPT ![a].state = "queued", ![a].settledReason = TRUE]
       ELSE UNCHANGED child
    /\ UNCHANGED <<parent, att, spc, job, cont, fencer, up, faults>>

(* requeue_expired_workflow_turn_claims: the claimant died.                  *)
RequeueExpired(a) ==
    /\ up /\ child[a].wf = "open" /\ child[a].state = "claimed" /\ job.a # a
    /\ child' = [child EXCEPT ![a].state = "queued"]
    /\ UNCHANGED <<parent, att, spc, job, settled, cont, fencer, up, faults>>

OpExpires(a) ==
    /\ child[a].op = "orphan"
    /\ child' = [child EXCEPT ![a].op = "lapsed"]
    /\ UNCHANGED <<parent, att, spc, job, settled, cont, fencer, up, faults>>

(* The server dies: its threads vanish, tokens and leases stay.              *)
Crash ==
    /\ up /\ faults < MaxFaults
    /\ up' = FALSE /\ faults' = faults + 1
    /\ job' = NoJob /\ settled' = {} /\ fencer' = [f \in Fencers |-> Resting]
    /\ child' = [a \in Attempts |-> [child[a] EXCEPT !.op = IF @ = "transport" THEN "orphan" ELSE @]]
    /\ spc' = [a \in Attempts |-> IF spc[a] = "sending" THEN "failed" ELSE spc[a]]
    /\ UNCHANGED <<parent, att, cont>>

(* requeue_unadmitted_workflow_turns_for_restart.                            *)
Restart ==
    /\ ~up /\ up' = TRUE
    /\ child' = [a \in Attempts |->
         IF child[a].wf = "open" /\ child[a].state = "sent" /\ ~child[a].receipt /\ ~child[a].lease
         THEN [child[a] EXCEPT !.state = "queued"] ELSE child[a]]
    /\ UNCHANGED <<parent, att, spc, job, settled, cont, fencer, faults>>

-----------------------------------------------------------------------------
(* The child and the parent.                                                 *)

(* claim_or_resume_workflow_turn_receipt, with                               *)
(* _mark_managed_attempt_provider_admitted_in_transaction.                   *)
Admit(a) ==
    /\ child[a].alive /\ child[a].pasted /\ ~child[a].receipt /\ child[a].wf = "open"
    /\ \/ child[a].state \in {"claimed", "sent"}
       \/ child[a].state = "queued" /\ child[a].settledReason
    /\ child' = [child EXCEPT ![a].receipt = TRUE, ![a].settledReason = FALSE,
                   ![a].state = IF child[a].settledReason THEN "sent" ELSE @,
                   ![a].lease = @ \/ child[a].settledReason]
    /\ att' = IF Undelivered(att[a])
              THEN [att EXCEPT ![a].life = "admitted", ![a].admitted = TRUE, ![a].due = "none"]
              ELSE att
    /\ UNCHANGED <<parent, spc, job, settled, cont, fencer, up, faults>>

(* observe_managed_attempt_provider_state, from the workflow tick; running,  *)
(* waiting for a result and admitted are one state here.                     *)
ObserveWorking(a) ==
    /\ up /\ att[a].admitted /\ Undelivered(att[a]) /\ att[a].life # "admitted"
    /\ att' = [att EXCEPT ![a].life = "admitted"]
    /\ UNCHANGED <<parent, child, spc, job, settled, cont, fencer, up, faults>>

(* _submit_handoff_result_v1_once -> _submission_relation, and               *)
(* _finalize_managed_delegation_result.                                      *)
ResultAccepted(a) == /\ att[a].status \in Waiting /\ parent = "open"
                     /\ child[a].wf = "open" /\ child[a].receipt
Submit(a) ==
    /\ up /\ child[a].alive /\ ResultAccepted(a)
    /\ att' = [att EXCEPT ![a].status = "claimed",
                 ![a].life = IF @ \in {"fenced", "completed"} THEN @ ELSE "completed",
                 ![a].due = IF att[a].life \in {"fenced", "completed"} THEN @ ELSE "none"]
    /\ child' = [child EXCEPT ![a].wf = "terminal",
                   ![a].state = IF @ \in {"queued", "claimed"} THEN "cancelled" ELSE @]
    /\ UNCHANGED <<parent, spc, job, settled, cont, fencer, up, faults>>

(* schedule_managed_handoff_continuation: what it reads ...                  *)
ContinueRead(a) ==
    /\ cont[a] = "none"
    /\ att[a].status \in Waiting /\ parent = "open"
    /\ child[a].wf = "open" /\ child[a].receipt
    /\ IF child[a].n <= MaxCycles
       THEN cont' = [cont EXCEPT ![a] = att[a].status] /\ UNCHANGED att
       ELSE /\ att' = [att EXCEPT ![a].status = "reported"]  \* recovery exhausted
            /\ UNCHANGED cont
    /\ UNCHANGED <<parent, child, spc, job, settled, fencer, up, faults>>
(* ... and what it writes later: unchanged columns are not written.          *)
ContinueWrite(a) ==
    /\ cont[a] # "none"
    /\ cont' = [cont EXCEPT ![a] = "none"]
    /\ att' = [att EXCEPT ![a].life = "scheduled", ![a].admitted = FALSE, ![a].tries = 0,
                 ![a].due = "set",
                 ![a].status = IF cont[a] = "awaiting" THEN "recovering" ELSE @]
    /\ child' = [child EXCEPT ![a].n = @ + 1, ![a].state = "queued", ![a].receipt = FALSE,
                   ![a].settledReason = FALSE, ![a].claims = 0, ![a].pasted = FALSE]
    /\ UNCHANGED <<parent, spc, job, settled, fencer, up, faults>>

(* set_workflow_terminal_state of the parent -> _cancel_parent_assignments_  *)
(* for_workflow; a result that was claimed survives.                         *)
ParentCloses ==
    /\ parent # "closed" /\ parent' = "closed"
    /\ att' = [a \in Attempts |->
         IF att[a].status \notin Active \ {"claimed"} THEN att[a]
         ELSE [att[a] EXCEPT !.status = "cancelled",
                             !.life = IF Undelivered(att[a]) THEN "failed" ELSE @,
                             !.due = IF Undelivered(att[a]) THEN "none" ELSE @]]
    /\ UNCHANGED <<child, spc, job, settled, cont, fencer, up, faults>>
ParentGates ==
    /\ parent = "open" /\ parent' = "gate"
    /\ UNCHANGED <<att, child, spc, job, settled, cont, fencer, up, faults>>
ParentResumes ==
    /\ parent = "gate" /\ parent' = "open"
    /\ UNCHANGED <<att, child, spc, job, settled, cont, fencer, up, faults>>

-----------------------------------------------------------------------------
(* fence_managed_attempt.                                                    *)

(* Mutant: a paste in progress does not stop the fence.                      *)
FenceableAny(a) == TRUE
(* Any transport token stops it, an expired one too.                         *)
Fenceable(a) == child[a].op \in {"none", "fence", "retired"}
(* The owner's tool, and the endpoint that older clients use, pass any exact *)
(* attempt of a parent that the owner may recover; the daemon only a fence   *)
(* that is due.                                                              *)
OwnerAsks(f) == f = "owner"
Authorized(f, a) ==
    \/ OwnerAsks(f)
    \/ att[a].life = "fence_claimed"
    \/ att[a].life = "fence_pending" /\ att[a].status \in Active /\ parent = "open"
(* claim_managed_attempt_fence: all logical authority of the attempt ends.   *)
FenceClaim(f, a) ==
    /\ up /\ fencer[f] = Resting
    /\ child[a].n > 0 /\ att[a].life # "created"
    /\ att[a].life \notin {"fenced", "completed"}
    /\ Authorized(f, a) /\ Fenceable(a)
    /\ att' = [att EXCEPT ![a].status = "fenced", ![a].life = "fence_claimed", ![a].due = "none"]
    /\ child' = [child EXCEPT ![a].writer = FALSE, ![a].op = "fence", ![a].lease = FALSE,
                   ![a].wf = "cancelled",
                   ![a].state = IF @ \in {"queued", "claimed", "sent"} THEN "cancelled" ELSE @]
    /\ fencer' = [fencer EXCEPT ![f] = [step |-> "retire", a |-> a]]
    /\ UNCHANGED <<parent, spc, job, settled, cont, up, faults>>

(* _retire_claimed_runtime: the exit command, then a kill; both may fail.    *)
Retire(f) ==
    /\ up /\ fencer[f].step = "retire"
    /\ \/ /\ child' = [child EXCEPT ![fencer[f].a].alive = FALSE]
          /\ fencer' = [fencer EXCEPT ![f].step = "complete"]
       \/ fencer' = [fencer EXCEPT ![f] = Resting] /\ UNCHANGED child
    /\ UNCHANGED <<parent, att, spc, job, settled, cont, up, faults>>

(* complete_managed_attempt_fence; the parent is woken once, and only if its *)
(* workflow is open.                                                         *)
FenceComplete(f) ==
    LET a == fencer[f].a IN
    /\ up /\ fencer[f].step = "complete"
    /\ IF att[a].life = "fence_claimed" /\ child[a].op = "fence"
       THEN /\ att' = [att EXCEPT ![a].life = "fenced",
                                  ![a].woken = @ \/ parent = "open"]
            /\ child' = [child EXCEPT ![a].op = "retired"]
       ELSE UNCHANGED <<att, child>>
    /\ fencer' = [fencer EXCEPT ![f] = Resting]
    /\ UNCHANGED <<parent, spc, job, settled, cont, up, faults>>

(* A fencer claims, retires and completes, and may stop in between.          *)
FenceStep(f) == \/ \E a \in Attempts : FenceClaim(f, a)
                \/ Retire(f) \/ FenceComplete(f)

-----------------------------------------------------------------------------
Next == \/ \E a \in Attempts :
              \/ Register(a) \/ Replace(a) \/ Issue(a) \/ Bind(a) \/ SendBegin(a) \/ CancelAttempt(a) \/ DelegatorDies(a)
              \/ ClaimTurn(a) \/ JobStep(a)
              \/ DeadlinePasses(a) \/ ReleaseSettled(a) \/ RequeueSettled(a)
              \/ RequeueExpired(a) \/ OpExpires(a)
              \/ Admit(a) \/ ObserveWorking(a) \/ Submit(a)
              \/ ContinueRead(a) \/ ContinueWrite(a)
        \/ \E f \in Fencers : FenceStep(f)
        \/ ReconcileTimeouts \/ Crash \/ Restart
        \/ ParentCloses \/ ParentGates \/ ParentResumes

(* The server is restarted, its threads run, its ticks come round again, and *)
(* deadlines pass.  A child need not answer, nor an owner act.               *)
Fairness == /\ WF_vars(Restart) /\ WF_vars(ReconcileTimeouts)
            /\ \A a \in Attempts :
                 /\ WF_vars(DeadlinePasses(a)) /\ WF_vars(OpExpires(a))
                 /\ WF_vars(JobStep(a)) /\ SF_vars(FenceClaim("daemon", a))
                 /\ WF_vars(Bind(a))
            /\ \A f \in Fencers : WF_vars(Retire(f)) /\ WF_vars(FenceComplete(f))

Spec == Init /\ [][Next]_vars /\ Fairness

-----------------------------------------------------------------------------
(* The parent learns of a failed attempt, or replaces it, only when nothing  *)
(* of the old one can act any more: its runtime is gone, its writer lease    *)
(* and bearer token are revoked, its workflow is closed ("Publish physical   *)
(* retirement, revoke the exact writer, and wake once").                     *)
Gone(a) == ~child[a].alive /\ ~child[a].writer /\ child[a].wf = "cancelled"
ReplacedIsGone == \A a \in Attempts : att[a].replaced \/ att[a].woken => Gone(a)

(* From the moment the fence is claimed, whatever the sender, the            *)
(* dispatcher, the child and stale writers were doing: nothing more is       *)
(* pasted to the child, no turn of it is admitted, and no result of it is    *)
(* accepted.                                                                 *)
Revoked(a) == a \in Registered /\ ~child[a].writer
NothingAfterFence ==
    [][\A a \in Attempts : Revoked(a) =>
          /\ job.a = a /\ job.step = "paste" => job'.step # "mark"
          /\ ~child[a].pasted => ~child'[a].pasted
          /\ ~child[a].receipt => ~child'[a].receipt
          /\ att'[a].status = "claimed" => att[a].status = "claimed"]_vars

(* A bound attempt does not wait for its admission for ever: it is admitted, *)
(* ends, or is fenced ("Bound absent admission to one same-child retry and   *)
(* then explicit fencing") - unless a dead process left its transport token  *)
(* on the child, or the parent is not open when the fence is due.            *)
Bound(a) == att[a].life \in Watched
Settled(a) == \/ att[a].admitted \/ att[a].status \in {"cancelled", "fenced"}
              \/ att[a].life \in TerminalStates \cup {"fence_claimed"}
Blocked(a) == child[a].op \in {"orphan", "lapsed"}
ParentWaits(a) == att[a].life = "fence_pending" /\ parent # "open"
AttemptsSettle ==
    \A a \in Attempts : Bound(a) ~> (Settled(a) \/ Blocked(a) \/ ParentWaits(a))
(* Without the exception for the orphaned token.                             *)
AttemptsSettleAlways ==
    \A a \in Attempts : Bound(a) ~> (Settled(a) \/ ParentWaits(a))

=============================================================================
