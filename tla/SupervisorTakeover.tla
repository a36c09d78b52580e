-------------------------- MODULE SupervisorTakeover --------------------------
(***************************************************************************)
(* The runtime of a supervisor, its exclusive right to write its worktree, *)
(* and the replacement of a supervisor whose runtime is lost:              *)
(* create_terminal and exit_terminal (services/terminal_service.py),       *)
(* services/recovery_takeover_service.py, the provisioning reconciler of   *)
(* services/managed_worktree_service.py and their transactions in          *)
(* clients/database.py.                                                    *)
(*                                                                         *)
(* One writable work context with one worktree.  Terminal 0 is launched    *)
(* for it; takeover t replaces a terminal by terminal t.  The writer lease *)
(* names its terminal: a writer generation belongs to one terminal, so     *)
(* that comparing generations adds nothing.  A launch generation likewise  *)
(* changes only when the pane does.                                        *)
(*                                                                         *)
(* Launches, takeovers and the provisioning reconciler run under one file  *)
(* lock (context_lifecycle_fence): job is its holder.  Exits, inputs and   *)
(* the reconciler of dead runtimes do not take it.  Gates, effects and     *)
(* children that bar a takeover are the set busy.  Owner grants, which are *)
(* used once in the transaction of the claim, capacity, unknown answers of *)
(* the tmux inventory (nothing is done) and reconnects are left out; so is *)
(* the replacement of a pane by the one retry of a Codex startup.          *)
(* Operators that no action uses are faulty variants of their neighbours,  *)
(* with which the properties are tested.                                   *)
(***************************************************************************)
EXTENDS Naturals, FiniteSets

CONSTANTS MaxTakeovers,  \* bound: takeovers requested
          MaxExiters,    \* bound: exit_terminal calls under way together
          ExitTargets,   \* terminals that are asked to exit
          MaxDispatches, \* launches of one takeover (2 in the code)
          MaxFaults,     \* bound: server crashes and failed recoveries
          MaxInputs      \* bound: inputs sent

ASSUME ConstantAssumption ==
    /\ MaxTakeovers \in Nat /\ MaxDispatches \in Nat \ {0}
    /\ MaxFaults \in Nat /\ MaxInputs \in Nat
    /\ MaxExiters \in Nat /\ ExitTargets \subseteq 0..MaxTakeovers

Takeovers == 1..MaxTakeovers
Terminals == 0..MaxTakeovers
Exiters   == 1..MaxExiters

VARIABLES life,   \* runtime_lifecycle; "none": there is no row
          op,     \* runtime_operation_kind; "stale" is a transport whose lease is over
          pane,   \* what runs in the pane
          lease,  \* terminal that holds the writer lease
          ctx,    \* the writable work context
          tree,   \* the managed worktree exists
          tk,     \* recovery_takeovers
          busy,   \* terminals with work that bars a takeover
          job,    \* who holds the lock
          exits,  \* exit_terminal calls
          sent,   \* exit commands sent, claimed during its launch and later
          reap,   \* reconcile_terminal_runtime between its steps
          faults, inputs

vars == <<life, op, pane, lease, ctx, tree, tk, busy, job, exits, sent, reap, faults, inputs>>

Lives == {"none", "starting", "running", "recovery_required", "exit_pending", "exited",
          "recovery_fenced"}
Ops   == {"none", "transport", "stale", "takeover", "retire"}
Ended == {"exited", "recovery_fenced"}
Open  == {"claimed", "fenced", "dispatching", "admitted"}
Nobody == MaxTakeovers + 1

Steps == {"idle", "provision", "create", "row", "start", "publish", "admit", "complete",
          "cleanup", "discard", "fence", "dispatch"}
JobRow  == [step : Steps, t : Terminals, again : BOOLEAN, made : BOOLEAN]
ExitRow == [step : {"idle", "claim", "send"}, t : Terminals, target : BOOLEAN,
            early : BOOLEAN]
ReapRow == [step : {"idle", "seen", "dead"}, t : Terminals, life : Lives, op : Ops]
TakeoverRow == [st : {"none", "completed", "failed", "dispatch_uncertain"} \cup Open,
                old : Terminals, attempts : 0..MaxDispatches, fenced : BOOLEAN]
CtxRow == [st : {"none", "reserved", "provisioned", "launching", "admitted", "preserved",
                 "abandoned"}, term : Terminals]

NoJob  == [step |-> "idle", t |-> 0, again |-> FALSE, made |-> FALSE]
NoExit == [step |-> "idle", t |-> 0, target |-> FALSE, early |-> FALSE]
NoReap == [step |-> "idle", t |-> 0, life |-> "none", op |-> "none"]

TypeOK ==
    /\ life \in [Terminals -> Lives] /\ op \in [Terminals -> Ops]
    /\ pane \in [Terminals -> {"none", "shell", "provider", "orphan"}]
    /\ lease \in Terminals \cup {Nobody} /\ ctx \in CtxRow /\ tree \in BOOLEAN
    /\ tk \in [Takeovers -> TakeoverRow] /\ busy \in SUBSET Terminals
    /\ job \in JobRow /\ exits \in [Exiters -> ExitRow] /\ reap \in ReapRow
    /\ sent \in [Terminals -> [early : Nat, late : Nat]]
    /\ faults \in 0..MaxFaults /\ inputs \in 0..MaxInputs
    /\ \A t \in Terminals : life[t] \in {"none"} \cup Ended => op[t] = "none"

Init == /\ life = [t \in Terminals |-> "none"] /\ op = [t \in Terminals |-> "none"]
        /\ pane = [t \in Terminals |-> "none"] /\ lease = Nobody
        /\ ctx = [st |-> "none", term |-> 0] /\ tree = FALSE
        /\ tk = [t \in Takeovers |-> [st |-> "none", old |-> 0, attempts |-> 0, fenced |-> FALSE]]
        /\ busy = {} /\ job = NoJob /\ exits = [e \in Exiters |-> NoExit] /\ reap = NoReap
        /\ sent = [t \in Terminals |-> [early |-> 0, late |-> 0]]
        /\ faults = 0 /\ inputs = 0

Idle   == job.step = "idle"
Goto(s) == job' = [job EXCEPT !.step = s]

(* _release_or_transfer_worktree_writer_lease: another live row of the       *)
(* worktree inherits the lease.                                              *)
Released(t) ==
    LET heirs == {u \in Terminals \ {t} : life[u] \in {"starting", "running", "exit_pending"}}
    IN  CASE lease # t                 -> lease
          [] lease = t /\ heirs = {} -> Nobody
          [] OTHER -> CHOOSE u \in heirs : \A v \in heirs : u <= v

-----------------------------------------------------------------------------
(* A launch.  create_terminal for terminal 0, _launch_claimed_takeover for   *)
(* the others; both go through _create_terminal_after_admission.             *)

(* The request names its work context; one that was launched is replayed or, *)
(* when its outcome is unknown, refused.                                     *)
Launchable == ctx.st \in {"none", "reserved", "provisioned", "abandoned"}
Reserved   == [ctx EXCEPT !.st = IF @ = "none" THEN "reserved" ELSE @]
Launch ==
    /\ Idle /\ Launchable /\ ctx' = Reserved
    /\ job' = [NoJob EXCEPT !.step = "provision"]
    /\ UNCHANGED <<life, op, pane, lease, tree, tk, busy, exits, sent, reap, faults, inputs>>

(* transition_writable_work_context: done already is as good as done.        *)
Moved(from, st) == [ctx EXCEPT !.st = IF @ \in from THEN st ELSE @]
Moves(from, st) == ctx.st \in from \cup {st}

(* create_managed_worktree and its transition; an abandoned context refuses  *)
(* it after the worktree was made.                                           *)
Provision ==
    /\ job.step = "provision"
    /\ tree' = TRUE
    /\ ctx' = Moved({"reserved"}, "provisioned")
    /\ IF Moves({"reserved"}, "provisioned") THEN Goto("create") ELSE job' = NoJob
    /\ UNCHANGED <<life, op, pane, lease, tk, busy, exits, sent, reap, faults, inputs>>

(* tmux makes the session, or does not, or does and its call fails.  A       *)
(* session that is there already is refused before anything is attempted.    *)
Create ==
    /\ job.step = "create"
    /\ LET there == pane[job.t] \in {"shell", "provider"} IN
       \/ there /\ Goto("cleanup") /\ UNCHANGED pane
       \/ /\ ~there /\ pane' = [pane EXCEPT ![job.t] = "shell"]
          /\ \E s \in {"row", "cleanup"} : job' = [job EXCEPT !.step = s, !.made = TRUE]
       \/ ~there /\ job' = [job EXCEPT !.step = "cleanup", !.made = TRUE] /\ UNCHANGED pane
    /\ UNCHANGED <<life, op, lease, ctx, tree, tk, busy, exits, sent, reap, faults, inputs>>

(* create_terminal of clients/database.py.                                   *)
ContextValid(t) ==
    IF t = 0 THEN ctx.st = "provisioned" /\ ctx.term = 0
    ELSE ctx.st = "admitted" /\ ctx.term = tk[t].old
RowValid(t) ==
    /\ ContextValid(t)
    /\ IF t = 0 THEN lease = Nobody ELSE tk[t].st = "dispatching" /\ lease = t
RowWritten(t) ==
    /\ life' = [life EXCEPT ![t] = "starting"] /\ lease' = t
    /\ ctx' = [st |-> "launching", term |-> t]
    /\ tk' = IF t = 0 THEN tk ELSE [tk EXCEPT ![t].st = "admitted"]
(* Its caller: the launch goes on, or the session it made is cleaned up.     *)
Row ==
    /\ job.step = "row"
    /\ IF RowValid(job.t)
       THEN RowWritten(job.t) /\ Goto("start")
       ELSE Goto("cleanup") /\ UNCHANGED <<life, lease, ctx, tk>>
    /\ UNCHANGED <<op, pane, tree, busy, exits, sent, reap, faults, inputs>>

(* provider.initialize().  A recovery that fails here leaves all as it is.   *)
Start ==
    /\ job.step = "start"
    /\ \/ /\ pane[job.t] = "shell"
          /\ pane' = [pane EXCEPT ![job.t] = "provider"]
          /\ \E s \in {"publish"} \cup (IF job.again THEN {} ELSE {"cleanup"}) : Goto(s)
          /\ UNCHANGED faults
       \/ /\ UNCHANGED pane
          /\ IF job.again THEN faults < MaxFaults /\ faults' = faults + 1 /\ job' = NoJob
             ELSE Goto("cleanup") /\ UNCHANGED faults
       \/ /\ job.again /\ pane[job.t] # "shell" /\ job' = NoJob /\ UNCHANGED <<pane, faults>>
    /\ UNCHANGED <<life, op, lease, ctx, tree, tk, busy, exits, sent, reap, inputs>>

Uncertain(t) == [tk EXCEPT ![t].st = IF @ \in {"dispatching", "admitted"}
                                     THEN "dispatch_uncertain" ELSE @]
GiveUp == IF job.again THEN tk' = Uncertain(job.t) /\ job' = NoJob
          ELSE Goto("cleanup") /\ UNCHANGED tk

(* mark_terminal_runtime_running, which also undoes a pending exit.          *)
Publish ==
    /\ job.step = "publish"
    /\ IF life[job.t] \in {"none", "recovery_required"} \cup Ended
       THEN GiveUp /\ UNCHANGED life
       ELSE /\ life' = [life EXCEPT ![job.t] = "running"] /\ Goto("admit") /\ UNCHANGED tk
    /\ UNCHANGED <<op, pane, lease, ctx, tree, busy, exits, sent, reap, faults, inputs>>

(* The context is admitted; _admit_recovered_work_context asks for the       *)
(* terminal, but forgives that the reconciler has preserved the context.     *)
Admit ==
    /\ job.step = "admit"
    /\ LET from == {"launching"} \cup (IF job.again THEN {"preserved"} ELSE {}) IN
       /\ ctx' = Moved(from, "admitted")
       /\ IF ~Moves(from, "admitted") THEN GiveUp
          ELSE UNCHANGED tk /\ IF job.t = 0 THEN job' = NoJob ELSE Goto("complete")
    /\ UNCHANGED <<life, op, pane, lease, tree, busy, exits, sent, reap, faults, inputs>>

(* mark_recovery_takeover_completed.                                         *)
Complete ==
    /\ job.step = "complete"
    /\ LET t == job.t IN
       IF tk[t].st = "admitted" /\ life[t] = "running" /\ lease = t
       THEN tk' = [tk EXCEPT ![t].st = "completed"] /\ job' = NoJob
       ELSE /\ UNCHANGED tk
            /\ IF job.again THEN job' = NoJob ELSE Goto("cleanup")
    /\ UNCHANGED <<life, op, pane, lease, ctx, tree, busy, exits, sent, reap, faults, inputs>>

(* reset_recovery_takeover_after_confirmed_prestart_failure.                 *)
(* Mutant: the launch may be repeated without its own dispatch claim.        *)
ResetKeepsClaim(t) == "dispatching"
Reset(t) == IF tk[t].attempts >= MaxDispatches THEN "failed" ELSE "fenced"
ResetBy(t) ==
    IF tk[t].st \in {"dispatching", "admitted"}
    THEN /\ tk' = [tk EXCEPT ![t].st = Reset(t)]
         /\ life' = [life EXCEPT ![t] = "none"] /\ op' = [op EXCEPT ![t] = "none"]
    ELSE UNCHANGED <<tk, life, op>>

(* The launch failed: the session is killed, which may fail or go unseen.    *)
Cleanup ==
    /\ job.step = "cleanup"
    /\ LET t == job.t IN
       \/ /\ job.made /\ pane' = [pane EXCEPT ![t] = "none"]
          /\ IF t # 0 THEN ResetBy(t) /\ job' = NoJob /\ UNCHANGED lease
             ELSE /\ Goto("discard") /\ UNCHANGED tk
                  /\ IF life[0] = "none" THEN UNCHANGED <<life, op, lease>>
                     ELSE /\ life' = [life EXCEPT ![0] = "exited"]
                          /\ op' = [op EXCEPT ![0] = "none"] /\ lease' = Released(0)
       \/ /\ UNCHANGED <<pane, life, op, lease>>
          /\ IF t # 0 THEN tk' = Uncertain(t) /\ job' = NoJob
             ELSE UNCHANGED tk /\ IF job.made THEN job' = NoJob ELSE Goto("discard")
    /\ UNCHANGED <<ctx, tree, busy, exits, sent, reap, faults, inputs>>

(* The worktree of a failed ordinary launch is removed if it is clean; then  *)
(* the context is given up and the row deleted.                              *)
Underway == {"reserved", "provisioned", "launching", "admitted"}
Discard ==
    /\ job.step = "discard" /\ job' = NoJob
    /\ IF life[0] \notin {"none", "exited"}
       THEN ctx' = Moved({"launching"}, "preserved") /\ UNCHANGED <<life, tree, lease>>
       ELSE \/ /\ tree' = FALSE /\ ctx' = Moved(Underway, "abandoned")
               /\ IF Moves(Underway, "abandoned")
                  THEN life' = [life EXCEPT ![0] = "none"] /\ lease' = Released(0)
                  ELSE UNCHANGED <<life, lease>>
            \/ ctx' = Moved(Underway, "preserved") /\ UNCHANGED <<life, tree, lease>>
    /\ UNCHANGED <<op, pane, tk, busy, exits, sent, reap, faults, inputs>>

(* reconcile_writable_work_context_provisioning, when the lock is free.      *)
ReconcileProvisioning ==
    /\ Idle
    /\ \/ ctx.st = "reserved" /\ tree' = TRUE /\ ctx' = [ctx EXCEPT !.st = "provisioned"]
       \/ /\ ctx.st = "provisioned" /\ life[ctx.term] = "none"
          /\ \/ tree' = FALSE /\ ctx' = [ctx EXCEPT !.st = "abandoned"]
             \/ UNCHANGED tree /\ ctx' = [ctx EXCEPT !.st = "preserved"]
       \/ /\ ctx.st = "provisioned" /\ life[ctx.term] # "none"
          /\ UNCHANGED tree /\ ctx' = [ctx EXCEPT !.st = "preserved"]
       \/ /\ ctx.st = "launching" /\ UNCHANGED tree
          /\ ctx' = [ctx EXCEPT !.st = IF life[ctx.term] = "running" THEN "admitted"
                                       ELSE "preserved"]
    /\ UNCHANGED <<life, op, pane, lease, tk, busy, job, exits, sent, reap, faults, inputs>>

-----------------------------------------------------------------------------
(* A takeover.                                                               *)

(* What a claim, a fence and the fence of a dead runtime ask of the lease.   *)
LeaseFits(o) == IF life[o] = "recovery_required" THEN lease = Nobody ELSE lease = o
(* Mutant: work of the old supervisor does not bar its replacement.          *)
SettledAny(o) == TRUE
Settled(o) == o \notin busy
Replaceable(o) == /\ life[o] \in {"starting", "running", "recovery_required"}
                  /\ Settled(o) /\ LeaseFits(o)
Claimed(o) == \E t \in Takeovers :
    /\ tk[t].old = o /\ tk[t].st # "none"
    /\ tk[t].st # "failed" \/ tk[t].fenced

(* claim_recovery_takeover.  The preview has found the runtime gone or idle; *)
(* nothing holds it there until it is retired, so it is not asked again.     *)
Claimable(o) == ~Claimed(o) /\ op[o] = "none" /\ Replaceable(o)
ClaimWritten(t, o) ==
    /\ tk' = [tk EXCEPT ![t].st = "claimed", ![t].old = o]
    /\ op' = [op EXCEPT ![o] = "takeover"]
Request(t, o) ==
    /\ Idle /\ tk[t].st = "none" /\ \A u \in 1..(t - 1) : tk[u].st # "none"
    /\ o < t /\ Claimable(o) /\ ClaimWritten(t, o)
    /\ UNCHANGED <<life, pane, lease, ctx, tree, busy, job, exits, sent, reap, faults, inputs>>

Unclaimed(o) == [op EXCEPT ![o] = IF @ = "takeover" THEN "none" ELSE @]

(* record_recovery_takeover_claim_wait with a final reason: the runtime      *)
(* lives, or its processes outlive their window, or there is no row.         *)
ClaimFails(t) ==
    /\ Idle /\ tk[t].st = "claimed"
    /\ life[tk[t].old] = "none" \/ pane[tk[t].old] \in {"provider", "orphan"}
    /\ tk' = [tk EXCEPT ![t].st = "failed"] /\ op' = Unclaimed(tk[t].old)
    /\ UNCHANGED <<life, pane, lease, ctx, tree, busy, job, exits, sent, reap, faults, inputs>>

(* _retire_recovery_runtime, under the lock: neither a provider nor what it  *)
(* started is left.                                                          *)
Absent(o) == pane[o] \in {"none", "shell"}
Retire(t) ==
    /\ Idle /\ tk[t].st = "claimed" /\ Absent(tk[t].old)
    /\ pane' = [pane EXCEPT ![tk[t].old] = IF @ = "orphan" THEN @ ELSE "none"]
    /\ job' = [NoJob EXCEPT !.step = "fence", !.t = t]
    /\ UNCHANGED <<life, op, lease, ctx, tree, tk, busy, exits, sent, reap, faults, inputs>>

(* fence_claimed_recovery_takeover.                                          *)
Fence ==
    /\ job.step = "fence"
    /\ LET t == job.t  o == tk[job.t].old IN
       IF Replaceable(o) /\ op[o] = "takeover"
       THEN /\ life' = [life EXCEPT ![o] = "recovery_fenced"]
            /\ op' = [op EXCEPT ![o] = "none"] /\ lease' = t
            /\ tk' = [tk EXCEPT ![t].st = "fenced", ![t].fenced = TRUE]
            /\ Goto("dispatch")
       ELSE /\ tk' = [tk EXCEPT ![t].st = "failed"] /\ op' = Unclaimed(o) /\ job' = NoJob
            /\ UNCHANGED <<life, lease>>
    /\ UNCHANGED <<pane, ctx, tree, busy, exits, sent, reap, faults, inputs>>

(* _launch_claimed_takeover: a changed profile makes the outcome uncertain.  *)
LaunchClaimed(t) ==
    \/ /\ tk' = [tk EXCEPT ![t].st = "dispatching", ![t].attempts = @ + 1]
       /\ job' = [NoJob EXCEPT !.step = "create", !.t = t]
    \/ /\ tk' = [tk EXCEPT ![t].st = "dispatch_uncertain", ![t].attempts = @ + 1]
       /\ job' = NoJob
(* claim_recovery_takeover_dispatch, and the launch under the same lock.     *)
Dispatch(t) ==
    /\ tk[t].st = "fenced" /\ (Idle \/ (job.step = "dispatch" /\ job.t = t))
    /\ IF lease = t /\ life[tk[t].old] = "recovery_fenced"
       THEN LaunchClaimed(t)
       ELSE tk' = [tk EXCEPT ![t].st = "failed"] /\ job' = NoJob
    /\ UNCHANGED <<life, op, pane, lease, ctx, tree, busy, exits, sent, reap, faults, inputs>>

(* _recover_dispatching_takeover, after a crash.                             *)
Recover(t) ==
    /\ Idle /\ tk[t].st \in {"dispatching", "admitted"}
    /\ LET resume(s) == job' = [NoJob EXCEPT !.step = s, !.t = t, !.again = TRUE] IN
       CASE life[t] = "none" ->
              \/ /\ pane' = [pane EXCEPT ![t] = IF @ = "orphan" THEN @ ELSE "none"]
                 /\ ResetBy(t) /\ UNCHANGED job
              \/ /\ pane[t] \in {"shell", "provider"} /\ tk' = Uncertain(t)
                 /\ UNCHANGED <<pane, life, op, job>>
         [] life[t] = "running" -> resume("admit") /\ UNCHANGED <<pane, life, op, tk>>
         [] life[t] = "starting" /\ pane[t] = "shell" ->
              resume("start") /\ UNCHANGED <<pane, life, op, tk>>
         [] life[t] = "starting" /\ pane[t] = "provider" ->
              \/ resume("publish") /\ UNCHANGED <<pane, life, op, tk>>
              \/ tk' = Uncertain(t) /\ UNCHANGED <<pane, life, op, job>>
         [] OTHER -> tk' = Uncertain(t) /\ UNCHANGED <<pane, life, op, job>>
    /\ UNCHANGED <<lease, ctx, tree, busy, exits, sent, reap, faults, inputs>>

-----------------------------------------------------------------------------
(* Exits.                                                                    *)

(* abandon_terminal_runtime_recovery.                                        *)
Abandon(t) ==
    /\ life[t] = "recovery_required" /\ op[t] = "none" /\ lease # t
    /\ life' = [life EXCEPT ![t] = "exited"]
    /\ UNCHANGED <<op, pane, lease, ctx, tree, tk, busy, job, exits, sent, reap, faults, inputs>>

(* exit_terminal, as far as the claim: the pane of a runtime whose exit is   *)
(* pending is not looked for.                                                *)
ExitBegin(e, t) ==
    /\ exits[e].step = "idle" /\ \A d \in 1..(e - 1) : exits[d].step # "idle"
    /\ \/ life[t] \in {"starting", "running"} /\ pane[t] = "provider"
       \/ life[t] = "exit_pending"
    /\ exits' = [exits EXCEPT ![e] = [NoExit EXCEPT !.step = "claim", !.t = t,
                                                    !.target = life[t] # "exit_pending"]]
    /\ UNCHANGED <<life, op, pane, lease, ctx, tree, tk, busy, job, sent, reap, faults, inputs>>

(* claim_terminal_runtime_exit.  Only an operation with a deadline that has  *)
(* not passed keeps it waiting.                                              *)
(* Mutant: a pending exit is sent again.                                     *)
ExitableAgain(t) == life[t] \notin {"none"} \cup Ended /\ op[t] # "transport"
Exitable(t) == life[t] \notin {"none", "exit_pending"} \cup Ended /\ op[t] # "transport"
ExitClaim(e) ==
    /\ exits[e].step = "claim"
    /\ LET t == exits[e].t IN
       IF Exitable(t)
       THEN /\ life' = [life EXCEPT ![t] = "exit_pending"] /\ op' = [op EXCEPT ![t] = "retire"]
            /\ exits' = [exits EXCEPT ![e] =
                 IF @.target THEN [@ EXCEPT !.step = "send", !.early = life[t] # "running"]
                 ELSE NoExit]
       ELSE exits' = [exits EXCEPT ![e] = NoExit] /\ UNCHANGED <<life, op>>
    /\ UNCHANGED <<pane, lease, ctx, tree, tk, busy, job, sent, reap, faults, inputs>>

(* The exit command, to the pane that was looked up.                         *)
ExitSend(e) ==
    /\ exits[e].step = "send"
    /\ LET t == exits[e].t IN
       /\ sent' = IF exits[e].early THEN [sent EXCEPT ![t].early = @ + 1]
                  ELSE [sent EXCEPT ![t].late = @ + 1]
       /\ busy' = busy \ {t}
    /\ exits' = [exits EXCEPT ![e] = NoExit]
    /\ UNCHANGED <<life, op, pane, lease, ctx, tree, tk, job, reap, faults, inputs>>

-----------------------------------------------------------------------------
(* Runtimes die, and a reconciler says so.                                   *)

(* reconcile_terminal_runtime reads the row.                                 *)
Reap(t) ==
    /\ reap.step = "idle" /\ life[t] \in {"starting", "running", "exit_pending"}
    /\ op[t] # "takeover"
    /\ reap' = [step |-> "seen", t |-> t, life |-> life[t], op |-> op[t]]
    /\ UNCHANGED <<life, op, pane, lease, ctx, tree, tk, busy, job, exits, sent, faults, inputs>>

(* _runtime_death_observation and _retire_recovery_runtime: no window, or a  *)
(* shell where a provider was; processes that outlive it end the attempt.    *)
Vanished(t) == pane[t] = "none" \/ (pane[t] = "shell" /\ reap.life # "starting")
ReapObserve ==
    /\ reap.step = "seen"
    /\ LET t == reap.t IN
       IF Vanished(t)
       THEN pane' = [pane EXCEPT ![t] = "none"] /\ reap' = [reap EXCEPT !.step = "dead"]
       ELSE reap' = NoReap /\ UNCHANGED pane
    /\ UNCHANGED <<life, op, lease, ctx, tree, tk, busy, job, exits, sent, faults, inputs>>

Reaped(t) == life[t] = reap.life /\ op[t] = reap.op

(* mark_terminal_runtime_recovery_required, else mark_terminal_runtime_-     *)
(* exited.                                                                   *)
Recoverable(t) == /\ life[t] \in {"starting", "running"} /\ op[t] = "none"
                  /\ ~Claimed(t) /\ Settled(t) /\ lease = t
ReapWrite ==
    /\ reap.step = "dead" /\ reap' = NoReap
    /\ LET t == reap.t IN
       IF ~Reaped(t) THEN UNCHANGED <<life, op, lease, busy>>
       ELSE /\ op' = [op EXCEPT ![t] = "none"] /\ busy' = busy \ {t}
            /\ IF Recoverable(t)
               THEN life' = [life EXCEPT ![t] = "recovery_required"] /\ lease' = Nobody
               ELSE life' = [life EXCEPT ![t] = "exited"] /\ lease' = Released(t)
    /\ UNCHANGED <<pane, ctx, tree, tk, job, exits, sent, faults, inputs>>

(* A provider ends and leaves its shell; a pane goes, and its processes with *)
(* it, or not, or later.                                                     *)
ProviderEnds(t) ==
    /\ pane[t] = "provider" /\ ~(job.t = t /\ job.step \in {"start", "publish"})
    /\ pane' = [pane EXCEPT ![t] = "shell"]
    /\ UNCHANGED <<life, op, lease, ctx, tree, tk, busy, job, exits, sent, reap, faults, inputs>>
PaneGoes(t) ==
    /\ \/ pane[t] = "provider" /\ \E p \in {"none", "orphan"} : pane' = [pane EXCEPT ![t] = p]
       \/ pane[t] = "orphan" /\ pane' = [pane EXCEPT ![t] = "none"]
    /\ UNCHANGED <<life, op, lease, ctx, tree, tk, busy, job, exits, sent, reap, faults, inputs>>

-----------------------------------------------------------------------------
(* Inputs and the work they begin.                                           *)

(* acquire_terminal_runtime_transport.                                       *)
Acquire(t) ==
    /\ inputs < MaxInputs /\ life[t] = "running" /\ op[t] \in {"none", "stale"}
    /\ op' = [op EXCEPT ![t] = "transport"] /\ inputs' = inputs + 1
    /\ UNCHANGED <<life, pane, lease, ctx, tree, tk, busy, job, exits, sent, reap, faults>>
(* The text is pasted and the operation released.                            *)
Paste(t) ==
    /\ op[t] = "transport" /\ op' = [op EXCEPT ![t] = "none"]
    /\ busy' = IF life[t] = "running" THEN busy \cup {t} ELSE busy
    /\ UNCHANGED <<life, pane, lease, ctx, tree, tk, job, exits, sent, reap, faults, inputs>>
(* Its server died, or is slow.                                              *)
TransportExpires(t) ==
    /\ op[t] = "transport" /\ op' = [op EXCEPT ![t] = "stale"]
    /\ UNCHANGED <<life, pane, lease, ctx, tree, tk, busy, job, exits, sent, reap, faults, inputs>>
WorkSettles(t) ==
    /\ t \in busy /\ busy' = busy \ {t}
    /\ UNCHANGED <<life, op, pane, lease, ctx, tree, tk, job, exits, sent, reap, faults, inputs>>

(* The server dies; the lock is released and the rows stay.                  *)
Crash ==
    /\ faults < MaxFaults /\ faults' = faults + 1
    /\ job' = NoJob /\ exits' = [e \in Exiters |-> NoExit] /\ reap' = NoReap
    /\ UNCHANGED <<life, op, pane, lease, ctx, tree, tk, busy, sent, inputs>>

-----------------------------------------------------------------------------
JobStep == Provision \/ Create \/ Row \/ Start \/ Publish \/ Admit \/ Complete \/ Cleanup
           \/ Discard \/ Fence
Saga(t) == ClaimFails(t) \/ Retire(t) \/ Dispatch(t) \/ Recover(t)
Reaper  == ReapObserve \/ ReapWrite \/ \E t \in Terminals : Reap(t)

Next == \/ Launch \/ JobStep \/ ReconcileProvisioning \/ Reaper \/ Crash
        \/ \E t \in Takeovers : Saga(t) \/ \E o \in Terminals : Request(t, o)
        \/ \E t \in Terminals :
             \/ Abandon(t) \/ ProviderEnds(t) \/ PaneGoes(t)
             \/ Acquire(t) \/ Paste(t) \/ TransportExpires(t) \/ WorkSettles(t)
        \/ \E e \in Exiters : \/ \E t \in ExitTargets : ExitBegin(e, t)
                              \/ ExitClaim(e) \/ ExitSend(e)

(* The holder of the lock goes on until it dies; the daemon looks at every   *)
(* open takeover each tick (api/main.py:493).                                *)
Spec == /\ Init /\ [][Next]_vars /\ WF_vars(JobStep)
        /\ \A t \in Takeovers : WF_vars(Saga(t))

-----------------------------------------------------------------------------
(* Whatever can still write the worktree, a process that has outlived its    *)
(* pane too, has the lease; there is never more than one supervisor that may *)
(* work, and one that was replaced stays replaced.                           *)
OneSupervisor ==
    /\ \A t \in Terminals : pane[t] \in {"provider", "orphan"} => lease = t
    /\ Cardinality({t \in Terminals : life[t] \in {"starting", "running"}}) <= 1
    /\ \A t \in Takeovers : tk[t].fenced =>
         life[tk[t].old] = "recovery_fenced" /\ tk[t].old \notin busy /\ lease # tk[t].old

(* A runtime is sent one exit command, whoever asks and whatever dies        *)
(* between the claim and the command; one that is asked to exit while it     *)
(* starts is published all the same, and may be asked again.                 *)
ExitOnce == \A t \in Terminals : sent[t].late <= 1 /\ sent[t].early <= 1

(* Every takeover comes to an end that somebody is told, unless its new      *)
(* terminal is asked to exit while it starts: published all the same, and    *)
(* its lease gone, it is tried again until something looks at its runtime.   *)
TakeoverSettles ==
    \A t \in Takeovers : tk[t].st \in Open ~> tk[t].st \notin Open \/ op[t] = "retire"

(* A launch that is repeated after its predecessor, which had its row, is    *)
(* known to be dead is let through ("Retry only after exact new-runtime      *)
(* death; keep the reserved writer epoch", clients/database.py:13482).       *)
RetryAdmitted ==
    job.step = "row" /\ job.t # 0 /\ ctx.term = job.t /\ lease = job.t => RowValid(job.t)
=============================================================================
