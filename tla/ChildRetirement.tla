--------------------------- MODULE ChildRetirement ---------------------------
(***************************************************************************)
(* The retirement of a child whose result is final: its provider is told   *)
(* to exit once, its managed worktree is removed and the assignment is     *)
(* sealed (clients/database.py, "child_retirement").                       *)
(*                                                                         *)
(* One child of one parent.  Three processes may retire it at a time: the  *)
(* MCP sidecar of the parent (mcp_server/server.py,                        *)
(* retire_completed_child), the daemon (services/inbox_service.py) and     *)
(* housekeeping.  A claim on the newest assignment fences new work of the  *)
(* child; the exit is reserved before it is sent and is never sent again,  *)
(* whatever became of it.  An assigned reviewer is asked again as long as  *)
(* its parent's workflow is open.  A direct handoff is exited by another   *)
(* path (ChildResults) and only its cleanup is claimed here.               *)
(*                                                                         *)
(* The retirement by a replacement supervisor, children without a managed  *)
(* worktree, descendants (the child's workflow is not terminal while it    *)
(* has one) and the workflow effect around the tool call are left out.     *)
(* Operators that no action uses are faulty variants of their neighbours, *)
(* with which the properties are tested.                             *)
(***************************************************************************)
EXTENDS Naturals, Sequences

CONSTANTS MaxAssignments, \* bound: assignments of the child
          MaxTokens,      \* bound: claims
          MaxWork,        \* bound: inputs to the child and reopened parents
          MaxFaults       \* bound: crashes and dying providers

ASSUME ConstantAssumption ==
    /\ MaxAssignments \in Nat \ {0} /\ MaxTokens \in Nat
    /\ MaxWork \in Nat /\ MaxFaults \in Nat

VARIABLES kind,     \* delegation_kind, and whether the child is a reviewer
          pwf,      \* the parent's newest workflow is open or owner-gated
          wf, busy, \* the child's newest workflow, and its provider
          life,     \* runtime_lifecycle
          proc,     \* the provider process
          tree,     \* the managed worktree
          asg,      \* child_assignments, oldest first
          drv,      \* the retirements under way
          exits,    \* exits sent to the provider
          died,     \* claim of a sidecar that is gone
          tokens, work, faults

rvars == <<kind, pwf, wf, busy, life, proc, tree, asg, drv, exits, died, tokens, work, faults>>
child == <<wf, busy, life, proc, tree>>
bounds == <<tokens, work, faults>>

Drivers == {"sidecar", "daemon", "keeper"}
Assignment == [st : {"awaiting", "final", "over"}, \* final: complete and acknowledged
               tok : 0..MaxTokens,                 \* retirement_claim_token
               sent : BOOLEAN,                     \* retirement_exit_dispatched_at
               intent : BOOLEAN, done : BOOLEAN]   \* retirement_cleanup_intent, _completed_at
Driver == [step : {"idle", "check", "revalidate", "recheck", "reserve", "exit", "clean", "seal"},
           tok : 0..MaxTokens]
NewAssignment == [st |-> "awaiting", tok |-> 0, sent |-> FALSE, intent |-> FALSE, done |-> FALSE]
Resting == [step |-> "idle", tok |-> 0]

RTypeOK ==
    /\ kind \in {"worker", "reviewer", "handoff"} /\ pwf \in BOOLEAN
    /\ wf \in {"open", "terminal", "cancelled"} /\ busy \in BOOLEAN
    /\ life \in {"running", "exited"} /\ proc \in {"up", "gone"}
    /\ tree \in {"clean", "dirty", "removed"}
    /\ asg \in Seq(Assignment) /\ Len(asg) \in 1..MaxAssignments
    /\ drv \in [Drivers -> Driver]
    /\ exits \in Nat /\ died \in 0..MaxTokens
    /\ tokens \in 0..MaxTokens /\ work \in 0..MaxWork /\ faults \in 0..MaxFaults
    /\ \A k \in DOMAIN asg :
         /\ asg[k].done => asg[k].tok = 0 /\ asg[k].intent
         /\ asg[k].tok # 0 => asg[k].intent
    /\ \A j, k \in DOMAIN asg : asg[j].tok # 0 /\ asg[k].tok # 0 => j = k
    /\ life = "exited" => proc = "gone" /\ ~busy /\ wf # "open"

RInit ==
    /\ kind \in {"worker", "reviewer", "handoff"} /\ pwf \in BOOLEAN
    /\ wf = "terminal" /\ busy \in BOOLEAN /\ tree \in {"clean", "dirty"}
    /\ life = "running" /\ proc = "up"
    /\ asg = <<[NewAssignment EXCEPT !.st = "final"]>>
    /\ drv = [d \in Drivers |-> Resting]
    /\ exits = 0 /\ died = 0 /\ tokens = 0 /\ work = 0 /\ faults = 0

-----------------------------------------------------------------------------
(* What the transactions ask.                                                *)

Latest == asg[Len(asg)]                    \* _latest_child_assignment
Held(tok) == {k \in DOMAIN asg : asg[k].tok = tok}
Claimed == \E k \in DOMAIN asg : asg[k].tok # 0

(* _retirement_quiescence_allows_commit: the child takes no work while it is *)
(* being retired or once it is.                                              *)
QuiescentAny == TRUE
Quiescent == \A k \in DOMAIN asg : asg[k].tok = 0 /\ ~asg[k].done

(* _reviewer_reuse_window_open *)
ReuseWindow == kind = "reviewer" /\ Latest.st # "over" /\ pwf

(* is_terminal_quiescent, of a terminal that is running.                     *)
Idle == life = "running" /\ ~busy

Step(d, s) == drv' = [drv EXCEPT ![d].step = s]
Rest(d) == drv' = [drv EXCEPT ![d] = Resting]

-----------------------------------------------------------------------------
(* The claim.                                                                *)

(* claim_completed_child_retirement, for a row that nobody has claimed and   *)
(* whose exit was not sent.  A handoff, and every claim of a caller that     *)
(* saw the runtime exited, records the exit with the claim.                  *)
Retirable(exited) ==
    /\ Latest.st = "final" /\ ~Latest.done
    /\ exited => life = "exited"
Free == Latest.tok = 0 /\ ~Latest.sent /\ ~ReuseWindow /\ wf = "terminal"
Take(sent) ==
    /\ tokens < MaxTokens /\ tokens' = tokens + 1
    /\ asg' = [asg EXCEPT ![Len(asg)] =
                  [@ EXCEPT !.tok = tokens + 1, !.intent = TRUE, !.sent = sent]]
TakeClaim(d, exited, next) ==
    /\ Retirable(exited) /\ Free
    /\ Take(exited \/ kind = "handoff")
    /\ drv' = [drv EXCEPT ![d] = [step |-> next, tok |-> tokens + 1]]
    /\ UNCHANGED <<kind, pwf, child, exits, died, work, faults>>

(* An earlier process reserved the exit: this one only looks what came of it.*)
ExitSeen == life = "exited"
Resume(d, exited) ==
    /\ Retirable(exited) /\ Latest.sent /\ Latest.tok # 0 /\ ExitSeen
    /\ drv' = [drv EXCEPT ![d] = [step |-> "clean", tok |-> Latest.tok]]
    /\ UNCHANGED <<kind, pwf, child, asg, exits, died, bounds>>

(* retire_completed_child and, for a handoff, _cleanup_claimed_handoff_result*)
SidecarBegin ==
    /\ drv["sidecar"].step = "idle"
    /\ IF kind = "handoff"
       THEN TakeClaim("sidecar", TRUE, "clean") \/ Resume("sidecar", TRUE)
       ELSE TakeClaim("sidecar", FALSE, "check") \/ Resume("sidecar", FALSE)

(* _reconcile_completed_assigned_child: a child at rest with a clean worktree*)
(* is retired, one that has exited is only cleaned up.                       *)
Candidate == kind # "handoff" /\ Latest.st = "final" /\ ~ReuseWindow /\ wf = "terminal"
DaemonBegin ==
    /\ drv["daemon"].step = "idle" /\ Candidate
    /\ \/ life = "exited" /\ (TakeClaim("daemon", TRUE, "clean") \/ Resume("daemon", TRUE))
       \/ Idle /\ tree = "clean" /\ TakeClaim("daemon", FALSE, "check")

(* _reconcile_retirement_cleanups and the executor: an intent that is        *)
(* pending is fulfilled under its claim, or claimed first.                   *)
PendingNone == {}
Pending == {k \in DOMAIN asg : asg[k].intent /\ ~asg[k].done /\ asg[k].tok # 0}
KeeperBegin ==
    /\ drv["keeper"].step = "idle" /\ life = "exited"
    /\ \/ /\ Pending # {}
          /\ drv' = [drv EXCEPT !["keeper"] =
                        [step |-> "clean", tok |-> asg[CHOOSE k \in Pending : TRUE].tok]]
          /\ UNCHANGED <<kind, pwf, child, asg, exits, died, bounds>>
       \/ Latest.intent /\ TakeClaim("keeper", TRUE, "clean")

-----------------------------------------------------------------------------
(* From the claim to the exit.                                               *)

(* release_completed_assigned_child_retirement: not once the exit was sent.  *)
Freed(tok) ==
    [k \in DOMAIN asg |-> IF asg[k].tok = tok /\ ~asg[k].sent /\ ~asg[k].done
                          THEN [asg[k] EXCEPT !.tok = 0] ELSE asg[k]]
GiveUp(d) == asg' = Freed(drv[d].tok) /\ Rest(d)

(* The terminal is read after the claim, and again just before the exit.     *)
Check(d) ==
    /\ drv[d].step \in {"check", "recheck"}
    /\ \/ life = "exited" /\ Step(d, "clean") /\ asg' = asg
       \/ /\ Idle /\ asg' = asg
          /\ Step(d, IF drv[d].step = "check" THEN "revalidate" ELSE "reserve")
       \/ ~Idle /\ life # "exited" /\ GiveUp(d)
    /\ UNCHANGED <<kind, pwf, child, exits, died, bounds>>

(* revalidate_completed_assigned_child_retirement; the daemon also looks at  *)
(* the worktree, and reads the terminal only once.                           *)
Valid(d) ==
    /\ \E k \in Held(drv[d].tok) : asg[k].st = "final" /\ ~asg[k].done
    /\ ~ReuseWindow /\ wf = "terminal"
Revalidate(d) ==
    /\ drv[d].step = "revalidate"
    /\ IF Valid(d) /\ (d = "daemon" => tree = "clean")
       THEN Step(d, IF d = "daemon" THEN "reserve" ELSE "recheck") /\ asg' = asg
       ELSE GiveUp(d)
    /\ UNCHANGED <<kind, pwf, child, exits, died, bounds>>

(* reserve_completed_assigned_child_retirement_exit; a claim that was lost   *)
(* or reserved already is left alone.  A sidecar of an older release gives   *)
(* the claim back before the reservation, or with it.                        *)
Reserve(d) ==
    /\ drv[d].step = "reserve"
    /\ \/ LET K == {k \in Held(drv[d].tok) : ~asg[k].sent /\ ~asg[k].done} IN
          /\ asg' = [k \in DOMAIN asg |->
                        IF k \in K THEN [asg[k] EXCEPT !.sent = TRUE] ELSE asg[k]]
          /\ IF K = {} THEN Rest(d) ELSE Step(d, "exit")
       \/ d = "sidecar" /\ GiveUp(d)
    /\ UNCHANGED <<kind, pwf, child, exits, died, bounds>>

(* cancel_reserved_completed_assigned_child_retirement_exit                  *)
Unreserve ==
    /\ drv["sidecar"].step = "exit"
    /\ asg' = [k \in DOMAIN asg |-> IF asg[k].tok = drv["sidecar"].tok /\ asg[k].sent
                                    THEN [asg[k] EXCEPT !.tok = 0, !.sent = FALSE] ELSE asg[k]]
    /\ Rest("sidecar")
    /\ UNCHANGED <<kind, pwf, child, exits, died, bounds>>

(* exit_terminal: done, or with an outcome nobody knows: the claim and the   *)
(* reservation stay.                                                         *)
UnknownReleased(d) == [k \in DOMAIN asg |-> IF asg[k].tok = drv[d].tok
                           THEN [asg[k] EXCEPT !.tok = 0, !.sent = FALSE] ELSE asg[k]]
Unknown(d) == asg
Exit(d) ==
    /\ drv[d].step = "exit"
    /\ exits' = IF life = "exited" THEN exits ELSE exits + 1
    /\ \/ life' = "exited" /\ proc' = "gone" /\ Step(d, "clean") /\ asg' = asg
       \/ life' = life /\ proc' \in {proc, "gone"} /\ Rest(d) /\ asg' = Unknown(d)
    /\ busy' = (busy /\ proc' = "up")
    /\ wf' = IF life' = "exited" /\ wf = "open" THEN "cancelled" ELSE wf
    /\ UNCHANGED <<kind, pwf, tree, died, bounds>>

-----------------------------------------------------------------------------
(* The cleanup.                                                              *)

(* cleanup_managed_worktree refuses a dirty one and keeps the claim.  The    *)
(* claimant finds its intent only on the newest assignment; housekeeping     *)
(* has it from its inventory.                                                *)
Clean(d) ==
    /\ drv[d].step = "clean"
    /\ \/ /\ d = "keeper" \/ Latest.tok = drv[d].tok
          /\ tree \in {"clean", "removed"}
          /\ tree' = IF tree = "clean" THEN "removed" ELSE tree
          /\ Step(d, "seal") /\ asg' = asg
       \/ /\ \/ tree = "dirty"
             \/ d # "keeper" /\ Latest.tok # drv[d].tok
          /\ Rest(d) /\ UNCHANGED <<tree, asg>>
       \/ d = "sidecar" /\ GiveUp(d) /\ tree' = tree
    /\ UNCHANGED <<kind, pwf, wf, busy, life, proc, exits, died, bounds>>

(* complete_child_retirement: the claim is compared once more.               *)
Sealable(k, tok) ==
    /\ asg[k].tok = tok /\ asg[k].intent /\ ~asg[k].done
    /\ asg[k].st = "final"
    /\ kind = "handoff" => life = "exited" /\ wf = "terminal"
Seal(d) ==
    /\ drv[d].step = "seal"
    /\ \/ /\ asg' = [k \in DOMAIN asg |-> IF Sealable(k, drv[d].tok)
                                          THEN [asg[k] EXCEPT !.tok = 0, !.done = TRUE]
                                          ELSE asg[k]]
          /\ Rest(d)
       \/ d = "sidecar" /\ GiveUp(d)
    /\ UNCHANGED <<kind, pwf, child, exits, died, bounds>>

-----------------------------------------------------------------------------
(* The child and its parent.                                                 *)

(* _prepare_workflow_input: the fence is in the transaction that opens the   *)
(* workflow.                                                                 *)
Accept == wf' = "open" /\ busy' = (proc = "up")
Input ==
    /\ work < MaxWork /\ work' = work + 1
    /\ life = "running" /\ Quiescent /\ Accept
    /\ UNCHANGED <<kind, pwf, life, proc, tree, asg, drv, exits, died, tokens, faults>>

(* The model works on its tree, completes its workflow and ends its turn.    *)
Work ==
    /\ busy /\ wf = "open" /\ tree' \in {"clean", "dirty"} /\ wf' = "terminal"
    /\ asg' = [asg EXCEPT ![Len(asg)].st = IF @ = "awaiting" THEN "final" ELSE @]
    /\ UNCHANGED <<kind, pwf, busy, life, proc, drv, exits, died, bounds>>
Settle ==
    /\ busy /\ wf = "terminal" /\ busy' = FALSE
    /\ UNCHANGED <<kind, pwf, wf, life, proc, tree, asg, drv, exits, died, bounds>>

(* The parent's workflow ends, or the user opens a new one.                  *)
Parent ==
    /\ pwf \/ work < MaxWork
    /\ pwf' = ~pwf /\ work' = IF pwf THEN work ELSE work + 1
    /\ UNCHANGED <<kind, child, asg, drv, exits, died, tokens, faults>>

(* _register_child_attempt with an existing reviewer: it asks the fence of   *)
(* the parent only.  The input follows in a transaction of its own and is    *)
(* refused when the child is being retired.                                  *)
Asked == Latest.st = "awaiting" /\ wf # "open"
Rereview ==
    /\ kind = "reviewer" /\ pwf /\ life = "running" /\ wf # "open" /\ Len(asg) < MaxAssignments
    /\ Latest.st # "awaiting"
    /\ asg' = Append([k \in DOMAIN asg |-> asg[k]], NewAssignment)
    /\ UNCHANGED <<kind, pwf, child, drv, exits, died, bounds>>
Ask ==
    /\ Asked
    /\ IF Quiescent /\ life = "running" THEN Accept /\ asg' = asg
       ELSE asg' = [asg EXCEPT ![Len(asg)].st = "over"] /\ UNCHANGED <<wf, busy>>
    /\ UNCHANGED <<kind, pwf, life, proc, tree, drv, exits, died, bounds>>

-----------------------------------------------------------------------------
(* Faults.                                                                   *)

(* The provider dies, or the exit of another path ends it; the reconciler of *)
(* dead runtimes sees it.                                                    *)
Die ==
    /\ proc = "up" /\ faults < MaxFaults /\ faults' = faults + 1
    /\ proc' = "gone" /\ busy' = FALSE
    /\ UNCHANGED <<kind, pwf, wf, life, tree, asg, drv, exits, died, tokens, work>>
Observe ==
    /\ proc = "gone" /\ life = "running" /\ life' = "exited"
    /\ wf' = IF wf = "open" THEN "cancelled" ELSE wf
    /\ asg' = [asg EXCEPT ![Len(asg)].st = IF @ = "awaiting" THEN "over" ELSE @]
    /\ UNCHANGED <<kind, pwf, busy, proc, tree, drv, exits, died, bounds>>

SidecarDies ==
    /\ faults < MaxFaults /\ faults' = faults + 1
    /\ drv["sidecar"].step # "idle" /\ Rest("sidecar") /\ died' = drv["sidecar"].tok
    /\ UNCHANGED <<kind, pwf, child, asg, exits, tokens, work>>

(* The API server restarts: release_undispatched_completed_child_retirement_ *)
(* claims_for_restart frees every claim whose exit was not sent.             *)
Releasable(k) == asg[k].st = "final" /\ asg[k].tok # 0 /\ ~asg[k].sent /\ ~asg[k].done
Restart ==
    /\ faults < MaxFaults /\ faults' = faults + 1
    /\ drv' = [drv EXCEPT !["daemon"] = Resting, !["keeper"] = Resting]
    /\ asg' = [k \in DOMAIN asg |-> IF Releasable(k) THEN [asg[k] EXCEPT !.tok = 0] ELSE asg[k]]
    /\ UNCHANGED <<kind, pwf, child, exits, died, tokens, work>>

(* The owner commits or discards what is left in the worktree.               *)
Tidy ==
    /\ tree = "dirty" /\ ~busy /\ tree' = "clean"
    /\ UNCHANGED <<kind, pwf, wf, busy, life, proc, asg, drv, exits, died, bounds>>

Drive(d) == Check(d) \/ Revalidate(d) \/ Reserve(d) \/ Exit(d) \/ Clean(d) \/ Seal(d)
RNext ==
    \/ SidecarBegin \/ DaemonBegin \/ KeeperBegin
    \/ \E d \in Drivers : Drive(d)
    \/ Unreserve \/ Input \/ Work \/ Settle \/ Parent \/ Rereview \/ Ask
    \/ Die \/ Observe \/ SidecarDies \/ Restart \/ Tidy

(* The daemon and housekeeping run again and again, a retirement that was    *)
(* begun goes on, and a dead runtime is seen.                                *)
RFairness ==
    /\ WF_rvars(DaemonBegin) /\ WF_rvars(KeeperBegin) /\ WF_rvars(Observe)
    /\ \A d \in Drivers : WF_rvars(Drive(d))
RSpec == RInit /\ [][RNext]_rvars /\ RFairness

-----------------------------------------------------------------------------
(* Properties.                                                               *)

(* A child is retired once: however many processes retire it, crash and take *)
(* the retirement up again, its provider is told to exit once, its worktree  *)
(* goes only after its runtime, and an assignment is sealed only after both. *)
RetiredOnce ==
    /\ exits <= 1
    /\ tree = "removed" => life = "exited"
    /\ \A k \in DOMAIN asg : asg[k].done => tree = "removed"

(* No exit is sent to a child that has accepted work: an input that came     *)
(* before the claim is seen, one that comes after it is refused.             *)
AcceptedWorkKept == [][exits' > exits => wf # "open" /\ ~busy]_rvars

(* A child does not stay fenced: its retirement is completed or given up,    *)
(* unless an exit was sent whose outcome is unknown, its sidecar has died    *)
(* with the claim, or its worktree waits for the owner.                      *)
Stuck ==
    \/ tree = "dirty"
    \/ \E k \in DOMAIN asg : asg[k].tok # 0 /\ life = "running" /\ (asg[k].sent \/ died = asg[k].tok)
RetirementSettles == Claimed ~> (~Claimed \/ Stuck)
=============================================================================
