--------------------------- MODULE SessionDeletion ---------------------------
(***************************************************************************)
(* The hard deletion of a Session (services/session_service.py,            *)
(* delete_session; clients/database.py, "session_hard_deletion") and the   *)
(* retirement of its managed worktree by housekeeping                      *)
(* (services/workspace_retirement_service.py).                             *)
(*                                                                         *)
(* Sessions 1..N follow each other by recovery takeover: k + 1 takes the   *)
(* worktree, its writer lease and its work context over from k.  A         *)
(* deletion first fences the Session with a durable operation, binds the   *)
(* exact state of the worktree to it, claims the context, removes the      *)
(* worktree and its branch, and only then purges the rows and leaves a     *)
(* receipt.  Each step is committed on its own; a crash between two of     *)
(* them leaves the operation for a later request to resume.  Deletion,     *)
(* retirement and takeover hold the one lock of                            *)
(* operations_service.context_lifecycle_fence, which a crash releases;     *)
(* inputs, children and edits of the files do not take it.                 *)
(*                                                                         *)
(* Sessions without a managed supervisor worktree, the worktrees of the    *)
(* children, worktrees preserved because a legacy receipt has no cleanup   *)
(* authority, effects of unknown outcome and the removal of output files   *)
(* are left out.  The operators that end in Any are faulty variants, with  *)
(* which the properties are tested.                                        *)
(***************************************************************************)
EXTENDS Naturals

CONSTANTS N,          \* Sessions, each the takeover successor of the one before
          Parents,    \* Sessions that have a child terminal
          MaxEdits,   \* bound: commits and edits after the start
          MaxCrashes  \* bound: restarts of the server

ASSUME ConstantAssumption ==
    /\ N \in Nat \ {0} /\ Parents \subseteq 1..N
    /\ MaxEdits \in Nat /\ MaxCrashes \in Nat

VARIABLES life,     \* runtime_lifecycle of the supervisor; "deleted": its row is gone
          child,    \* the same of its child; "asked": create_terminal is running
          work,     \* unfinished work of the Session
          tk,       \* the takeover of k by k + 1
          lease,    \* whose terminal holds the writer lease; 0: nobody
          ctx,      \* the writable work context; owner 0: its row is gone
          tree,     \* the worktree and its branch
          op,       \* session_deletion_operations
          receipt,  \* session_deletion_receipts
          job,      \* the holder of the lock
          consent,  \* somebody confirmed that uncommitted changes may go
          crashes

vars == <<life, child, work, tk, lease, ctx, tree, op, receipt, job, consent, crashes>>
runtime == <<life, child, work, tk, lease>>
durable == <<ctx, tree, op, receipt>>

Session == 1..N
ChildState == {"none", "asked", "running", "exited", "deleted"}
Context == [owner : 0..N, st : {"admitted", "retiring", "retired"},
            dirty : BOOLEAN,      \* retirement_allow_dirty
            kids : ChildState]    \* retirement_authority_fingerprint
Tree == [present : BOOLEAN, dirty : BOOLEAN, branch : BOOLEAN, rev : 0..MaxEdits]
\* The authority document: the worktree, and the context if it is the Session's.
Plan == [tree : Tree, ctx : Context, kids : ChildState, work : BOOLEAN]
NoPlan == [tree |-> [present |-> FALSE, dirty |-> FALSE, branch |-> FALSE, rev |-> 0],
           ctx |-> [owner |-> 0, st |-> "retired", dirty |-> FALSE, kids |-> "none"],
           kids |-> "none", work |-> FALSE]
Operation == [st : {"none", "fenced", "retired", "preserved"}, allow : BOOLEAN,
              disp : {"none", "retired", "foreign"},  \* "none": no authority bound yet
              plan : Plan]
NoOp == [st |-> "none", allow |-> FALSE, disp |-> "none", plan |-> NoPlan]
Job == [step : {"idle", "cancel", "sweep", "begin", "bind", "claim", "purge", "branch",
                "retire", "mark", "complete", "remove", "removed", "launch"},
        k : 0..N, allow : BOOLEAN, plan : Plan]
Idle == [step |-> "idle", k |-> 0, allow |-> FALSE, plan |-> NoPlan]

TypeOK ==
    /\ life \in [Session -> {"none", "running", "exited", "fenced", "deleted"}]
    /\ child \in [Session -> ChildState]
    /\ work \in [Session -> {"none", "open", "over"}]
    /\ tk \in [Session -> {"none", "fenced", "completed", "failed"}]
    /\ lease \in 0..N /\ ctx \in Context /\ tree \in Tree
    /\ op \in [Session -> Operation] /\ receipt \in [Session -> {"none", "retired", "foreign"}]
    /\ job \in Job /\ consent \in BOOLEAN /\ crashes \in 0..MaxCrashes
    /\ \A k \in Session : op[k].st # "none" => receipt[k] = "none"

Init ==
    /\ life = [k \in Session |-> IF k = 1 THEN "running" ELSE "none"]
    /\ child = [k \in Session |-> "none"] /\ work = [k \in Session |-> "none"]
    /\ tk = [k \in Session |-> "none"] /\ lease = 1
    /\ ctx = [owner |-> 1, st |-> "admitted", dirty |-> FALSE, kids |-> "none"]
    /\ tree = [present |-> TRUE, dirty |-> FALSE, branch |-> TRUE, rev |-> 0]
    /\ op = [k \in Session |-> NoOp] /\ receipt = [k \in Session |-> "none"]
    /\ job = Idle /\ consent = FALSE /\ crashes = 0

-----------------------------------------------------------------------------
(* What the transactions ask.                                                *)

Row(k) == life[k] \notin {"none", "deleted"}
Kids(k) == IF child[k] = "asked" THEN "none" ELSE child[k]
Owns(k) == ctx.owner = k

(* _workspace_accepts_new_work, and the refusals of create_terminal.         *)
AcceptsAny(k) == Row(k)
Accepts(k) ==
    /\ Row(k) /\ op[k].st = "none" /\ receipt[k] = "none"
    /\ Owns(k) => ctx.st = "admitted"

(* get_session_unresolved_work_plan: what nobody may cancel.                 *)
Untaken(k) == \A j \in {k - 1, k} \cap Session : tk[j] \in {"none", "completed"}
Gone(k) == life[k] \in {"exited", "fenced"} /\ child[k] # "running"
Unwritten(k) == lease # k
Dead(k) == Gone(k) /\ Unwritten(k) /\ Untaken(k)
Settled(k) == Dead(k) /\ work[k] # "open"

(* _session_workspace_snapshot_in_transaction without a reason to refuse.    *)
Retirable == ctx.owner # 0 /\ Settled(ctx.owner)

(* _capture_session_workspace_retirement_authority *)
Capture(k) == [tree |-> tree, ctx |-> IF Owns(k) THEN ctx ELSE NoPlan.ctx,
               kids |-> Kids(k), work |-> work[k] = "open"]

(* _completed_takeover_foreign_workspace_is_valid: the context is not the    *)
(* Session's any more, and exactly its successor answers for the worktree.   *)
Succeeded(k, present) ==
    /\ k < N /\ tk[k] = "completed"
    /\ \/ /\ ctx.owner = 0
          /\ receipt[k + 1] # "none" /\ ~present /\ lease = 0
       \/ /\ ctx.owner = k + 1 /\ ctx.st \in {"admitted", "retired"}
          /\ life[k] = "fenced"
          /\ \/ life[k + 1] = "running" /\ lease = k + 1
             \/ life[k + 1] = "exited" /\ lease = 0 /\ (ctx.st = "retired" => ~present)

(* _validate_session_workspace_relational_authority_in_transaction: whose is *)
(* the worktree of an authority document that says it is present?            *)
Shared(k) == (\E j \in Session \ {k} : Row(j)) \/ lease \notin {0, k}
Ownership(k, present) ==
    CASE ~Owns(k) /\ ~Succeeded(k, present) -> "changed"
      [] IF Owns(k) THEN Shared(k) ELSE Succeeded(k, present) -> "foreign"
      [] OTHER -> "own"

(* _session_workspace_context_progress_is_valid, of a bound document.        *)
ProgressedAny(k) == op[k].plan.ctx = Capture(k).ctx
Progressed(k) ==
    LET was == op[k].plan.ctx IN
    IF was.owner = 0 THEN ~Owns(k)
    ELSE /\ Owns(k)
         /\ \/ ctx = was
            \/ ctx.st = "retired" /\ was.st # "retired"
            \/ /\ was.st = "admitted" /\ ctx.st = "retiring"
               /\ ctx.dirty = op[k].allow /\ ctx.kids = Kids(k) /\ Settled(k)

(* _revalidate_session_hard_deletion_in_transaction.  The set of terminals   *)
(* of a fenced Session does not change.                                      *)
Valid(k) == Settled(k) /\ op[k].plan.kids = Kids(k)
BoundValid(k) ==
    /\ Valid(k) /\ Progressed(k)
    /\ LET owner == Ownership(k, op[k].plan.tree.present)
       IN  owner = "own" \/ (owner = "foreign" /\ op[k].disp = "foreign")

At(s) == job.step = s
Go(s) == job' = [job EXCEPT !.step = s]

-----------------------------------------------------------------------------
(* A request to delete Session k, under the lock.                            *)

(* _session_deletion_preflight: an absent worktree needs an explanation.     *)
Explained(k) ==
    IF Owns(k) /\ ctx.st = "retired" THEN ~tree.present
    ELSE tree.present \/ Ownership(k, FALSE) = "foreign"

UnconfirmedAny(yes) == FALSE
Unconfirmed(yes) == tree.dirty /\ ~yes

Requestable(k) == Row(k) /\ op[k].st = "none" /\ Dead(k) /\ Explained(k)
Eligible(k) == work[k] # "open"
Request(k, yes) ==
    /\ At("idle") /\ Requestable(k) /\ ~Unconfirmed(yes)
    /\ job' = [step |-> IF Eligible(k) THEN "sweep" ELSE "cancel",
               k |-> k, allow |-> yes, plan |-> Capture(k)]
    /\ consent' = (consent \/ yes)
    /\ UNCHANGED <<runtime, durable, crashes>>

(* cancel_session_work_for_deletion: the plan is still the confirmed one, or *)
(* there is nothing left to cancel.                                          *)
Cancellable(k) == Dead(k)
Cancel(k) ==
    /\ At("cancel") /\ job.k = k /\ Cancellable(k)
    /\ work' = [work EXCEPT ![k] = IF @ = "open" THEN "over" ELSE @]
    /\ Go("sweep")
    /\ UNCHANGED <<life, child, tk, lease, durable, consent, crashes>>

(* cancel_workflows_for_terminal, of what arrived since: of workflows only.  *)
Sweep(k) ==
    /\ At("sweep") /\ job.k = k
    /\ \/ work' = [work EXCEPT ![k] = IF @ = "open" THEN "over" ELSE @]
       \/ work' = work
    /\ Go("begin")
    /\ UNCHANGED <<life, child, tk, lease, durable, consent, crashes>>

(* begin_session_hard_deletion: a claim that housekeeping left decides about *)
(* uncommitted changes.                                                      *)
Unchanged(k) ==
    /\ Kids(k) = job.plan.kids
    /\ job.plan.work => tree = job.plan.tree /\ Capture(k).ctx = job.plan.ctx
BeginOK(k) == Settled(k) /\ Unchanged(k)
Begin(k) ==
    /\ At("begin") /\ job.k = k /\ BeginOK(k)
    /\ op' = [op EXCEPT ![k] =
                 [NoOp EXCEPT !.st = "fenced", !.plan.kids = job.plan.kids,
                              !.allow = IF Owns(k) /\ ctx.st = "retiring" THEN ctx.dirty
                                        ELSE job.allow]]
    /\ Go("bind")
    /\ UNCHANGED <<runtime, ctx, tree, receipt, consent, crashes>>

(* bind_session_hard_deletion_workspace_authority *)
BindOK(k) ==
    /\ Valid(k) /\ job.plan.ctx = Capture(k).ctx
    /\ Ownership(k, job.plan.tree.present) # "changed"
Bind(k) ==
    /\ At("bind") /\ job.k = k /\ BindOK(k)
    /\ op' = [op EXCEPT ![k] =
                 [@ EXCEPT !.plan = job.plan,
                           !.disp = IF Ownership(k, job.plan.tree.present) = "own"
                                    THEN "retired" ELSE "foreign"]]
    /\ Go("claim")
    /\ UNCHANGED <<runtime, ctx, tree, receipt, consent, crashes>>

(* revalidate_session_hard_deletion and, when the worktree turns out to be   *)
(* somebody else's, admit_session_foreign_workspace_preservation.            *)
Admitted(k) ==
    /\ op[k].st = "fenced" /\ op[k].disp = "retired"
    /\ Valid(k) /\ Progressed(k) /\ Ownership(k, op[k].plan.tree.present) = "foreign"
PreserveOK(k) == Admitted(k) \/ (BoundValid(k) /\ op[k].disp = "foreign")
Preserve(k) ==
    /\ At("claim") /\ job.k = k /\ PreserveOK(k)
    /\ op' = [op EXCEPT ![k].disp = "foreign"]
    /\ Go("mark")
    /\ UNCHANGED <<runtime, ctx, tree, receipt, consent, crashes>>

(* claim_session_workspace_retirement, of a context that is admitted or that *)
(* the same authority has claimed before.                                    *)
Claimable(allow) ==
    /\ Retirable
    /\ \/ ctx.st = "admitted"
       \/ ctx.st = "retiring" /\ ctx.dirty = allow /\ ctx.kids = Kids(ctx.owner)
ClaimFor(allow) ==
    ctx' = [ctx EXCEPT !.st = "retiring", !.dirty = allow, !.kids = Kids(ctx.owner)]
ClaimOK(k) ==
    /\ BoundValid(k) /\ op[k].disp = "retired"
    /\ ctx.st = "retired" \/ Claimable(op[k].allow)
ClaimAny(k) ==
    /\ At("claim") /\ job.k = k /\ ClaimOK(k)
    /\ IF ctx.st = "retired" THEN ctx' = ctx ELSE ClaimFor(op[k].allow)
    /\ Go(IF ctx.st = "retired" THEN "mark" ELSE "purge")
    /\ UNCHANGED <<runtime, tree, op, receipt, consent, crashes>>
Claim(k) ==
    /\ At("claim") /\ job.k = k /\ ClaimOK(k)
    /\ IF ctx.st = "retired" THEN ctx' = ctx ELSE ClaimFor(op[k].allow)
    /\ Go("purge")
    /\ UNCHANGED <<runtime, tree, op, receipt, consent, crashes>>

(* purge_session_managed_worktrees: the bound state, or already removed.     *)
Same(plan) ==
    /\ tree.present => plan.tree = tree
    /\ tree.branch => plan.tree.rev = tree.rev
PurgeOK(k) ==
    /\ Same(op[k].plan)
    /\ ctx.st = "retired" => ~tree.present
    /\ op[k].plan.tree.dirty => op[k].allow
Purge(k) ==
    /\ At("purge") /\ job.k = k /\ PurgeOK(k)
    /\ tree' = [tree EXCEPT !.present = FALSE, !.dirty = FALSE]
    /\ Go("branch")
    /\ UNCHANGED <<runtime, ctx, op, receipt, consent, crashes>>
PurgeBranch(k) ==
    /\ At("branch") /\ job.k = k
    /\ tree' = [tree EXCEPT !.branch = FALSE]
    /\ Go("retire")
    /\ UNCHANGED <<runtime, ctx, op, receipt, consent, crashes>>

(* transition_writable_work_context *)
Retire(k) ==
    /\ At("retire") /\ job.k = k
    /\ ctx' = [ctx EXCEPT !.st = "retired"]
    /\ Go("mark")
    /\ UNCHANGED <<runtime, tree, op, receipt, consent, crashes>>

(* mark_session_hard_deletion_workspace_retired and _preserved; again before *)
(* the rows are purged.                                                      *)
MarkedOK(k) ==
    /\ BoundValid(k)
    /\ op[k].disp = "retired" => ctx.st = "retired"
Mark(k) ==
    /\ At("mark") /\ job.k = k /\ MarkedOK(k)
    /\ op' = [op EXCEPT ![k].st = IF @ # "fenced" THEN @
                                  ELSE IF op[k].disp = "retired" THEN "retired" ELSE "preserved"]
    /\ Go("complete")
    /\ UNCHANGED <<runtime, ctx, tree, receipt, consent, crashes>>

(* complete_session_hard_deletion: the takeover row survives both Sessions.  *)
Purged(k) ==
    /\ op' = [op EXCEPT ![k] = NoOp]
    /\ ctx' = IF Owns(k) THEN NoPlan.ctx ELSE ctx
    /\ life' = [life EXCEPT ![k] = "deleted"]
    /\ child' = [child EXCEPT ![k] = IF @ \in {"none", "asked"} THEN @ ELSE "deleted"]
Complete(k) ==
    /\ At("complete") /\ job.k = k /\ MarkedOK(k) /\ op[k].st # "fenced"
    /\ receipt' = [receipt EXCEPT ![k] = op[k].disp]
    /\ Purged(k)
    /\ job' = Idle
    /\ UNCHANGED <<work, tk, lease, tree, consent, crashes>>

(* Any step that finds its authority changed ends the request with an error; *)
(* what was committed stays.                                                 *)
Passes ==
    CASE At("cancel")   -> Cancellable(job.k)
      [] At("begin")    -> BeginOK(job.k)
      [] At("bind")     -> BindOK(job.k)
      [] At("claim")    -> PreserveOK(job.k) \/ ClaimOK(job.k)
      [] At("purge")    -> PurgeOK(job.k)
      [] At("mark")     -> MarkedOK(job.k)
      [] At("complete") -> MarkedOK(job.k)
      [] OTHER          -> TRUE
Refuse ==
    /\ job.k # 0 /\ ~Passes
    /\ job' = Idle
    /\ UNCHANGED <<runtime, durable, consent, crashes>>

(* A later request for a fenced Session goes on where the fence stands; the  *)
(* confirmation it carries is not read any more.                             *)
Retry(k) ==
    /\ At("idle") /\ op[k].st # "none"
    /\ op[k].disp = "none" => ~Unconfirmed(op[k].allow)
    /\ job' = [step |-> IF op[k].disp = "none" THEN "bind" ELSE "claim",
               k |-> k, allow |-> op[k].allow, plan |-> Capture(k)]
    /\ UNCHANGED <<runtime, durable, consent, crashes>>

-----------------------------------------------------------------------------
(* Housekeeping retires the worktree and keeps the Session and the branch.   *)

(* retire_session_workspace, of a candidate that is clean or may be dirty.   *)
Keep(allow) ==
    /\ At("idle") /\ Claimable(allow) /\ ~Unconfirmed(allow)
    /\ job' = [Idle EXCEPT !.step = "remove", !.allow = allow]
    /\ UNCHANGED <<runtime, tree, op, receipt, crashes>>
KeepNew(allow) ==
    /\ ctx.st = "admitted" /\ tree.present /\ Keep(allow)
    /\ ClaimFor(allow) /\ consent' = (consent \/ allow)

(* reconcile_retiring_session_workspaces: only with the authority of the     *)
(* claim.                                                                    *)
KeepOld ==
    /\ ctx.st = "retiring" /\ Keep(ctx.dirty)
    /\ UNCHANGED <<ctx, consent>>

(* remove_managed_worktree: git itself refuses to remove a dirty one.        *)
Remove ==
    /\ At("remove")
    /\ IF Unconfirmed(job.allow)
       THEN job' = Idle /\ UNCHANGED tree
       ELSE Go("removed") /\ tree' = [tree EXCEPT !.present = FALSE, !.dirty = FALSE]
    /\ UNCHANGED <<runtime, ctx, op, receipt, consent, crashes>>
Removed ==
    /\ At("removed")
    /\ ctx' = [ctx EXCEPT !.st = "retired"] /\ job' = Idle
    /\ UNCHANGED <<runtime, tree, op, receipt, consent, crashes>>

-----------------------------------------------------------------------------
(* The takeover of k by k + 1 (SupervisorTakeover), abridged: the fence moves *)
(* the writer lease, the launch moves the context.                           *)

Fence(k) ==
    /\ At("idle") /\ k < N /\ life[k] = "running" /\ Owns(k) /\ lease = k
    /\ life' = [life EXCEPT ![k] = "fenced"] /\ tk' = [tk EXCEPT ![k] = "fenced"]
    /\ lease' = k + 1
    /\ job' = [Idle EXCEPT !.step = "launch"]
    /\ UNCHANGED <<child, work, durable, consent, crashes>>
Launch(k) ==
    /\ At("launch") \/ At("idle")
    /\ tk[k] = "fenced" /\ tk' = [tk EXCEPT ![k] = "completed"]
    /\ life' = [life EXCEPT ![k + 1] = "running"]
    /\ ctx' = [ctx EXCEPT !.owner = k + 1]
    /\ job' = Idle
    /\ UNCHANGED <<child, work, lease, tree, op, receipt, consent, crashes>>
LaunchFails(k) ==
    /\ At("launch") \/ At("idle")
    /\ tk[k] = "fenced" /\ tk' = [tk EXCEPT ![k] = "failed"]
    /\ job' = Idle
    /\ UNCHANGED <<life, child, work, lease, durable, consent, crashes>>

-----------------------------------------------------------------------------
(* What runs beside the lock.                                                *)

(* An input for the Session is queued, and is done with.                     *)
Input(k) ==
    /\ work[k] = "none" /\ Accepts(k)
    /\ work' = [work EXCEPT ![k] = "open"]
    /\ UNCHANGED <<life, child, tk, lease, durable, job, consent, crashes>>
Done(k) ==
    /\ work[k] = "open" /\ work' = [work EXCEPT ![k] = "over"]
    /\ UNCHANGED <<life, child, tk, lease, durable, job, consent, crashes>>

(* create_terminal of a child: the request is under way before its row is.   *)
AskChild(k) ==
    /\ k \in Parents /\ life[k] = "running" /\ child[k] = "none"
    /\ child' = [child EXCEPT ![k] = "asked"]
    /\ UNCHANGED <<life, work, tk, lease, durable, job, consent, crashes>>
CreateChild(k) ==
    /\ child[k] = "asked"
    /\ child' = [child EXCEPT ![k] = IF Accepts(k) THEN "running" ELSE "none"]
    /\ UNCHANGED <<life, work, tk, lease, durable, job, consent, crashes>>
ChildExits(k) ==
    /\ child[k] = "running" /\ child' = [child EXCEPT ![k] = "exited"]
    /\ UNCHANGED <<life, work, tk, lease, durable, job, consent, crashes>>

(* delete_exited_terminal, which a fenced Session refuses.                   *)
DeleteChild(k) ==
    /\ child[k] = "exited" /\ op[k].st = "none"
    /\ child' = [child EXCEPT ![k] = "deleted"]
    /\ UNCHANGED <<life, work, tk, lease, durable, job, consent, crashes>>

(* The supervisor exits and its writer lease is given back.                  *)
Exit(k) ==
    /\ life[k] = "running"
    /\ life' = [life EXCEPT ![k] = "exited"]
    /\ lease' = IF lease = k THEN 0 ELSE lease
    /\ UNCHANGED <<child, work, tk, durable, job, consent, crashes>>

(* Somebody commits in the worktree or leaves changes in it.                 *)
Edit ==
    /\ tree.present /\ tree.rev < MaxEdits
    /\ \E d \in BOOLEAN : tree' = [tree EXCEPT !.rev = @ + 1, !.dirty = d]
    /\ UNCHANGED <<runtime, ctx, op, receipt, job, consent, crashes>>

Crash ==
    /\ crashes < MaxCrashes /\ ~At("idle") /\ crashes' = crashes + 1
    /\ job' = Idle
    /\ child' = [k \in Session |-> IF child[k] = "asked" THEN "none" ELSE child[k]]
    /\ UNCHANGED <<life, work, tk, lease, durable, consent>>

-----------------------------------------------------------------------------
Delete(k) ==
    \/ Cancel(k) \/ Sweep(k) \/ Begin(k) \/ Bind(k) \/ Preserve(k) \/ Claim(k)
    \/ Purge(k) \/ PurgeBranch(k) \/ Retire(k) \/ Mark(k) \/ Complete(k)
Housekeep == KeepOld \/ Remove \/ Removed
Takeover(k) == Fence(k) \/ Launch(k) \/ LaunchFails(k)
Beside(k) ==
    \/ Input(k) \/ Done(k) \/ Exit(k)
    \/ AskChild(k) \/ CreateChild(k) \/ ChildExits(k) \/ DeleteChild(k)

Next ==
    \/ \E k \in Session : \/ Retry(k) \/ Delete(k) \/ Takeover(k) \/ Beside(k)
                          \/ \E yes \in BOOLEAN : Request(k, yes)
    \/ Refuse \/ Housekeep \/ (\E allow \in BOOLEAN : KeepNew(allow))
    \/ Edit \/ Crash

(* A request that holds the lock runs on; the reconciler of retirements runs *)
(* again and again; and whoever deleted a Session that stays fenced asks     *)
(* again, as the error tells them to.                                        *)
Fairness ==
    /\ WF_vars((\E k \in Session : Delete(k)) \/ Refuse)
    /\ WF_vars(Remove \/ Removed) /\ SF_vars(KeepOld)
    /\ \A k \in Session : WF_vars(Launch(k) \/ LaunchFails(k)) /\ SF_vars(Retry(k))

Spec == Init /\ [][Next]_vars /\ Fairness

-----------------------------------------------------------------------------
(* Properties.                                                               *)

(* A fenced or deleted Session is dead: nothing of it runs or has work.      *)
FencedIsDead ==
    \A k \in Session : op[k].st # "none" \/ receipt[k] # "none" =>
        life[k] # "running" /\ child[k] # "running" /\ work[k] # "open"

(* A receipt that says the worktree was retired is true of the worktree and  *)
(* of the branch; one that says it was preserved names another Session that  *)
(* had it by a completed takeover.                                           *)
ReceiptIsTrue ==
    \A k \in Session :
        /\ receipt[k] = "retired" => ~tree.present /\ ~tree.branch
        /\ receipt[k] = "foreign" => \E j \in {k - 1, k} \cap Session : tk[j] = "completed"

(* The worktree is not removed while the supervisor of any Session runs in   *)
(* it or a takeover of it is under way, nor, with uncommitted changes, before *)
(* somebody confirmed it.                                                    *)
RemovalIsSafe ==
    [][tree.present /\ ~tree'.present =>
         /\ \A k \in Session : life[k] # "running" /\ tk[k] # "fenced"
         /\ tree.dirty => consent]_vars

(* What can keep a fenced Session fenced for ever: the worktree changed      *)
(* after its state was bound, was removed for its successor, or became dirty *)
(* without consent;                                                          *)
Edited(k) ==
    CASE op[k].disp = "none"    -> tree.dirty /\ ~op[k].allow
      [] op[k].disp = "foreign" -> op[k].plan.tree.present # tree.present
      [] OTHER                  -> ~Same(op[k].plan)
(* a retirement was claimed without consent to changes that came later;      *)
Overruled == ctx.st = "retiring" /\ tree.dirty /\ ~ctx.dirty
(* a child was deleted after the claim that counted it;                      *)
Orphaned == ctx.st = "retiring" /\ ctx.kids # Kids(ctx.owner)
(* the successor is gone and left the worktree because of this Session.      *)
Outlived == ctx.owner = 0 /\ tree.present
Stranded(k) == Edited(k) \/ Overruled \/ Orphaned \/ Outlived

(* A deletion that was begun ends, unless one of these happened.             *)
DeletionEnds ==
    \A k \in Session : op[k].st # "none" ~> (op[k].st = "none" \/ Stranded(k))

(* What the error of a request that did not finish promises: "The Session    *)
(* remains fenced; retry deletion to converge".                              *)
RetryConverges == \A k \in Session : op[k].st # "none" ~> op[k].st = "none"
=============================================================================
