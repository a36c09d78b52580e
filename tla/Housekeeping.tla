---------------------------- MODULE Housekeeping ----------------------------
(***************************************************************************)
(* Disk cleanup: the ordinary Housekeeping run, the Full Cleanup operation *)
(* which the API process admits and a root helper carries out, and the     *)
(* agents, launches and Session deletions they must not run into.          *)
(*                                                                         *)
(* Two kinds of authority keep them apart.  File locks (housekeeping,      *)
(* context-launch, the execution admission locks) belong to a process and  *)
(* vanish with it; they are not variables, the predicates HousekeepingLock *)
(* and LaunchLock and ExecutionLock read them off the step each process is *)
(* at.  The durable row of a Full Cleanup operation survives the API       *)
(* process, because the helper does.                                       *)
(*                                                                         *)
(* An item is anything a plan may name: Paths are captured in a quarantine *)
(* before they are deleted, Trees are linked worktrees removed by git, and *)
(* Spaces are the managed worktrees of Sessions, which whoever removes     *)
(* them first claims in a durable record, their writable work context.  A  *)
(* version stands for the content fingerprint, "held" for every protection *)
(* the inventory finds (an open file, a bound worktree), "dirty" for       *)
(* content no commit keeps.  A Space may go while it is dirty, or changed  *)
(* since it was confirmed, when the operator agreed to lose such content.  *)
(***************************************************************************)
EXTENDS Naturals, FiniteSets

CONSTANTS Paths, Trees, Spaces,  \* what a plan may name
          NoItem,        \* none of them
          MaxOps,        \* bound: operations the operator's page mints an id for
          MaxTouches,    \* bound: changes of one item's content
          MaxTouched,    \* bound: items whose content changes
          MaxLaunches,   \* bound: launches into one Session
          MaxCrashes     \* bound: deaths of the API process, helpers and runs

Items == Paths \cup Trees \cup Spaces

ASSUME ItemsAssumption ==
  /\ Paths \cap Trees = {} /\ Paths \cap Spaces = {} /\ Trees \cap Spaces = {}
  /\ NoItem \notin Items
ASSUME BoundsAssumption ==
  /\ MaxOps \in Nat /\ MaxTouches \in Nat /\ MaxTouched \in Nat
  /\ MaxLaunches \in Nat /\ MaxCrashes \in Nat

Ops == 1 .. MaxOps
NoOp == 0

VARIABLES
  there, version, held, dirty,  \* the items on disk
  authority,              \* which launch into the Session a Space belongs to
  ctx,                    \* the work contexts: state, and dirty consent and authority of a claim
  agreed,                 \* authorities under which losing content was agreed to (no code reads it)
  agent,                  \* "idle" (Ready or Exited) or "busy" (any agent executing)
  api, apiOp,             \* the API process: the step of its cleanup request, and for which operation
  state, plan, consent, report,  \* the durable operation rows
  removed,                \* whether the helper of an operation removed anything yet (no code reads it)
  helper, todo, pick, result,  \* one helper process per operation
  run, runTodo, runPick,  \* one ordinary run (timer or command line)
  mend,                   \* the Space the tick of the API process is finishing
  deleting,               \* the Space a Session deletion of the API process is removing
  crashes

diskVars == <<there, version, held, dirty>>
spaceVars == <<authority, ctx, agreed>>
itemVars == <<diskVars, spaceVars>>
apiVars == <<api, apiOp>>
rowVars == <<state, plan, consent, report, removed>>
helperVars == <<helper, todo, pick, result>>
runVars == <<run, runTodo, runPick>>
taskVars == <<mend, deleting>>
vars == <<itemVars, agent, apiVars, rowVars, helperVars, runVars, taskVars, crashes>>

\* What a plan says of an item: which content (none when the consent covers any),
\* under which authority, and whether content no commit keeps may go with it, and
\* would have when the plan was made.
Candidates == [item : Items, content : 0 .. MaxTouches, auth : 0 .. MaxLaunches,
               allow : BOOLEAN, dirty : BOOLEAN]
Plans == SUBSET Candidates

\* The candidate a process is at, and how far it is with it.
Stages == {"picked", "claimed", "checked", "gone"}
Picks == [of : Candidates, at : Stages]
NoPick == NoItem

Contexts == [state : {"admitted", "retiring", "retired"}, dirty : BOOLEAN, auth : 0 .. MaxLaunches]

TypeOK ==
  /\ there \in [Items -> BOOLEAN]
  /\ version \in [Items -> 0 .. MaxTouches]
  /\ held \in [Items -> BOOLEAN]
  /\ dirty \in [Items -> BOOLEAN]
  /\ authority \in [Items -> 0 .. MaxLaunches]
  /\ ctx \in [Spaces -> Contexts]
  /\ agreed \in [Spaces -> SUBSET (0 .. MaxLaunches)]
  /\ agent \in {"idle", "busy"}
  /\ api \in {"down", "idle", "admitted", "sent", "settle", "reconcile"}
  /\ apiOp \in Ops \cup {NoOp}
  /\ state \in [Ops -> {"none", "admitted", "running", "completed", "issues",
                        "failed", "indeterminate"}]
  /\ plan \in [Ops -> Plans]
  /\ consent \in [Ops -> BOOLEAN]
  /\ report \in [Ops -> BOOLEAN]
  /\ helper \in [Ops -> {"none", "up", "proved", "claimed", "privileged", "runtime",
                         "answered", "exited"}]
  /\ todo \in [Ops -> Plans]
  /\ pick \in [Ops -> Picks \cup {NoPick}]
  /\ result \in [Ops -> {"clean", "skips", "fails"}]
  /\ removed \in [Ops -> BOOLEAN]
  /\ run \in {"none", "run"}
  /\ runTodo \in Plans
  /\ runPick \in Picks \cup {NoPick}
  /\ mend \in Picks \cup {NoPick}
  /\ deleting \in Spaces \cup {NoItem}
  /\ crashes \in 0 .. MaxCrashes

Init ==
  /\ there = [i \in Items |-> TRUE]
  /\ version = [i \in Items |-> 0]
  /\ held = [i \in Items |-> FALSE]
  /\ dirty \in {d \in [Items -> BOOLEAN] : \A i \in Items \ Spaces : ~d[i]}
  /\ authority = [i \in Items |-> 0]
  /\ ctx = [i \in Spaces |-> [state |-> "admitted", dirty |-> FALSE, auth |-> 0]]
  /\ agreed = [i \in Spaces |-> {}]
  /\ agent = "idle"
  /\ api = "idle" /\ apiOp = NoOp
  /\ state = [o \in Ops |-> "none"]
  /\ plan = [o \in Ops |-> {}]
  /\ consent = [o \in Ops |-> FALSE]
  /\ report = [o \in Ops |-> FALSE]
  /\ helper = [o \in Ops |-> "none"]
  /\ todo = [o \in Ops |-> {}]
  /\ pick = [o \in Ops |-> NoPick]
  /\ result = [o \in Ops |-> "clean"]
  /\ removed = [o \in Ops |-> FALSE]
  /\ run = "none" /\ runTodo = {} /\ runPick = NoPick
  /\ mend = NoPick /\ deleting = NoItem
  /\ crashes = 0

----------------------------------------------------------------------------
(* Locks and the durable fence *)

\* The API process holds every admission lock and the housekeeping lock from
\* its idle check until its request for a Full Cleanup returns.
Requesting == api \in {"admitted", "sent", "settle", "reconcile"}

\* housekeeping.lock: one plan, run, Full Cleanup or Session deletion at a time.
HousekeepingLock == Requesting \/ run = "run" \/ deleting # NoItem

\* context-launch.lock: launches, Session deletions and worktree removals.
\* The tick and an ordinary run hold it for the worktree they are at, a helper
\* relies on the process that asked for it.
AtTree(p) == p # NoPick /\ p.of.item \notin Paths
LaunchLock == Requesting \/ deleting # NoItem \/ mend # NoPick \/ AtTree(runPick)

\* workflow-execution- and provider-execution-admission.lock.
ExecutionLock == Requesting

\* The rows' new states.  The plan of a settled row is never read again, nor what
\* its helper had removed.
SetRows(new) ==
  LET open(o) == new[o] \in {"admitted", "running"}
  IN /\ state' = new
     /\ plan' = [o \in Ops |-> IF open(o) THEN plan[o] ELSE {}]
     /\ consent' = [o \in Ops |-> open(o) /\ consent[o]]
     /\ removed' = [o \in Ops |-> open(o) /\ removed[o]]

\* require_no_active_full_cleanup_operation
NoActiveOperation == \A o \in Ops : state[o] \notin {"admitted", "running"}

----------------------------------------------------------------------------
(* Plans *)

\* The snapshot of a Session workspace gives no reason against its retirement.
InactiveAny(i) == ctx[i].state \in {"admitted", "retiring"}
Inactive(i) == ctx[i].state \in {"admitted", "retiring"} /\ ~held[i]

\* Dirty content may go when the caller says so, and in any case under a claim that
\* was made with that consent.
Allows(i, asked) == i \in Spaces /\ (asked \/ (ctx[i].state = "retiring" /\ ctx[i].dirty))

\* A claim made without the consent, or under another authority, is not extended; a
\* worktree that is gone already may still be retired.
MayRetire(i, asked) ==
  /\ Inactive(i)
  /\ ctx[i].state = "retiring" => (asked => ctx[i].dirty) /\ ctx[i].auth = authority[i]
  /\ dirty[i] => Allows(i, asked)

\* Nothing protects the item: no open path, no bound or dirty worktree.
Unprotected(i, asked) ==
  \/ i \in Spaces /\ MayRetire(i, asked)
  \/ i \notin Spaces /\ there[i] /\ ~held[i] /\ ~dirty[i]

CandidateOf(i, allow) ==
  [item |-> i, content |-> IF allow THEN 0 ELSE version[i], auth |-> authority[i],
   allow |-> allow, dirty |-> allow /\ dirty[i]]

\* The plan of this moment.  Its id is a digest of everything it names, so two
\* plans have one id when they are equal.
Plan(asked) == {CandidateOf(i, Allows(i, asked)) : i \in {x \in Items : Unprotected(x, asked)}}

\* The item is still what the candidate says.  The fingerprint is not compared when
\* the consent covers any content, the authority always.
Same(c) ==
  /\ authority[c.item] = c.auth
  /\ c.allow \/ (version[c.item] = c.content /\ ~Allows(c.item, FALSE))

\* What the executor finds when it looks at a candidate again.
Eligible(c) == Unprotected(c.item, c.allow) /\ Same(c)

\* Whether a candidate left alone counts as a failure: changed it is one, gone or
\* protected it is skipped.  A changed tree whose commit no durable reference keeps
\* is protected, and for some paths the change is found first.
Verdicts(c) ==
  IF Unprotected(c.item, c.allow)
    THEN IF c.item \in Trees THEN BOOLEAN ELSE {TRUE}
    ELSE {FALSE} \cup {found \in {TRUE} : /\ c.item \in Paths /\ there[c.item]
                                         /\ version[c.item] # c.content}

\* The last look.  A captured path is compared once more and put back when it
\* differs; git refuses a worktree with content no commit keeps, not a new commit.
Intact(c) ==
  /\ there[c.item]
  /\ IF c.item \in Paths THEN version[c.item] = c.content ELSE ~dirty[c.item]

\* The item is removed.
Vanish(i) == there' = [there EXCEPT ![i] = FALSE] /\ dirty' = [dirty EXCEPT ![i] = FALSE]

\* Full Cleanup waits for every agent to be Ready or Exited.
IdleGate == agent = "idle"

\* The candidates a root helper deletes itself, before the runtime account's.
Privileged(p) == {c \in p : c.item \in Paths}

----------------------------------------------------------------------------
(* retire_session_workspace: claim, look once more, remove, record; taken by *)
(* helpers, ordinary runs and the tick of the API process alike              *)

\* claim_session_workspace_retirement, in one transaction.
ClaimAllowed(c) ==
  /\ Inactive(c.item) /\ authority[c.item] = c.auth
  /\ ctx[c.item].state = "retiring" => ctx[c.item].dirty = c.allow /\ ctx[c.item].auth = c.auth
ClaimFor(c) == [ctx EXCEPT ![c.item] = [state |-> "retiring", dirty |-> c.allow, auth |-> c.auth]]

\* The claim closes the Session; worktree, authority and claim are read once more.
StillClaimed(c) ==
  Eligible(c) /\ ctx[c.item].dirty = c.allow /\ ctx[c.item].auth = c.auth

\* remove_managed_worktree: one that is gone already counts as removed.
GitRemovesForced(c) == TRUE
GitRemoves(c) == dirty[c.item] => c.allow

Retired(i) == [ctx EXCEPT ![i].state = "retired"]

\* The next step with a Space, or the failure that ends the work on it.
Advance(p, next) ==
  \/ /\ p.at = "picked" /\ ClaimAllowed(p.of) /\ next = "claimed"
     /\ ctx' = ClaimFor(p.of) /\ UNCHANGED <<there, dirty>>
  \/ /\ p.at = "claimed" /\ StillClaimed(p.of) /\ next = "checked"
     /\ UNCHANGED <<ctx, there, dirty>>
  \/ /\ p.at = "checked" /\ GitRemoves(p.of) /\ next = "gone"
     /\ Vanish(p.of.item) /\ UNCHANGED ctx
  \/ /\ p.at = "gone" /\ ctx[p.of.item].state = "retiring" /\ next = "done"
     /\ ctx' = Retired(p.of.item) /\ UNCHANGED <<there, dirty>>
  \/ /\ \/ p.at = "picked" /\ ~ClaimAllowed(p.of)
        \/ p.at = "claimed" /\ ~StillClaimed(p.of)
        \/ p.at = "checked" /\ ~GitRemoves(p.of)
        \/ p.at = "gone" /\ ctx[p.of.item].state # "retiring"
     /\ next = "failed"
     /\ UNCHANGED <<ctx, there, dirty>>

\* Where that leaves the process.
After(p, next) == IF next \in Stages THEN [p EXCEPT !.at = next] ELSE NoPick

----------------------------------------------------------------------------
(* Agents, launches and everyone else *)

\* An input is activated: the turn waits for the admission locks and is refused
\* while an operation is admitted or running.
AdmitWork ==
  /\ agent = "idle"
  /\ ~ExecutionLock
  /\ NoActiveOperation
  /\ agent' = "busy"
  /\ UNCHANGED <<itemVars, apiVars, rowVars, helperVars, runVars, taskVars, crashes>>

WorkEnds ==
  /\ agent = "busy"
  /\ agent' = "idle"
  /\ UNCHANGED <<itemVars, apiVars, rowVars, helperVars, runVars, taskVars, crashes>>

\* A working agent opens a path.
Open(i) ==
  /\ agent = "busy"
  /\ i \in Paths /\ there[i] /\ ~held[i]
  /\ held' = [held EXCEPT ![i] = TRUE]
  /\ UNCHANGED <<there, version, dirty, spaceVars, agent, apiVars, rowVars, helperVars, runVars,
                 taskVars, crashes>>

\* A launch binds a worktree under the launch lock, after the admission check; a
\* Session that is being retired takes none, and has a new authority afterwards.
Launch(i) ==
  /\ ~LaunchLock
  /\ NoActiveOperation
  /\ i \in Trees \cup Spaces /\ there[i] /\ ~held[i]
  /\ i \in Spaces => ctx[i].state = "admitted" /\ authority[i] < MaxLaunches
  /\ held' = [held EXCEPT ![i] = TRUE]
  /\ authority' = [authority EXCEPT ![i] = IF i \in Spaces THEN @ + 1 ELSE @]
  /\ UNCHANGED <<there, version, dirty, ctx, agreed, agent, apiVars, rowVars, helperVars, runVars,
                 taskVars, crashes>>

\* A file is closed, or the agent bound to a worktree has exited.
Release(i) ==
  /\ held[i]
  /\ held' = [held EXCEPT ![i] = FALSE]
  /\ UNCHANGED <<there, version, dirty, spaceVars, agent, apiVars, rowVars, helperVars, runVars,
                 taskVars, crashes>>

\* Somebody, an agent or a person at the shell, changes the content of an item a
\* plan names or a claim binds (a change before that is as good as none), and
\* commits it or not.
Named(i) ==
  \/ \E c \in runTodo : c.item = i
  \/ \E o \in Ops : state[o] \in {"admitted", "running"} /\ \E c \in plan[o] : c.item = i
  \/ i \in Spaces /\ ctx[i].state = "retiring"
Touch(i, uncommitted) ==
  /\ there[i] /\ version[i] < MaxTouches
  /\ Cardinality({j \in Items \ {i} : version[j] > 0}) < MaxTouched
  /\ Named(i)
  /\ uncommitted => i \notin Paths
  /\ version' = [version EXCEPT ![i] = @ + 1]
  /\ dirty' = [dirty EXCEPT ![i] = uncommitted]
  /\ UNCHANGED <<there, held, spaceVars, agent, apiVars, rowVars, helperVars, runVars, taskVars,
                 crashes>>

\* Session deletion: its destructive part runs in the API process under the
\* launch lock and the housekeeping lock, and claims the workspace with the
\* consent its own operator gave.  SessionDeletion has the whole of it.
DeleteStarts(i, yes) ==
  /\ api = "idle"
  /\ ~LaunchLock /\ ~HousekeepingLock
  /\ i \in Spaces /\ ClaimAllowed(CandidateOf(i, yes))
  /\ deleting' = i
  /\ ctx' = ClaimFor(CandidateOf(i, yes))
  /\ agreed' = [agreed EXCEPT ![i] = IF yes THEN @ \cup {authority[i]} ELSE @]
  /\ UNCHANGED <<diskVars, authority, agent, apiVars, rowVars, helperVars, runVars, mend, crashes>>

\* A dirty worktree it may not lose ends it; the claim stays.
DeleteEnds ==
  /\ deleting # NoItem
  /\ IF dirty[deleting] /\ ~ctx[deleting].dirty
       THEN UNCHANGED <<there, dirty, ctx>>
       ELSE Vanish(deleting) /\ ctx' = Retired(deleting)
  /\ deleting' = NoItem
  /\ UNCHANGED <<version, held, authority, agreed, agent, apiVars, rowVars, helperVars, runVars,
                 mend, crashes>>

\* The tick finishes a retirement that was interrupted: with the consent of its
\* claim, never with more, and whoever else may be at it.
MendPick(i) ==
  /\ api # "down"
  /\ ~LaunchLock
  /\ i \in Spaces /\ ctx[i].state = "retiring" /\ MayRetire(i, FALSE)
  /\ mend' = [of |-> CandidateOf(i, Allows(i, FALSE)), at |-> "picked"]
  /\ UNCHANGED <<itemVars, agent, apiVars, rowVars, helperVars, runVars, deleting, crashes>>

Mend ==
  /\ mend # NoPick
  /\ \E next \in Stages \cup {"done", "failed"} :
       Advance(mend, next) /\ mend' = After(mend, next)
  /\ UNCHANGED <<version, held, authority, agreed, agent, apiVars, rowVars, helperVars, runVars,
                 deleting, crashes>>

----------------------------------------------------------------------------
(* The API process: confirm, request, recover *)

SetHelper(o, at) == helper' = [helper EXCEPT ![o] = at]

\* The process ends, with an answer for as long as its request waits for one.
EndHelper(o, answers) ==
  /\ SetHelper(o, IF answers /\ api = "sent" /\ apiOp = o THEN "answered" ELSE "exited")
  /\ todo' = [todo EXCEPT ![o] = {}]
  /\ pick' = [pick EXCEPT ![o] = NoPick]
  /\ result' = [result EXCEPT ![o] = "clean"]

SetApi(at) == api' = at /\ UNCHANGED apiOp

\* The operator confirms a plan some preview showed, under the next unused id (a
\* known one is only observed).  The request takes every lock or none and checks
\* rows, gate and plan under them: it goes on when the id confirmed is that of the
\* plan of now, and admits the operation for it.  With it goes whether the content
\* of the Sessions it names may be lost, whatever it is by then.
Confirm(o, yes) ==
  /\ api = "idle"
  /\ state[o] = "none" /\ \A p \in Ops : p < o => state[p] # "none"
  /\ ~HousekeepingLock /\ ~LaunchLock
  /\ NoActiveOperation
  /\ IdleGate
  /\ yes => Spaces # {}
  /\ state' = [state EXCEPT ![o] = "admitted"]
  /\ plan' = [plan EXCEPT ![o] = Plan(yes)]
  /\ consent' = [consent EXCEPT ![o] = yes]
  /\ agreed' = [i \in Spaces |-> IF yes /\ MayRetire(i, yes) THEN agreed[i] \cup {authority[i]}
                                                         ELSE agreed[i]]
  /\ api' = "admitted" /\ apiOp' = o
  /\ UNCHANGED <<diskVars, authority, ctx, agent, report, removed, helperVars, runVars, taskVars,
                 crashes>>

\* The connection starts one helper.
Send ==
  /\ api = "admitted"
  /\ helper' = [helper EXCEPT ![apiOp] = "up"]
  /\ SetApi("sent")
  /\ UNCHANGED <<itemVars, agent, rowVars, todo, pick, result, runVars, taskVars, crashes>>

\* The request is over and its locks are let go.
ReturnApi == api' = "idle" /\ apiOp' = NoOp

\* No socket, a timeout, a connection closed by a dead helper, a garbled answer:
\* recover_after_transport_failure reads the row, and then acts on what it read.
TransportFails ==
  /\ api \in {"admitted", "sent"}
  /\ SetApi(IF state[apiOp] = "admitted" THEN "settle" ELSE "reconcile")
  /\ UNCHANGED <<itemVars, agent, rowVars, helperVars, runVars, taskVars, crashes>>

\* The helper answered: its report is read back from the row, or the reason of
\* its refusal is passed on to the operator.  Either way the request ends here.
Answered ==
  /\ api = "sent" /\ helper[apiOp] = "answered"
  /\ ReturnApi
  /\ SetHelper(apiOp, "exited")
  /\ UNCHANGED <<itemVars, agent, rowVars, todo, pick, result, runVars, taskVars, crashes>>

RecoverSettles ==
  /\ api = "settle"
  /\ SetRows([state EXCEPT ![apiOp] = IF @ = "admitted" THEN "failed" ELSE @])
  /\ ReturnApi
  /\ UNCHANGED <<itemVars, agent, report, helperVars, runVars, taskVars, crashes>>

\* The helper's process id and start time no longer name a live process.
Exited(o) == helper[o] \in {"answered", "exited"}

\* reconcile_interrupted_full_cleanup_operations: what it leaves in the row.
ReconciledAny(o, includeAdmitted) == IF state[o] = "running" THEN "indeterminate" ELSE state[o]
ReconciledFailed(o, includeAdmitted) ==
  IF state[o] = "running" /\ Exited(o) THEN "failed" ELSE state[o]
Reconciled(o, includeAdmitted) ==
  CASE state[o] = "admitted" /\ includeAdmitted -> "failed"
    [] state[o] = "running" /\ Exited(o) -> "indeterminate"
    [] OTHER -> state[o]

ReconcileRows(includeAdmitted) ==
  /\ SetRows([o \in Ops |-> Reconciled(o, includeAdmitted)])
  /\ UNCHANGED report

RecoverReconciles ==
  /\ api = "reconcile"
  /\ ReconcileRows(FALSE)
  /\ ReturnApi
  /\ UNCHANGED <<itemVars, agent, helperVars, runVars, taskVars, crashes>>

\* The page asks for an operation; another request thread answers.
Poll ==
  /\ api # "down"
  /\ ReconcileRows(FALSE)
  /\ state' # state
  /\ UNCHANGED <<itemVars, agent, apiVars, helperVars, runVars, taskVars, crashes>>

\* Everything the process held goes with it; rows and helpers stay.
ApiCrash ==
  /\ api # "down" /\ crashes < MaxCrashes
  /\ api' = "down" /\ apiOp' = NoOp
  /\ mend' = NoPick /\ deleting' = NoItem
  /\ crashes' = crashes + 1
  /\ UNCHANGED <<itemVars, agent, rowVars, helperVars, runVars>>

ApiStart ==
  /\ api = "down"
  /\ api' = "idle"
  /\ ReconcileRows(TRUE)
  /\ UNCHANGED <<apiOp, itemVars, agent, helperVars, runVars, taskVars, crashes>>

----------------------------------------------------------------------------
(* The root helper of one operation *)

Removing(o) == helper[o] \in {"privileged", "runtime"}
Alive(o) == helper[o] # "none" /\ ~Exited(o)

\* The peer must be a process that holds every lock.
Prove(o) ==
  /\ helper[o] = "up"
  /\ IF Requesting THEN SetHelper(o, "proved") /\ UNCHANGED <<todo, pick, result>>
                   ELSE EndHelper(o, TRUE)
  /\ UNCHANGED <<itemVars, agent, apiVars, rowVars, runVars, taskVars, crashes>>

\* A configuration, identity or database error before the claim.
RefuseEarly(o) ==
  /\ helper[o] \in {"up", "proved"}
  /\ EndHelper(o, TRUE)
  /\ UNCHANGED <<itemVars, agent, apiVars, rowVars, runVars, taskVars, crashes>>

\* The token in the row is used up by the first claim.
Claimable(o) == state[o] = "admitted"

Claim(o) ==
  /\ helper[o] = "proved"
  /\ IF Claimable(o)
       THEN /\ state' = [state EXCEPT ![o] = "running"]
            /\ SetHelper(o, "claimed") /\ UNCHANGED <<todo, pick, result>>
       ELSE EndHelper(o, TRUE) /\ UNCHANGED state
  /\ UNCHANGED <<itemVars, agent, apiVars, plan, consent, report, removed, runVars, taskVars, crashes>>

\* Gate and plan once more, under the row.  A refusal ends the operation.
Gate(o) ==
  /\ helper[o] = "claimed"
  /\ IF IdleGate /\ Plan(consent[o]) = plan[o]
       THEN /\ SetHelper(o, "privileged")
            /\ todo' = [todo EXCEPT ![o] = Privileged(plan[o])]
            /\ UNCHANGED <<state, plan, consent, removed, pick, result>>
       ELSE /\ SetRows([state EXCEPT ![o] = IF @ = "running" THEN "failed" ELSE @])
            /\ EndHelper(o, TRUE)
  /\ UNCHANGED <<itemVars, agent, apiVars, report, runVars, taskVars, crashes>>

\* A candidate left where it is: a failure counts more than a skip.
Worst(before, fails) == IF fails \/ before = "fails" THEN "fails" ELSE "skips"

\* One candidate is looked at again: it is picked or left alone.
Recheck(o, c) ==
  /\ Removing(o) /\ pick[o] = NoPick
  /\ c \in todo[o]
  /\ IF Eligible(c)
       THEN pick' = [pick EXCEPT ![o] = [of |-> c, at |-> "picked"]] /\ UNCHANGED <<todo, result>>
       ELSE /\ todo' = [todo EXCEPT ![o] = @ \ {c}]
            /\ \E fails \in Verdicts(c) : result' = [result EXCEPT ![o] = Worst(@, fails)]
            /\ UNCHANGED pick
  /\ UNCHANGED <<itemVars, agent, apiVars, rowVars, helper, runVars, taskVars, crashes>>

\* A path or a linked worktree goes in one step.
Remove(o) ==
  /\ Removing(o) /\ pick[o] # NoPick
  /\ LET c == pick[o].of
     IN /\ c.item \notin Spaces
        /\ IF Intact(c)
             THEN /\ Vanish(c.item)
                  /\ removed' = [removed EXCEPT ![o] = TRUE]
                  /\ UNCHANGED result
             ELSE /\ result' = [result EXCEPT ![o] = Worst(@, there[c.item] \/ c.item \in Trees)]
                  /\ UNCHANGED <<there, dirty, removed>>
        /\ todo' = [todo EXCEPT ![o] = @ \ {c}]
  /\ pick' = [pick EXCEPT ![o] = NoPick]
  /\ UNCHANGED <<version, held, spaceVars, agent, apiVars, state, plan, consent, report, helper,
                 runVars, taskVars, crashes>>

\* A Session workspace takes several.
Retire(o) ==
  /\ Removing(o) /\ pick[o] # NoPick
  /\ LET c == pick[o].of
     IN /\ c.item \in Spaces
        /\ \E next \in Stages \cup {"done", "failed"} :
             /\ Advance(pick[o], next)
             /\ pick' = [pick EXCEPT ![o] = After(@, next)]
             /\ todo' = [todo EXCEPT ![o] = IF next \in Stages THEN @ ELSE @ \ {c}]
             /\ result' = [result EXCEPT ![o] = IF next = "failed" THEN Worst(@, TRUE) ELSE @]
             /\ removed' = [removed EXCEPT ![o] = @ \/ (there[c.item] /\ ~there'[c.item])]
  /\ UNCHANGED <<version, held, authority, agreed, agent, apiVars, state, plan, consent, report,
                 helper, runVars, taskVars, crashes>>

\* The runtime account's candidates follow only when the privileged ones went well.
PhaseOver(o) == Removing(o) /\ todo[o] = {}
LastPhase(o) == helper[o] = "runtime" \/ result[o] = "fails"

NextPhase(o) ==
  /\ PhaseOver(o) /\ ~LastPhase(o)
  /\ SetHelper(o, "runtime")
  /\ todo' = [todo EXCEPT ![o] = plan[o] \ Privileged(plan[o])]
  /\ UNCHANGED <<itemVars, agent, apiVars, rowVars, pick, result, runVars, taskVars, crashes>>

\* The outcome the report gives.
Outcome(o) == CASE result[o] = "fails" -> "failed"
                [] result[o] = "skips" -> "issues"
                [] OTHER -> "completed"

\* The report is committed to the row before the helper answers.
Complete(o) ==
  /\ PhaseOver(o) /\ LastPhase(o)
  /\ IF state[o] = "running"
       THEN /\ SetRows([state EXCEPT ![o] = Outcome(o)])
            /\ report' = [report EXCEPT ![o] = TRUE]
       ELSE UNCHANGED rowVars
  /\ EndHelper(o, TRUE)
  /\ UNCHANGED <<itemVars, agent, apiVars, runVars, taskVars, crashes>>

\* Any other exception once execution has begun, a failed progress write included.
Abort(o) ==
  /\ Removing(o)
  /\ SetRows([state EXCEPT ![o] = IF @ = "running" THEN "indeterminate" ELSE @])
  /\ EndHelper(o, TRUE)
  /\ UNCHANGED <<itemVars, agent, apiVars, report, runVars, taskVars, crashes>>

HelperCrash(o) ==
  /\ Alive(o) /\ crashes < MaxCrashes
  /\ EndHelper(o, FALSE)
  /\ crashes' = crashes + 1
  /\ UNCHANGED <<itemVars, agent, apiVars, rowVars, runVars, taskVars>>

----------------------------------------------------------------------------
(* An ordinary run: the housekeeping lock, and the launch lock per worktree *)

RunStarts ==
  /\ run = "none"
  /\ ~HousekeepingLock
  /\ NoActiveOperation
  /\ run' = "run" /\ runTodo' = Plan(FALSE)
  /\ UNCHANGED <<itemVars, agent, apiVars, rowVars, helperVars, runPick, taskVars, crashes>>

RunRechecks(c) ==
  /\ run = "run" /\ runPick = NoPick
  /\ c \in runTodo
  /\ IF Eligible(c) /\ (c.item \notin Paths => ~LaunchLock)
       THEN runPick' = [of |-> c, at |-> "picked"] /\ UNCHANGED runTodo
       ELSE runTodo' = runTodo \ {c} /\ UNCHANGED runPick
  /\ UNCHANGED <<itemVars, agent, apiVars, rowVars, helperVars, run, taskVars, crashes>>

RunRemoves ==
  /\ run = "run" /\ runPick # NoPick
  /\ LET c == runPick.of
     IN /\ c.item \notin Spaces
        /\ IF Intact(c) THEN Vanish(c.item) ELSE UNCHANGED <<there, dirty>>
        /\ runTodo' = runTodo \ {c}
  /\ runPick' = NoPick
  /\ UNCHANGED <<version, held, spaceVars, agent, apiVars, rowVars, helperVars, run, taskVars,
                 crashes>>

RunRetires ==
  /\ run = "run" /\ runPick # NoPick
  /\ LET c == runPick.of
     IN /\ c.item \in Spaces
        /\ \E next \in Stages \cup {"done", "failed"} :
             /\ Advance(runPick, next)
             /\ runPick' = After(runPick, next)
             /\ runTodo' = IF next \in Stages THEN runTodo ELSE runTodo \ {c}
  /\ UNCHANGED <<version, held, authority, agreed, agent, apiVars, rowVars, helperVars, run,
                 taskVars, crashes>>

RunEnds ==
  /\ run = "run" /\ runTodo = {}
  /\ run' = "none"
  /\ UNCHANGED <<itemVars, agent, apiVars, rowVars, helperVars, runTodo, runPick, taskVars, crashes>>

RunCrash ==
  /\ run = "run" /\ crashes < MaxCrashes
  /\ run' = "none" /\ runTodo' = {} /\ runPick' = NoPick
  /\ crashes' = crashes + 1
  /\ UNCHANGED <<itemVars, agent, apiVars, rowVars, helperVars, taskVars>>

----------------------------------------------------------------------------
ApiStep ==
  \/ Send \/ TransportFails \/ Answered
  \/ RecoverSettles \/ RecoverReconciles

HelperStep(o) ==
  \/ Prove(o) \/ RefuseEarly(o) \/ Claim(o) \/ Gate(o)
  \/ (\E c \in todo[o] : Recheck(o, c)) \/ Remove(o) \/ Retire(o)
  \/ NextPhase(o) \/ Complete(o) \/ Abort(o)

RunStep ==
  \/ (\E c \in runTodo : RunRechecks(c)) \/ RunRemoves \/ RunRetires
  \/ RunEnds

Next ==
  \/ AdmitWork \/ WorkEnds
  \/ \E i \in Items : Open(i) \/ Launch(i) \/ Release(i)
  \/ \E i \in Items, yes \in BOOLEAN : Touch(i, yes) \/ DeleteStarts(i, yes)
  \/ DeleteEnds \/ (\E i \in Spaces : MendPick(i)) \/ Mend
  \/ (\E o \in Ops, yes \in BOOLEAN : Confirm(o, yes)) \/ ApiStep
  \/ Poll \/ ApiCrash \/ ApiStart
  \/ \E o \in Ops : HelperStep(o) \/ HelperCrash(o)
  \/ RunStarts \/ RunStep \/ RunCrash

\* A process takes its next step unless it dies, the service manager starts the
\* API process again, and the operator's page keeps asking.  The tick tries the
\* launch lock again and again and finds it free when it often is.
Fairness ==
  /\ WF_vars(ApiStep) /\ WF_vars(Poll) /\ WF_vars(ApiStart)
  /\ \A o \in Ops : WF_vars(HelperStep(o))
  /\ WF_vars(RunStep) /\ WF_vars(DeleteEnds) /\ WF_vars(Mend)
  /\ \A i \in Spaces : SF_vars(MendPick(i))

Spec == Init /\ [][Next]_vars /\ Fairness

----------------------------------------------------------------------------
(* Properties *)

\* A helper that may still remove something is alone, although the file locks may
\* be gone with the API process that held them: no agent executes, no ordinary run
\* and no other helper works, and its row is not settled.
HelperAlone ==
  \A o \in Ops : Removing(o) =>
    /\ agent = "idle"
    /\ state[o] = "running"
    /\ run = "none"
    /\ \A p \in Ops \ {o} : ~Removing(p)

\* This step removes the item, and a helper does.
Goes(i) == there[i] /\ ~there'[i]
RemovedBy(o, i) == Goes(i) /\ pick[o] # NoPick /\ pick[o].of.item = i /\ pick'[o] # pick[o]

\* Whatever a helper removes, the operator confirmed it, however long ago that was: a
\* path with this very content, a Session workspace under this very authority; and it
\* is not protected.  Nobody removes a worktree an agent is bound to.
OnlyConfirmedGoes ==
  [][\A i \in Items : Goes(i) =>
       /\ \A o \in Ops : RemovedBy(o, i) =>
            /\ \E c \in plan[o] : /\ c.item = i
                                  /\ i \in Paths => c.content = version[i]
                                  /\ i \in Spaces => c.auth = authority[i]
            /\ ~held[i]
       /\ i \notin Paths => ~held[i]]_vars

\* "never expands dirty authority": content no commit keeps is lost with a Session
\* workspace only, and only where somebody agreed to lose the content of this very
\* authority, whoever removes it: helper, ordinary run, Session deletion, or the tick
\* that finishes what any of them had claimed before a crash.
UncommittedNeedsConsent ==
  [][\A i \in Items : Goes(i) /\ dirty[i] => i \in Spaces /\ authority[i] \in agreed[i]]_vars

\* An operation that ends as failed without a report, or is still only admitted, has
\* removed nothing; one recorded as completed leaves nothing of its plan behind.
ReceiptIsTrue ==
  [][\A o \in Ops :
       /\ (state[o] = "admitted" \/ (state[o] # state'[o] /\ state'[o] = "failed" /\ ~report'[o]))
            => ~removed[o]
       /\ (state'[o] = "completed" /\ state[o] = "running")
            => \A c \in plan[o] : ~there[c.item]]_vars


\* docs/HOUSEKEEPING.md:64 "restart and polling reconciliation preserve a still-live
\* exact helper or report a truthful failed/indeterminate outcome": an admitted
\* operation is settled too.
AdmittedEnds == []<>(\A o \in Ops : state[o] # "admitted")

\* housekeeping_mutation_fence: "Serialize an external exact cleanup with every
\* Housekeeping mutation".
DeletionExcluded == deleting # NoItem => \A o \in Ops : ~Removing(o)
=============================================================================
