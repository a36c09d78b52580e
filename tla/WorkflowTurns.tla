--------------------------- MODULE WorkflowTurns ---------------------------
(***************************************************************************)
(* The durable workflow-turn engine of one root terminal                   *)
(* (clients/database.py, services/workflow_service.py,                     *)
(* services/terminal_service.py).                                          *)
(*                                                                         *)
(* A workflow is an ordered list of logical turns.  One of them at most is *)
(* the active turn: the only one a receiver may admit (by a receipt) and   *)
(* the only one a dispatcher may paste into the provider's pane.  Four     *)
(* kinds of thread touch these rows, each step below being one database    *)
(* transaction or one call to tmux:                                        *)
(*   - the dispatcher (reconcile_root_workflow), serialized by the         *)
(*     workflow-execution admission fence;                                 *)
(*   - senders, API threads that persist an owner's input and paste it     *)
(*     themselves when nothing is ahead of it;                             *)
(*   - observers, any thread that polls get_terminal;                      *)
(*   - the model in the pane, which consumes receipts, resumes and closes  *)
(*     workflows through a separate MCP process.                           *)
(* The server process may die at any step; the rows, and the pane, stay.   *)
(* Turn and workflow identifiers are the positions of their rows, 0 means  *)
(* NULL.  Turns here have no Inbox message, managed attempt or reconnect   *)
(* request attached.                                                       *)
(* Operators that no action uses are faulty variants of their neighbours,  *)
(* with which the properties are tested.                                   *)
(***************************************************************************)
EXTENDS Naturals, FiniteSets, FiniteSetsExt

CONSTANTS Senders,       \* API threads that accept owner input
          Observers,     \* other threads that poll get_terminal
          Dispatcher,    \* the reconciler holding the admission fence
          NoOne,         \* no runtime operation is claimed
          Orphan,        \* a runtime-operation token whose process died
          MaxTurns,      \* bound: rows of workflow_turns
          MaxWorkflows,  \* bound: rows of workflows
          MaxClaims,     \* bound: claims of one turn that may be counted
          MaxFaults,     \* bound: crashes and lapsed tokens
          Outcomes,      \* "cursor" if the provider exposes turn outcomes, else "none"
          MaxAttempts,   \* transport attempts before the owner gate (3 in the code)
          MaxNoProgress  \* MAX_AUTOMATIC_OPEN_FINAL_NO_PROGRESS (64 in the code)

ASSUME BoundAssumption ==
    /\ MaxTurns \in Nat /\ MaxWorkflows \in Nat /\ MaxFaults \in Nat
    /\ MaxClaims \in Nat /\ MaxAttempts \in Nat /\ MaxNoProgress \in Nat
ASSUME ThreadAssumption ==
    /\ Dispatcher \notin Senders \cup Observers
    /\ {NoOne, Orphan} \cap (Senders \cup {Dispatcher}) = {}
    /\ NoOne # Orphan
ASSUME OutcomesAssumption == Outcomes \in {"cursor", "none"}

VARIABLES nw,     \* number of workflow rows; nw is the newest workflow
          wf,     \* workflows
          nt,     \* number of turn rows
          turn,   \* workflow_turns with their receipts
          lease,  \* provider_execution_leases row of the terminal: its turn
          op,     \* owner of the terminal's runtime-operation token
          opLive, \* whether that token has expired
          pasted, \* turns whose envelope reached the pane
          up,     \* the server process
          faults, \* crashes and lapsed tokens so far
          dpc,    \* the dispatcher's tick: where it is ...
          dturn,  \* ... and the turn it claimed
          closing, \* a close the model has claimed as an effect, and its turn
          spc,    \* the senders' requests: where they are ...
          sturn,  \* ... and the turn they persisted
          opc,    \* the polls of get_terminal (dispatcher included) ...
          seen    \* ... and the lease they saw before looking at the pane

wfVars   == <<nw, wf>>
turnVars == <<nt, turn>>
opVars   == <<op, opLive>>
sysVars  == <<up, faults>>
dVars    == <<dpc, dturn>>
sVars    == <<spc, sturn>>
oVars    == <<opc, seen>>
vars == <<wfVars, turnVars, lease, opVars, pasted, sysVars, dVars, sVars, oVars, closing>>

Turns     == 1..MaxTurns
Workflows == 1..MaxWorkflows
Pollers   == Observers \cup {Dispatcher}
OpOwners  == Senders \cup {Dispatcher}

WorkflowStatus == {"none", "open", "terminal", "owner_gate"}
GateReasons    == {"none", "transport", "breaker", "explicit"}
TurnStates     == {"none", "queued", "claimed", "sent", "finished", "cancelled"}
TurnKinds      == {"none", "external_input", "open_final", "execution_resume"}

WorkflowRow == [status : WorkflowStatus, active : 0..MaxTurns,
                noProgress : 0..MaxNoProgress + 1, gate : GateReasons]
(* reason: "settled" is queue_reason PROVIDER_SETTLED_BEFORE_RECEIPT.       *)
(* due: whether not_before has passed.                                      *)
(* cursor: provider_outcome_cursor is unset, set, or has an outcome after   *)
(* it that was persisted.                                                   *)
(* claim: the claim token is absent, live, or past claim_expires_at.        *)
TurnRow == [wf : 0..MaxWorkflows, kind : TurnKinds, parent : 0..MaxTurns,
            state : TurnStates, reason : {"none", "settled"},
            due : {"now", "later"}, cursor : {"none", "bound", "outcome"},
            attempts : 0..MaxClaims, claim : {"none", "live", "expired"},
            receipt : {"none", "consumed", "resumed"}]

DispatcherSteps == {"idle", "look", "released", "settled", "observed", "picked", "claimed",
                    "renewed", "active", "slot", "bind", "paste", "failed", "unlock",
                    "pasted", "mark", "deferred", "requeue"}
SenderSteps == {"idle", "slot", "op", "bind", "paste", "failed", "unlock", "pasted", "retain"}

TypeOK ==
    /\ nw \in 0..MaxWorkflows /\ wf \in [Workflows -> WorkflowRow]
    /\ nt \in 0..MaxTurns /\ turn \in [Turns -> TurnRow]
    /\ \A t \in Turns : turn[t].claim = "none" <=> turn[t].state # "claimed"
    /\ lease \in 0..MaxTurns
    /\ op \in OpOwners \cup {NoOne, Orphan} /\ opLive \in {"live", "expired"}
    /\ pasted \in SUBSET Turns
    /\ up \in {"up", "down"} /\ faults \in 0..MaxFaults
    /\ dpc \in DispatcherSteps /\ dturn \in 0..MaxTurns
    /\ spc \in [Senders -> SenderSteps] /\ sturn \in [Senders -> 0..MaxTurns]
    /\ opc \in [Observers -> {"idle", "look", "released"}]
    /\ seen \in [Pollers -> 0..MaxTurns]
    /\ closing \in [status : {"none", "terminal", "owner_gate"}, by : 0..MaxTurns]

-----------------------------------------------------------------------------
(* Reading the rows.                                                        *)

Pending == {"queued", "claimed"}
InWorkflow(w) == {u \in Turns : turn[u].wf = w}
WithState(w, S) == {u \in InWorkflow(w) : turn[u].state \in S}
Least(S) == IF S = {} THEN 0 ELSE Min(S)

Open(w) == w # 0 /\ wf[w].status = "open"
IsActive(t) == Open(nw) /\ wf[nw].active = t /\ turn[t].wf = nw

(* _workflow_has_unadmitted_active_turn                                     *)
Unadmitted(w, a) == /\ a # 0
                    /\ turn[a].wf = w
                    /\ turn[a].state \in Pending \cup {"sent"}
                    /\ turn[a].receipt = "none"

(* Composer inputs still queued behind turn t in workflow w.                *)
QueuedInputsAfter(w, t) ==
    {u \in WithState(w, {"queued"}) : u > t /\ turn[u].kind = "external_input"}

(* _resume_owner_gated_successor_in_transaction: what it would promote.     *)
GatedSuccessor(w) ==
    IF w # 0 /\ wf[w].status = "owner_gate" /\ wf[w].active # 0
       /\ turn[wf[w].active].wf = w /\ turn[wf[w].active].state = "cancelled"
    THEN Least(QueuedInputsAfter(w, wf[w].active)) ELSE 0

OpHeldExpired == op # NoOne /\ opLive = "expired"
OpHeld == op # NoOne /\ opLive = "live"

OpenRow(a) == [status |-> "open", active |-> a, noProgress |-> 0, gate |-> "none"]
NewTurn(w, k, p, s, r) == [wf |-> w, kind |-> k, parent |-> p, state |-> s, reason |-> "none",
                           due |-> "now", cursor |-> "none", attempts |-> 0, claim |-> "none", receipt |-> r]
NoTurn == [wf |-> 0, kind |-> "none", parent |-> 0, state |-> "none", reason |-> "none",
           due |-> "now", cursor |-> "none", attempts |-> 0, claim |-> "none", receipt |-> "none"]
NoWorkflow == [status |-> "none", active |-> 0, noProgress |-> 0, gate |-> "none"]

NotClosing == [status |-> "none", by |-> 0]

Cancel(S) == [u \in Turns |-> IF u \in S
                              THEN [turn[u] EXCEPT !.state = "cancelled", !.claim = "none"]
                              ELSE turn[u]]

(* _cancel_superseded_open_final_turns                                      *)
PendingTurns(w) == WithState(w, Pending)
OpenFinals(w) == {u \in WithState(w, Pending) : turn[u].kind = "open_final"}

-----------------------------------------------------------------------------
Init == /\ nw = 0 /\ wf = [w \in Workflows |-> NoWorkflow]
        /\ nt = 0 /\ turn = [t \in Turns |-> NoTurn]
        /\ lease = 0 /\ op = NoOne /\ opLive = "expired"
        /\ pasted = {} /\ up = "up" /\ faults = 0
        /\ dpc = "idle" /\ dturn = 0
        /\ spc = [s \in Senders |-> "idle"] /\ sturn = [s \in Senders |-> 0]
        /\ opc = [o \in Observers |-> "idle"] /\ seen = [p \in Pollers |-> 0]
        /\ closing = NotClosing

-----------------------------------------------------------------------------
(* Senders: _send_server_bound_input and send_input without a claim.  A     *)
(* thread that is done forgets its locals.                                  *)
SenderAt(s, pc) == /\ spc' = [spc EXCEPT ![s] = pc]
                   /\ sturn' = [sturn EXCEPT ![s] = IF pc = "idle" THEN 0 ELSE @]
ObserverAt(o, pc) == /\ opc' = [opc EXCEPT ![o] = pc]
                     /\ seen' = [seen EXCEPT ![o] = IF pc = "idle" THEN 0 ELSE @]
DispatcherAt(pc) == dpc' = pc /\ dturn' = IF pc = "idle" THEN 0 ELSE dturn

(* prepare_workflow_input, under the admission fence: the newest workflow   *)
(* is used while open, reopened when an accepted successor waits beneath a  *)
(* gate, replaced otherwise.  The input is queued behind any predecessor.   *)
PrepareInput(s) ==
    LET promoted == GatedSuccessor(nw)
        fresh == nw = 0 \/ (~Open(nw) /\ promoted = 0)
        w == IF fresh THEN nw + 1 ELSE nw
        row == IF fresh THEN OpenRow(0) ELSE IF Open(nw) THEN wf[nw] ELSE OpenRow(promoted)
        queued == \/ OpHeld
                  \/ lease # 0
                  \/ Unadmitted(w, row.active)
                  \/ WithState(w, Pending) # {}
        kept == [u \in Turns |-> IF u = promoted
                                 THEN [turn[u] EXCEPT !.reason = "none", !.due = "now"]
                                 ELSE Cancel(OpenFinals(w))[u]]
    IN /\ up = "up" /\ spc[s] = "idle" /\ dpc = "idle"
       /\ nt < MaxTurns /\ w <= MaxWorkflows
       /\ nt' = nt + 1 /\ nw' = w
       /\ turn' = [kept EXCEPT ![nt + 1] =
             NewTurn(w, "external_input", 0, IF queued THEN "queued" ELSE "sent", "none")]
       /\ wf' = [wf EXCEPT ![w] = [row EXCEPT !.noProgress = 0,
                                              !.active = IF queued THEN @ ELSE nt + 1]]
       /\ spc' = [spc EXCEPT ![s] = IF queued THEN "idle" ELSE "slot"]
       /\ sturn' = [sturn EXCEPT ![s] = IF queued THEN 0 ELSE nt + 1]
       /\ UNCHANGED <<lease, opVars, pasted, sysVars, dVars, oVars, closing>>

(* acquire_provider_execution_decision for this terminal.  Capacity and     *)
(* host resources may refuse any acquisition; they are other terminals'.    *)
SlotAvailable(t) == lease = 0 /\ ~OpHeld /\ Open(turn[t].wf)
SlotGranted(t) == lease = t \/ SlotAvailable(t)

SenderSlot(s) ==
    /\ spc[s] = "slot"
    /\ \/ /\ SlotGranted(sturn[s])
          /\ lease' = sturn[s]
          /\ spc' = [spc EXCEPT ![s] = "op"]
       \/ /\ lease # sturn[s]
          /\ lease' = lease
          /\ spc' = [spc EXCEPT ![s] = "retain"]
    /\ UNCHANGED <<wfVars, turnVars, opVars, pasted, sysVars, dVars, sturn, oVars, closing>>

(* Only a provider with an outcome cursor has one captured before a paste.  *)
AfterOp == IF Outcomes = "cursor" THEN "bind" ELSE "paste"

(* bind_workflow_turn_provider_outcome_cursor: an earlier boundary must not *)
(* have moved, which only the rollout file can tell.                        *)
MayBind(t) == /\ IsActive(t) /\ turn[t].state \in {"claimed", "sent"}
BindCursor(t, bound) ==
    /\ bound => MayBind(t)
    /\ ~bound => ~MayBind(t) \/ turn[t].cursor # "none"
    /\ turn' = IF bound /\ turn[t].cursor = "none"
               THEN [turn EXCEPT ![t].cursor = "bound"] ELSE turn

(* acquire_terminal_runtime_transport; a busy pane gives the slot back.     *)
SenderOp(s) ==
    /\ spc[s] = "op"
    /\ IF OpHeld
       THEN /\ lease' = IF lease = sturn[s] THEN 0 ELSE lease
            /\ spc' = [spc EXCEPT ![s] = "retain"]
            /\ UNCHANGED opVars
       ELSE /\ op' = s /\ opLive' = "live"
            /\ spc' = [spc EXCEPT ![s] = AfterOp]
            /\ UNCHANGED lease
    /\ UNCHANGED <<wfVars, turnVars, pasted, sysVars, dVars, sturn, oVars, closing>>

SenderBind(s) ==
    /\ spc[s] = "bind"
    /\ \E bound \in BOOLEAN :
          /\ BindCursor(sturn[s], bound)
          /\ spc' = [spc EXCEPT ![s] = IF bound THEN "paste" ELSE "failed"]
    /\ UNCHANGED <<wfVars, nt, lease, opVars, pasted, sysVars, dVars, sturn, oVars, closing>>

(* tmux send_keys: load, paste, Enter.  It may fail after the text arrived. *)
(* A direct input has no claim, so no transport fence.                      *)
Keys(t, accepted) == pasted' \in {pasted \cup {t}} \cup (IF accepted THEN {} ELSE {pasted})

SenderPaste(s) ==
    /\ spc[s] = "paste"
    /\ \E accepted \in BOOLEAN :
          /\ Keys(sturn[s], accepted)
          /\ spc' = [spc EXCEPT ![s] = IF accepted THEN "pasted" ELSE "failed"]
    /\ UNCHANGED <<wfVars, turnVars, lease, opVars, sysVars, dVars, sturn, oVars, closing>>

(* The two finally blocks of send_input: the slot of a failed paste is      *)
(* released unless the turn was admitted, then the pane token is released.  *)
ReleaseFailed(t) == lease' = IF lease = t /\ turn[t].receipt = "none" THEN 0 ELSE lease
ReleaseOp(p) == IF op = p THEN op' = NoOne /\ opLive' = "expired" ELSE UNCHANGED opVars

SenderFail(s) ==
    /\ spc[s] = "failed"
    /\ ReleaseFailed(sturn[s])
    /\ spc' = [spc EXCEPT ![s] = "unlock"]
    /\ UNCHANGED <<wfVars, turnVars, opVars, pasted, sysVars, dVars, sturn, oVars, closing>>

SenderUnlock(s) ==
    /\ spc[s] \in {"unlock", "pasted"}
    /\ ReleaseOp(s)
    /\ SenderAt(s, IF spc[s] = "unlock" THEN "retain" ELSE "idle")
    /\ UNCHANGED <<wfVars, turnVars, lease, pasted, sysVars, dVars, oVars, closing>>

(* queue_workflow_input_for_provider, for a Composer submission.            *)
SenderRetain(s) ==
    LET t == sturn[s] IN
    /\ spc[s] = "retain"
    /\ turn' = IF IsActive(t) /\ turn[t].state = "sent"
               THEN [turn EXCEPT ![t].state = "queued", ![t].reason = "none",
                                 ![t].claim = "none", ![t].cursor = "none"]
               ELSE turn
    /\ SenderAt(s, "idle")
    /\ UNCHANGED <<wfVars, nt, lease, opVars, pasted, sysVars, dVars, oVars, closing>>

-----------------------------------------------------------------------------
(* get_terminal: snapshot the lease, look at the pane, and only if it is    *)
(* settled release that exact lease, then requeue its unadmitted turn.      *)

Requeued(t) ==
    IF turn[t].attempts >= MaxAttempts
    THEN /\ wf' = [wf EXCEPT ![nw].status = "owner_gate", ![nw].gate = "transport"]
         /\ turn' = [turn EXCEPT ![t].state = "cancelled", ![t].claim = "none",
                                 ![t].reason = "none"]
    ELSE /\ wf' = wf
         /\ turn' = [turn EXCEPT ![t].state = "queued", ![t].claim = "none",
                                 ![t].reason = "settled", ![t].cursor = "none",
                                 ![t].due = "now"]

(* requeue_settled_unadmitted_workflow_turn                                 *)
Requeueable(t) == /\ t # 0 /\ IsActive(t)
                  /\ turn[t].state \in {"claimed", "sent"}
                  /\ lease = 0 /\ turn[t].receipt = "none"
RequeueSettled(t) == IF Requeueable(t)
                     THEN Requeued(t) /\ UNCHANGED <<nw, nt>>
                     ELSE UNCHANGED <<wfVars, turnVars>>

ObserverLook(o) ==
    /\ up = "up" /\ opc[o] = "idle" /\ lease # 0
    /\ opc' = [opc EXCEPT ![o] = "look"]
    /\ seen' = [seen EXCEPT ![o] = lease]
    /\ UNCHANGED <<wfVars, turnVars, lease, opVars, pasted, sysVars, dVars, sVars, closing>>

(* The pane shows Ready or Processing; a frame drawn before the model reads *)
(* its input also shows Ready, so either answer is always possible.         *)
ObserverSettle(o) ==
    /\ opc[o] = "look"
    /\ lease' = IF lease = seen[o] THEN 0 ELSE lease
    /\ ObserverAt(o, IF lease = seen[o] THEN "released" ELSE "idle")
    /\ UNCHANGED <<wfVars, turnVars, opVars, pasted, sysVars, dVars, sVars, closing>>

ObserverBusy(o) ==
    /\ opc[o] = "look"
    /\ ObserverAt(o, "idle")
    /\ UNCHANGED <<wfVars, turnVars, lease, opVars, pasted, sysVars, dVars, sVars, closing>>

ObserverRequeue(o) ==
    /\ opc[o] = "released"
    /\ RequeueSettled(seen[o])
    /\ ObserverAt(o, "idle")
    /\ UNCHANGED <<lease, opVars, pasted, sysVars, dVars, sVars, closing>>

-----------------------------------------------------------------------------
(* The dispatcher: _reconcile_root_workflow_with_admission.                 *)

DispatcherLook ==
    /\ up = "up" /\ dpc = "idle" /\ nw # 0
    /\ dpc' = "look"
    /\ seen' = [seen EXCEPT ![Dispatcher] = lease]
    /\ UNCHANGED <<wfVars, turnVars, lease, opVars, pasted, sysVars, dturn, sVars, opc, closing>>

DispatcherBusy ==
    /\ dpc = "look"
    /\ dpc' = "idle"
    /\ seen' = [seen EXCEPT ![Dispatcher] = 0]
    /\ UNCHANGED <<wfVars, turnVars, lease, opVars, pasted, sysVars, dturn, sVars, opc, closing>>

DispatcherSettle ==
    /\ dpc = "look"
    /\ IF lease = seen[Dispatcher] /\ lease # 0
       THEN lease' = 0 /\ dpc' = "released" /\ UNCHANGED seen
       ELSE lease' = lease /\ dpc' = "settled" /\ seen' = [seen EXCEPT ![Dispatcher] = 0]
    /\ UNCHANGED <<wfVars, turnVars, opVars, pasted, sysVars, dturn, sVars, opc, closing>>

DispatcherRequeueSettled ==
    /\ dpc = "released"
    /\ RequeueSettled(seen[Dispatcher])
    /\ dpc' = "settled"
    /\ seen' = [seen EXCEPT ![Dispatcher] = 0]
    /\ UNCHANGED <<lease, opVars, pasted, sysVars, dturn, sVars, opc, closing>>

(* get_workflow_provider_outcome_observation and                            *)
(* observe_workflow_provider_outcome: a policy outcome found after the      *)
(* active turn's cursor ends the turn without a successor, and the tick.    *)
(* The rollout keeps showing a persisted outcome.                           *)
Observable == LET a == wf[nw].active IN
    Open(nw) /\ a # 0 /\ turn[a].state \in {"sent", "finished"} /\ turn[a].cursor # "none"
OutcomeShown == Observable /\ turn[wf[nw].active].cursor = "outcome"
OutcomeSuccessors(a) == {u \in InWorkflow(nw) : turn[u].kind = "open_final" /\ turn[u].parent = a}

ProviderOutcome ==
    LET a == wf[nw].active IN
    /\ dpc = "settled"
    /\ Observable
    /\ a \in pasted
    /\ turn' = IF turn[a].cursor = "bound"
                  /\ \A u \in OutcomeSuccessors(a) : turn[u].state \in {"queued", "cancelled"}
               THEN [Cancel(OutcomeSuccessors(a) \cap WithState(nw, {"queued"}))
                     EXCEPT ![a].state = "finished", ![a].cursor = "outcome"]
               ELSE turn
    /\ dpc' = "idle"
    /\ UNCHANGED <<wfVars, nt, lease, opVars, pasted, sysVars, dturn, sVars, oVars, closing>>

(* observe_workflow_final, reached at a COMPLETED frame or a stable Ready:  *)
(* finish the admitted active turn and queue one continuation, with a       *)
(* back-off from the second one on, or open the circuit breaker.            *)
OpenFinal(a) == [NewTurn(nw, "open_final", a, "queued", "none")
                 EXCEPT !.due = IF wf[nw].noProgress = 0 THEN "now" ELSE "later"]

BreakerTrips == wf[nw].noProgress + 1 > MaxNoProgress

(* The compare-and-set on SENT alone makes the successor unique; the code's *)
(* look-up of its deduplication key never finds one here.                   *)
Final(a) ==
    IF BreakerTrips
    THEN /\ wf' = [wf EXCEPT ![nw].status = "owner_gate", ![nw].gate = "breaker",
                             ![nw].noProgress = @ + 1]
         /\ turn' = [Cancel(WithState(nw, Pending)) EXCEPT ![a].state = "finished"]
         /\ lease' = 0
         /\ nt' = nt
    ELSE /\ nt < MaxTurns
         /\ wf' = [wf EXCEPT ![nw].noProgress = @ + 1]
         /\ turn' = [turn EXCEPT ![a].state = "finished",
                                 ![nt + 1] = OpenFinal(a)]
         /\ nt' = nt + 1
         /\ lease' = lease

MayFinish(a) == /\ Open(nw) /\ a # 0 /\ IsActive(a)
                /\ turn[a].state = "sent" /\ turn[a].receipt # "none"

ObserveFinal ==
    LET a == wf[nw].active IN
    /\ dpc = "settled" /\ ~OutcomeShown
    /\ IF MayFinish(a)
       THEN Final(a)
       ELSE UNCHANGED <<wf, turnVars, lease>>
    /\ dpc' = "observed"
    /\ UNCHANGED <<nw, opVars, pasted, sysVars, dturn, sVars, oVars, closing>>

(* observe_workflow_ready before its grace period is over.                  *)
ReadyNotStable ==
    /\ dpc = "settled" /\ ~OutcomeShown
    /\ dpc' = "observed"
    /\ UNCHANGED <<wfVars, turnVars, lease, opVars, pasted, sysVars, dturn, sVars, oVars, closing>>

(* claim_workflow_turn: only the unadmitted active turn itself, or else the *)
(* oldest queued turn that does not roll the active binding back.           *)
Due(w) == {u \in WithState(w, {"queued"}) : turn[u].due = "now"}
Claimable == LET a == wf[nw].active IN
    IF ~Open(nw) THEN {}
    ELSE IF Unadmitted(nw, a) THEN {a} \cap Due(nw)
    ELSE {u \in Due(nw) : u >= a}

(* The rows are read, and then claimed by a compare-and-set on QUEUED: the  *)
(* receiver's transactions may fall in between.                             *)
PickTurn ==
    /\ dpc = "observed"
    /\ dturn' = Least(Claimable)
    /\ dpc' = IF Claimable = {} THEN "idle" ELSE "picked"
    /\ UNCHANGED <<wfVars, turnVars, lease, opVars, pasted, sysVars, sVars, oVars, closing>>

ClaimTurn ==
    /\ dpc = "picked"
    /\ IF turn[dturn].state = "queued"
       THEN /\ turn[dturn].attempts < MaxClaims
            /\ turn' = [turn EXCEPT ![dturn].state = "claimed", ![dturn].claim = "live",
                                    ![dturn].attempts = @ + 1]
            /\ DispatcherAt("claimed")
       ELSE turn' = turn /\ DispatcherAt("idle")
    /\ UNCHANGED <<wfVars, nt, lease, opVars, pasted, sysVars, sVars, oVars, closing>>

(* _claim_matches for the dispatcher's own token.                           *)
ClaimMatches(t) == turn[t].state = "claimed" /\ turn[t].claim = "live"

RenewClaim ==
    /\ dpc = "claimed"
    /\ DispatcherAt(IF ClaimMatches(dturn) THEN "renewed" ELSE "idle")
    /\ UNCHANGED <<wfVars, turnVars, lease, opVars, pasted, sysVars, sVars, oVars, closing>>

(* activate_workflow_turn: refused, the claim is left to expire.            *)
MayActivateAny(t) == ~OpHeld /\ Open(nw) /\ turn[t].wf = nw
MayActivate(t) == ~OpHeld /\ Open(nw) /\ turn[t].wf = nw /\ wf[nw].active <= t

Activate ==
    /\ dpc = "renewed"
    /\ wf' = IF MayActivate(dturn) THEN [wf EXCEPT ![nw].active = dturn] ELSE wf
    /\ DispatcherAt(IF MayActivate(dturn) THEN "active" ELSE "idle")
    /\ UNCHANGED <<nw, turnVars, lease, opVars, pasted, sysVars, sVars, oVars, closing>>

DispatcherSlot ==
    /\ dpc = "active"
    /\ \/ SlotGranted(dturn) /\ lease' = dturn /\ dpc' = "slot"
       \/ lease # dturn /\ lease' = lease /\ dpc' = "deferred"
    /\ UNCHANGED <<wfVars, turnVars, opVars, pasted, sysVars, dturn, sVars, oVars, closing>>

DispatcherOp ==
    /\ dpc = "slot"
    /\ IF OpHeld
       THEN /\ lease' = IF lease = dturn THEN 0 ELSE lease
            /\ dpc' = "deferred"
            /\ UNCHANGED opVars
       ELSE /\ op' = Dispatcher /\ opLive' = "live"
            /\ dpc' = AfterOp
            /\ UNCHANGED lease
    /\ UNCHANGED <<wfVars, turnVars, pasted, sysVars, dturn, sVars, oVars, closing>>

DispatcherBind ==
    /\ dpc = "bind"
    /\ \E bound \in BOOLEAN :
          /\ BindCursor(dturn, bound)
          /\ dpc' = IF bound THEN "paste" ELSE "failed"
    /\ UNCHANGED <<wfVars, nt, lease, opVars, pasted, sysVars, dturn, sVars, oVars, closing>>

(* workflow_turn_transport_fence: the write transaction that spans the      *)
(* paste.                                                                   *)
FencePermits(t) == /\ ClaimMatches(t)
                   /\ IsActive(t)
                   /\ op = Dispatcher
                   /\ lease = t
                   /\ turn[t].receipt = "none"

DispatcherPaste ==
    /\ dpc = "paste"
    /\ IF FencePermits(dturn)
       THEN \E accepted \in BOOLEAN : /\ Keys(dturn, accepted)
                                      /\ dpc' = IF accepted THEN "pasted" ELSE "failed"
       ELSE pasted' = pasted /\ dpc' = "failed"
    /\ UNCHANGED <<wfVars, turnVars, lease, opVars, sysVars, dturn, sVars, oVars, closing>>

DispatcherFail ==
    /\ dpc = "failed"
    /\ ReleaseFailed(dturn)
    /\ dpc' = "unlock"
    /\ UNCHANGED <<wfVars, turnVars, opVars, pasted, sysVars, dturn, sVars, oVars, closing>>

DispatcherUnlock ==
    /\ dpc \in {"unlock", "pasted"}
    /\ ReleaseOp(Dispatcher)
    /\ dpc' = IF dpc = "unlock" THEN "requeue" ELSE "mark"
    /\ UNCHANGED <<wfVars, turnVars, lease, pasted, sysVars, dturn, sVars, oVars, closing>>

(* mark_workflow_turn_sent                                                  *)
MaySend(t) == /\ ClaimMatches(t)
              /\ Open(turn[t].wf)
              /\ wf[turn[t].wf].active <= t

MarkSent ==
    /\ dpc = "mark"
    /\ turn' = IF MaySend(dturn)
               THEN [turn EXCEPT ![dturn].state = "sent", ![dturn].reason = "none",
                                 ![dturn].claim = "none"]
               ELSE turn
    /\ DispatcherAt("idle")
    /\ UNCHANGED <<wfVars, nt, lease, opVars, pasted, sysVars, sVars, oVars, closing>>

(* requeue_workflow_turn, with a back-off.  An admission deferral gives the *)
(* attempt back; a transport failure that exhausts the budget promotes the  *)
(* oldest Composer input behind it, or gates the workflow.                  *)
RequeueTurn ==
    LET t == dturn
        w == turn[t].wf
        successor == Least(QueuedInputsAfter(w, t))
        exhausted == dpc = "requeue" /\ turn[t].attempts >= MaxAttempts
        back == [turn EXCEPT ![t].state = "queued", ![t].reason = "none", ![t].claim = "none",
                             ![t].cursor = "none", ![t].due = "later",
                             ![t].attempts = IF dpc = "deferred" /\ @ > 0 THEN @ - 1 ELSE @]
        dropped == [turn EXCEPT ![t].state = "cancelled", ![t].reason = "none",
                                ![t].claim = "none"]
    IN /\ dpc \in {"deferred", "requeue"}
       /\ IF ~(ClaimMatches(t) /\ Open(w))
          THEN UNCHANGED <<wf, turn>>
          ELSE /\ turn' = CASE ~exhausted -> back
                            [] exhausted /\ successor = 0 -> dropped
                            [] OTHER -> [dropped EXCEPT ![successor].reason = "none",
                                                         ![successor].due = "now"]
               /\ wf' = CASE ~exhausted -> wf
                          [] exhausted /\ successor = 0 ->
                               [wf EXCEPT ![w].status = "owner_gate", ![w].gate = "transport"]
                          [] OTHER -> [wf EXCEPT ![w].active = successor, ![w].noProgress = 0]
       /\ DispatcherAt("idle")
       /\ UNCHANGED <<nw, nt, lease, opVars, pasted, sysVars, sVars, oVars, closing>>

-----------------------------------------------------------------------------
(* The receiver: claim_or_resume_workflow_turn_receipt.                     *)

SettledBeforeReceipt(t) == turn[t].state \in Pending /\ turn[t].reason = "settled"

(* A fresh receipt for a pasted turn.  A turn that an early Ready frame put *)
(* back into the queue is executing after all: its lease is restored and    *)
(* any retry of it loses its claim.                                         *)
Admit(t) ==
    /\ t \in pasted
    /\ turn[t].receipt = "none" /\ IsActive(t)
    /\ turn[t].state \in {"claimed", "sent"} \/ SettledBeforeReceipt(t)
    /\ lease \in {0, t}
    /\ IF SettledBeforeReceipt(t)
       THEN /\ turn' = [turn EXCEPT ![t].receipt = "consumed", ![t].state = "sent",
                                    ![t].reason = "none", ![t].claim = "none"]
            /\ lease' = t
       ELSE turn' = [turn EXCEPT ![t].receipt = "consumed"] /\ lease' = lease
    /\ UNCHANGED <<wfVars, nt, opVars, pasted, sysVars, dVars, sVars, oVars, closing>>

(* The one-use resume token moves an interrupted execution, with its lease, *)
(* to a fresh turn.                                                         *)
Resume(t) ==
    /\ turn[t].receipt = "consumed" /\ IsActive(t) /\ turn[t].state = "sent"
    /\ lease \in {0, t}
    /\ nt < MaxTurns
    /\ nt' = nt + 1
    /\ turn' = [turn EXCEPT ![t].state = "finished", ![t].receipt = "resumed",
                            ![nt + 1] = NewTurn(nw, "execution_resume", t, "sent", "consumed")]
    /\ wf' = [wf EXCEPT ![nw].active = nt + 1]
    /\ lease' = IF lease = t THEN nt + 1 ELSE 0
    /\ UNCHANGED <<nw, opVars, pasted, sysVars, dVars, sVars, oVars, closing>>

(* claim_workflow_effect, for complete_workflow or owner_gate_workflow.      *)
ClaimClose(t, s) ==
    /\ closing.status = "none"
    /\ IsActive(t) /\ turn[t].receipt # "none"
    /\ closing' = [status |-> s, by |-> t]
    /\ UNCHANGED <<wfVars, turnVars, lease, opVars, pasted, sysVars, dVars, sVars, oVars>>

(* set_workflow_terminal_state, on whatever workflow is then the newest.    *)
(* Completion carries the untouched Composer inputs into a successor        *)
(* workflow, and is refused while one is being dispatched; a gate drops     *)
(* them.                                                                    *)
CarriedFresh(s) == IF s = "terminal"
                   THEN {u \in QueuedInputsAfter(nw, 0) : turn[u].attempts = 0} ELSE {}
Carried(s) == IF s = "terminal"
              THEN {u \in QueuedInputsAfter(nw, 0) : turn[u].receipt = "none"} ELSE {}
Doomed(s) == WithState(nw, Pending) \ Carried(s)
ClosedUnlessCarried(s) == IF Carried(s) = {}
                          THEN [wf[nw] EXCEPT !.status = s, !.gate = "explicit"] ELSE wf[nw]
ClosedRow(s) == [wf[nw] EXCEPT !.status = s, !.gate = "explicit"]
Refused(s) == s = "terminal" /\ \E u \in WithState(nw, {"claimed"}) : turn[u].kind = "external_input"

CloseWorkflow ==
    LET s == closing.status
        carried == Carried(s)
        closed == [wf EXCEPT ![nw] = ClosedRow(s)]
        cancelled == Cancel(Doomed(s))
    IN /\ s # "none"
       /\ closing' = NotClosing
       /\ IF Refused(s)
          THEN UNCHANGED <<wfVars, turn>>
          ELSE IF carried = {}
          THEN wf' = closed /\ nw' = nw /\ turn' = cancelled
          ELSE /\ nw < MaxWorkflows
               /\ nw' = nw + 1
               /\ wf' = [closed EXCEPT ![nw + 1] = OpenRow(Min(carried))]
               /\ turn' = [u \in Turns |-> IF u \in carried
                             THEN [turn[u] EXCEPT !.wf = nw + 1, !.reason = "none", !.due = "now"]
                             ELSE cancelled[u]]
       /\ UNCHANGED <<nt, lease, opVars, pasted, sysVars, dVars, sVars, oVars>>

-----------------------------------------------------------------------------
(* Time, recovery and crashes.                                              *)

(* A stalled heartbeat lets a claim lapse, a stalled sender its pane token. *)
Fault == faults < MaxFaults /\ faults' = faults + 1

ClaimExpires(t) ==
    /\ turn[t].claim = "live"
    /\ IF dturn = t THEN Fault ELSE UNCHANGED faults
    /\ turn' = [turn EXCEPT ![t].claim = "expired"]
    /\ UNCHANGED <<wfVars, nt, lease, opVars, pasted, up, dVars, sVars, oVars, closing>>

(* not_before of a backed-off turn passes.                                  *)
BecomesDue(t) ==
    /\ turn[t].due = "later"
    /\ turn' = [turn EXCEPT ![t].due = "now"]
    /\ UNCHANGED <<wfVars, nt, lease, opVars, pasted, sysVars, dVars, sVars, oVars, closing>>

OpExpires ==
    /\ OpHeld
    /\ opLive' = "expired"
    /\ IF op = Orphan THEN UNCHANGED faults ELSE Fault
    /\ UNCHANGED <<wfVars, turnVars, lease, op, pasted, up, dVars, sVars, oVars, closing>>

(* requeue_expired_workflow_turn_claims                                     *)
ExpiredClaims == {u \in Turns : /\ turn[u].state = "claimed" /\ turn[u].claim = "expired"
                                /\ Open(turn[u].wf)}

RequeueExpired ==
    /\ up = "up" /\ ExpiredClaims # {}
    /\ turn' = [u \in Turns |-> IF u \in ExpiredClaims
                                THEN [turn[u] EXCEPT !.state = "queued", !.claim = "none",
                                                     !.cursor = "none"]
                                ELSE turn[u]]
    /\ UNCHANGED <<wfVars, nt, lease, opVars, pasted, sysVars, dVars, sVars, oVars, closing>>

(* reconcile_owner_gated_workflow_successors, and the same repair made by a *)
(* retried Composer request.                                                *)
ReopenGated ==
    LET t == GatedSuccessor(nw) IN
    /\ up = "up" /\ dpc = "idle" /\ t # 0
    /\ wf' = [wf EXCEPT ![nw] = OpenRow(t)]
    /\ turn' = [turn EXCEPT ![t].reason = "none", ![t].due = "now"]
    /\ UNCHANGED <<nw, nt, lease, opVars, pasted, sysVars, dVars, sVars, oVars, closing>>

(* Threads die with the process; the rows and the pane token stay.          *)
Crash ==
    /\ up = "up"
    /\ up' = "down" /\ Fault
    /\ dpc' = "idle" /\ dturn' = 0
    /\ spc' = [s \in Senders |-> "idle"] /\ sturn' = [s \in Senders |-> 0]
    /\ opc' = [o \in Observers |-> "idle"] /\ seen' = [p \in Pollers |-> 0]
    /\ op' = IF op = NoOne THEN NoOne ELSE Orphan
    /\ UNCHANGED <<wfVars, turnVars, lease, opLive, pasted, closing>>

(* requeue_unadmitted_workflow_turns_for_restart                            *)
Interrupted == {u \in Turns : /\ Open(turn[u].wf) /\ wf[turn[u].wf].active = u
                              /\ turn[u].state = "sent" /\ turn[u].receipt = "none"
                              /\ lease # u}

Restart ==
    /\ up = "down"
    /\ up' = "up"
    /\ turn' = [u \in Turns |-> IF u \in Interrupted
                                THEN [turn[u] EXCEPT !.state = "queued", !.claim = "none",
                                                     !.cursor = "none"]
                                ELSE turn[u]]
    /\ UNCHANGED <<wfVars, nt, lease, opVars, pasted, faults, dVars, sVars, oVars, closing>>

-----------------------------------------------------------------------------
SenderNext(s) == \/ SenderSlot(s) \/ SenderOp(s) \/ SenderBind(s) \/ SenderPaste(s)
                 \/ SenderFail(s) \/ SenderUnlock(s) \/ SenderRetain(s)
ObserverNext(o) == ObserverSettle(o) \/ ObserverBusy(o) \/ ObserverRequeue(o)
DispatcherNext ==
    \/ DispatcherBusy \/ DispatcherSettle \/ DispatcherRequeueSettled
    \/ ProviderOutcome \/ ObserveFinal \/ ReadyNotStable
    \/ PickTurn \/ ClaimTurn \/ RenewClaim \/ Activate \/ DispatcherSlot \/ DispatcherOp
    \/ DispatcherBind \/ DispatcherPaste \/ DispatcherFail \/ DispatcherUnlock \/ MarkSent \/ RequeueTurn
ReceiverNext == \/ \E t \in Turns : Admit(t) \/ Resume(t)
                \/ \E t \in Turns, s \in {"terminal", "owner_gate"} : ClaimClose(t, s)
                \/ CloseWorkflow
RecoveryNext == \/ \E t \in Turns : ClaimExpires(t) \/ BecomesDue(t)
                \/ OpExpires \/ RequeueExpired \/ ReopenGated \/ Crash \/ Restart

Next == \/ \E s \in Senders : PrepareInput(s) \/ SenderNext(s)
        \/ \E o \in Observers : ObserverLook(o) \/ ObserverNext(o)
        \/ DispatcherLook \/ DispatcherNext
        \/ ReceiverNext \/ RecoveryNext

Spec == Init /\ [][Next]_vars

(* Threads run, tokens lapse in time, and a pane that keeps being polled is *)
(* eventually seen settled.  Nothing makes the model, tmux or the capacity  *)
(* of the host co-operate.                                                  *)
Fairness == /\ \A s \in Senders : WF_vars(SenderNext(s))
            /\ \A o \in Observers : WF_vars(ObserverNext(o))
            /\ WF_vars(DispatcherLook) /\ WF_vars(DispatcherNext) /\ SF_vars(DispatcherSettle)
            /\ WF_vars(RequeueExpired) /\ WF_vars(ReopenGated) /\ WF_vars(Restart)
            /\ \A t \in Turns : WF_vars(ClaimExpires(t)) /\ WF_vars(BecomesDue(t))
            /\ WF_vars(OpExpires)

FairSpec == Spec /\ Fairness

-----------------------------------------------------------------------------
(* Properties that hold.                                                    *)

(* A terminal has one open workflow at most, its newest: the gates that     *)
(* Composer input reopens and the successors that completion creates never  *)
(* leave an older authority beside the current one.                         *)
OneOpenWorkflow == \A w \in Workflows : Open(w) => w = nw

(* The active binding of a workflow only moves to newer turns, although the *)
(* dispatcher decides what to activate several transactions before it does, *)
(* and receipts and resumes run in another process meanwhile.               *)
ActiveForward == [][\A w \in Workflows : wf'[w].active >= wf[w].active]_vars

(* A finished or cancelled turn is history: no observer with a stale lease, *)
(* late dispatcher or restart makes it executable again.                    *)
FinalStaysFinal ==
    [][\A t \in Turns : turn[t].state \in {"finished", "cancelled"} =>
                           turn'[t].state = turn[t].state]_vars

(* Every provider final is answered by one continuation at most, however    *)
(* often the same final is observed.                                        *)
OneSuccessor ==
    \A u, v \in Turns : /\ turn[u].kind = "open_final" /\ turn[v].kind = "open_final"
                        /\ turn[u].parent = turn[v].parent
                        => u = v

(* Unless a thread stalls past its pane token, two threads never paste into *)
(* the pane at once, across crashes of neither, senders and dispatcher.     *)
InPane == {s \in Senders : spc[s] \in {"bind", "paste"}}
          \cup {d \in {Dispatcher} : dpc \in {"bind", "paste"}}
PaneExclusive == faults = 0 => Cardinality(InPane) <= 1

(* An owner's accepted input that no receiver has admitted is cancelled     *)
(* only by an owner gate or after its transport attempts are used up; never *)
(* by other input, a provider final, a completion or a recovery.            *)
InputsKept ==
    [][\A t \in Turns : /\ turn[t].kind = "external_input" /\ turn[t].receipt = "none"
                        /\ turn[t].state # "cancelled" /\ turn'[t].state = "cancelled"
                        => \/ wf'[turn[t].wf].status = "owner_gate"
                           \/ turn[t].attempts >= MaxAttempts]_vars

(* Completing a workflow moves every queued, untouched owner input into the *)
(* workflow that replaces it, where the dispatcher can reach it.            *)
CompletionCarriesInputs ==
    [][\A w \in Workflows : Open(w) /\ wf'[w].status = "terminal" =>
          \A t \in QueuedInputsAfter(w, 0) : turn[t].receipt = "none" =>
             /\ turn'[t].state = "queued" /\ turn'[t].wf = nw'
             /\ wf'[nw'].status = "open" /\ wf'[nw'].active <= t]_vars

(* A workflow closed by an explicit decision stays closed: no late requeue  *)
(* leaves behind it an input that the gate repair would take for a reason   *)
(* to reopen it.                                                            *)
ClosedStaysClosed ==
    [][\A w \in Workflows : wf[w].gate = "explicit" => wf'[w].status # "open"]_vars

(* A turn ended by a provider-policy outcome has no automatic continuation, *)
(* even one queued before the outcome could be read.                        *)
NoRetryAfterOutcome ==
    \A u \in Turns : /\ turn[u].kind = "open_final"
                     /\ turn[turn[u].parent].cursor = "outcome"
                     => turn[u].state = "cancelled"

(* A claim never strands its turn: after a crash, a fence or a refusal the  *)
(* turn is moved on, unless its workflow closes.                            *)
ClaimsMoveOn ==
    \A t \in Turns : turn[t].state = "claimed"
                        ~> turn[t].state # "claimed" \/ ~Open(turn[t].wf)

-----------------------------------------------------------------------------
(* Statements of the code's comments and of its documentation that the      *)
(* model refutes; README.md explains each counterexample.                   *)

(* Only an input that was not sent is put back into the queue: an admitted, *)
(* running turn never is (queue_workflow_input_for_provider).               *)
RetainsUnsentOnly ==
    [][\A t \in Turns : turn[t].receipt # "none" /\ turn[t].state = "sent"
                           => turn'[t].state # "queued"]_vars

(* While the active turn waits for its receiver, no later turn is taken for *)
(* dispatch: one envelope at a time is under way to the pane                *)
(* (claim_workflow_turn).                                                   *)
OneUnderWay ==
    \A t \in Turns : /\ turn[t].state = "claimed" /\ Open(turn[t].wf)
                     /\ Unadmitted(turn[t].wf, wf[turn[t].wf].active)
                     => t <= wf[turn[t].wf].active

(* Every owner input queued in the open workflow can still be dispatched    *)
(* under its current binding (inbox_service.py).                            *)
InputsDispatchable ==
    Open(nw) => \A u \in QueuedInputsAfter(nw, 0) : u >= wf[nw].active

(* An owner input queued while a turn runs supersedes that turn when it     *)
(* ends in a policy outcome (reconcile_root_workflow).                      *)
BehindOutcome(t) == /\ Open(nw) /\ t \in QueuedInputsAfter(nw, wf[nw].active)
                    /\ wf[nw].active # 0 /\ turn[wf[nw].active].cursor = "outcome"
InputSupersedesOutcome == \A t \in Turns : BehindOutcome(t) ~> ~BehindOutcome(t)

(* A pasted turn that no receiver admits is retried or gated.               *)
Unanswered(t) == IsActive(t) /\ turn[t].state = "sent" /\ turn[t].receipt = "none"
UnansweredRetried == \A t \in Turns : Unanswered(t) ~> ~Unanswered(t)

=============================================================================
