-------------------------- MODULE ProviderReconnect --------------------------
(***************************************************************************)
(* The exchange of a running provider process for one of the current       *)
(* release, while its workflow stays open: the reconnect transactions of   *)
(* clients/database.py, the tick of services/workflow_service.py that      *)
(* drives them and reconnect_runtime_sidecar of providers/codex.py.        *)
(*                                                                         *)
(* One root terminal with one workflow.  Its runtime is of an older        *)
(* release; a request marks the active turn, an attempt exits the old      *)
(* process, launches the new one in the same pane, waits until the new     *)
(* sidecar has registered, and completes by choosing the turn that goes on *)
(* with the interrupted work.  Several ticks may drive one reconnect: its  *)
(* claim is a token with a lease, which a heartbeat renews.  A result that *)
(* was called back to the root belongs to turn res: cb tells what its      *)
(* callback still allows.                                                  *)
(*                                                                         *)
(* The lease and the request have one age, so that a claim that finds no   *)
(* live operation never fails at the age of the request.  A tick sends the *)
(* launch command at once when it has marked the launch: a stall of a      *)
(* whole lease between the two is left out, a crash is not.  The choice of *)
(* roots by the batch scan, notifications and the transport of the         *)
(* other providers (an input instead of a relaunch) are left out.          *)
(* Operators that no action uses are faulty variants of their neighbours,  *)
(* with which the properties are tested.                                   *)
(***************************************************************************)
EXTENDS Naturals, FiniteSets, Sequences

CONSTANTS MaxAttempts, \* MAX_WORKFLOW_PROVIDER_RECONNECT_ATTEMPTS
          MaxRows,     \* bound: attempts of all turns together
          MaxTurns,    \* bound: turns of the workflow
          MaxFaults,   \* bound: crashes, releases and failing heartbeats
          Drivers      \* 1..N: ticks under way together

ASSUME ConstantAssumption ==
    /\ MaxAttempts \in Nat \ {0} /\ MaxRows \in Nat /\ MaxTurns \in Nat \ {0, 1}
    /\ MaxFaults \in Nat /\ Drivers \subseteq Nat

VARIABLES wf,      \* "over": cancelled with its runtime
          active,  \* active_turn_id
          turns, res, cb,
          notice,  \* the callback of res is pending, not delivered
          exec,    \* turn that holds the provider execution lease, or 0
          atts,    \* workflow_provider_reconnect_attempts
          op,      \* runtime_operation_kind, _token, and whether its lease lives
          life,    \* runtime_lifecycle
          compat,  \* provider_runtime_compatibility_generation is the current one
          bound,   \* the resume identity is bound to the current runtime
          pane,    \* the provider process, and the attempt that launched it
          drv,     \* the ticks
          reap,    \* reconcile_terminal_runtime between observation and write
          tokens, faults

vars == <<wf, active, turns, res, cb, notice, exec, atts, op, life, compat, bound, pane, drv, reap,
          tokens, faults>>
flow == <<wf, active, turns, res, cb, notice, exec>>

TurnIds == 1..MaxTurns
(* One claim for each attempt and one more after each fault.                 *)
MaxTokens == MaxRows + MaxFaults
Turn == [kind : {"none", "input", "result", "resume", "final"},
         st : {"none", "queued", "sent", "finished", "cancelled"},
         got : BOOLEAN, resumed : BOOLEAN,     \* its receipt, and resumed_by_turn_id
         parent : 0..MaxTurns,
         req : BOOLEAN, tok : 0..MaxTokens]    \* provider_reconnect_requested_at, _claim_token
Attempt == [turn : TurnIds, st : {"reserved", "launched", "ready", "succeeded", "failed"},
            edge : BOOLEAN, current : BOOLEAN, \* output boundary; registered by this release
            launches : Nat]
Driver == [step : {"idle", "verify", "exit", "mark", "send", "wait", "edge", "complete", "fail"},
           turn : 0..MaxTurns, tok : 0..MaxTokens, att : 0..MaxRows, ok : BOOLEAN]
Open == {"reserved", "launched", "ready"}
(* _provider_reconnect_result_callback_state                                 *)
CallbackStates == {"replayable", "acknowledged", "unsafe"}
NoOp == [kind |-> "none", tok |-> 0, live |-> FALSE]
NoTurn == [kind |-> "none", st |-> "none", got |-> FALSE, resumed |-> FALSE, parent |-> 0,
           req |-> FALSE, tok |-> 0]
Resting == [step |-> "idle", turn |-> 0, tok |-> 0, att |-> 0, ok |-> TRUE]
Shell == [what |-> "shell", att |-> 0]

TypeOK ==
    /\ wf \in {"open", "gate", "over"} /\ active \in TurnIds
    /\ turns \in [TurnIds -> Turn] /\ res \in 0..MaxTurns
    /\ cb \in {"none"} \cup CallbackStates /\ notice \in BOOLEAN
    /\ exec \in 0..MaxTurns /\ atts \in Seq(Attempt) /\ Len(atts) <= MaxRows
    /\ op \in [kind : {"none", "reconnect", "retire"}, tok : 0..MaxTokens, live : BOOLEAN]
    /\ life \in {"running", "exit_pending", "ended"} /\ compat \in BOOLEAN /\ bound \in BOOLEAN
    /\ pane \in [what : {"old", "shell", "fresh"}, att : 0..MaxRows]
    /\ drv \in [Drivers -> Driver]
    /\ reap \in {"none"} \cup {"dead"} /\ tokens \in 0..MaxTokens /\ faults \in 0..MaxFaults
    /\ op.kind = "reconnect" => life = "running" /\ op.tok > 0
    /\ \A t \in TurnIds : turns[t].tok # 0 => turns[t].req
    /\ exec # 0 => turns[exec].st = "sent" /\ exec = active

(* The active turn when the release changes: an input or a callback that     *)
(* executes, an input while an older callback was queued again, a queued     *)
(* callback or input, or the open_final of a turn that has ended.            *)
T(kind, st, got, parent) == [NoTurn EXCEPT !.kind = kind, !.st = st, !.got = got,
                                           !.parent = parent]
Start(a, t1, t2, r) ==
    /\ active = a /\ res = r
    /\ turns = [t \in TurnIds |-> IF t = 1 THEN t1 ELSE IF t = 2 THEN t2 ELSE NoTurn]
    /\ exec = IF turns[a].st = "sent" THEN a ELSE 0
    /\ cb = IF r = 0 THEN "none" ELSE "replayable"
    /\ notice = (r # 0 /\ exec # r)
Init ==
    /\ wf = "open"
    /\ \/ Start(1, T("input", "sent", TRUE, 0), NoTurn, 0)
       \/ Start(1, T("result", "sent", TRUE, 0), NoTurn, 1)
       \/ Start(2, T("result", "finished", TRUE, 0), T("input", "sent", TRUE, 0), 1)
       \/ Start(1, T("result", "queued", FALSE, 0), NoTurn, 1)
       \/ Start(1, T("input", "queued", FALSE, 0), NoTurn, 0)
       \/ Start(2, T("input", "finished", TRUE, 0), T("final", "queued", FALSE, 1), 0)
    /\ atts = <<>> /\ op = NoOp /\ life = "running" /\ compat = FALSE /\ bound \in BOOLEAN
    /\ pane = [what |-> "old", att |-> 0] /\ drv = [d \in Drivers |-> Resting]
    /\ reap = "none" /\ tokens = 0 /\ faults = 0

-----------------------------------------------------------------------------
(* What the transactions ask.                                                *)

Pending == wf = "open" /\ turns[active].req

(* _queued_result_turn_authorizes_provider_reconnect: the callback may still *)
(* be delivered, and nothing later was admitted.                             *)
QueuedCallback ==
    LET t == turns[active] IN
    /\ t.st = "queued" /\ t.kind = "result" /\ ~t.got /\ cb = "replayable"
    /\ \A u \in active + 1..MaxTurns : ~turns[u].got
(* _provider_reconnect_authority_turn.                                       *)
Authority ==
    LET t == turns[active] IN
    \/ t.st = "queued" /\ t.kind = "final" /\ ~t.got
       /\ turns[t.parent].st = "finished" /\ turns[t.parent].got
    \/ t.st = "queued" /\ t.kind = "input" /\ ~t.got
    \/ QueuedCallback
    \/ t.st \in {"sent", "finished"} /\ t.got

(* The claim of driver d still stands; renewing it makes its lease live.     *)
Owned(d) ==
    /\ life = "running" /\ op.kind = "reconnect" /\ op.tok = drv[d].tok
    /\ wf = "open" /\ active = drv[d].turn
    /\ turns[active].req /\ turns[active].tok = drv[d].tok
(* side_effect_guard                                                         *)
Guard(d) == drv[d].ok /\ Owned(d)
Renewed(d) == IF Guard(d) THEN [op EXCEPT !.live = TRUE] ELSE op
Step(d, s) == drv' = [drv EXCEPT ![d].step = s]

Cancelled == [t \in TurnIds |-> IF turns[t].st = "queued" THEN [turns[t] EXCEPT !.st = "cancelled"]
                                                         ELSE turns[t]]
Free == {t \in TurnIds : turns[t].st = "none"}
Fresh == CHOOSE t \in Free : \A u \in Free : t <= u

-----------------------------------------------------------------------------
(* Turns and attempts are left for the reconnects that are requested.        *)

Mine(t) == {k \in 1..Len(atts) : atts[k].turn = t}
(* Bound: the attempts there are, and those the turn may still have.         *)
Rows(t) == Len(atts) + MaxAttempts - Cardinality(Mine(t))

(* The request: a tick that saw the signal of the stale sidecar, or the      *)
(* batch over the runtimes of an older release.                              *)
Requestable ==
    life = "running" /\ wf = "open" /\ ~compat /\ Authority /\ ~turns[active].req
Request ==
    /\ Requestable /\ Rows(active) <= MaxRows /\ Free # {}
    /\ turns' = [turns EXCEPT ![active].req = TRUE, ![active].tok = 0]
    /\ UNCHANGED <<wf, active, res, cb, notice, exec, atts, op, life, compat, bound, pane, drv,
                   reap, tokens, faults>>

(* claim_workflow_provider_reconnect: an attempt that is open is taken over. *)
(* The owner decides when the budget of the turn is spent: an attempt that   *)
(* succeeded counts, and the same turn may need another release.             *)
ReusableUnsent(t) == {k \in Mine(t) : atts[k].st = "reserved"}
Reusable(t) == {k \in Mine(t) : atts[k].st \in Open}
Exhausted == Reusable(active) = {} /\ Cardinality(Mine(active)) >= MaxAttempts
Gated == [Cancelled EXCEPT ![active].req = FALSE, ![active].tok = 0]

Claimable ==
    /\ Pending /\ life = "running" /\ ~op.live /\ exec = 0 /\ Authority
    /\ turns[active].tok = 0 \/ ~op.live
Taken == IF Reusable(active) = {} THEN Len(atts) + 1
         ELSE CHOOSE i \in Reusable(active) : \A j \in Reusable(active) : j <= i
Reserved == [turn |-> active, st |-> "reserved", edge |-> FALSE, current |-> FALSE, launches |-> 0]
TakeOver(d) ==
    /\ atts' = IF Taken > Len(atts) THEN Append(atts, Reserved) ELSE atts
    /\ drv' = [drv EXCEPT ![d] =
          [step |-> IF ~bound THEN "fail"
                    ELSE IF atts'[Taken].st = "reserved" THEN "verify" ELSE "wait",
           turn |-> active, tok |-> tokens + 1, att |-> Taken, ok |-> TRUE]]
    /\ tokens' = tokens + 1
    /\ turns' = [turns EXCEPT ![active].tok = tokens + 1]
    /\ op' = [kind |-> "reconnect", tok |-> tokens + 1, live |-> TRUE]
    /\ wf' = wf
GiveUp == wf' = "gate" /\ turns' = Gated /\ op' = NoOp /\ UNCHANGED <<atts, drv, tokens>>
Claim(d) ==
    /\ drv[d].step = "idle" /\ Claimable
    /\ \/ Exhausted /\ GiveUp
       \/ ~Exhausted /\ TakeOver(d)
    /\ UNCHANGED <<active, res, cb, notice, exec, life, compat, bound, pane, reap, faults>>

-----------------------------------------------------------------------------
(* The reconnect of one driver.                                              *)

(* verify_provider_runtime_sidecar_resume_identity asks the process in the   *)
(* pane; nothing answers at a shell.                                         *)
Verify(d) ==
    /\ drv[d].step = "verify"
    /\ \/ pane.what # "shell" /\ Step(d, "exit")
       \/ Step(d, "fail")
    /\ UNCHANGED <<flow, atts, op, life, compat, bound, pane, reap, tokens, faults>>

(* reconnect_runtime_sidecar, reserved: a provider is told to exit, which it *)
(* may not do in time.                                                       *)
Exit(d) ==
    /\ drv[d].step = "exit"
    /\ \/ pane.what = "shell" /\ Step(d, "mark") /\ UNCHANGED <<op, pane>>
       \/ pane.what # "shell" /\ ~Guard(d) /\ Step(d, "fail") /\ UNCHANGED <<op, pane>>
       \/ /\ pane.what # "shell" /\ Guard(d) /\ op' = Renewed(d)
          /\ \/ pane' = Shell /\ Step(d, "mark")
             \/ pane' = pane /\ Step(d, "fail")
    /\ UNCHANGED <<flow, atts, life, compat, bound, reap, tokens, faults>>

(* mark_workflow_provider_reconnect_launch_dispatched                        *)
Markable(k) == atts[k].st = "reserved"
Mark(d) ==
    /\ drv[d].step = "mark"
    /\ LET k == drv[d].att IN
       IF Guard(d) /\ Markable(k)
       THEN atts' = [atts EXCEPT ![k].st = "launched"] /\ Step(d, "send")
       ELSE atts' = atts /\ Step(d, "fail")
    /\ op' = Renewed(d)
    /\ UNCHANGED <<flow, life, compat, bound, pane, reap, tokens, faults>>

(* The launch command; the process may end at once.                          *)
Send(d) ==
    /\ drv[d].step = "send"
    /\ atts' = [atts EXCEPT ![drv[d].att].launches = @ + 1]
    /\ pane' \in {Shell, [what |-> "fresh", att |-> drv[d].att]}
    /\ Step(d, "wait")
    /\ UNCHANGED <<flow, op, life, compat, bound, reap, tokens, faults>>

(* record_workflow_provider_reconnect_runtime_ready, by the new sidecar: it  *)
(* knows its attempt, not the claim.                                         *)
Registrable(k) ==
    /\ wf = "open" /\ active = atts[k].turn /\ turns[active].req
    /\ life = "running" /\ op.kind = "reconnect" /\ atts[k].st = "launched"
Register ==
    /\ pane.what = "fresh" /\ Registrable(pane.att)
    /\ atts' = [atts EXCEPT ![pane.att].st = "ready", ![pane.att].current = TRUE]
    /\ UNCHANGED <<flow, op, life, compat, bound, pane, drv, reap, tokens, faults>>

(* _wait_for_reconnected_runtime: registered and in the pane, or too late.   *)
Wait(d) ==
    /\ drv[d].step = "wait"
    /\ LET k == drv[d].att
           ready == atts[k].st = "ready" /\ pane = [what |-> "fresh", att |-> k]
       IN  \/ ready /\ Step(d, IF Guard(d) THEN "edge" ELSE "fail") /\ op' = Renewed(d)
           \/ ~ready /\ Step(d, "fail") /\ op' = op
    /\ UNCHANGED <<flow, atts, life, compat, bound, pane, reap, tokens, faults>>

(* record_workflow_provider_reconnect_output_boundary; at the end of the     *)
(* block the heartbeat is asked whether the claim was lost.                  *)
Edged(k) ==
    /\ wf = "open" /\ active = atts[k].turn /\ turns[active].req
    /\ life = "running" /\ op.kind = "reconnect" /\ atts[k].st = "ready"
Edge(d) ==
    /\ drv[d].step = "edge"
    /\ LET k == drv[d].att IN
       /\ atts' = IF Edged(k) THEN [atts EXCEPT ![k].edge = TRUE] ELSE atts
       /\ Step(d, IF Edged(k) /\ drv[d].ok THEN "complete" ELSE "fail")
    /\ UNCHANGED <<flow, op, life, compat, bound, pane, reap, tokens, faults>>

(* fail_workflow_provider_reconnect_attempt: the request stays and may be    *)
(* claimed again at once, unless this was the last attempt.                  *)
Failable(d) ==
    /\ op.kind = "reconnect" /\ op.tok = drv[d].tok /\ wf = "open" /\ active = drv[d].turn
    /\ turns[active].req /\ turns[active].tok = drv[d].tok /\ atts[drv[d].att].st \in Open
Fail(d) ==
    /\ drv[d].step = "fail"
    /\ drv' = [drv EXCEPT ![d] = Resting]
    /\ IF ~Failable(d) THEN UNCHANGED <<wf, turns, exec, atts, op>>
       ELSE LET last == Cardinality({k \in Mine(active) : k <= drv[d].att}) >= MaxAttempts IN
            /\ atts' = [atts EXCEPT ![drv[d].att].st = "failed"]
            /\ op' = NoOp
            /\ IF last THEN wf' = "gate" /\ turns' = Gated /\ exec' = 0
               ELSE turns' = [turns EXCEPT ![active].tok = 0] /\ UNCHANGED <<wf, exec>>
    /\ UNCHANGED <<active, res, cb, notice, life, compat, bound, pane, reap, tokens, faults>>

-----------------------------------------------------------------------------
(* complete_workflow_provider_reconnect                                      *)

(* An older callback that was queued again after its turn had ended.         *)
Requeued == notice /\ res < active /\ turns[res].st = "finished" /\ turns[res].got
Admitted == turns[active].got /\ turns[active].st \in {"sent", "finished"}
Later == {t \in TurnIds : t > active /\ turns[t].st = "queued" /\ turns[t].kind = "input"}
First(S) == CHOOSE t \in S : \A u \in S : t <= u

SuccessorFirst == IF Later # {} THEN "input"
                  ELSE IF ~Admitted THEN "same" ELSE "resume"
(* What goes on: the callback again, the interrupted work, a later input     *)
(* when nothing was interrupted, the same queued turn, or the owner decides. *)
Successor ==
    IF ~Admitted
    THEN CASE turns[active].kind = "result" \/ Requeued \/ Later = {} -> "same"
           [] OTHER -> "input"
    ELSE LET from == IF turns[active].kind = "result" THEN active
                     ELSE IF Requeued THEN res ELSE 0
         IN  CASE from = 0 -> "resume"
               [] from # 0 /\ cb = "unsafe" -> "gate"
               [] from # 0 /\ cb = "acknowledged" -> "resume"
               [] OTHER -> "result"

Completable(d) ==
    LET k == drv[d].att IN
    /\ life = "running" /\ op.kind = "reconnect" /\ op.tok = drv[d].tok
    /\ atts[k].st = "ready" /\ atts[k].edge /\ atts[k].current
    /\ wf = "open" /\ active = drv[d].turn /\ turns[active].req /\ turns[active].tok = drv[d].tok
    /\ Admitted => ~turns[active].resumed /\ exec \in {0, active}

(* The successor takes the place of the turn (and of the callback).          *)
Continued(kind) ==
    LET from == IF kind = "result" /\ turns[active].kind # "result" THEN res ELSE active
        idle == [turns EXCEPT ![active].req = FALSE, ![active].tok = 0]
        done == [idle EXCEPT ![active].st = "finished", ![from].st = "finished"]
    IN  [done EXCEPT ![Fresh] = T(kind, "queued", FALSE, active)]
Activated ==
    LET idle == [turns EXCEPT ![active].req = FALSE, ![active].tok = 0]
    IN  IF turns[active].kind = "final" THEN [idle EXCEPT ![active].st = "cancelled"] ELSE idle

Complete(d) ==
    /\ drv[d].step = "complete"
    /\ IF ~Completable(d) THEN Step(d, "fail") /\ UNCHANGED <<flow, atts, op, compat>>
       ELSE /\ CASE Successor \in {"result", "resume"} ->
                      /\ turns' = Continued(Successor) /\ active' = Fresh
                      /\ IF Successor = "result" THEN res' = Fresh /\ notice' = TRUE
                                                ELSE UNCHANGED <<res, notice>>
                      /\ wf' = wf
                 [] Successor = "input" ->
                      /\ turns' = Activated /\ active' = First(Later)
                      /\ UNCHANGED <<res, notice, wf>>
                 [] OTHER ->
                      /\ turns' = [turns EXCEPT ![active].req = FALSE, ![active].tok = 0]
                      /\ wf' = IF Successor = "gate" THEN "gate" ELSE wf
                      /\ UNCHANGED <<active, res, notice>>
            /\ exec' = IF Admitted THEN 0 ELSE exec
            /\ op' = NoOp /\ compat' = TRUE /\ cb' = cb
            /\ atts' = [atts EXCEPT ![drv[d].att].st = "succeeded"]
            /\ drv' = [drv EXCEPT ![d] = Resting]
    /\ UNCHANGED <<life, bound, pane, reap, tokens, faults>>

-----------------------------------------------------------------------------
(* The workflow around it.                                                   *)

(* The model turn ends: its lease goes, and without a pending reconnect the  *)
(* tick activates an open_final.                                             *)
Settle ==
    /\ exec # 0 /\ exec' = 0
    /\ UNCHANGED <<wf, active, turns, res, cb, notice, atts, op, life, compat, bound, pane, drv,
                   reap, tokens, faults>>
Final ==
    /\ life = "running" /\ wf = "open" /\ ~Pending /\ exec = 0 /\ Cardinality(Free) > 1
    /\ turns[active].st = "sent" /\ turns[active].got /\ turns[active].kind # "final"
    /\ turns' = [turns EXCEPT ![active].st = "finished",
                              ![Fresh] = T("final", "queued", FALSE, active)]
    /\ active' = Fresh
    /\ UNCHANGED <<wf, res, cb, notice, exec, atts, op, life, compat, bound, pane, drv, reap,
                   tokens, faults>>

(* The executing turn acknowledges a callback that was delivered, or asks    *)
(* for a review that supersedes it.                                          *)
Acknowledge ==
    /\ exec # 0 /\ turns[exec].got /\ cb = "replayable" /\ notice' = FALSE
    /\ cb' \in {"unsafe"} \cup IF notice THEN {} ELSE {"acknowledged"}
    /\ UNCHANGED <<wf, active, turns, res, exec, atts, op, life, compat, bound, pane, drv, reap,
                   tokens, faults>>

(* The executing turn is resumed by its own sidecar: a new turn is active.   *)
Resume ==
    /\ exec # 0 /\ turns[exec].got /\ ~turns[exec].resumed /\ Cardinality(Free) > 1
    /\ turns' = [turns EXCEPT ![exec].resumed = TRUE, ![exec].st = "finished",
                              ![Fresh] = T("resume", "sent", TRUE, exec)]
    /\ active' = Fresh /\ exec' = Fresh
    /\ UNCHANGED <<wf, res, cb, notice, atts, op, life, compat, bound, pane, drv, reap, tokens,
                   faults>>

(* The user's input to the older runtime waits.  It supersedes an open_final *)
(* unless that carries the reconnect, and asks for the reconnect itself when *)
(* nothing is before it.                                                     *)
SupersededAny(t) == turns[t].kind = "final" /\ turns[t].st = "queued"
Superseded(t) == turns[t].kind = "final" /\ turns[t].st = "queued" /\ ~turns[t].req
Predecessor ==
    \/ exec # 0 \/ notice
    \/ turns[active].st = "sent" /\ ~turns[active].got
    \/ \E t \in TurnIds : turns[t].st = "queued"
Input ==
    /\ wf = "open" /\ life = "running" /\ ~compat /\ Cardinality(Free) > 1
    /\ \A t \in TurnIds : turns[t].st = "queued" => turns[t].kind # "input"
    /\ Predecessor \/ Rows(Fresh) <= MaxRows
    /\ turns' = [t \in TurnIds |->
           IF t = Fresh THEN [T("input", "queued", FALSE, 0) EXCEPT !.req = ~Predecessor]
           ELSE IF Superseded(t) THEN [turns[t] EXCEPT !.st = "cancelled"] ELSE turns[t]]
    /\ active' = IF Predecessor THEN active ELSE Fresh
    /\ UNCHANGED <<wf, res, cb, notice, exec, atts, op, life, compat, bound, pane, drv, reap,
                   tokens, faults>>

(* activate_workflow_turn and acquire_terminal_runtime_transport: the active *)
(* turn when it is queued, else the next one.                                *)
Transportable == life = "running" /\ compat /\ ~Pending /\ ~op.live
Queue == {t \in TurnIds : t >= active /\ turns[t].st = "queued"}
Transport ==
    /\ wf = "open" /\ Transportable /\ exec = 0 /\ Queue # {} /\ turns[active].st # "sent"
    /\ LET t == First(Queue) IN
       /\ turns' = [turns EXCEPT ![t].st = "sent"]
       /\ active' = t /\ exec' = t /\ notice' = (notice /\ t # res)
    /\ UNCHANGED <<wf, res, cb, atts, op, life, compat, bound, pane, drv, reap, tokens, faults>>
Receive ==
    /\ exec # 0 /\ ~turns[exec].got /\ turns' = [turns EXCEPT ![exec].got = TRUE]
    /\ UNCHANGED <<wf, active, res, cb, notice, exec, atts, op, life, compat, bound, pane, drv,
                   reap, tokens, faults>>

-----------------------------------------------------------------------------
(* The end of the runtime.                                                   *)

(* exit_terminal: its claim needs the operation; a shell that a reconnect    *)
(* left behind is taken as dead.                                             *)
ExitClaim ==
    /\ life = "running" /\ ~op.live
    /\ life' = "exit_pending" /\ op' = [kind |-> "retire", tok |-> 0, live |-> TRUE]
    /\ UNCHANGED <<flow, atts, compat, bound, pane, drv, reap, tokens, faults>>
ExitDone ==
    /\ life = "exit_pending"
    /\ life' = "ended" /\ op' = NoOp /\ pane' = Shell
    /\ wf' = IF wf = "open" THEN "over" ELSE wf
    /\ turns' = Cancelled /\ exec' = 0
    /\ UNCHANGED <<active, res, cb, notice, atts, compat, bound, drv, reap, tokens, faults>>

(* reconcile_terminal_runtime: the gap of a reconnect is spared; the write   *)
(* needs the operation it read, which it had found free.                     *)
SparedNever == FALSE
Spared == op.kind = "reconnect"
Observe ==
    /\ life = "running" /\ ~Spared /\ pane.what = "shell" /\ reap = "none"
    /\ reap' = "dead"
    /\ UNCHANGED <<flow, atts, op, life, compat, bound, pane, drv, tokens, faults>>
Reap ==
    /\ reap = "dead" /\ reap' = "none"
    /\ IF life = "running" /\ ~Spared
       THEN /\ life' = "ended" /\ op' = NoOp /\ exec' = 0
            /\ wf' = IF wf = "open" THEN "over" ELSE wf
            /\ turns' = Cancelled
       ELSE UNCHANGED <<life, op, exec, wf, turns>>
    /\ UNCHANGED <<active, res, cb, notice, atts, compat, bound, pane, drv, tokens, faults>>

(* The heartbeat of a live driver fails, or the driver is gone: the lease    *)
(* runs out.                                                                 *)
Owners == {d \in Drivers : drv[d].step # "idle" /\ drv[d].tok = op.tok}
Expire ==
    /\ op.kind = "reconnect" /\ op.live /\ \A d \in Owners : drv[d].step # "send"
    /\ op' = [op EXCEPT !.live = FALSE]
    /\ IF Owners = {} THEN UNCHANGED <<drv, faults>>
       ELSE /\ faults < MaxFaults /\ faults' = faults + 1
            /\ drv' = [d \in Drivers |-> IF d \in Owners THEN [drv[d] EXCEPT !.ok = FALSE]
                                                        ELSE drv[d]]
    /\ UNCHANGED <<flow, atts, life, compat, bound, pane, reap, tokens>>

(* The server stops, and comes back with this release or the next.           *)
Crash ==
    /\ faults < MaxFaults /\ faults' = faults + 1
    /\ drv' = [d \in Drivers |-> Resting] /\ reap' = "none"
    /\ \/ UNCHANGED <<compat, atts, pane>>
       \/ /\ compat' = FALSE
          /\ atts' = [k \in DOMAIN atts |-> [atts[k] EXCEPT !.current = FALSE]]
          /\ pane' = IF pane.what = "fresh" THEN [what |-> "old", att |-> 0] ELSE pane
    /\ UNCHANGED <<flow, op, life, bound, tokens>>

Drive(d) == Verify(d) \/ Exit(d) \/ Mark(d) \/ Send(d) \/ Wait(d) \/ Edge(d) \/ Complete(d)
            \/ Fail(d)
(* Every tick finds the request; the ticks are alike.                        *)
Tick == \E d \in Drivers : Claim(d) /\ \A e \in Drivers : e < d => drv[e].step # "idle"
Next ==
    \/ Request \/ Tick \/ \E d \in Drivers : Drive(d)
    \/ Register \/ Settle \/ Final \/ Acknowledge \/ Resume \/ Input \/ Transport \/ Receive
    \/ ExitClaim \/ ExitDone \/ Observe \/ Reap \/ Expire \/ Crash

(* The daemon ticks, a driver runs to its end, the provider ends its turns,  *)
(* an exit that was claimed goes on and a lease nobody renews runs out.      *)
Fairness ==
    /\ WF_vars(Tick) /\ \A d \in Drivers : WF_vars(Drive(d))
    /\ WF_vars(Settle) /\ WF_vars(ExitDone) /\ WF_vars(Expire /\ Owners = {})
Spec == Init /\ [][Next]_vars /\ Fairness

-----------------------------------------------------------------------------
(* Properties.                                                               *)

(* A launch is paid for: however often drivers lose their claim, crash and   *)
(* take over, no attempt is launched twice and a turn has no more attempts   *)
(* than the budget, one of them open.                                        *)
LaunchedOnce ==
    /\ \A k \in DOMAIN atts : atts[k].launches <= 1
    /\ \A t \in TurnIds : /\ Cardinality(Mine(t)) <= MaxAttempts
                          /\ Cardinality({k \in Mine(t) : atts[k].st \in Open}) <= 1

(* What acts on the pane knows what is in it: no terminal is declared dead   *)
(* while a provider runs there, and no turn is sent to a runtime of an older *)
(* release, to the shell between two runtimes or to one not yet registered.  *)
PaneIsKnown ==
    [][/\ life = "running" /\ life' = "ended" => pane.what = "shell"
       /\ \A t \in TurnIds : turns[t].st = "queued" /\ turns'[t].st = "sent"
            => pane.what = "fresh" /\ atts[pane.att].st = "succeeded"]_vars

(* Work that a reconnect interrupted goes on before any later input is sent: *)
(* an unacknowledged callback is not overtaken, and a turn has one successor.*)
InterruptedFirst ==
    /\ \A t \in TurnIds :
         Cardinality({u \in TurnIds : /\ turns[u].parent = t
                                      /\ turns[u].kind \in {"resume", "result"}}) <= 1
    /\ wf = "open" /\ res # 0 /\ cb = "replayable" /\ turns[res].st = "queued"
         => \A u \in TurnIds : u > res /\ turns[u].kind = "input" => turns[u].st # "sent"

(* A pending reconnect ends: the new runtime is there, the owner decides, or *)
(* the runtime has ended.                                                    *)
ReconnectEnds == Pending ~> ~Pending

(* terminal_service.py:1308 says of the shell between the two runtimes that  *)
(* it is no evidence of death "while durable reconnect state owns the pane,  *)
(* including after a service crash and lease expiry".                        *)
GapKept == [][Reap /\ life' = "ended" => ~Pending]_vars
=============================================================================
