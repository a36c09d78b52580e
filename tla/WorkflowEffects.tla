--------------------------- MODULE WorkflowEffects ---------------------------
(***************************************************************************)
(* The ledger of privileged effects (workflow_effects and                  *)
(* workflow_effect_resolutions in clients/database.py; the claim and       *)
(* finish of every tool in mcp_server/server.py).                          *)
(*                                                                         *)
(* A tool call claims its effect for the active, admitted turn, crosses a  *)
(* boundary that no transaction covers, and seals the row with what it     *)
(* knows.  A turn that carries on an interrupted one gets a copy of its    *)
(* ledger.  A reconciler reads the durable traces effects leave and says   *)
(* what became of those whose caller never knew.                           *)
(*                                                                         *)
(* One root terminal with one workflow; queueing and pasting of turns are  *)
(* in WorkflowTurns, so a new input begins admitted.  An effect is         *)
(* identified by its key alone, and keys are of four kinds: messages (no   *)
(* trace), delegations, acknowledgements and completions.  Fences, whose   *)
(* evidence is searched by a cursor of its own, and the retirement of      *)
(* children, whose outcomes are those of delegations, are left out; so is  *)
(* the reopening of acknowledgements that were sealed "rejected", a state  *)
(* acknowledge_assigned_result no longer writes, and the outcome "rejected"*)
(* of a call itself, which fences and retirements write.  "wait" is        *)
(* wait_timeout and wait_retryable, which differ in what the caller is     *)
(* told.  A sealed row keeps its token in the code; nothing asks for it    *)
(* any more, so that holder is the caller of a claimed row only.           *)
(* Operators that no action uses are faulty variants of their neighbours,  *)
(* with which the properties are tested.                                   *)
(***************************************************************************)
EXTENDS Naturals, FiniteSets, FiniteSetsExt

CONSTANTS MaxCalls,     \* bound: tool calls under way together
          Keys,         \* effect keys
          KeyOrder,     \* the order of the rows of a turn
          MaxTurns,     \* bound: logical turns of the workflow
          PageSize,     \* effects a reconciliation looks at (200 in the code)
          MaxOpened,    \* bound: rows that were claimed or may be
          MaxFaults     \* bound: deaths of a caller, exits of the runtime

Turns == 1..MaxTurns
Callers  == 1..MaxCalls
NoCaller == 0

ASSUME ConstantAssumption ==
    /\ MaxCalls \in Nat /\ MaxTurns \in Nat /\ PageSize \in Nat \ {0} /\ MaxOpened \in Nat /\ MaxFaults \in Nat
    /\ IsFiniteSet(Keys) /\ "none" \notin Keys
    /\ KeyOrder \in [Keys -> 1..Cardinality(Keys)]
    /\ \A j, k \in Keys : KeyOrder[j] = KeyOrder[k] => j = k

VARIABLES kind,    \* what a key identifies
          wf,      \* status of the workflow
          reason,  \* terminal_reason, the key of the completion
          active,  \* active_turn_id
          turn,    \* workflow_turns with their receipts
          eff,     \* workflow_effects with their resolutions, by turn and key
          call,    \* the tool calls
          child,   \* the attempt registered with the delegation effect of a turn
          acked,   \* results that are acknowledged
          made,    \* how often a turn's claim made the effect
          cursor,  \* last_workflow_effect_id
          faults

vars == <<kind, wf, reason, active, turn, eff, call, child, acked, made, cursor, faults>>

States   == {"none", "claimed", "completed", "indeterminate", "not_admitted", "wait"}
Resolutions == {"none", "completed", "rejected", "unknown_preserved"}

TurnRow == [kind : {"none", "fresh", "resume"}, receipt : BOOLEAN,
            parent : 0..MaxTurns, resumedBy : 0..MaxTurns, finished : BOOLEAN,
            superseded : BOOLEAN]
EffectRow == [state : States, holder : Callers \cup {NoCaller}, sealed : BOOLEAN,
              res : Resolutions]
CallRow   == [step : {"idle", "claimed", "checked", "made", "refused", "unknown"},
              t : 0..MaxTurns, k : Keys \cup {"none"}]
ChildStates == {"none", "begun", "delivered", "failed"}

NoTurn   == [kind |-> "none", receipt |-> FALSE, parent |-> 0, resumedBy |-> 0,
             finished |-> FALSE, superseded |-> FALSE]
NoEffect == [state |-> "none", holder |-> NoCaller, sealed |-> FALSE, res |-> "none"]
NoCall   == [step |-> "idle", t |-> 0, k |-> "none"]

Kinds == {"message", "delegation", "acknowledgement", "completion"}
TypeOK ==
    /\ kind \in [Keys -> Kinds]
    /\ wf \in {"open", "gate", "terminal", "cancelled"}
    /\ reason \in Keys \cup {"none"} /\ active \in 0..MaxTurns
    /\ turn \in [Turns -> TurnRow]
    /\ eff \in [Turns -> [Keys -> EffectRow]]
    /\ call \in [Callers -> CallRow]
    /\ child \in [Turns -> [Keys -> ChildStates]] /\ acked \in SUBSET Keys
    /\ made \in [Turns -> [Keys -> Nat]]
    /\ cursor \in Nat /\ faults \in 0..MaxFaults
    /\ \A t \in Turns, k \in Keys : eff[t][k].state = "claimed" <=> eff[t][k].holder # NoCaller

Init == /\ kind \in [Keys -> Kinds]
        /\ wf = "open" /\ reason = "none" /\ active = 0
        /\ turn = [t \in Turns |-> NoTurn]
        /\ eff = [t \in Turns |-> [k \in Keys |-> NoEffect]]
        /\ call = [c \in Callers |-> NoCall]
        /\ child = [t \in Turns |-> [k \in Keys |-> "none"]] /\ acked = {}
        /\ made = [t \in Turns |-> [k \in Keys |-> 0]]
        /\ cursor = 0 /\ faults = 0

Exists(t)   == turn[t].kind # "none"
Admitted(t) == t # 0 /\ turn[t].receipt
Free(t)     == ~Exists(t) /\ \A s \in 1..(t - 1) : Exists(s)

-----------------------------------------------------------------------------
(* The ledger a successor starts with.                                       *)

Copied(s) == IF s = "claimed" THEN "indeterminate" ELSE s

Merged(S) ==
    IF "completed" \in S THEN "completed"
    ELSE IF "indeterminate" \in S THEN "indeterminate"
    ELSE IF "wait" \in S THEN "wait"
    ELSE IF "not_admitted" \in S THEN "not_admitted" ELSE "none"

(* _append_workflow_effect_resolution: the first outcome stays.              *)
Appended(res, outcome) == IF res = "none" THEN outcome ELSE res

(* _mirror_workflow_effect_ledger, from source and then from extra.          *)
Mirror(t, source, extra) ==
    LET state(k) == Merged({Copied(eff[source][k].state), Copied(eff[extra][k].state)})
    IN  eff' = [eff EXCEPT ![t] = [k \in Keys |->
                  IF state(k) = "none" THEN NoEffect
                  ELSE [state |-> state(k), holder |-> NoCaller, sealed |-> state(k) # "not_admitted",
                        res |-> Appended(eff[source][k].res, eff[extra][k].res)]]]

-----------------------------------------------------------------------------
(* Turns.                                                                    *)

Sealed(a) == IF a = 0 THEN turn ELSE [turn EXCEPT ![a].finished = TRUE]

(* A turn that carries on no other is bound, pasted and admitted.  Whether   *)
(* it carries a result, which may later wait to be replayed, is left open.   *)
Begin(t) ==
    /\ wf = "open" /\ Free(t) /\ (active = 0 \/ Admitted(active))
    /\ turn' = [Sealed(active) EXCEPT ![t] = [NoTurn EXCEPT !.kind = "fresh", !.receipt = TRUE]]
    /\ active' = t
    /\ UNCHANGED <<kind, wf, reason, eff, call, child, acked, made, cursor, faults>>

(* claim_or_resume_workflow_turn_receipt with a resume token.                *)
Resume(t) ==
    /\ wf = "open" /\ Free(t) /\ Admitted(active) /\ turn[active].resumedBy = 0
    /\ turn' = [turn EXCEPT ![t] = [NoTurn EXCEPT !.kind = "resume", !.receipt = TRUE,
                                                   !.parent = active],
                            ![active].finished = TRUE, ![active].resumedBy = t]
    /\ Mirror(t, active, active) /\ active' = t
    /\ UNCHANGED <<kind, wf, reason, call, child, acked, made, cursor, faults>>

(* A provider reconnect makes the successor of the active turn:              *)
(* _materialize_provider_reconnect_execution_successor, or, when an older    *)
(* callback s waits to be replayed, ..._result_successor, which joins the    *)
(* ledgers of both.                                                          *)
Reconnect(t, s) ==
    /\ wf = "open" /\ Free(t) /\ Admitted(active) /\ turn[active].resumedBy = 0
    /\ \/ s = active
       \/ turn[s].kind = "fresh" /\ turn[s].receipt /\ ~turn[s].superseded /\ s < active
    /\ turn' = [turn EXCEPT ![t] = [NoTurn EXCEPT !.kind = turn[s].kind, !.parent = active],
                            ![active].finished = TRUE,
                            ![s].finished = TRUE, ![s].superseded = (turn[s].kind = "fresh")]
    /\ Mirror(t, s, active) /\ active' = t
    /\ UNCHANGED <<kind, wf, reason, call, child, acked, made, cursor, faults>>

(* The successor is pasted and admitted; its parent's receipt is consumed.   *)
AdmitSuccessor(t) ==
    /\ wf = "open" /\ active = t /\ Exists(t) /\ ~turn[t].receipt
    /\ LET p == turn[t].parent IN
       IF p = 0 THEN turn' = [turn EXCEPT ![t].receipt = TRUE]
       ELSE /\ turn[p].finished /\ turn[p].resumedBy = 0
            /\ turn' = [turn EXCEPT ![t].receipt = TRUE, ![p].resumedBy = t]
    /\ UNCHANGED <<kind, wf, reason, active, eff, call, child, acked, made, cursor, faults>>

(* resume_parent_turn_id, as far as it leads.                                *)
Ancestry(r) ==
    LET up[t \in Turns] == {t} \cup IF turn[t].parent \in 1..(t - 1) THEN up[turn[t].parent]
                                    ELSE {}
    IN  up[r]

(* reconcile_result_callbacks_superseded_by_resume: a callback whose result  *)
(* a restart made pending again, under an execution that has moved past it,  *)
(* gets a new turn.  It waits in the queue while the resumed execution runs. *)
Rebuild(q, t) ==
    /\ wf = "open" /\ Free(t) /\ Admitted(active) /\ turn[active].resumedBy = 0
    /\ turn[active].kind = "resume"
    /\ turn[q].kind = "fresh" /\ turn[q].receipt /\ turn[q].finished
    /\ ~turn[q].superseded /\ q < active
    /\ turn' = [turn EXCEPT ![t] = [NoTurn EXCEPT !.kind = "fresh"], ![q].superseded = TRUE]
    /\ LET s == IF q \in Ancestry(active) THEN active ELSE q IN Mirror(t, s, s)
    /\ UNCHANGED <<kind, wf, reason, active, call, child, acked, made, cursor, faults>>

(* claim_workflow_turn and the activation of a rebuilt turn.                 *)
Activate(t) ==
    /\ wf = "open" /\ Exists(t) /\ ~turn[t].receipt /\ t > active
    /\ turn' = Sealed(active) /\ active' = t
    /\ UNCHANGED <<kind, wf, reason, eff, call, child, acked, made, cursor, faults>>

Sunk(row) == [row EXCEPT !.state = Copied(@), !.holder = NoCaller]

(* reconcile_exited_terminal_provider_execution: what the dead runtime had   *)
(* claimed is of unknown outcome.                                            *)
RuntimeExit ==
    /\ active # 0 /\ faults < MaxFaults
    /\ eff' = [eff EXCEPT ![active] = [k \in Keys |-> Sunk(eff[active][k])]]
    /\ turn' = Sealed(active) /\ faults' = faults + 1
    /\ UNCHANGED <<kind, wf, reason, active, call, child, acked, made, cursor>>

(* owner_gate_workflow; the effect it claims itself is none of the keys.     *)
Gate == /\ wf = "open" /\ wf' = "gate"
        /\ UNCHANGED <<kind, reason, active, turn, eff, call, child, acked, made, cursor, faults>>

-----------------------------------------------------------------------------
(* Tool calls.                                                               *)

(* Mutant: what is sealed for reasons of time may be claimed again.          *)
ClaimableSealed(t, k) == eff[t][k].state \in {"none", "not_admitted", "wait"}
Claimable(t, k) == eff[t][k].state \in {"none", "not_admitted"}

Opened == {p \in Turns \X Keys : eff[p[1]][p[2]].state # "none" /\ ~eff[p[1]][p[2]].sealed}

(* claim_workflow_effect.  The call names its turn, which must be active.    *)
(* Callers differ in nothing: a new call takes the first place that is idle. *)
Claim(c, k) ==
    /\ call[c].step = "idle" /\ \A b \in 1..(c - 1) : call[b].step # "idle"
    /\ wf = "open" /\ Admitted(active) /\ Claimable(active, k)
    /\ eff[active][k].state # "none" \/ Cardinality(Opened) < MaxOpened
    /\ eff' = [eff EXCEPT ![active][k] =
                  IF @.state = "none"
                  THEN [NoEffect EXCEPT !.state = "claimed", !.holder = c]
                  ELSE [@ EXCEPT !.state = "claimed", !.holder = c]]
    /\ call' = [call EXCEPT ![c] = [NoCall EXCEPT !.step = "claimed", !.t = active, !.k = k]]
    /\ UNCHANGED <<kind, wf, reason, active, turn, child, acked, made, cursor, faults>>

At(c, step) == call' = [call EXCEPT ![c].step = step]
Made(c) == /\ At(c, "made")
           /\ made' = [made EXCEPT ![call[c].t][call[c].k] = @ + 1]

(* _send_message_impl succeeds, or raises before or after the row is there.  *)
SendMessage(c) ==
    /\ call[c].step = "claimed" /\ kind[call[c].k] = "message"
    /\ \/ Made(c)
       \/ At(c, "unknown") /\ UNCHANGED made
    /\ UNCHANGED <<kind, wf, reason, active, turn, eff, child, acked, cursor, faults>>

(* _assign_impl, _handoff_impl: refused before a terminal exists, or the     *)
(* attempt is registered, which _request_effect_for_assignment permits for   *)
(* the current turn and a claimed effect only.                               *)
Current(c) ==
    LET t == call[c].t IN
    wf = "open" /\ active = t /\ eff[t][call[c].k].state = "claimed"
Delegate(c) ==
    /\ call[c].step = "claimed" /\ kind[call[c].k] = "delegation"
    /\ \/ \E s \in {"refused", "unknown"} : At(c, s) /\ UNCHANGED <<made, child>>
       \/ /\ Current(c) /\ Made(c)
          /\ child' = [child EXCEPT ![call[c].t][call[c].k] = "begun"]
    /\ UNCHANGED <<kind, wf, reason, active, turn, eff, acked, cursor, faults>>

(* acknowledge_assigned_result -> acknowledge_child_assignment_result_       *)
(* outcome.                                                                  *)
Acknowledge(c) ==
    LET k == call[c].k IN
    /\ call[c].step = "claimed" /\ kind[k] = "acknowledgement"
    /\ \/ k \notin acked /\ acked' = acked \cup {k} /\ Made(c)
       \/ At(c, "refused") /\ UNCHANGED <<made, acked>>
    /\ UNCHANGED <<kind, wf, reason, active, turn, eff, child, cursor, faults>>

(* complete_workflow: create_assigned_child_completion_result_message, which *)
(* for a root only checks that the claim is current; then                    *)
(* set_workflow_terminal_state, which names the terminal, not the turn, and  *)
(* asks for children but no status.                                          *)
CompleteCheck(c) ==
    /\ call[c].step = "claimed" /\ kind[call[c].k] = "completion"
    /\ At(c, IF Current(c) THEN "checked" ELSE "unknown")
    /\ UNCHANGED <<kind, wf, reason, active, turn, eff, child, acked, made, cursor, faults>>
Complete(c) ==
    /\ call[c].step = "checked"
    /\ \/ wf' = "terminal" /\ reason' = call[c].k /\ Made(c)
       \/ /\ wf = "open" /\ UNCHANGED <<wf, reason, made>>
          /\ \E s \in {"refused", "unknown"} : At(c, s)
    /\ UNCHANGED <<kind, active, turn, eff, child, acked, cursor, faults>>

(* What the tool reports of a call: it may not know that it succeeded, and   *)
(* of a delegation it may only know that it goes on.                         *)
Seen(k) == {"completed"}
           \cup (IF kind[k] \in {"message", "delegation"} THEN {"indeterminate"} ELSE {})
           \cup (IF kind[k] = "delegation" THEN {"wait"} ELSE {})
Outcomes(c) == CASE call[c].step = "made"    -> Seen(call[c].k)
                 [] call[c].step = "refused" -> {"not_admitted"}
                 [] call[c].step = "unknown" -> {"indeterminate"}
                 [] OTHER -> {}

(* finish_workflow_effect.                                                   *)
Finish(c) ==
    LET t == call[c].t  k == call[c].k IN
    /\ \E o \in Outcomes(c) :
         eff' = IF eff[t][k].state = "claimed" /\ eff[t][k].holder = c
                THEN [eff EXCEPT ![t][k].state = o, ![t][k].holder = NoCaller] ELSE eff
    /\ call' = [call EXCEPT ![c] = NoCall]
    /\ UNCHANGED <<kind, wf, reason, active, turn, child, acked, made, cursor, faults>>

(* The process of the call dies; its row stays claimed.                      *)
CallerDies(c) ==
    /\ call[c].step # "idle" /\ faults < MaxFaults
    /\ call' = [call EXCEPT ![c] = NoCall] /\ faults' = faults + 1
    /\ UNCHANGED <<kind, wf, reason, active, turn, eff, child, acked, made, cursor>>

-----------------------------------------------------------------------------
(* What became of delegations, and the reconciler.                           *)

(* A child acknowledges its prompt, or its attempt ends before.              *)
ChildActs(t, k) ==
    /\ child[t][k] = "begun"
    /\ \E is \in {"delivered", "failed"} : child' = [child EXCEPT ![t][k] = is]
    /\ UNCHANGED <<kind, wf, reason, active, turn, eff, call, acked, made, cursor, faults>>

Unresolved(t, k) == eff[t][k].state \in {"claimed", "indeterminate"} /\ eff[t][k].res = "none"

(* Direct evidence, for turns that were admitted.  A delegation's attempt    *)
(* names the effect it was registered with.                                  *)
(* Mutant: an attempt for the same key in any turn is evidence.              *)
EvidenceAny(t, k) ==
    IF ~turn[t].receipt THEN "none" ELSE
    CASE kind[k] = "delegation" /\ \E s \in Turns : child[s][k] = "delivered" -> "completed"
      [] kind[k] = "acknowledgement" /\ k \in acked -> "completed"
      [] kind[k] = "completion" /\ wf = "terminal" /\ active = t /\ reason = k -> "completed"
      [] OTHER -> "none"
Evidence(t, k) ==
    IF ~turn[t].receipt THEN "none" ELSE
    CASE kind[k] = "delegation" /\ child[t][k] = "delivered" -> "completed"
      [] kind[k] = "delegation" /\ child[t][k] = "failed" -> "rejected"
      [] kind[k] = "acknowledgement" /\ k \in acked -> "completed"
      [] kind[k] = "completion" /\ wf = "terminal" /\ active = t /\ reason = k -> "completed"
      [] OTHER -> "none"

(* _resumed_effect_descends_from: from d back along links that have their    *)
(* receipts; a is in every set of turns that is closed under them.           *)
Linked(t) == /\ turn[t].parent \in 1..(t - 1) /\ turn[turn[t].parent].receipt
             /\ turn[turn[t].parent].resumedBy = t
Descends(d, a) ==
    \A S \in SUBSET Turns :
       d \in S /\ (\A t \in S : Linked(t) => turn[t].parent \in S) => a \in S

(* Effect ids, which follow the order in which rows are made: by turn and,   *)
(* here, within a turn by key.                                               *)
Id(p) == (p[1] - 1) * Cardinality(Keys) + KeyOrder[p[2]]

(* unresolved_effect_page: the next effects after the cursor, from the       *)
(* beginning when there are none.                                            *)
After(x) == {p \in Turns \X Keys : Unresolved(p[1], p[2]) /\ Id(p) > x}
(* Mutant: the first effects are looked at each time.                        *)
PageFirst == {p \in After(0) : Cardinality({q \in After(0) : Id(q) < Id(p)}) < PageSize}
Page == LET later == After(cursor)
            S == IF later # {} THEN later ELSE After(0)
        IN  {p \in S : Cardinality({q \in S : Id(q) < Id(p)}) < PageSize}

(* reconcile_workflow_effect_resolutions: direct evidence first, then any    *)
(* later effect with the same key that a descendant completed.               *)
Direct(page, t, k) == IF <<t, k>> \in page THEN Evidence(t, k) ELSE eff[t][k].res
Replayed(page, t, k) == \E d \in Turns \ {t} :
    /\ eff[d][k].state = "completed" \/ Direct(page, d, k) = "completed"
    /\ Descends(d, t)
Found(page, t, k) ==
    IF <<t, k>> \in page /\ Direct(page, t, k) = "none" /\ Replayed(page, t, k)
    THEN "completed" ELSE Direct(page, t, k)
ReconcileEffects ==
    /\ UNCHANGED <<kind, wf, reason, active, turn, call, child, acked, made, faults>>
    /\ \E page \in {Page} :
       /\ eff' = [t \in Turns |-> [k \in Keys |-> [eff[t][k] EXCEPT !.res = Found(page, t, k)]]]
       /\ cursor' = IF page = {} THEN 0 ELSE Max({Id(p) : p \in page})

(* retire_indeterminate_workflow_effect, by the operator.                    *)
Retire(t, k) ==
    /\ wf = "gate" /\ active = t
    /\ eff[t][k].state = "indeterminate" /\ eff[t][k].res = "none"
    /\ eff' = [eff EXCEPT ![t][k].res = "unknown_preserved"]
    /\ wf' = "cancelled"
    /\ child' = [s \in Turns |-> [j \in Keys |->
                   IF child[s][j] = "begun" THEN "failed" ELSE child[s][j]]]
    /\ UNCHANGED <<kind, reason, active, turn, call, acked, made, cursor, faults>>

-----------------------------------------------------------------------------
TurnStep == \E t \in Turns :
    \/ Begin(t) \/ Resume(t) \/ AdmitSuccessor(t) \/ Activate(t)
    \/ \E s \in Turns : Reconnect(t, s) \/ Rebuild(s, t)
(* A tool claims its effect, makes it and records what became of it; each    *)
(* part is a transaction of its own, as in handoff.                          *)
CallStep == \E c \in Callers :
    \/ \E k \in Keys : Claim(c, k)
    \/ SendMessage(c) \/ Delegate(c) \/ Acknowledge(c)
    \/ CompleteCheck(c) \/ Complete(c) \/ Finish(c) \/ CallerDies(c)

Next == \/ TurnStep \/ CallStep \/ RuntimeExit \/ Gate \/ ReconcileEffects
        \/ \E t \in Turns, k \in Keys : ChildActs(t, k) \/ Retire(t, k)
(* The daemon reconciles again and again (api/main.py:451).                  *)
Spec == Init /\ [][Next]_vars /\ WF_vars(ReconcileEffects)

-----------------------------------------------------------------------------
(* The promise of a turn: what it may still make.                            *)
Status(t, k) == IF eff[t][k].state \in {"none", "not_admitted"} THEN "free"
                ELSE IF made[t][k] > 0 THEN "made"
                ELSE IF eff[t][k].sealed THEN "sealed" ELSE "entered"

Promise == INSTANCE EffectPromise WITH
               running <- {t \in Turns : Exists(t)},
               promise <- [t \in Turns |-> [k \in Keys |-> Status(t, k)]],
               times   <- made

(* Whatever dies, repeats or overlaps, a turn makes an effect at most once,  *)
(* and never one that an execution it carries on had entered: the steps of   *)
(* claim, finish, mirror and exit are steps of EffectPromise.                *)
OncePerExecution == Promise!PSpec

(* What is recorded as completed, in the row or by a resolution, was made by *)
(* this turn, by one whose ledger it carries on or by one that carries it    *)
(* on; an acknowledgement, which stays whoever made it, by any.              *)
CompletedWasMade ==
    \A t \in Turns, k \in Keys :
      eff[t][k].state = "completed" \/ eff[t][k].res = "completed"
        => \E s \in Turns :
             /\ made[s][k] > 0
             /\ kind[k] = "acknowledgement" \/ s <= t \/ Descends(s, t)

(* The reconciler's cursor, which looks at a few effects at a time, comes    *)
(* back to every effect whose outcome was unknown when it passed: again and  *)
(* again no effect is left without an outcome that there is evidence for.    *)
EvidenceFound ==
    []<>(\A t \in Turns, k \in Keys : Unresolved(t, k) => Evidence(t, k) = "none")
=============================================================================
