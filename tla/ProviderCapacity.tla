--------------------------- MODULE ProviderCapacity ---------------------------
(***************************************************************************)
(* Provider execution slots (provider_execution_leases): which agents may  *)
(* let their model compute at the same time.                               *)
(*                                                                         *)
(* A terminal asks for a slot just before its turn is pasted into the      *)
(* pane; somebody who looks at the pane afterwards and finds it settled    *)
(* gives the slot back; a model that waits in a handoff lends its slot     *)
(* out and takes one again before its tool call returns; the receipt of a  *)
(* turn whose slot was given back too early takes it back, whatever the    *)
(* limit; a terminal that has exited loses its slot.  The queue of turns   *)
(* that wait for a slot is scanned by one loop at a time, and a wake that  *)
(* comes during a scan is dropped.                                         *)
(*                                                                         *)
(* What the turns of one terminal do to each other, and the token of its   *)
(* pane, is the subject of WorkflowTurns; here a terminal has one current  *)
(* turn, replaced by the next when it is done.  Reconnects and takeovers   *)
(* appear as the authority ("continued") that keeps an exited terminal's   *)
(* slot until they end.  What a restart queues again is in WorkflowTurns   *)
(* too.  The resource health probe is left out.  The operators that end in *)
(* Any are faulty variants, with which the properties are tested.          *)
(***************************************************************************)
EXTENDS Naturals, FiniteSets, SequencesExt

CONSTANTS Terminals,
          Legacy,       \* terminals an older release let exit with a slot still held
          Callers,      \* terminals whose model hands work off
          Mortal,       \* bound: terminals whose provider may die
          Turns,        \* bound: how many turns each terminal gets
          MaxLimit,     \* bound: the largest max_provider_executions an operator sets
          MaxTries      \* transport attempts of one turn (3 in the code)

ASSUME CapacityAssumption ==
    /\ IsFiniteSet(Terminals)
    /\ Legacy \subseteq Terminals /\ Callers \subseteq Terminals /\ Mortal \subseteq Terminals
    /\ Turns \in [Terminals -> Nat \ {0}]
    /\ MaxLimit \in Nat \ {0} /\ MaxTries \in Nat \ {0}

VARIABLES limit,      \* capacity_settings.max_provider_executions
          lease,      \* provider_execution_leases: the turn that holds the terminal's slot, or 0
          life, wf,   \* runtime_lifecycle; status of the workflow
          turn,       \* its active turn
          continued,  \* a takeover or reconnect may still continue the runtime
          order,      \* the terminals in the order their turns were queued
          pane,       \* the provider: what it shows, what was pasted, what it computes
          scan,       \* the loop over the queue
          look,       \* one caller of get_terminal
          retire,     \* the loop over exited terminals: the one it has claimed
          claimed     \* terminals with its durable claim

rows == <<lease, life, wf, turn, continued, order, claimed>>
loops == <<scan, look, retire>>
cvars == <<limit, lease, life, wf, turn, continued, order, pane, scan, look, retire, claimed>>

None == "no terminal"
Number == 0 .. (CHOOSE k \in {Turns[t] : t \in Terminals} : \A t \in Terminals : Turns[t] <= k)
Turn == [n : Number, st : {"done", "queued", "claimed", "sent", "cancelled"},
         settled : BOOLEAN,          \* queue_reason = PROVIDER_SETTLED_BEFORE_RECEIPT
         tries : 0 .. MaxTries, receipt : BOOLEAN]
Pane == [shows : {"ready", "busy", "dead"}, pasted : Number, runs : Number,
         lent : BOOLEAN]  \* its model waits in a handoff without a slot
IdleScan == [todo |-> <<>>, at |-> None, step |-> "idle"]
IdleLook == [at |-> None, saw |-> 0, step |-> "idle"]

CTypeOK ==
    /\ limit \in 1..MaxLimit
    /\ lease \in [Terminals -> Number]
    /\ life \in [Terminals -> {"running", "exited"}]
    /\ wf \in [Terminals -> {"open", "gate", "terminal", "cancelled"}]
    /\ turn \in [Terminals -> Turn] /\ pane \in [Terminals -> Pane]
    /\ continued \in [Terminals -> BOOLEAN]
    /\ order \in Seq(Terminals) /\ IsInjective(order)
    /\ scan.todo \in Seq(Terminals) /\ scan.at \in Terminals \cup {None}
    /\ scan.step \in {"idle", "next", "acquire", "paste"}
    /\ look.at \in Terminals \cup {None} /\ look.saw \in Number
    /\ look.step \in {"idle", "probe", "release", "requeue"}
    /\ retire \in Terminals \cup {None} /\ claimed \subseteq Terminals

Start(old) ==
    /\ life = [t \in Terminals |-> IF t \in old THEN "exited" ELSE "running"]
    /\ lease = [t \in Terminals |-> IF t \in old THEN 1 ELSE 0]
    /\ wf = [t \in Terminals |-> "open"]
    /\ turn = [t \in Terminals |->
                 [n |-> IF t \in old THEN 1 ELSE 0, st |-> IF t \in old THEN "sent" ELSE "done",
                  settled |-> FALSE, tries |-> 0, receipt |-> FALSE]]
    /\ continued = [t \in Terminals |-> t \in old]
    /\ pane = [t \in Terminals |-> [shows |-> IF t \in old THEN "dead" ELSE "ready",
                                    pasted |-> 0, runs |-> 0, lent |-> FALSE]]
CInit ==
    /\ limit = 1
    /\ \E old \in SUBSET Legacy : Start(old)
    /\ order = <<>>
    /\ scan = IdleScan /\ look = IdleLook /\ retire = None /\ claimed = {}

----------------------------------------------------------------------------
(* Slots *)

InUse(l) == Cardinality({t \in Terminals : l[t] # 0})
Queued(t) == wf[t] = "open" /\ turn[t].st = "queued"

FullAny == InUse(lease) > limit
Full == InUse(lease) >= limit

\* acquire_provider_execution_decision, one immediate transaction: the reason
\* it answers with, "acquired" when the slot is (or already was) the turn's.
Decision(t, n) ==
    IF life[t] # "running" THEN "TERMINAL_RUNTIME_NOT_WRITABLE"
    ELSE IF lease[t] = n THEN "acquired"
    ELSE IF lease[t] # 0 THEN "PROVIDER_EXECUTION_TERMINAL_BUSY"
    ELSE IF Full THEN "PROVIDER_EXECUTION_CAPACITY_EXHAUSTED"
    ELSE IF wf[t] # "open" \/ turn[t].n # n THEN "WORKFLOW_TURN_NOT_ADMISSIBLE"
    ELSE "acquired"
Acquire(t, n) == lease' = IF Decision(t, n) = "acquired" THEN [lease EXCEPT ![t] = n] ELSE lease

\* release_provider_execution: compare and delete.
ReleasedAny(t, n) == [lease EXCEPT ![t] = 0]
Released(t, n) == IF lease[t] = n THEN [lease EXCEPT ![t] = 0] ELSE lease

\* set_capacity_settings: executions above a lowered limit drain.
SetLimit ==
    /\ limit' \in 1..MaxLimit \ {limit}
    /\ UNCHANGED <<rows, pane, loops>>

----------------------------------------------------------------------------
(* The queue *)

\* One entry per resident.
Without(t) == SelectSeq(order, LAMBDA u : u # t)

\* The next turn of the terminal, an input or a continuation of its workflow.
NewTurn(t) ==
    /\ wf[t] = "open" /\ life[t] = "running" /\ turn[t].st = "done" /\ turn[t].n < Turns[t]
    /\ turn' = [turn EXCEPT ![t] = [n |-> turn[t].n + 1, st |-> "queued", settled |-> FALSE,
                                    tries |-> 0, receipt |-> FALSE]]
    /\ order' = Append(Without(t), t)
    /\ UNCHANGED <<limit, lease, life, wf, continued, claimed, pane, loops>>

\* get_provider_execution_admission_queue: oldest first, one per terminal.
Queue == SelectSeq(order, Queued)

\* reconcile_provider_execution_queue: a tick of the daemon, or the wake after a
\* release, unless a scan is under way.
Wake ==
    /\ scan.step = "idle" /\ Queue # <<>>
    /\ scan' = [todo |-> Queue, at |-> None, step |-> "next"]
    /\ UNCHANGED <<limit, rows, pane, look, retire>>

\* The scan after one candidate was tried, sent or not: on with the others.
PassedAny(rest) == IdleScan
Passed(rest) == [todo |-> rest, at |-> None, step |-> IF rest = <<>> THEN "idle" ELSE "next"]

\* The scan takes the head; it claims the turn if the pane accepts input, else
\* the turn stays queued.
Take ==
    /\ scan.step = "next"
    /\ LET t == Head(scan.todo)
           rest == Tail(scan.todo)
       IN \/ /\ Queued(t) /\ pane[t].shows = "ready" /\ life[t] = "running"
             /\ turn' = [turn EXCEPT ![t].st = "claimed", ![t].tries = @ + 1]
             /\ scan' = [todo |-> rest, at |-> t, step |-> "acquire"]
          \/ /\ ~(Queued(t) /\ pane[t].shows = "ready" /\ life[t] = "running")
             /\ scan' = Passed(rest)
             /\ UNCHANGED turn
    /\ UNCHANGED <<limit, lease, life, wf, continued, order, claimed, pane, look, retire>>

\* send_input asks for the slot; a refused turn goes back to the queue, and the
\* attempt is not counted.
AskSlot ==
    /\ scan.step = "acquire"
    /\ LET t == scan.at
           ok == Decision(t, turn[t].n) = "acquired"
       IN /\ Acquire(t, turn[t].n)
          /\ turn' = IF ok \/ turn[t].st # "claimed" THEN turn
                     ELSE [turn EXCEPT ![t].st = "queued", ![t].tries = @ - 1]
          /\ scan' = IF ok THEN [scan EXCEPT !.step = "paste"] ELSE Passed(scan.todo)
    /\ UNCHANGED <<limit, life, wf, continued, order, claimed, pane, look, retire>>

\* A closed workflow's turn: what is known of its transport is not read again.
Closed(t) == [turn EXCEPT ![t] = [@ EXCEPT !.st = "cancelled", !.settled = FALSE, !.tries = 0,
                                           !.receipt = FALSE]]
\* _cancel_protected_workflows_in_transaction
Cancel(t) ==
    /\ wf' = [wf EXCEPT ![t] = IF @ = "terminal" THEN @ ELSE "cancelled"]
    /\ turn' = Closed(t)
    /\ lease' = [lease EXCEPT ![t] = 0]

\* A turn that was not transported: queued again, or the end of its attempts.
Exhausted(t) == turn[t].tries >= MaxTries
Requeued(t, why) == IF Exhausted(t) THEN Closed(t)
                    ELSE [turn EXCEPT ![t].st = "queued", ![t].settled = why \/ @]
Gated(t) == IF Exhausted(t) THEN [wf EXCEPT ![t] = "gate"] ELSE wf

\* The paste, inside workflow_turn_transport_fence; without the claim, or when
\* tmux fails, the slot of the unreceipted turn is released.
PasteTurn ==
    /\ scan.step = "paste" /\ scan' = Passed(scan.todo)
    /\ LET t == scan.at
           mine == turn[t].st = "claimed" /\ wf[t] = "open"
       IN \/ /\ mine /\ pane[t].shows # "dead"
             /\ pane' = [pane EXCEPT ![t].pasted = turn[t].n]
             /\ turn' = [turn EXCEPT ![t].st = "sent"]
             /\ UNCHANGED <<lease, wf>>
          \/ /\ lease' = IF turn[t].receipt THEN lease ELSE Released(t, turn[t].n)
             /\ IF mine THEN turn' = Requeued(t, FALSE) /\ wf' = Gated(t)
                        ELSE UNCHANGED <<turn, wf>>
             /\ UNCHANGED pane
    /\ UNCHANGED <<limit, life, continued, order, claimed, look, retire>>

----------------------------------------------------------------------------
(* The provider *)

\* The pane shows Ready until the model has begun.
Begin(t) ==
    /\ pane[t].shows = "ready" /\ pane[t].pasted # 0
    /\ pane' = [pane EXCEPT ![t] = [shows |-> "busy", pasted |-> 0, runs |-> pane[t].pasted,
                                    lent |-> FALSE]]
    /\ UNCHANGED <<limit, rows, loops>>

Computes(t) == pane[t].shows = "busy" /\ ~pane[t].lent
Runs(t) == Computes(t) /\ pane[t].runs = turn[t].n

\* _bind_receipted_provider_execution: the receipt of a turn requeued although
\* its execution had begun takes the slot back.
Restores(t) == turn[t].st \in {"queued", "claimed"} /\ turn[t].settled
Receipt(t) ==
    /\ Runs(t) /\ ~turn[t].receipt /\ wf[t] = "open" /\ life[t] = "running"
    /\ turn[t].st \in {"claimed", "sent"} \/ Restores(t)
    /\ lease[t] \in {0, turn[t].n}
    /\ lease' = IF Restores(t) THEN [lease EXCEPT ![t] = turn[t].n] ELSE lease
    /\ turn' = [turn EXCEPT ![t] = [@ EXCEPT !.st = "sent", !.receipt = TRUE,
                                            !.settled = FALSE, !.tries = 0]]
    /\ order' = Without(t)
    /\ UNCHANGED <<limit, life, wf, continued, claimed, pane, loops>>

\* complete_workflow (or a gate): the slot stays until the provider has settled.
Complete(t) ==
    /\ Runs(t) /\ turn[t].receipt /\ wf[t] = "open"
    /\ wf' = [wf EXCEPT ![t] = "terminal"]
    /\ turn' = Closed(t)
    /\ UNCHANGED <<limit, lease, life, continued, order, claimed, pane, loops>>

\* The model ends its turn.
Finish(t) ==
    /\ Computes(t)
    /\ pane' = [pane EXCEPT ![t].shows = "ready", ![t].runs = 0]
    /\ turn' = IF pane[t].runs = turn[t].n /\ turn[t].receipt /\ turn[t].st = "sent"
               THEN [turn EXCEPT ![t].st = "done"] ELSE turn
    /\ UNCHANGED <<limit, lease, life, wf, continued, order, claimed, loops>>

Die(t) ==
    /\ t \in Mortal /\ pane[t].shows # "dead"
    /\ pane' = [pane EXCEPT ![t] = [shows |-> "dead", pasted |-> 0, runs |-> 0, lent |-> FALSE]]
    /\ UNCHANGED <<limit, rows, loops>>

\* A handoff lends the slot out while it waits (_suspend_provider_execution); a
\* model without one only waits ...
Lend(t) ==
    /\ t \in Callers /\ Runs(t) /\ turn[t].receipt /\ wf[t] = "open" /\ lease[t] = turn[t].n
    /\ lease' = Released(t, turn[t].n)
    /\ pane' = [pane EXCEPT ![t].lent = TRUE]
    /\ UNCHANGED <<limit, life, wf, turn, continued, order, claimed, loops>>

\* ... and the call returns, when its wait has ended, once it has a slot again
\* or has no right to one (_resume_provider_execution polls; any other refusal
\* is the tool's error).
Hopeless(t) ==
    \/ wf[t] # "open" \/ life[t] # "running"
    \/ Decision(t, turn[t].n) \notin {"acquired", "PROVIDER_EXECUTION_CAPACITY_EXHAUSTED"}
Resume(t) ==
    /\ pane[t].lent /\ pane' = [pane EXCEPT ![t].lent = FALSE]
    /\ \/ Hopeless(t) /\ UNCHANGED lease
       \/ ~Hopeless(t) /\ Decision(t, turn[t].n) = "acquired" /\ Acquire(t, turn[t].n)
    /\ UNCHANGED <<limit, life, wf, turn, continued, order, claimed, loops>>

----------------------------------------------------------------------------
(* Looking at the pane: get_terminal *)

\* It reads the lease first ...
Look(t) ==
    /\ look.step = "idle" /\ lease[t] # 0
    /\ look' = [at |-> t, saw |-> lease[t], step |-> "probe"]
    /\ UNCHANGED <<limit, rows, pane, scan, retire>>

\* ... then the pane; a dead runtime is recorded as exited, with its workflow
\* and its slot (mark_terminal_runtime_exited_with_workflow_ids).
PaneSettled(t) == pane[t].shows # "busy" \/ life[t] # "running"
Probe ==
    /\ look.step = "probe"
    /\ LET t == look.at
           died == pane[t].shows = "dead" /\ life[t] = "running"
       IN /\ look' = IF PaneSettled(t) THEN [look EXCEPT !.step = "release"] ELSE IdleLook
          /\ IF died
             THEN life' = [life EXCEPT ![t] = "exited"] /\ Cancel(t)
             ELSE UNCHANGED <<life, wf, turn, lease>>
    /\ UNCHANGED <<limit, continued, order, claimed, pane, scan, retire>>

\* ... and gives the slot it read back ...
GiveBack ==
    /\ look.step = "release"
    /\ lease' = Released(look.at, look.saw)
    /\ look' = IF lease' # lease THEN [look EXCEPT !.step = "requeue"] ELSE IdleLook
    /\ UNCHANGED <<limit, life, wf, turn, continued, order, claimed, pane, scan, retire>>

\* ... after which its unreceipted turn is queued again
\* (requeue_settled_unadmitted_workflow_turn).
PutBack ==
    /\ look.step = "requeue" /\ look' = IdleLook
    /\ LET t == look.at
       IN IF /\ wf[t] = "open" /\ turn[t].n = look.saw /\ turn[t].st \in {"claimed", "sent"}
             /\ lease[t] = 0 /\ ~turn[t].receipt
          THEN turn' = Requeued(t, TRUE) /\ wf' = Gated(t)
          ELSE UNCHANGED <<turn, wf>>
    /\ UNCHANGED <<limit, lease, life, continued, order, claimed, pane, scan, retire>>

----------------------------------------------------------------------------
(* Exited terminals *)

\* Something is left to settle, and nobody may continue the runtime.
Leftover(t) == lease[t] # 0 \/ wf[t] \in {"open", "gate"}
Continuable(t) == continued[t]
Targets(t) == life[t] = "exited" /\ Leftover(t) /\ ~Continuable(t)

\* The durable claim, which outlives its claimant and is then taken over.
ClaimExited(t) ==
    /\ retire = None /\ Targets(t)
    /\ retire' = t /\ claimed' = claimed \cup {t}
    /\ UNCHANGED <<limit, lease, life, wf, turn, continued, order, pane, scan, look>>

\* Once the pane is proved dead everything is settled at once, if it still may be.
ProvedDead(t) == pane[t].shows = "dead"
SettleExited ==
    /\ retire # None /\ retire' = None /\ claimed' = claimed \ {retire}
    /\ IF ProvedDead(retire) /\ Targets(retire)
       THEN Cancel(retire)
       ELSE UNCHANGED <<lease, wf, turn>>
    /\ UNCHANGED <<limit, life, continued, order, pane, scan, look>>

\* The takeover or reconnect that kept the runtime is over.
ContinuationEnds(t) ==
    /\ continued[t] /\ continued' = [continued EXCEPT ![t] = FALSE]
    /\ UNCHANGED <<limit, lease, life, wf, turn, order, claimed, pane, loops>>

----------------------------------------------------------------------------
CNext ==
    \/ SetLimit \/ Wake \/ Take \/ AskSlot \/ PasteTurn
    \/ Probe \/ GiveBack \/ PutBack \/ SettleExited
    \/ \E t \in Terminals :
          \/ NewTurn(t) \/ Begin(t) \/ Receipt(t) \/ Complete(t) \/ Finish(t) \/ Die(t)
          \/ Lend(t) \/ Resume(t) \/ Look(t) \/ ClaimExited(t)
          \/ ContinuationEnds(t)

ScanStep == Take \/ AskSlot \/ PasteTurn
LookStep == Probe \/ GiveBack \/ PutBack

\* The loops go on once begun; the daemon ticks, looks at every terminal that
\* holds a slot, in turn, and settles exited ones; takeovers end.  No model has to finish, and
\* nothing has to hand off.
CFairness ==
    /\ WF_cvars(Wake) /\ WF_cvars(ScanStep) /\ WF_cvars(LookStep) /\ WF_cvars(SettleExited)
    /\ WF_cvars(\E t \in Legacy : ClaimExited(t) \/ ContinuationEnds(t))
    /\ \A t \in Terminals : SF_cvars(Look(t))

CSpec == CInit /\ [][CNext]_cvars /\ CFairness

----------------------------------------------------------------------------
(* Properties *)

\* The slots in use grow beyond the limit only by the receipt of an execution
\* that had begun before its slot was given back; neither a lowered limit nor
\* two askers get past it.
WithinLimit ==
    [][InUse(lease') > InUse(lease) =>
         \/ InUse(lease') <= limit
         \/ \E t \in Terminals : ~turn[t].receipt /\ turn'[t].receipt /\ turn[t].settled]_cvars

\* A caller that looked at a pane never frees the slot of a turn that was
\* queued after its look, however late it acts.
SuccessorKept ==
    [][\A t \in Terminals : look.step = "release" /\ look'.step # "release" /\ lease[t] # lease'[t]
         => t = look.at /\ lease[t] = look.saw]_cvars

\* A slot that nothing executes under comes free: the pane is not busy, or the
\* terminal is gone, and still the slot is given back.
SlotsComeFree ==
    \A t \in Terminals : []<>(lease[t] = 0 \/ pane[t].shows = "busy")

\* No wake-up is lost for good: a turn does not wait for ever while slots are
\* free, its terminal is at its prompt and others only occupy theirs.
NoneForgotten ==
    \A t \in Terminals :
      []<>(~(Queued(t) /\ life[t] = "running" /\ pane[t].shows = "ready") \/ InUse(lease) >= limit)

\* docs/RESOURCE_MODEL.md: a slot is used while a model actively produces a turn.
ExecutionsHoldSlots ==
    \A t \in Terminals : Runs(t) /\ turn[t].receipt /\ wf[t] = "open" => lease[t] # 0
=============================================================================
