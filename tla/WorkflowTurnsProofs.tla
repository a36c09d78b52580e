------------------------ MODULE WorkflowTurnsProofs ------------------------
(***************************************************************************)
(* The workflow-turn engine for any numbers of threads, turns, workflows,  *)
(* claims and faults.                                                      *)
(***************************************************************************)
EXTENDS WorkflowTurns, FiniteSetTheorems, WellFoundedInduction, TLAPS

-----------------------------------------------------------------------------
(* The oldest of a set of turns belongs to it and is below the others.      *)
LEMMA MinOfTurns ==
  ASSUME NEW S \in SUBSET Turns, S # {}
  PROVE  Min(S) \in S /\ \A u \in S : Min(S) <= u
<1>1. MaxTurns \in Nat
  BY BoundAssumption
<1>2. S \subseteq Nat
  BY <1>1 DEF Turns
<1>3. PICK x \in S : \A y \in S : ~(<<y, x>> \in OpToRel(<, Nat))
  BY <1>2, NatLessThanWellFounded, WFMin
<1>4. \A y \in S : x <= y
  <2> TAKE y \in S
  <2>1. x \in Nat /\ y \in Nat
    BY <1>2
  <2>2. ~(y < x)
    BY <1>3, <2>1 DEF OpToRel
  <2> QED BY <2>1, <2>2
<1> QED BY <1>4 DEF Min

(* The least turn of a set, or 0 when the set is empty.                     *)
LEMMA LeastOfTurns ==
  ASSUME NEW S \in SUBSET Turns
  PROVE  /\ Least(S) \in 0..MaxTurns
         /\ Least(S) # 0 => Least(S) \in S
         /\ Least(S) = 0 <=> S = {}
<1>1. MaxTurns \in Nat
  BY BoundAssumption
<1>2. CASE S = {}
  BY <1>1, <1>2 DEF Least
<1>3. CASE S # {}
  <2>1. Min(S) \in S
    BY <1>3, MinOfTurns
  <2>2. Least(S) = Min(S)
    BY <1>3 DEF Least
  <2>3. Least(S) \in S /\ Least(S) \in 1..MaxTurns
    BY <2>1, <2>2 DEF Turns
  <2> QED BY <1>1, <1>3, <2>3
<1> QED BY <1>2, <1>3

-----------------------------------------------------------------------------
(* Rows of the two tables, one by one: every field has its type, the claim  *)
(* token is cleared with the claim, and the circuit breaker bounds the      *)
(* continuations of an open workflow.                                       *)
RowOK(r) == r \in TurnRow /\ (r.claim = "none" <=> r.state # "claimed")
Rows(f) == f \in [Turns -> TurnRow] /\ \A t \in Turns : RowOK(f[t])
WfRowOK(r) == r \in WorkflowRow /\ (r.status = "open" => r.noProgress <= MaxNoProgress)
WfRows(g) == g \in [Workflows -> WorkflowRow] /\ \A w \in Workflows : WfRowOK(g[w])

(* A table stays well formed if every row is kept or replaced by a good one. *)
LEMMA RowsUpdate ==
  ASSUME NEW f, Rows(f), NEW g, g = [t \in Turns |-> g[t]],
         \A t \in Turns : g[t] = f[t] \/ RowOK(g[t])
  PROVE  Rows(g)
<1>1. \A t \in Turns : RowOK(g[t])
  BY DEF Rows
<1>2. \A t \in Turns : g[t] \in TurnRow
  BY <1>1 DEF RowOK
<1> QED BY <1>1, <1>2 DEF Rows

(* One row of the table of turns is replaced by a good one.                 *)
LEMMA RowSet ==
  ASSUME NEW f, Rows(f), NEW t, NEW r, t \in Turns => RowOK(r)
  PROVE  Rows([f EXCEPT ![t] = r])
<1> DEFINE g == [f EXCEPT ![t] = r]
<1>1. g = [u \in Turns |-> g[u]]
  BY DEF Rows
<1>2. \A u \in Turns : g[u] = f[u] \/ RowOK(g[u])
  BY DEF Rows
<1> QED BY <1>1, <1>2, RowsUpdate

(* One row of the table of workflows is replaced by a good one.             *)
LEMMA WfRowSet ==
  ASSUME NEW g, WfRows(g), NEW w, NEW r, w \in Workflows => WfRowOK(r)
  PROVE  WfRows([g EXCEPT ![w] = r])
<1> DEFINE h == [g EXCEPT ![w] = r]
<1>1. h = [u \in Workflows |-> h[u]]
  BY DEF WfRows
<1>2. \A u \in Workflows : WfRowOK(h[u])
  BY DEF WfRows
<1>3. \A u \in Workflows : h[u] \in WorkflowRow
  BY <1>2 DEF WfRowOK
<1> QED BY <1>1, <1>2, <1>3 DEF WfRows

(* The edits of a row that the dispatcher and the senders make.             *)
LEMMA RetainedRow ==
  ASSUME NEW r, RowOK(r)
  PROVE  RowOK([r EXCEPT !.state = "queued", !.reason = "none",
                         !.claim = "none", !.cursor = "none"])
BY DEF RowOK, TurnRow, TurnStates

(* The turn goes back to the queue because the pane settled too early.      *)
LEMMA SettledRow ==
  ASSUME NEW r, RowOK(r)
  PROVE  RowOK([r EXCEPT !.state = "queued", !.claim = "none", !.reason = "settled",
                         !.cursor = "none", !.due = "now"])
BY DEF RowOK, TurnRow, TurnStates

(* A claim takes a token and counts an attempt below the bound.             *)
LEMMA ClaimedRow ==
  ASSUME NEW r, RowOK(r), r.attempts < MaxClaims
  PROVE  RowOK([r EXCEPT !.state = "claimed", !.claim = "live", !.attempts = @ + 1])
<1>1. r.attempts + 1 \in 0..MaxClaims
  BY BoundAssumption DEF RowOK, TurnRow
<1>2. [r EXCEPT !.state = "claimed", !.claim = "live", !.attempts = @ + 1]
        = [r EXCEPT !.state = "claimed", !.claim = "live", !.attempts = r.attempts + 1]
  BY DEF RowOK, TurnRow
<1> DEFINE n == r.attempts + 1
<1> HIDE DEF n
<1>3. RowOK([r EXCEPT !.state = "claimed", !.claim = "live", !.attempts = n])
  BY <1>1 DEF RowOK, TurnRow, TurnStates, n
<1> QED BY <1>2, <1>3 DEF n

(* A turn that is cancelled, sent or put back loses its claim.              *)
LEMMA UnclaimedRow ==
  ASSUME NEW r, RowOK(r)
  PROVE  /\ RowOK([r EXCEPT !.state = "cancelled", !.claim = "none"])
         /\ RowOK([r EXCEPT !.state = "cancelled", !.claim = "none", !.reason = "none"])
         /\ RowOK([r EXCEPT !.state = "sent", !.reason = "none", !.claim = "none"])
         /\ RowOK([r EXCEPT !.state = "queued", !.claim = "none", !.cursor = "none"])
<1>1. RowOK([r EXCEPT !.state = "cancelled", !.claim = "none"])
  BY DEF RowOK, TurnRow, TurnStates
<1>2. RowOK([r EXCEPT !.state = "cancelled", !.claim = "none", !.reason = "none"])
  BY DEF RowOK, TurnRow, TurnStates
<1>3. RowOK([r EXCEPT !.state = "sent", !.reason = "none", !.claim = "none"])
  BY DEF RowOK, TurnRow, TurnStates
<1>4. RowOK([r EXCEPT !.state = "queued", !.claim = "none", !.cursor = "none"])
  BY DEF RowOK, TurnRow, TurnStates
<1> QED BY <1>1, <1>2, <1>3, <1>4

(* A receipt, with or without the repair of an early requeue.               *)
LEMMA AdmittedRow ==
  ASSUME NEW r, RowOK(r)
  PROVE  /\ RowOK([r EXCEPT !.receipt = "consumed"])
         /\ RowOK([r EXCEPT !.receipt = "consumed", !.state = "sent",
                            !.reason = "none", !.claim = "none"])
<1>1. RowOK([r EXCEPT !.receipt = "consumed"])
  BY DEF RowOK, TurnRow
<1>2. RowOK([r EXCEPT !.receipt = "consumed", !.state = "sent",
                      !.reason = "none", !.claim = "none"])
  BY DEF RowOK, TurnRow, TurnStates
<1> QED BY <1>1, <1>2

(* A resumed execution ends the turn it moved from.                         *)
LEMMA FinishedRow ==
  ASSUME NEW r, RowOK(r), r.state = "sent"
  PROVE  RowOK([r EXCEPT !.state = "finished", !.receipt = "resumed"])
BY DEF RowOK, TurnRow, TurnStates

(* A promoted turn is due at once, a carried one also changes its workflow. *)
LEMMA PromotedRow ==
  ASSUME NEW r, RowOK(r)
  PROVE  RowOK([r EXCEPT !.reason = "none", !.due = "now"])
BY DEF RowOK, TurnRow

(* A carried input also changes its workflow.                               *)
LEMMA CarriedRow ==
  ASSUME NEW r, RowOK(r), NEW w \in 0..MaxWorkflows
  PROVE  RowOK([r EXCEPT !.wf = w, !.reason = "none", !.due = "now"])
BY DEF RowOK, TurnRow

(* Cancelling any set of turns leaves good rows.                            *)
LEMMA CancelRows ==
  ASSUME Rows(turn), NEW S
  PROVE  Rows(Cancel(S))
<1>1. Cancel(S) = [t \in Turns |-> Cancel(S)[t]]
  BY DEF Cancel
<1>2. ASSUME NEW t \in Turns, t \in S
      PROVE  RowOK(Cancel(S)[t])
  <2>1. RowOK([turn[t] EXCEPT !.state = "cancelled", !.claim = "none"])
    BY UnclaimedRow DEF Rows
  <2> QED BY <1>2, <2>1 DEF Cancel
<1>3. \A t \in Turns : t \notin S => Cancel(S)[t] = turn[t]
  BY DEF Cancel
<1> QED BY <1>1, <1>2, <1>3, RowsUpdate

(* A fresh row of any kind that is not born claimed is good.                *)
LEMMA NewTurnRow ==
  ASSUME NEW w \in 0..MaxWorkflows, NEW k \in TurnKinds, NEW p \in 0..MaxTurns,
         NEW s \in TurnStates \ {"claimed"}, NEW r \in {"none", "consumed", "resumed"}
  PROVE  RowOK(NewTurn(w, k, p, s, r))
BY BoundAssumption DEF NewTurn, TurnRow, RowOK

(* A fresh open workflow has not used its breaker.                          *)
LEMMA OpenRowType ==
  ASSUME NEW a \in 0..MaxTurns
  PROVE  WfRowOK(OpenRow(a))
BY BoundAssumption DEF OpenRow, WorkflowRow, WorkflowStatus, GateReasons, WfRowOK

(* New input resets the breaker and may bind its own turn.                  *)
LEMMA InputWorkflowRow ==
  ASSUME NEW r, WfRowOK(r), NEW a \in 0..MaxTurns
  PROVE  WfRowOK([r EXCEPT !.noProgress = 0, !.active = a])
<1> DEFINE q == [r EXCEPT !.noProgress = 0, !.active = a]
<1>1. 0 \in 0..MaxNoProgress + 1 /\ 0 <= MaxNoProgress
  BY BoundAssumption
<1>2. r \in WorkflowRow
  BY DEF WfRowOK
<1>3. q.noProgress = 0
  BY <1>2 DEF WorkflowRow
<1>4. q \in WorkflowRow
  BY <1>1, <1>2 DEF WorkflowRow
<1>5. WfRowOK(q)
  <2> HIDE DEF q
  <2> QED BY <1>1, <1>3, <1>4 DEF WfRowOK
<1> QED BY <1>5

(* A turn without a claim that ends in an outcome.                          *)
LEMMA OutcomeRow ==
  ASSUME NEW r, RowOK(r), r.claim = "none"
  PROVE  RowOK([r EXCEPT !.state = "finished", !.cursor = "outcome"])
BY DEF RowOK, TurnRow, TurnStates

(* The owner inputs waiting behind a turn are rows of the table.            *)
LEMMA QueuedInputsAreTurns ==
  ASSUME NEW w, NEW t
  PROVE  QueuedInputsAfter(w, t) \subseteq Turns
BY DEF QueuedInputsAfter, WithState, InWorkflow

(* The input a gated workflow would promote is a row, or there is none.     *)
LEMMA GatedSuccessorType ==
  ASSUME NEW w
  PROVE  GatedSuccessor(w) \in 0..MaxTurns
<1>1. QueuedInputsAfter(w, wf[w].active) \in SUBSET Turns
  BY QueuedInputsAreTurns
<1>2. Least(QueuedInputsAfter(w, wf[w].active)) \in 0..MaxTurns
  BY <1>1, LeastOfTurns
<1> QED BY <1>2, BoundAssumption DEF GatedSuccessor

-----------------------------------------------------------------------------
(* The inductive invariant.  Beyond TypeOK: a thread under way has a turn   *)
(* (an absent turn could not be pasted), the breaker bounds the counter of  *)
(* an open workflow, and only the newest workflow is open.                  *)
TurnTable == nt \in 0..MaxTurns /\ Rows(turn)
WfTable   == nw \in 0..MaxWorkflows /\ WfRows(wf)
Resources == /\ lease \in 0..MaxTurns
             /\ op \in OpOwners \cup {NoOne, Orphan} /\ opLive \in {"live", "expired"}
             /\ pasted \in SUBSET Turns
             /\ up \in {"up", "down"} /\ faults \in 0..MaxFaults
             /\ closing \in [status : {"none", "terminal", "owner_gate"}, by : 0..MaxTurns]
Threads ==
    /\ dpc \in DispatcherSteps /\ dturn \in 0..MaxTurns
    /\ spc \in [Senders -> SenderSteps] /\ sturn \in [Senders -> 0..MaxTurns]
    /\ opc \in [Observers -> {"idle", "look", "released"}]
    /\ seen \in [Pollers -> 0..MaxTurns]
Ticks == {"picked", "claimed", "renewed", "active", "slot", "bind", "paste", "failed",
          "unlock", "pasted", "mark", "deferred", "requeue"}
Locals == /\ dpc \in Ticks => dturn # 0
          /\ \A s \in Senders : spc[s] # "idle" => sturn[s] # 0
TypeInv == TurnTable /\ WfTable /\ Resources /\ Threads /\ Locals

(* The parts together are stronger than the type invariant of the model.    *)
LEMMA TypeInvTypeOK == TypeInv => TypeOK
BY DEF TypeInv, TurnTable, WfTable, Resources, Threads, TypeOK, Rows, RowOK, WfRows

(* The empty database and the idle threads satisfy it.                      *)
LEMMA InitTypeInv == Init => TypeInv
<1> SUFFICES ASSUME Init PROVE TypeInv
  OBVIOUS
<1>1. RowOK(NoTurn)
  BY BoundAssumption DEF RowOK, NoTurn, TurnRow, TurnKinds, TurnStates
<1>2. WfRowOK(NoWorkflow)
  BY BoundAssumption DEF WfRowOK, NoWorkflow, WorkflowRow, WorkflowStatus, GateReasons
<1>3. TurnTable
  BY <1>1, BoundAssumption DEF Init, TurnTable, Rows, RowOK
<1>4. WfTable
  BY <1>2, BoundAssumption DEF Init, WfTable, WfRows, WfRowOK
<1>5. Resources
  BY BoundAssumption DEF Init, Resources, NotClosing
<1>6. Threads
  BY BoundAssumption DEF Init, Threads, DispatcherSteps, SenderSteps
<1>7. Locals
  BY DEF Init, Locals, Ticks
<1> QED BY <1>3, <1>4, <1>5, <1>6, <1>7 DEF TypeInv

-----------------------------------------------------------------------------
(* What the actions write into the table of turns.                          *)

(* Changing the fields other than state and claim, keeping their types.     *)
LEMMA BindCursorRows ==
  ASSUME TypeInv, NEW t, NEW bound, BindCursor(t, bound)
  PROVE  Rows(turn)'
<1>0. Rows(turn)
  BY DEF TypeInv, TurnTable
<1> DEFINE r == [turn[t] EXCEPT !.cursor = "bound"]
<1>1. t \in Turns => RowOK(r)
  BY <1>0 DEF Rows, RowOK, TurnRow
<1>2. turn' = [turn EXCEPT ![t] = r] \/ turn' = turn
  BY DEF BindCursor
<1> HIDE DEF r
<1>3. Rows([turn EXCEPT ![t] = r])
  BY <1>0, <1>1, RowSet
<1> QED BY <1>0, <1>2, <1>3

(* A settled, unadmitted turn is requeued, or cancelled at the gate.        *)
LEMMA RequeueSettledRows ==
  ASSUME TypeInv, NEW t, RequeueSettled(t)
  PROVE  TurnTable' /\ WfTable'
<1>0. Rows(turn) /\ WfRows(wf)
  BY DEF TypeInv, TurnTable, WfTable
<1>1. CASE ~Requeueable(t)
  BY <1>1 DEF RequeueSettled, turnVars, wfVars, TypeInv, TurnTable, WfTable
<1>2. CASE Requeueable(t) /\ turn[t].attempts >= MaxAttempts
  <2> DEFINE r == [turn[t] EXCEPT !.state = "cancelled", !.claim = "none", !.reason = "none"]
             g == [wf[nw] EXCEPT !.status = "owner_gate", !.gate = "transport"]
  <2>1. t \in Turns => RowOK(r)
    BY <1>0, UnclaimedRow DEF Rows
  <2>2. nw \in Workflows => WfRowOK(g)
    BY <1>0 DEF WfRows, WfRowOK, WorkflowRow, WorkflowStatus, GateReasons
  <2>3. turn' = [turn EXCEPT ![t] = r] /\ wf' = [wf EXCEPT ![nw] = g] /\ nt' = nt /\ nw' = nw
    BY <1>2 DEF RequeueSettled, Requeued
  <2> HIDE DEF r, g
  <2>4. Rows(turn') /\ WfRows(wf')
    BY <1>0, <2>1, <2>2, <2>3, RowSet, WfRowSet
  <2> QED BY <2>3, <2>4 DEF TypeInv, TurnTable, WfTable
<1>3. CASE Requeueable(t) /\ ~(turn[t].attempts >= MaxAttempts)
  <2> DEFINE r == [turn[t] EXCEPT !.state = "queued", !.claim = "none", !.reason = "settled",
                                  !.cursor = "none", !.due = "now"]
  <2>1. t \in Turns => RowOK(r)
    BY <1>0, SettledRow DEF Rows
  <2>2. turn' = [turn EXCEPT ![t] = r] /\ wf' = wf /\ nt' = nt /\ nw' = nw
    BY <1>3 DEF RequeueSettled, Requeued
  <2> HIDE DEF r
  <2>3. Rows(turn')
    BY <1>0, <2>1, <2>2, RowSet
  <2> QED BY <2>2, <2>3 DEF TypeInv, TurnTable, WfTable
<1> QED BY <1>1, <1>2, <1>3

(* A sender that could not paste keeps its turn in the queue.               *)
LEMMA RetainRows ==
  ASSUME TypeInv, NEW s \in Senders, SenderRetain(s)
  PROVE  TurnTable'
<1>0. Rows(turn)
  BY DEF TypeInv, TurnTable
<1> DEFINE t == sturn[s]
           r == [turn[t] EXCEPT !.state = "queued", !.reason = "none",
                                !.claim = "none", !.cursor = "none"]
<1>1. t \in Turns => RowOK(r)
  BY <1>0, RetainedRow DEF Rows
<1>2. nt' = nt /\ (turn' = [turn EXCEPT ![t] = r] \/ turn' = turn)
  BY DEF SenderRetain
<1> HIDE DEF r
<1>3. Rows(turn')
  BY <1>0, <1>1, <1>2, RowSet
<1> QED BY <1>2, <1>3 DEF TypeInv, TurnTable

(* The dispatcher claims the turn it picked.                                *)
LEMMA ClaimRows ==
  ASSUME TypeInv, ClaimTurn
  PROVE  TurnTable'
<1>0. Rows(turn)
  BY DEF TypeInv, TurnTable
<1> DEFINE r == [turn[dturn] EXCEPT !.state = "claimed", !.claim = "live",
                                    !.attempts = @ + 1]
<1>1. CASE turn[dturn].state = "queued"
  <2>1. turn[dturn].attempts < MaxClaims
    BY <1>1 DEF ClaimTurn
  <2>2. dturn \in Turns => RowOK(r)
    BY <1>0, <2>1, ClaimedRow DEF Rows
  <2>3. nt' = nt /\ turn' = [turn EXCEPT ![dturn] = r]
    BY <1>1 DEF ClaimTurn
  <2> HIDE DEF r
  <2>4. Rows(turn')
    BY <1>0, <2>2, <2>3, RowSet
  <2> QED BY <2>3, <2>4 DEF TypeInv, TurnTable
<1>2. CASE turn[dturn].state # "queued"
  BY <1>2 DEF ClaimTurn, TypeInv, TurnTable
<1> QED BY <1>1, <1>2

(* The dispatcher marks its pasted turn as sent.                            *)
LEMMA MarkSentRows ==
  ASSUME TypeInv, MarkSent
  PROVE  TurnTable'
<1>0. Rows(turn)
  BY DEF TypeInv, TurnTable
<1> DEFINE r == [turn[dturn] EXCEPT !.state = "sent", !.reason = "none", !.claim = "none"]
<1>1. dturn \in Turns => RowOK(r)
  BY <1>0, UnclaimedRow DEF Rows
<1>2. nt' = nt /\ (turn' = [turn EXCEPT ![dturn] = r] \/ turn' = turn)
  BY DEF MarkSent
<1> HIDE DEF r
<1>3. Rows(turn')
  BY <1>0, <1>1, <1>2, RowSet
<1> QED BY <1>2, <1>3 DEF TypeInv, TurnTable

(* The receiver admits a turn.                                              *)
LEMMA AdmitRows ==
  ASSUME TypeInv, NEW t \in Turns, Admit(t)
  PROVE  TurnTable'
<1>0. Rows(turn)
  BY DEF TypeInv, TurnTable
<1> DEFINE q == [turn[t] EXCEPT !.receipt = "consumed", !.state = "sent",
                                !.reason = "none", !.claim = "none"]
           r == [turn[t] EXCEPT !.receipt = "consumed"]
<1>1. RowOK(q) /\ RowOK(r)
  BY <1>0, AdmittedRow DEF Rows
<1>2. nt' = nt /\ (turn' = [turn EXCEPT ![t] = q] \/ turn' = [turn EXCEPT ![t] = r])
  BY DEF Admit
<1> HIDE DEF q, r
<1>3. Rows(turn')
  BY <1>0, <1>1, <1>2, RowSet
<1> QED BY <1>2, <1>3 DEF TypeInv, TurnTable

(* A claim lapses, a back-off ends.                                         *)
LEMMA TimeRows ==
  ASSUME TypeInv, NEW t \in Turns, ClaimExpires(t) \/ BecomesDue(t)
  PROVE  TurnTable'
<1>0. Rows(turn)
  BY DEF TypeInv, TurnTable
<1> DEFINE q == [turn[t] EXCEPT !.claim = "expired"]
           r == [turn[t] EXCEPT !.due = "now"]
<1>1. RowOK(r)
  BY <1>0 DEF Rows, RowOK, TurnRow
<1>2. turn[t].claim = "live" => RowOK(q)
  BY <1>0 DEF Rows, RowOK, TurnRow
<1>3. /\ nt' = nt
      /\ \/ turn[t].claim = "live" /\ turn' = [turn EXCEPT ![t] = q]
         \/ turn' = [turn EXCEPT ![t] = r]
  BY DEF ClaimExpires, BecomesDue
<1> HIDE DEF q, r
<1>4. Rows(turn')
  BY <1>0, <1>1, <1>2, <1>3, RowSet
<1> QED BY <1>3, <1>4 DEF TypeInv, TurnTable

(* A recovery that puts a set of turns back into the queue.                 *)
LEMMA RecoveryRows ==
  ASSUME TypeInv, NEW S, nt' = nt,
         turn' = [u \in Turns |-> IF u \in S
                                  THEN [turn[u] EXCEPT !.state = "queued", !.claim = "none",
                                                       !.cursor = "none"]
                                  ELSE turn[u]]
  PROVE  TurnTable'
<1>0. Rows(turn)
  BY DEF TypeInv, TurnTable
<1>1. turn' = [u \in Turns |-> turn'[u]]
  OBVIOUS
<1>2. ASSUME NEW u \in Turns, u \in S
      PROVE  RowOK(turn'[u])
  <2>1. RowOK([turn[u] EXCEPT !.state = "queued", !.claim = "none", !.cursor = "none"])
    BY <1>0, UnclaimedRow DEF Rows
  <2> QED BY <1>2, <2>1
<1>3. \A u \in Turns : u \notin S => turn'[u] = turn[u]
  OBVIOUS
<1>4. Rows(turn')
  BY <1>0, <1>1, <1>2, <1>3, RowsUpdate
<1> QED BY <1>4 DEF TypeInv, TurnTable

(* Owner input appends a row, and opens, reopens or keeps the newest        *)
(* workflow.                                                                *)
LEMMA PrepareRows ==
  ASSUME TypeInv, NEW s \in Senders, PrepareInput(s)
  PROVE  TurnTable' /\ WfTable'
<1>0. Rows(turn) /\ WfRows(wf) /\ nt \in 0..MaxTurns /\ nw \in 0..MaxWorkflows
  BY DEF TypeInv, TurnTable, WfTable
<1> DEFINE promoted == GatedSuccessor(nw)
           fresh == nw = 0 \/ (~Open(nw) /\ promoted = 0)
           w == IF fresh THEN nw + 1 ELSE nw
           row == IF fresh THEN OpenRow(0) ELSE IF Open(nw) THEN wf[nw] ELSE OpenRow(promoted)
           queued == \/ OpHeld
                     \/ lease # 0
                     \/ Unadmitted(w, row.active)
                     \/ WithState(w, Pending) # {}
           kept == [u \in Turns |-> IF u = promoted
                                    THEN [turn[u] EXCEPT !.reason = "none", !.due = "now"]
                                    ELSE Cancel(OpenFinals(w))[u]]
           new == NewTurn(w, "external_input", 0, IF queued THEN "queued" ELSE "sent", "none")
           wrow == [row EXCEPT !.noProgress = 0, !.active = IF queued THEN @ ELSE nt + 1]
<1>1. /\ nt < MaxTurns /\ w <= MaxWorkflows /\ nt' = nt + 1 /\ nw' = w
      /\ turn' = [kept EXCEPT ![nt + 1] = new]
      /\ wf' = [wf EXCEPT ![w] = wrow]
  BY DEF PrepareInput
<1>2. promoted \in 0..MaxTurns
  BY GatedSuccessorType
<1>3. w \in 1..MaxWorkflows
  <2>1. w <= MaxWorkflows
    BY DEF PrepareInput
  <2> HIDE DEF promoted
  <2> QED BY <1>0, <2>1, BoundAssumption
<1>4. Rows(kept)
  <2>1. kept = [u \in Turns |-> kept[u]]
    OBVIOUS
  <2>2. Rows(Cancel(OpenFinals(w)))
    BY <1>0, CancelRows
  <2>3. \A u \in Turns : u # promoted => kept[u] = Cancel(OpenFinals(w))[u]
    OBVIOUS
  <2>4. ASSUME NEW u \in Turns, u = promoted
        PROVE  RowOK(kept[u])
    <3>1. RowOK([turn[u] EXCEPT !.reason = "none", !.due = "now"])
      BY <1>0, PromotedRow DEF Rows
    <3> QED BY <2>4, <3>1
  <2> HIDE DEF kept
  <2> QED BY <2>1, <2>2, <2>3, <2>4, RowsUpdate
<1>5. RowOK(new)
  BY <1>3, BoundAssumption, NewTurnRow DEF TurnKinds, TurnStates
<1>6. WfRowOK(row)
  <2>1. fresh => WfRowOK(row)
    BY OpenRowType, BoundAssumption
  <2>2. ~fresh /\ Open(nw) => WfRowOK(row)
    BY <1>0, BoundAssumption DEF WfRows, Workflows
  <2>3. ~fresh /\ ~Open(nw) => WfRowOK(row)
    BY <1>2, OpenRowType
  <2> QED BY <2>1, <2>2, <2>3
<1>7. WfRowOK(wrow)
  <2> HIDE DEF row, queued
  <2>1. row.active \in 0..MaxTurns
    BY <1>6 DEF WfRowOK, WorkflowRow
  <2>2. nt < MaxTurns
    BY DEF PrepareInput
  <2>3. nt + 1 \in 0..MaxTurns
    BY <1>0, <2>2, BoundAssumption
  <2> DEFINE a == IF queued THEN row.active ELSE nt + 1
  <2>4. a \in 0..MaxTurns
    BY <2>1, <2>3
  <2>5. wrow = [row EXCEPT !.noProgress = 0, !.active = a]
    OBVIOUS
  <2> HIDE DEF a, wrow
  <2> QED BY <1>6, <2>4, <2>5, InputWorkflowRow
<1> HIDE DEF promoted, fresh, w, row, queued, kept, new, wrow
<1>8. Rows(turn') /\ WfRows(wf')
  BY <1>0, <1>1, <1>4, <1>5, <1>7, RowSet, WfRowSet
<1> QED BY <1>0, <1>1, <1>3, <1>8, BoundAssumption DEF TurnTable, WfTable

(* A policy outcome ends the active turn and its queued continuations.      *)
LEMMA OutcomeRows ==
  ASSUME TypeInv, ProviderOutcome
  PROVE  TurnTable'
<1>0. Rows(turn)
  BY DEF TypeInv, TurnTable
<1> DEFINE a == wf[nw].active
           f == Cancel(OutcomeSuccessors(a) \cap WithState(nw, {"queued"}))
           r == [f[a] EXCEPT !.state = "finished", !.cursor = "outcome"]
<1>1. Rows(f)
  BY <1>0, CancelRows
<1>2. nt' = nt /\ (turn' = [f EXCEPT ![a].state = "finished", ![a].cursor = "outcome"]
                   \/ turn' = turn)
  BY DEF ProviderOutcome
<1>3. a \in Turns /\ turn[a].state \in {"sent", "finished"}
  <2>1. a # 0 /\ Observable /\ Open(nw)
    BY DEF ProviderOutcome, Observable
  <2>2. nw \in Workflows
    BY <2>1, BoundAssumption DEF Open, TypeInv, WfTable, Workflows
  <2>3. a \in 0..MaxTurns
    BY <2>2 DEF TypeInv, WfTable, WfRows, WfRowOK, WorkflowRow
  <2> QED BY <2>1, <2>3, BoundAssumption DEF Turns, Observable
<1>4. f[a].claim = "none"
  <2>1. turn[a].claim = "none"
    BY <1>0, <1>3 DEF Rows, RowOK
  <2> HIDE DEF a
  <2>2. f[a] = turn[a] \/ f[a] = [turn[a] EXCEPT !.state = "cancelled", !.claim = "none"]
    BY <1>3 DEF Cancel
  <2>3. turn[a] \in TurnRow
    BY <1>0, <1>3 DEF Rows
  <2> HIDE DEF f
  <2> QED BY <2>1, <2>2, <2>3 DEF TurnRow
<1> HIDE DEF f
<1>5. RowOK(r)
  BY <1>1, <1>3, <1>4, OutcomeRow DEF Rows
<1>6. [f EXCEPT ![a].state = "finished", ![a].cursor = "outcome"] = [f EXCEPT ![a] = r]
  OBVIOUS
<1> HIDE DEF a, r
<1>7. Rows(turn')
  BY <1>0, <1>1, <1>2, <1>5, <1>6, RowSet
<1> QED BY <1>2, <1>7 DEF TypeInv, TurnTable

(* A resumed execution continues in a fresh turn.                           *)
LEMMA ResumeRows ==
  ASSUME TypeInv, NEW t \in Turns, Resume(t)
  PROVE  TurnTable' /\ WfTable'
<1>0. Rows(turn) /\ WfRows(wf) /\ nt \in 0..MaxTurns /\ nw \in 0..MaxWorkflows
  BY DEF TypeInv, TurnTable, WfTable
<1> DEFINE r == [turn[t] EXCEPT !.state = "finished", !.receipt = "resumed"]
           new == NewTurn(nw, "execution_resume", t, "sent", "consumed")
           g == [wf[nw] EXCEPT !.active = nt + 1]
<1>1. /\ nt < MaxTurns /\ nt' = nt + 1 /\ nw' = nw /\ turn[t].state = "sent"
      /\ turn' = [turn EXCEPT ![t] = r, ![nt + 1] = new]
      /\ wf' = [wf EXCEPT ![nw] = g]
  BY DEF Resume
<1>2. RowOK(r)
  BY <1>0, <1>1, FinishedRow DEF Rows
<1>3. t \in 0..MaxTurns
  BY BoundAssumption DEF Turns
<1>4. RowOK(new)
  BY <1>0, <1>3, NewTurnRow DEF TurnKinds, TurnStates
<1>5. nw \in Workflows => WfRowOK(g)
  BY <1>0, <1>1, BoundAssumption DEF WfRows, WfRowOK, WorkflowRow
<1> HIDE DEF r, new, g
<1>6. Rows([turn EXCEPT ![t] = r])
  BY <1>0, <1>2, RowSet
<1>7. Rows(turn') /\ WfRows(wf')
  BY <1>0, <1>1, <1>4, <1>5, <1>6, RowSet, WfRowSet
<1> QED BY <1>0, <1>1, <1>7, BoundAssumption DEF TurnTable, WfTable

(* The gate repair promotes an accepted input.                              *)
LEMMA ReopenRows ==
  ASSUME TypeInv, ReopenGated
  PROVE  TurnTable' /\ WfTable'
<1>0. Rows(turn) /\ WfRows(wf)
  BY DEF TypeInv, TurnTable, WfTable
<1> DEFINE t == GatedSuccessor(nw)
           r == [turn[t] EXCEPT !.reason = "none", !.due = "now"]
<1>1. /\ nt' = nt /\ nw' = nw
      /\ turn' = [turn EXCEPT ![t] = r] /\ wf' = [wf EXCEPT ![nw] = OpenRow(t)]
  BY DEF ReopenGated
<1>2. t \in 0..MaxTurns
  BY GatedSuccessorType
<1> HIDE DEF t
<1>3. t \in Turns => RowOK(r)
  BY <1>0, PromotedRow DEF Rows
<1>4. WfRowOK(OpenRow(t))
  BY <1>2, OpenRowType
<1> HIDE DEF r
<1>5. Rows(turn') /\ WfRows(wf')
  BY <1>0, <1>1, <1>3, <1>4, RowSet, WfRowSet
<1> QED BY <1>1, <1>5 DEF TypeInv, TurnTable, WfTable

(* The dispatcher binds the turn it claimed.                                *)
LEMMA ActivateRows ==
  ASSUME TypeInv, Activate
  PROVE  WfTable'
<1>0. WfRows(wf) /\ dturn \in 0..MaxTurns
  BY DEF TypeInv, WfTable, Threads
<1> DEFINE g == [wf[nw] EXCEPT !.active = dturn]
<1>1. nw \in Workflows => WfRowOK(g)
  BY <1>0 DEF WfRows, WfRowOK, WorkflowRow
<1>2. nw' = nw /\ (wf' = [wf EXCEPT ![nw] = g] \/ wf' = wf)
  BY DEF Activate
<1> HIDE DEF g
<1>3. WfRows(wf')
  BY <1>0, <1>1, <1>2, WfRowSet
<1> QED BY <1>2, <1>3 DEF TypeInv, WfTable

(* The breaker counts one more continuation of the open workflow.           *)
LEMMA CountedRow ==
  ASSUME NEW r, WfRowOK(r), r.status = "open", NEW s \in {"open", "owner_gate"},
         NEW gate \in GateReasons, s = "open" => r.noProgress + 1 <= MaxNoProgress
  PROVE  WfRowOK([r EXCEPT !.status = s, !.gate = gate, !.noProgress = @ + 1])
<1> DEFINE n == r.noProgress + 1
<1>1. r \in WorkflowRow /\ r.noProgress <= MaxNoProgress
  BY DEF WfRowOK
<1>2. r.noProgress \in 0..MaxNoProgress + 1
  BY <1>1 DEF WorkflowRow
<1>3. n \in 0..MaxNoProgress + 1
  BY <1>1, <1>2, BoundAssumption
<1>4. s = "open" => n <= MaxNoProgress
  OBVIOUS
<1> HIDE DEF n
<1> DEFINE q == [r EXCEPT !.status = s, !.gate = gate, !.noProgress = n]
<1>5. q \in WorkflowRow /\ q.status = s /\ q.noProgress = n
  BY <1>1, <1>3 DEF WorkflowRow, WorkflowStatus
<1>6. WfRowOK(q)
  <2> HIDE DEF q
  <2> QED BY <1>4, <1>5 DEF WfRowOK
<1>7. q = [r EXCEPT !.status = s, !.gate = gate, !.noProgress = @ + 1]
  BY <1>1 DEF WorkflowRow, n
<1> QED BY <1>6, <1>7

(* A final adds one continuation, or trips the breaker.                     *)
LEMMA FinalRows ==
  ASSUME TypeInv, ObserveFinal
  PROVE  TurnTable' /\ WfTable'
<1>0. Rows(turn) /\ WfRows(wf) /\ nt \in 0..MaxTurns /\ nw \in 0..MaxWorkflows
  BY DEF TypeInv, TurnTable, WfTable
<1> DEFINE a == wf[nw].active
<1>1. CASE ~MayFinish(a)
  BY <1>1 DEF ObserveFinal, turnVars, TypeInv, TurnTable, WfTable
<1>2. CASE MayFinish(a)
  <2>1. Final(a) /\ nw' = nw
    BY <1>2 DEF ObserveFinal
  <2>2. Open(nw) /\ a # 0 /\ turn[a].state = "sent"
    BY <1>2 DEF MayFinish
  <2>3. nw \in Workflows
    BY <1>0, <2>2, BoundAssumption DEF Open, Workflows
  <2>4. WfRowOK(wf[nw]) /\ wf[nw].status = "open"
    BY <1>0, <2>2, <2>3 DEF WfRows, Open
  <2>5. a \in Turns
    BY <2>2, <2>4, BoundAssumption DEF WfRowOK, WorkflowRow, Turns
  <2>6. RowOK([turn[a] EXCEPT !.state = "finished"])
    BY <1>0, <2>2, <2>5 DEF Rows, RowOK, TurnRow, TurnStates
  <2>7. CASE BreakerTrips
    <3> DEFINE g == [wf[nw] EXCEPT !.status = "owner_gate", !.gate = "breaker",
                                   !.noProgress = @ + 1]
               f == Cancel(WithState(nw, Pending))
               r == [f[a] EXCEPT !.state = "finished"]
    <3>1. /\ nt' = nt /\ wf' = [wf EXCEPT ![nw] = g]
          /\ turn' = [f EXCEPT ![a].state = "finished"]
      BY <2>1, <2>7 DEF Final
    <3>2. WfRowOK(g)
      BY <2>4, CountedRow DEF GateReasons
    <3>3. Rows(f)
      BY <1>0, CancelRows
    <3>4. f[a] = turn[a]
      BY <2>2, <2>5 DEF Cancel, WithState, Pending
    <3>5. turn' = [f EXCEPT ![a] = r]
      BY <3>1
    <3>6. RowOK(r)
      BY <2>6, <3>4
    <3> HIDE DEF f, g, r, a
    <3>7. Rows(turn')
      BY <3>3, <3>5, <3>6, RowSet
    <3>8. wf' = [wf EXCEPT ![nw] = g] /\ nt' = nt
      BY <3>1
    <3>9. WfRows(wf')
      BY <1>0, <3>2, <3>8, WfRowSet
    <3> QED BY <1>0, <2>1, <3>8, <3>7, <3>9 DEF TurnTable, WfTable
  <2>8. CASE ~BreakerTrips
    <3> DEFINE g == [wf[nw] EXCEPT !.noProgress = @ + 1]
               r == [turn[a] EXCEPT !.state = "finished"]
               new == OpenFinal(a)
    <3>1. /\ nt < MaxTurns /\ nt' = nt + 1 /\ wf' = [wf EXCEPT ![nw] = g]
          /\ turn' = [turn EXCEPT ![a] = r, ![nt + 1] = new]
      BY <2>1, <2>8 DEF Final
    <3>2. WfRowOK(g)
      <4>1. wf[nw].noProgress + 1 <= MaxNoProgress
        BY <2>4, <2>8, BoundAssumption DEF BreakerTrips, WfRowOK, WorkflowRow
      <4>2. wf[nw].gate \in GateReasons
        BY <2>4 DEF WfRowOK, WorkflowRow
      <4>3. WfRowOK([wf[nw] EXCEPT !.status = "open", !.gate = wf[nw].gate, !.noProgress = @ + 1])
        BY <2>4, <4>1, <4>2, CountedRow
      <4>4. g = [wf[nw] EXCEPT !.status = "open", !.gate = wf[nw].gate, !.noProgress = @ + 1]
        BY <2>4 DEF WfRowOK, WorkflowRow
      <4> QED BY <4>3, <4>4
    <3>3. RowOK(new)
      <4> DEFINE n == NewTurn(nw, "open_final", a, "queued", "none")
      <4>1. RowOK(n)
        BY <1>0, <2>5, BoundAssumption, NewTurnRow DEF Turns, TurnKinds, TurnStates
      <4>2. new = [n EXCEPT !.due = "now"] \/ new = [n EXCEPT !.due = "later"]
        BY DEF OpenFinal
      <4> HIDE DEF n
      <4> QED BY <4>1, <4>2 DEF RowOK, TurnRow
    <3> HIDE DEF g, r, new, a
    <3>4. Rows([turn EXCEPT ![a] = r])
      BY <1>0, <2>6, RowSet DEF r
    <3>5. Rows(turn') /\ WfRows(wf')
      BY <1>0, <3>1, <3>2, <3>3, <3>4, RowSet, WfRowSet
    <3> QED BY <1>0, <2>1, <3>1, <3>5, BoundAssumption DEF TurnTable, WfTable
  <2> QED BY <2>7, <2>8
<1> QED BY <1>1, <1>2

(* The dispatcher gives up a claim: a retry, a promotion or a gate.         *)
LEMMA RequeueTurnRows ==
  ASSUME TypeInv, RequeueTurn
  PROVE  TurnTable' /\ WfTable'
<1>0. Rows(turn) /\ WfRows(wf)
  BY DEF TypeInv, TurnTable, WfTable
<1> DEFINE t == dturn
           w == turn[t].wf
           successor == Least(QueuedInputsAfter(w, t))
           n == IF dpc = "deferred" /\ turn[t].attempts > 0
                THEN turn[t].attempts - 1 ELSE turn[t].attempts
           back == [turn[t] EXCEPT !.state = "queued", !.reason = "none", !.claim = "none",
                                   !.cursor = "none", !.due = "later", !.attempts = n]
           drop == [turn[t] EXCEPT !.state = "cancelled", !.reason = "none", !.claim = "none"]
           dropped == [turn EXCEPT ![t] = drop]
           next == [dropped[successor] EXCEPT !.reason = "none", !.due = "now"]
           gated == [wf[w] EXCEPT !.status = "owner_gate", !.gate = "transport"]
           moved == [wf[w] EXCEPT !.active = successor, !.noProgress = 0]
<1>1. /\ nt' = nt /\ nw' = nw
      /\ \/ turn' = turn
         \/ turn' = [turn EXCEPT ![t] = back]
         \/ turn' = dropped
         \/ turn' = [dropped EXCEPT ![successor] = next]
  <2>1. nt' = nt /\ nw' = nw
    BY DEF RequeueTurn
  <2>2. \/ turn' = turn
        \/ turn' = [turn EXCEPT ![t] = back]
        \/ turn' = dropped
        \/ turn' = [dropped EXCEPT ![successor] = next]
    <3> DEFINE exhausted == dpc = "requeue" /\ turn[t].attempts >= MaxAttempts
    <3>1. CASE ~(ClaimMatches(t) /\ Open(w))
      BY <3>1 DEF RequeueTurn
    <3>2. CASE ClaimMatches(t) /\ Open(w) /\ ~exhausted
      <4>1. turn' = [turn EXCEPT ![t].state = "queued", ![t].reason = "none", ![t].claim = "none",
                             ![t].cursor = "none", ![t].due = "later",
                             ![t].attempts = IF dpc = "deferred" /\ @ > 0 THEN @ - 1 ELSE @]
        BY <3>2 DEF RequeueTurn
      <4>2. t \in Turns => turn[t] \in TurnRow
        BY <1>0 DEF Rows
      <4> QED BY <4>1, <4>2 DEF TurnRow
    <3>3. CASE ClaimMatches(t) /\ Open(w) /\ exhausted /\ successor = 0
      <4>1. turn' = [turn EXCEPT ![t].state = "cancelled", ![t].reason = "none",
                                 ![t].claim = "none"]
        BY <3>3 DEF RequeueTurn
      <4> QED BY <4>1
    <3>4. CASE ClaimMatches(t) /\ Open(w) /\ exhausted /\ successor # 0
      BY <3>4 DEF RequeueTurn
    <3> QED BY <3>1, <3>2, <3>3, <3>4
  <2> QED BY <2>1, <2>2
<1>2. wf' = wf \/ wf' = [wf EXCEPT ![w] = gated] \/ wf' = [wf EXCEPT ![w] = moved]
  BY DEF RequeueTurn
<1>3. successor \in 0..MaxTurns
  BY QueuedInputsAreTurns, LeastOfTurns
<1>4. ASSUME t \in Turns PROVE RowOK(back) /\ RowOK(drop)
  <2>1. RowOK(turn[t]) /\ turn[t] \in TurnRow
    BY <1>0, <1>4 DEF Rows, RowOK
  <2>2. turn[t].attempts \in 0..MaxClaims
    BY <2>1 DEF TurnRow
  <2>3. n \in 0..MaxClaims
    BY <2>2, BoundAssumption
  <2> HIDE DEF n
  <2> QED BY <2>1, <2>3 DEF RowOK, TurnRow, TurnStates
<1>5. Rows(dropped)
  <2> HIDE DEF drop
  <2> QED BY <1>0, <1>4, RowSet
<1>6. w \in Workflows => WfRowOK(gated) /\ WfRowOK(moved)
  <2> SUFFICES ASSUME w \in Workflows PROVE WfRowOK(gated) /\ WfRowOK(moved)
    OBVIOUS
  <2>1. WfRowOK(wf[w])
    BY <1>0 DEF WfRows
  <2>2. WfRowOK(gated)
    <3> HIDE DEF w
    <3> QED BY <2>1 DEF WfRowOK, WorkflowRow, WorkflowStatus, GateReasons
  <2>3. moved = [wf[w] EXCEPT !.noProgress = 0, !.active = successor]
    <3> HIDE DEF w, successor
    <3> QED BY <2>1 DEF WfRowOK, WorkflowRow
  <2> HIDE DEF w, successor, moved
  <2> QED BY <1>3, <2>1, <2>2, <2>3, InputWorkflowRow
<1> HIDE DEF dropped, back, drop, successor
<1>7. successor \in Turns => RowOK(next)
  BY <1>5, PromotedRow DEF Rows
<1> HIDE DEF next, gated, moved, w
<1>8. Rows(turn')
  BY <1>0, <1>1, <1>4, <1>5, <1>7, RowSet
<1>9. WfRows(wf')
  BY <1>0, <1>2, <1>6, WfRowSet
<1> QED BY <1>1, <1>8, <1>9 DEF TypeInv, TurnTable, WfTable

(* A completion carries the untouched inputs, a gate cancels them.          *)
LEMMA CloseRows ==
  ASSUME TypeInv, CloseWorkflow
  PROVE  TurnTable' /\ WfTable'
<1>0. Rows(turn) /\ WfRows(wf) /\ nt \in 0..MaxTurns /\ nw \in 0..MaxWorkflows
  BY DEF TypeInv, TurnTable, WfTable
<1> DEFINE s == closing.status
           carried == Carried(s)
           closed == [wf EXCEPT ![nw] = ClosedRow(s)]
           cancelled == Cancel(Doomed(s))
<1>1. s \in {"terminal", "owner_gate"}
  BY DEF CloseWorkflow, TypeInv, Resources
<1>2. nw \in Workflows => WfRowOK(ClosedRow(s))
  <2> HIDE DEF s
  <2> QED BY <1>0, <1>1 DEF WfRows, WfRowOK, WorkflowRow, WorkflowStatus, GateReasons, ClosedRow
<1> HIDE DEF s
<1>3. WfRows(closed)
  BY <1>0, <1>2, WfRowSet
<1>4. Rows(cancelled)
  BY <1>0, CancelRows
<1>5. CASE Refused(s)
  BY <1>5 DEF CloseWorkflow, wfVars, TypeInv, TurnTable, WfTable, s
<1>6. CASE ~Refused(s) /\ carried = {}
  <2>1. wf' = closed /\ nw' = nw /\ turn' = cancelled /\ nt' = nt
    BY <1>6 DEF CloseWorkflow, s
  <2> HIDE DEF closed, cancelled
  <2> QED BY <1>0, <1>3, <1>4, <2>1 DEF TurnTable, WfTable
<1>7. CASE ~Refused(s) /\ carried # {}
  <2> DEFINE g == [u \in Turns |-> IF u \in carried
                      THEN [turn[u] EXCEPT !.wf = nw + 1, !.reason = "none", !.due = "now"]
                      ELSE cancelled[u]]
  <2>1. /\ nw < MaxWorkflows /\ nw' = nw + 1 /\ nt' = nt
        /\ wf' = [closed EXCEPT ![nw + 1] = OpenRow(Min(carried))]
        /\ turn' = g
    BY <1>7 DEF CloseWorkflow, s
  <2>2. nw + 1 \in 0..MaxWorkflows
    <3>1. nw < MaxWorkflows
      BY <2>1
    <3> QED BY <1>0, <3>1, BoundAssumption
  <2>3. carried \in SUBSET Turns
    BY QueuedInputsAreTurns DEF Carried
  <2>4. WfRowOK(OpenRow(Min(carried)))
    <3>1. Min(carried) \in Turns
      BY <1>7, <2>3, MinOfTurns
    <3>2. Min(carried) \in 0..MaxTurns
      BY <3>1, BoundAssumption DEF Turns
    <3> HIDE DEF carried
    <3> QED BY <3>2, OpenRowType
  <2>5. \A u \in Turns : u \in carried => RowOK(g[u])
    <3> TAKE u \in Turns
    <3> HAVE u \in carried
    <3>1. RowOK([turn[u] EXCEPT !.wf = nw + 1, !.reason = "none", !.due = "now"])
      <4> DEFINE n == nw + 1
      <4> HIDE DEF n
      <4>1. RowOK([turn[u] EXCEPT !.wf = n, !.reason = "none", !.due = "now"])
        BY <1>0, <2>2, CarriedRow DEF Rows, n
      <4> QED BY <4>1 DEF n
    <3> HIDE DEF carried
    <3> QED BY <3>1
  <2>6. \A u \in Turns : u \notin carried => g[u] = cancelled[u]
    OBVIOUS
  <2>7. g = [u \in Turns |-> g[u]]
    OBVIOUS
  <2> HIDE DEF g, cancelled, closed, carried
  <2>8. Rows(g)
    <3>1. \A u \in Turns : g[u] = cancelled[u] \/ RowOK(g[u])
      BY <2>5, <2>6
    <3> QED BY <1>4, <2>7, <3>1, RowsUpdate
  <2>9. WfRows(wf')
    BY <1>3, <2>1, <2>4, WfRowSet
  <2> QED BY <1>0, <2>1, <2>2, <2>8, <2>9 DEF TurnTable, WfTable
<1> QED BY <1>5, <1>6, <1>7

-----------------------------------------------------------------------------
(* Where the threads go.                                                    *)

(* A sender moves; only one that is done forgets its turn.                  *)
LEMMA SenderMoves ==
  ASSUME TypeInv, NEW s \in Senders, NEW pc \in SenderSteps, spc[s] # "idle",
         spc' = [spc EXCEPT ![s] = pc],
         sturn' = sturn \/ (pc = "idle" /\ sturn' = [sturn EXCEPT ![s] = 0]),
         UNCHANGED <<dVars, oVars>>
  PROVE  Threads' /\ Locals'
<1>1. Threads'
  BY BoundAssumption DEF TypeInv, Threads, dVars, oVars
<1>2. \A q \in Senders : spc'[q] # "idle" => sturn'[q] # 0
  BY DEF TypeInv, Threads, Locals
<1> QED BY <1>1, <1>2 DEF TypeInv, Locals, dVars

(* The same, with the locals cleared by SenderAt.                           *)
LEMMA SenderGoes ==
  ASSUME TypeInv, NEW s \in Senders, NEW pc \in SenderSteps, spc[s] # "idle",
         SenderAt(s, pc), UNCHANGED <<dVars, oVars>>
  PROVE  Threads' /\ Locals'
<1>1. spc' = [spc EXCEPT ![s] = pc]
  BY DEF SenderAt
<1>2. sturn' = sturn \/ (pc = "idle" /\ sturn' = [sturn EXCEPT ![s] = 0])
  BY DEF SenderAt, TypeInv, Threads
<1> QED BY <1>1, <1>2, SenderMoves

(* A poller moves, with or without a new snapshot of the lease.             *)
LEMMA ObserverMoves ==
  ASSUME TypeInv, NEW o \in Observers, NEW pc \in {"idle", "look", "released"},
         opc' = [opc EXCEPT ![o] = pc], NEW v \in 0..MaxTurns,
         seen' = [seen EXCEPT ![o] = v] \/ seen' = seen, UNCHANGED <<dVars, sVars>>
  PROVE  Threads' /\ Locals'
BY DEF TypeInv, Threads, Locals, dVars, sVars

(* The same, with the snapshot cleared by ObserverAt.                       *)
LEMMA ObserverGoes ==
  ASSUME TypeInv, NEW o \in Observers, NEW pc \in {"idle", "released"},
         ObserverAt(o, pc), UNCHANGED <<dVars, sVars>>
  PROVE  Threads' /\ Locals'
<1>1. opc' = [opc EXCEPT ![o] = pc]
  BY DEF ObserverAt
<1>2. seen' = [seen EXCEPT ![o] = 0] \/ seen' = seen
  BY DEF ObserverAt, TypeInv, Threads
<1>3. 0 \in 0..MaxTurns
  BY BoundAssumption
<1> QED BY <1>1, <1>2, <1>3, ObserverMoves

(* The dispatcher moves; from its pick to its last step it holds a turn.    *)
LEMMA DispatcherMoves ==
  ASSUME TypeInv, dpc' \in DispatcherSteps, dturn' \in 0..MaxTurns,
         dpc' \in Ticks => dturn' # 0, NEW v \in 0..MaxTurns,
         seen' = seen \/ seen' = [seen EXCEPT ![Dispatcher] = v],
         UNCHANGED <<sVars, opc>>
  PROVE  Threads' /\ Locals'
BY DEF TypeInv, Threads, Locals, sVars

(* Within its tick the dispatcher keeps its turn until it is idle.          *)
LEMMA DispatcherTick ==
  ASSUME TypeInv, dpc \in Ticks, dpc' \in Ticks \cup {"idle"},
         dturn' = dturn \/ (dpc' = "idle" /\ dturn' = 0), UNCHANGED <<sVars, oVars>>
  PROVE  Threads' /\ Locals'
<1>1. dturn \in 0..MaxTurns /\ dturn # 0
  BY DEF TypeInv, Threads, Locals
<1>2. dturn' \in 0..MaxTurns /\ (dpc' \in Ticks => dturn' # 0)
  BY <1>1, BoundAssumption DEF Ticks
<1>3. dpc' \in DispatcherSteps
  BY DEF Ticks, DispatcherSteps
<1>4. seen' = seen /\ opc' = opc
  BY DEF oVars
<1> QED BY <1>1, <1>2, <1>3, <1>4, DispatcherMoves

-----------------------------------------------------------------------------
(* The steps of the senders.                                                *)
LEMMA SenderStep ==
  ASSUME TypeInv, NEW s \in Senders, PrepareInput(s) \/ SenderNext(s)
  PROVE  TypeInv'
<1>1. CASE PrepareInput(s)
  <2>1. TurnTable' /\ WfTable'
    BY <1>1, PrepareRows
  <2>2. Resources'
    BY <1>1 DEF PrepareInput, TypeInv, Resources, opVars, sysVars
  <2>3. nt + 1 \in 0..MaxTurns /\ nt + 1 # 0
    <3>1. nt < MaxTurns
      BY <1>1 DEF PrepareInput
    <3>2. nt \in 0..MaxTurns
      BY DEF TypeInv, TurnTable
    <3> QED BY <3>1, <3>2, BoundAssumption
  <2>4. \/ spc' = [spc EXCEPT ![s] = "idle"] /\ sturn' = [sturn EXCEPT ![s] = 0]
        \/ spc' = [spc EXCEPT ![s] = "slot"] /\ sturn' = [sturn EXCEPT ![s] = nt + 1]
    BY <1>1 DEF PrepareInput
  <2>5. UNCHANGED <<dVars, oVars>>
    BY <1>1 DEF PrepareInput
  <2>6. Threads'
    <3> DEFINE n == nt + 1
    <3> HIDE DEF n
    <3>1. \/ spc' = [spc EXCEPT ![s] = "idle"] /\ sturn' = [sturn EXCEPT ![s] = 0]
          \/ spc' = [spc EXCEPT ![s] = "slot"] /\ sturn' = [sturn EXCEPT ![s] = n]
      BY <2>4 DEF n
    <3>2. n \in 0..MaxTurns /\ 0 \in 0..MaxTurns
      BY <2>3, BoundAssumption DEF n
    <3> QED BY <3>1, <3>2, <2>5 DEF TypeInv, Threads, SenderSteps, dVars, oVars
  <2>7. Locals'
    BY <2>3, <2>4, <2>5 DEF TypeInv, Threads, Locals, dVars
  <2> QED BY <2>1, <2>2, <2>6, <2>7 DEF TypeInv
<1>2. CASE SenderSlot(s)
  <2>1. TurnTable' /\ WfTable'
    BY <1>2 DEF SenderSlot, TypeInv, TurnTable, WfTable, turnVars, wfVars
  <2>2. Resources'
    BY <1>2 DEF SenderSlot, TypeInv, Resources, Threads, opVars, sysVars
  <2>3. Threads' /\ Locals'
    BY <1>2, SenderMoves DEF SenderSlot, SenderSteps
  <2> QED BY <2>1, <2>2, <2>3 DEF TypeInv
<1>3. CASE SenderOp(s)
  <2>1. TurnTable' /\ WfTable'
    BY <1>3 DEF SenderOp, TypeInv, TurnTable, WfTable, turnVars, wfVars
  <2>2. Resources'
    BY <1>3, BoundAssumption DEF SenderOp, TypeInv, Resources, opVars, sysVars, OpOwners
  <2>3. Threads' /\ Locals'
    BY <1>3, SenderMoves DEF SenderOp, SenderSteps, AfterOp
  <2> QED BY <2>1, <2>2, <2>3 DEF TypeInv
<1>4. CASE SenderBind(s)
  <2>1. PICK bound \in BOOLEAN : /\ BindCursor(sturn[s], bound)
                                 /\ spc' = [spc EXCEPT ![s] = IF bound THEN "paste" ELSE "failed"]
    BY <1>4 DEF SenderBind
  <2>2. Rows(turn')
    BY <2>1, BindCursorRows
  <2>3. TurnTable' /\ WfTable'
    BY <1>4, <2>2 DEF SenderBind, TypeInv, TurnTable, WfTable, wfVars
  <2>4. Resources'
    BY <1>4 DEF SenderBind, TypeInv, Resources, opVars, sysVars
  <2>5. Threads' /\ Locals'
    BY <1>4, <2>1, SenderMoves DEF SenderBind, SenderSteps
  <2> QED BY <2>3, <2>4, <2>5 DEF TypeInv
<1>5. CASE SenderPaste(s)
  <2>1. TurnTable' /\ WfTable'
    BY <1>5 DEF SenderPaste, TypeInv, TurnTable, WfTable, turnVars, wfVars
  <2>2. sturn[s] \in Turns
    BY <1>5, BoundAssumption DEF SenderPaste, TypeInv, Threads, Locals, Turns
  <2>3. pasted' \in SUBSET Turns
    BY <1>5, <2>2 DEF SenderPaste, Keys, TypeInv, Resources
  <2>4. Resources'
    BY <1>5, <2>3 DEF SenderPaste, TypeInv, Resources, opVars, sysVars
  <2>5. Threads' /\ Locals'
    BY <1>5, SenderMoves DEF SenderPaste, SenderSteps
  <2> QED BY <2>1, <2>4, <2>5 DEF TypeInv
<1>6. CASE SenderFail(s)
  <2>1. TurnTable' /\ WfTable'
    BY <1>6 DEF SenderFail, TypeInv, TurnTable, WfTable, turnVars, wfVars
  <2>2. Resources'
    BY <1>6, BoundAssumption DEF SenderFail, ReleaseFailed, TypeInv, Resources, opVars, sysVars
  <2>3. Threads' /\ Locals'
    BY <1>6, SenderMoves DEF SenderFail, SenderSteps
  <2> QED BY <2>1, <2>2, <2>3 DEF TypeInv
<1>7. CASE SenderUnlock(s)
  <2>1. TurnTable' /\ WfTable'
    BY <1>7 DEF SenderUnlock, TypeInv, TurnTable, WfTable, turnVars, wfVars
  <2>2. Resources'
    BY <1>7 DEF SenderUnlock, ReleaseOp, TypeInv, Resources, opVars, sysVars
  <2>3. Threads' /\ Locals'
    BY <1>7, SenderGoes DEF SenderUnlock, SenderSteps
  <2> QED BY <2>1, <2>2, <2>3 DEF TypeInv
<1>8. CASE SenderRetain(s)
  <2>1. TurnTable' /\ WfTable'
    BY <1>8, RetainRows DEF SenderRetain, TypeInv, WfTable, wfVars
  <2>2. Resources'
    BY <1>8 DEF SenderRetain, TypeInv, Resources, opVars, sysVars
  <2>3. Threads' /\ Locals'
    BY <1>8, SenderGoes DEF SenderRetain, SenderSteps
  <2> QED BY <2>1, <2>2, <2>3 DEF TypeInv
<1> QED BY <1>1, <1>2, <1>3, <1>4, <1>5, <1>6, <1>7, <1>8 DEF SenderNext

(* The steps of the other pollers.                                          *)
LEMMA ObserverStep ==
  ASSUME TypeInv, NEW o \in Observers, ObserverLook(o) \/ ObserverNext(o)
  PROVE  TypeInv'
<1>1. CASE ObserverLook(o) \/ ObserverSettle(o) \/ ObserverBusy(o)
  <2>1. TurnTable' /\ WfTable'
    BY <1>1 DEF ObserverLook, ObserverSettle, ObserverBusy, TypeInv, TurnTable, WfTable,
                turnVars, wfVars
  <2>2. Resources'
    BY <1>1, BoundAssumption
       DEF ObserverLook, ObserverSettle, ObserverBusy, TypeInv, Resources, opVars, sysVars
  <2>3. CASE ObserverLook(o)
    BY <2>1, <2>2, <2>3, ObserverMoves DEF ObserverLook, TypeInv, Resources
  <2>4. CASE ObserverSettle(o) \/ ObserverBusy(o)
    BY <2>1, <2>2, <2>4, ObserverGoes DEF ObserverSettle, ObserverBusy, TypeInv
  <2> QED BY <1>1, <2>3, <2>4
<1>2. CASE ObserverRequeue(o)
  <2>1. TurnTable' /\ WfTable'
    BY <1>2, RequeueSettledRows DEF ObserverRequeue
  <2>2. Resources'
    BY <1>2 DEF ObserverRequeue, TypeInv, Resources, opVars, sysVars
  <2>3. Threads' /\ Locals'
    BY <1>2, ObserverGoes DEF ObserverRequeue
  <2> QED BY <2>1, <2>2, <2>3 DEF TypeInv
<1> QED BY <1>1, <1>2 DEF ObserverNext

(* The steps of the dispatcher's tick.                                      *)
LEMMA ObservationStep ==
  ASSUME TypeInv,
         \/ DispatcherLook \/ DispatcherBusy \/ DispatcherSettle \/ DispatcherRequeueSettled
         \/ ProviderOutcome \/ ObserveFinal \/ ReadyNotStable
  PROVE  TypeInv'
<1> USE DEF TypeInv
<1>0. lease \in 0..MaxTurns /\ dturn \in 0..MaxTurns /\ 0 \in 0..MaxTurns
  BY BoundAssumption DEF Resources, Threads
<1>1. CASE DispatcherLook \/ DispatcherBusy \/ DispatcherSettle
  <2>1. TurnTable' /\ WfTable'
    BY <1>1 DEF DispatcherLook, DispatcherBusy, DispatcherSettle, TurnTable, WfTable,
                turnVars, wfVars
  <2>2. Resources'
    BY <1>0, <1>1 DEF DispatcherLook, DispatcherBusy, DispatcherSettle, Resources, opVars, sysVars
  <2>3. /\ dpc' \in DispatcherSteps /\ dpc' \notin Ticks
        /\ dturn' = dturn
        /\ UNCHANGED <<sVars, opc>>
    BY <1>1 DEF DispatcherLook, DispatcherBusy, DispatcherSettle, DispatcherSteps, Ticks
  <2>4. \/ seen' = seen
        \/ seen' = [seen EXCEPT ![Dispatcher] = lease]
        \/ seen' = [seen EXCEPT ![Dispatcher] = 0]
    BY <1>1 DEF DispatcherLook, DispatcherBusy, DispatcherSettle
  <2>5. Threads' /\ Locals'
    BY <1>0, <2>3, <2>4, DispatcherMoves
  <2> QED BY <2>1, <2>2, <2>5
<1>2. CASE DispatcherRequeueSettled
  <2>1. TurnTable' /\ WfTable'
    BY <1>2, RequeueSettledRows DEF DispatcherRequeueSettled
  <2>2. Resources'
    BY <1>2 DEF DispatcherRequeueSettled, Resources, opVars, sysVars
  <2>3. /\ dpc' = "settled" /\ dturn' = dturn /\ UNCHANGED <<sVars, opc>>
        /\ seen' = [seen EXCEPT ![Dispatcher] = 0]
    BY <1>2 DEF DispatcherRequeueSettled
  <2>4. Threads' /\ Locals'
    BY <1>0, <2>3, DispatcherMoves DEF DispatcherSteps, Ticks
  <2> QED BY <2>1, <2>2, <2>4
<1>3. CASE ProviderOutcome \/ ObserveFinal \/ ReadyNotStable
  <2>1. TurnTable' /\ WfTable'
    <3>1. CASE ProviderOutcome
      BY <3>1, OutcomeRows DEF ProviderOutcome, WfTable, wfVars
    <3>2. CASE ObserveFinal
      BY <3>2, FinalRows
    <3>3. CASE ReadyNotStable
      BY <3>3 DEF ReadyNotStable, TurnTable, WfTable, turnVars, wfVars
    <3> QED BY <1>3, <3>1, <3>2, <3>3
  <2>2. lease' \in 0..MaxTurns
    BY <1>0, <1>3 DEF ProviderOutcome, ObserveFinal, ReadyNotStable, Final
  <2>3. UNCHANGED <<opVars, pasted, sysVars, closing>>
    BY <1>3 DEF ProviderOutcome, ObserveFinal, ReadyNotStable
  <2>4. Resources'
    BY <2>2, <2>3 DEF Resources, opVars, sysVars
  <2>5. dpc' \in {"idle", "observed"} /\ dturn' = dturn /\ UNCHANGED <<sVars, oVars>>
    BY <1>3 DEF ProviderOutcome, ObserveFinal, ReadyNotStable
  <2>6. Threads' /\ Locals'
    BY <1>0, <2>5, DispatcherMoves DEF DispatcherSteps, Ticks, oVars
  <2> QED BY <2>1, <2>4, <2>6
<1> QED BY <1>1, <1>2, <1>3

(* From the pick to the end of the tick.                                    *)
LEMMA DispatchStep ==
  ASSUME TypeInv,
         \/ PickTurn \/ ClaimTurn \/ RenewClaim \/ Activate \/ DispatcherSlot \/ DispatcherOp
         \/ DispatcherBind \/ DispatcherPaste \/ DispatcherFail \/ DispatcherUnlock
         \/ MarkSent \/ RequeueTurn
  PROVE  TypeInv'
<1> USE DEF TypeInv
<1>0. lease \in 0..MaxTurns /\ dturn \in 0..MaxTurns /\ 0 \in 0..MaxTurns
  BY BoundAssumption DEF Resources, Threads
<1>1. CASE PickTurn
  <2>1. TurnTable' /\ WfTable'
    BY <1>1 DEF PickTurn, TurnTable, WfTable, turnVars, wfVars
  <2>2. Resources'
    BY <1>1 DEF PickTurn, Resources, opVars, sysVars
  <2>3. Claimable \in SUBSET Turns
    BY DEF Claimable, Due, WithState, InWorkflow, Unadmitted
  <2>4. /\ dturn' = Least(Claimable)
        /\ dpc' = IF Claimable = {} THEN "idle" ELSE "picked"
        /\ UNCHANGED <<sVars, oVars>>
    BY <1>1 DEF PickTurn
  <2>5. dturn' \in 0..MaxTurns /\ (dpc' \in Ticks => dturn' # 0)
    BY <2>3, <2>4, LeastOfTurns DEF Ticks
  <2>6. Threads' /\ Locals'
    BY <1>0, <2>4, <2>5, DispatcherMoves DEF DispatcherSteps, oVars
  <2> QED BY <2>1, <2>2, <2>6
<1>2. CASE ClaimTurn \/ MarkSent \/ RequeueTurn \/ DispatcherBind \/ RenewClaim \/ Activate
  <2>1. TurnTable' /\ WfTable'
    <3>1. CASE ClaimTurn
      BY <3>1, ClaimRows DEF ClaimTurn, WfTable, wfVars
    <3>2. CASE MarkSent
      BY <3>2, MarkSentRows DEF MarkSent, WfTable, wfVars
    <3>3. CASE RequeueTurn
      BY <3>3, RequeueTurnRows
    <3>4. CASE DispatcherBind
      BY <3>4, BindCursorRows DEF DispatcherBind, TurnTable, WfTable, wfVars
    <3>5. CASE RenewClaim
      BY <3>5 DEF RenewClaim, TurnTable, WfTable, turnVars, wfVars
    <3>6. CASE Activate
      BY <3>6, ActivateRows DEF Activate, TurnTable, turnVars
    <3> QED BY <1>2, <3>1, <3>2, <3>3, <3>4, <3>5, <3>6
  <2>2. UNCHANGED <<lease, opVars, pasted, sysVars, sVars, oVars, closing>>
    BY <1>2 DEF ClaimTurn, MarkSent, RequeueTurn, DispatcherBind, RenewClaim, Activate
  <2>3. Resources'
    BY <2>2 DEF Resources, opVars, sysVars
  <2>4. /\ dpc \in Ticks /\ dpc' \in Ticks \cup {"idle"}
        /\ dturn' = dturn \/ (dpc' = "idle" /\ dturn' = 0)
    BY <1>2 DEF ClaimTurn, MarkSent, RequeueTurn, DispatcherBind, RenewClaim, Activate,
                DispatcherAt, Ticks
  <2>5. Threads' /\ Locals'
    BY <2>2, <2>4, DispatcherTick
  <2> QED BY <2>1, <2>3, <2>5
<1>3. CASE DispatcherSlot \/ DispatcherOp \/ DispatcherPaste \/ DispatcherFail \/ DispatcherUnlock
  <2>1. TurnTable' /\ WfTable'
    BY <1>3 DEF DispatcherSlot, DispatcherOp, DispatcherPaste, DispatcherFail, DispatcherUnlock,
                TurnTable, WfTable, turnVars, wfVars
  <2>2. lease' \in 0..MaxTurns
    BY <1>0, <1>3 DEF DispatcherSlot, DispatcherOp, DispatcherPaste, DispatcherFail,
                      DispatcherUnlock, ReleaseFailed
  <2>3. op' \in OpOwners \cup {NoOne, Orphan} /\ opLive' \in {"live", "expired"}
    BY <1>3 DEF DispatcherSlot, DispatcherOp, DispatcherPaste, DispatcherFail,
                DispatcherUnlock, ReleaseOp, Resources, OpOwners, opVars
  <2>4. pasted' \in SUBSET Turns
    <3>1. CASE DispatcherPaste
      <4>1. dturn # 0
        BY <3>1 DEF DispatcherPaste, Locals, Ticks
      <4>2. dturn \in Turns
        BY <1>0, <4>1, BoundAssumption DEF Turns
      <4> QED BY <3>1, <4>2 DEF DispatcherPaste, Keys, Resources
    <3>2. CASE ~DispatcherPaste
      BY <1>3, <3>2 DEF DispatcherSlot, DispatcherOp, DispatcherFail, DispatcherUnlock, Resources
    <3> QED BY <3>1, <3>2
  <2>5. UNCHANGED <<sysVars, sVars, oVars, closing>> /\ dturn' = dturn
    BY <1>3 DEF DispatcherSlot, DispatcherOp, DispatcherPaste, DispatcherFail, DispatcherUnlock
  <2>6. Resources'
    BY <2>2, <2>3, <2>4, <2>5 DEF Resources, sysVars
  <2>7. dpc \in Ticks /\ dpc' \in Ticks
    BY <1>3 DEF DispatcherSlot, DispatcherOp, DispatcherPaste, DispatcherFail, DispatcherUnlock,
                AfterOp, Ticks
  <2>8. Threads' /\ Locals'
    BY <2>5, <2>7, DispatcherTick
  <2> QED BY <2>1, <2>6, <2>8
<1> QED BY <1>1, <1>2, <1>3

(* The steps of the receiver, of time and of recovery.                      *)
LEMMA ReceiverStep ==
  ASSUME TypeInv, ReceiverNext
  PROVE  TypeInv'
<1> USE DEF TypeInv
<1>0. lease \in 0..MaxTurns /\ 0 \in 0..MaxTurns /\ nt \in 0..MaxTurns
  BY BoundAssumption DEF Resources, TurnTable
<1>1. ASSUME NEW t \in Turns, Admit(t) \/ Resume(t)
      PROVE  TypeInv'
  <2>1. TurnTable' /\ WfTable'
    BY <1>1, AdmitRows, ResumeRows DEF Admit, WfTable, wfVars
  <2>2. lease' \in 0..MaxTurns
    <3>1. t \in 0..MaxTurns
      BY BoundAssumption DEF Turns
    <3>2. CASE Admit(t)
      BY <1>0, <3>1, <3>2 DEF Admit
    <3>3. CASE Resume(t)
      <4>1. nt < MaxTurns
        BY <3>3 DEF Resume
      <4>2. nt + 1 \in 0..MaxTurns
        BY <1>0, <4>1, BoundAssumption
      <4> QED BY <1>0, <3>3, <4>2 DEF Resume
    <3> QED BY <1>1, <3>2, <3>3
  <2>3. UNCHANGED <<opVars, pasted, sysVars, dVars, sVars, oVars, closing>>
    BY <1>1 DEF Admit, Resume
  <2> QED BY <2>1, <2>2, <2>3
          DEF Resources, Threads, Locals, opVars, sysVars, dVars, sVars, oVars
<1>2. ASSUME NEW t \in Turns, NEW s \in {"terminal", "owner_gate"}, ClaimClose(t, s)
      PROVE  TypeInv'
  <2>1. t \in 0..MaxTurns
    BY BoundAssumption DEF Turns
  <2>2. closing' \in [status : {"none", "terminal", "owner_gate"}, by : 0..MaxTurns]
    BY <1>2, <2>1 DEF ClaimClose
  <2> QED BY <1>2, <2>2
          DEF ClaimClose, TurnTable, WfTable, Resources, Threads, Locals,
              turnVars, wfVars, opVars, sysVars, dVars, sVars, oVars
<1>3. CASE CloseWorkflow
  <2>1. TurnTable' /\ WfTable'
    BY <1>3, CloseRows
  <2>2. closing' \in [status : {"none", "terminal", "owner_gate"}, by : 0..MaxTurns]
    <3>1. closing' = NotClosing
      BY <1>3 DEF CloseWorkflow
    <3> QED BY <1>0, <3>1 DEF NotClosing
  <2>3. UNCHANGED <<lease, opVars, pasted, sysVars, dVars, sVars, oVars>>
    BY <1>3 DEF CloseWorkflow
  <2> QED BY <2>1, <2>2, <2>3
          DEF Resources, Threads, Locals, opVars, sysVars, dVars, sVars, oVars
<1> QED BY <1>1, <1>2, <1>3 DEF ReceiverNext

(* Lapsed tokens, requeues by recovery, the gate repair, crash, restart.    *)
LEMMA RecoveryStep ==
  ASSUME TypeInv, RecoveryNext
  PROVE  TypeInv'
<1> USE DEF TypeInv
<1>0. faults \in 0..MaxFaults /\ (Fault => faults' \in 0..MaxFaults)
  BY BoundAssumption DEF Resources, Fault
<1>1. ASSUME NEW t \in Turns, ClaimExpires(t) \/ BecomesDue(t)
      PROVE  TypeInv'
  <2>1. TurnTable'
    BY <1>1, TimeRows
  <2>2. /\ UNCHANGED <<wfVars, lease, opVars, pasted, up, dVars, sVars, oVars, closing>>
        /\ faults' \in 0..MaxFaults
    BY <1>0, <1>1 DEF ClaimExpires, BecomesDue, sysVars
  <2> QED BY <2>1, <2>2
          DEF WfTable, Resources, Threads, Locals, wfVars, opVars, dVars, sVars, oVars
<1>2. CASE OpExpires
  <2>1. /\ UNCHANGED <<wfVars, turnVars, lease, op, pasted, up, dVars, sVars, oVars, closing>>
        /\ faults' \in 0..MaxFaults /\ opLive' = "expired"
    BY <1>0, <1>2 DEF OpExpires
  <2> QED BY <2>1
          DEF TurnTable, WfTable, Resources, Threads, Locals, turnVars, wfVars, dVars, sVars, oVars
<1>3. CASE RequeueExpired \/ Restart
  <2>1. TurnTable'
    BY <1>3, RecoveryRows DEF RequeueExpired, Restart
  <2>2. /\ UNCHANGED <<wfVars, lease, opVars, pasted, faults, dVars, sVars, oVars, closing>>
        /\ up' \in {"up", "down"}
    BY <1>3 DEF RequeueExpired, Restart, Resources, sysVars
  <2> QED BY <2>1, <2>2
          DEF WfTable, Resources, Threads, Locals, wfVars, opVars, dVars, sVars, oVars
<1>4. CASE ReopenGated
  <2>1. TurnTable' /\ WfTable'
    BY <1>4, ReopenRows
  <2>2. UNCHANGED <<lease, opVars, pasted, sysVars, dVars, sVars, oVars, closing>>
    BY <1>4 DEF ReopenGated
  <2> QED BY <2>1, <2>2
          DEF Resources, Threads, Locals, opVars, sysVars, dVars, sVars, oVars
<1>5. CASE Crash
  <2>1. /\ UNCHANGED <<wfVars, turnVars, lease, opLive, pasted, closing>>
        /\ faults' \in 0..MaxFaults /\ up' = "down" /\ op' \in {NoOne, Orphan}
    BY <1>0, <1>5 DEF Crash
  <2>2. TurnTable' /\ WfTable' /\ Resources'
    BY <2>1 DEF TurnTable, WfTable, Resources, turnVars, wfVars
  <2>3. Threads' /\ Locals'
    BY <1>5, BoundAssumption DEF Crash, Threads, Locals, DispatcherSteps, SenderSteps, Ticks
  <2> QED BY <2>2, <2>3
<1> QED BY <1>1, <1>2, <1>3, <1>4, <1>5 DEF RecoveryNext

(* The rows and the threads' positions keep their types, whatever the       *)
(* numbers of threads, rows, claims and faults.                             *)
LEMMA TypeInvInductive == TypeInv /\ [Next]_vars => TypeInv'
<1> SUFFICES ASSUME TypeInv, [Next]_vars PROVE TypeInv'
  OBVIOUS
<1>1. CASE UNCHANGED vars
  BY <1>1 DEF TypeInv, TurnTable, WfTable, Resources, Threads, Locals, vars,
              wfVars, turnVars, opVars, sysVars, dVars, sVars, oVars
<1>2. CASE Next
  BY <1>2, SenderStep, ObserverStep, ObservationStep, DispatchStep, ReceiverStep, RecoveryStep
     DEF Next, DispatcherNext
<1> QED BY <1>1, <1>2

(* Hence the inductive invariant holds in every reachable state.            *)
LEMMA TypeInvAlways == Spec => []TypeInv
BY InitTypeInv, TypeInvInductive, PTL DEF Spec

(* The rows of turns and workflows, the claims and the threads keep their   *)
(* types, whatever prepare, dispatch, receipts, resumes, finals, gates and  *)
(* recoveries interleave, and the circuit breaker bounds the continuations  *)
(* of an open workflow.                                                     *)
THEOREM TypeCorrect == Spec => []TypeOK
BY TypeInvAlways, TypeInvTypeOK, PTL

-----------------------------------------------------------------------------
(* One open workflow, the newest.                                           *)

(* A step that opens at most its newest workflow, and leaves a newer one    *)
(* only beside closed ones, keeps the property.                             *)
LEMMA OpensNewest ==
  ASSUME TypeInv, OneOpenWorkflow,
         \A w \in Workflows : wf'[w].status = "open" => wf[w].status = "open" \/ w = nw',
         nw' = nw \/ ~(nw \in Workflows /\ wf'[nw].status = "open")
  PROVE  OneOpenWorkflow'
<1> SUFFICES ASSUME NEW w \in Workflows, wf'[w].status = "open", w # nw'
             PROVE  FALSE
  BY DEF OneOpenWorkflow, Open
<1>1. wf[w].status = "open" /\ w # 0
  BY BoundAssumption DEF Workflows
<1>2. w = nw
  BY <1>1 DEF OneOpenWorkflow, Open
<1> QED BY <1>2

(* No step opens an older workflow or leaves one open.                      *)
LEMMA OneOpenInductive == TypeInv /\ OneOpenWorkflow /\ [Next]_vars => OneOpenWorkflow'
<1> SUFFICES ASSUME TypeInv, OneOpenWorkflow, [Next]_vars PROVE OneOpenWorkflow'
  OBVIOUS
<1>0. /\ nw \in 0..MaxWorkflows
      /\ wf \in [Workflows -> WorkflowRow]
      /\ \A w \in Workflows : DOMAIN wf[w] = {"status", "active", "noProgress", "gate"}
  BY DEF TypeInv, WfTable, WfRows, WorkflowRow
<1>1. CASE UNCHANGED <<wf, nw>>
  BY <1>1, OpensNewest
<1>2. ASSUME NEW s \in Senders, PrepareInput(s)
      PROVE  OneOpenWorkflow'
  <2> DEFINE fresh == nw = 0 \/ (~Open(nw) /\ GatedSuccessor(nw) = 0)
             w == IF fresh THEN nw + 1 ELSE nw
  <2>1. nw' = w /\ \E r : wf' = [wf EXCEPT ![w] = r]
    BY <1>2 DEF PrepareInput
  <2>2. \A u \in Workflows : u # nw' => wf'[u] = wf[u]
    BY <1>0, <2>1
  <2>3. fresh => nw' = nw + 1 /\ ~(nw \in Workflows /\ wf[nw].status = "open")
    BY <2>1, BoundAssumption DEF Open, Workflows
  <2>4. nw # nw + 1
    BY <1>0, BoundAssumption
  <2>5. nw' = nw \/ ~(nw \in Workflows /\ wf'[nw].status = "open")
    BY <2>1, <2>2, <2>3, <2>4
  <2> QED BY <2>2, <2>5, OpensNewest
<1>3. ASSUME NEW t, RequeueSettled(t)
      PROVE  OneOpenWorkflow'
  <2>1. nw' = nw /\ (wf' = wf \/ wf' = [wf EXCEPT ![nw] = [wf[nw] EXCEPT !.status = "owner_gate",
                                                                     !.gate = "transport"]])
    BY <1>3 DEF RequeueSettled, Requeued, wfVars
  <2>2. \A u \in Workflows : u # nw' => wf'[u] = wf[u]
    BY <1>0, <2>1
  <2> QED BY <2>1, <2>2, OpensNewest
<1>4. CASE ObserveFinal \/ Activate \/ ReopenGated \/ \E t \in Turns : Resume(t)
  <2>1. nw' = nw /\ (wf' = wf \/ \E r : wf' = [wf EXCEPT ![nw] = r])
    <3>1. CASE ObserveFinal
      BY <3>1 DEF ObserveFinal, Final
    <3>2. CASE Activate \/ ReopenGated
      BY <3>2 DEF Activate, ReopenGated
    <3>3. CASE \E t \in Turns : Resume(t)
      BY <3>3 DEF Resume
    <3> QED BY <1>4, <3>1, <3>2, <3>3
  <2>2. \A u \in Workflows : u # nw' => wf'[u] = wf[u]
    BY <1>0, <2>1
  <2> QED BY <2>1, <2>2, OpensNewest
<1>5. CASE RequeueTurn
  <2> DEFINE w == turn[dturn].wf
  <2>1. nw' = nw /\ (wf' = wf \/ (Open(w) /\ \E r : wf' = [wf EXCEPT ![w] = r]))
    BY <1>5 DEF RequeueTurn
  <2>2. \A u \in Workflows : wf'[u] = wf[u] \/ (Open(w) /\ u = w)
    BY <1>0, <2>1
  <2>3. \A u \in Workflows : wf'[u].status = "open" => wf[u].status = "open" \/ u = nw'
    BY <2>2 DEF Open
  <2> QED BY <2>1, <2>3, OpensNewest
<1>6. CASE CloseWorkflow
  <2> DEFINE s == closing.status
             closed == [wf EXCEPT ![nw] = ClosedRow(s)]
  <2>1. s \in {"terminal", "owner_gate"}
    BY <1>6 DEF CloseWorkflow, TypeInv, Resources
  <2>2. nw \in Workflows => ClosedRow(s).status = s
    <3> HIDE DEF s
    <3> QED BY <1>0 DEF ClosedRow, WorkflowRow
  <2>3. /\ \A u \in Workflows : u # nw => closed[u] = wf[u]
        /\ nw \in Workflows => closed[nw].status # "open"
    BY <1>0, <2>1, <2>2
  <2>4. \/ wf' = wf /\ nw' = nw
        \/ wf' = closed /\ nw' = nw
        \/ nw' = nw + 1 /\ \E r : wf' = [closed EXCEPT ![nw + 1] = r]
    BY <1>6 DEF CloseWorkflow, wfVars
  <2>5. nw # nw + 1 /\ closed = [u \in Workflows |-> closed[u]]
    <3>1. nw # nw + 1
      BY <1>0, BoundAssumption
    <3> HIDE DEF s
    <3>2. closed = [u \in Workflows |-> closed[u]]
      BY <1>0
    <3> QED BY <3>1, <3>2
  <2> HIDE DEF closed
  <2>6. CASE wf' = wf /\ nw' = nw
    BY <2>6, OpensNewest
  <2>7. CASE wf' = closed /\ nw' = nw
    BY <2>3, <2>7, OpensNewest
  <2>8. CASE nw' = nw + 1 /\ \E r : wf' = [closed EXCEPT ![nw + 1] = r]
    <3>1. \A u \in Workflows : u # nw' => wf'[u] = closed[u]
      BY <2>5, <2>8
    <3>2. \A u \in Workflows : wf'[u].status = "open" => wf[u].status = "open" \/ u = nw'
      BY <2>3, <3>1
    <3>3. ~(nw \in Workflows /\ wf'[nw].status = "open")
      BY <2>3, <2>5, <2>8, <3>1
    <3> QED BY <3>2, <3>3, OpensNewest
  <2> QED BY <2>4, <2>6, <2>7, <2>8
<1>7. \/ UNCHANGED <<wf, nw>>
      \/ \E s \in Senders : PrepareInput(s)
      \/ \E t : RequeueSettled(t)
      \/ ObserveFinal \/ Activate \/ ReopenGated \/ \E t \in Turns : Resume(t)
      \/ RequeueTurn \/ CloseWorkflow
  <2>1. ASSUME NEW s \in Senders, SenderNext(s) PROVE UNCHANGED <<wf, nw>>
    BY <2>1 DEF SenderNext, SenderSlot, SenderOp, SenderBind, SenderPaste, SenderFail,
                SenderUnlock, SenderRetain, wfVars
  <2>2. ASSUME NEW o \in Observers, ObserverLook(o) \/ ObserverNext(o)
        PROVE  UNCHANGED <<wf, nw>> \/ \E t : RequeueSettled(t)
    BY <2>2 DEF ObserverLook, ObserverNext, ObserverSettle, ObserverBusy, ObserverRequeue, wfVars
  <2>3. ASSUME DispatcherLook \/ DispatcherNext
        PROVE  \/ UNCHANGED <<wf, nw>> \/ \E t : RequeueSettled(t)
               \/ ObserveFinal \/ Activate \/ RequeueTurn
    BY <2>3 DEF DispatcherLook, DispatcherNext, DispatcherBusy, DispatcherSettle,
                DispatcherRequeueSettled, ProviderOutcome, ReadyNotStable, PickTurn, ClaimTurn,
                RenewClaim, DispatcherSlot, DispatcherOp, DispatcherBind, DispatcherPaste,
                DispatcherFail, DispatcherUnlock, MarkSent, wfVars
  <2>4. ASSUME ReceiverNext
        PROVE  UNCHANGED <<wf, nw>> \/ CloseWorkflow \/ \E t \in Turns : Resume(t)
    BY <2>4 DEF ReceiverNext, Admit, ClaimClose, wfVars
  <2>5. ASSUME RecoveryNext PROVE UNCHANGED <<wf, nw>> \/ ReopenGated
    BY <2>5 DEF RecoveryNext, ClaimExpires, BecomesDue, OpExpires, RequeueExpired, Crash,
                Restart, wfVars
  <2>6. CASE UNCHANGED vars
    BY <2>6 DEF vars, wfVars
  <2> QED BY <2>1, <2>2, <2>3, <2>4, <2>5, <2>6 DEF Next
<1> QED BY <1>1, <1>2, <1>3, <1>4, <1>5, <1>6, <1>7

(* However inputs, gates, completions and finals interleave, no older       *)
(* workflow of the terminal is open beside its newest one.                  *)
THEOREM OneOpen == Spec => []OneOpenWorkflow
<1>1. Init => OneOpenWorkflow
  BY DEF Init, OneOpenWorkflow, Open, NoWorkflow
<1> QED BY <1>1, TypeInvAlways, OneOpenInductive, PTL DEF Spec

-----------------------------------------------------------------------------
(* Exclusive use of the pane.                                               *)

(* The inductive strengthening: until a token lapses under its owner or the *)
(* server dies, a thread between the acquisition and the release of the     *)
(* runtime-operation token owns it, and it is live.                         *)
InsideSteps == {"bind", "paste", "failed", "unlock", "pasted"}
Inside(p) == (p \in Senders /\ spc[p] \in InsideSteps) \/ (p = Dispatcher /\ dpc \in InsideSteps)
TokenHeld == faults = 0 => \A p \in OpOwners : Inside(p) => op = p /\ opLive = "live"

(* A thread at the pane is between acquisition and release.                 *)
LEMMA InPaneInside == InPane \subseteq {p \in OpOwners : Inside(p)}
BY DEF InPane, Inside, OpOwners, InsideSteps

(* Only the token's owner can be at the pane.                               *)
LEMMA TokenExclusive == TypeInv /\ TokenHeld => PaneExclusive
<1> SUFFICES ASSUME TypeInv, TokenHeld, faults = 0
             PROVE  Cardinality(InPane) <= 1
  BY DEF PaneExclusive
<1>1. InPane \subseteq {op}
  BY InPaneInside DEF TokenHeld
<1>2. IsFiniteSet({op}) /\ Cardinality({op}) = 1
  BY FS_Singleton
<1>3. Cardinality(InPane) <= Cardinality({op})
  BY <1>1, <1>2, FS_Subset
<1>4. IsFiniteSet(InPane)
  BY <1>1, <1>2, FS_Subset
<1> QED BY <1>2, <1>3, <1>4, FS_CardinalityType

(* A thread that takes the token finds nobody else inside; a thread that    *)
(* releases it leaves; any other step keeps the token and enters nowhere.   *)
LEMMA TokenTaken ==
  ASSUME TypeInv, TokenHeld, NEW p \in OpOwners, ~OpHeld, op' = p, opLive' = "live",
         faults' = faults, \A q \in OpOwners : Inside(q)' => Inside(q) \/ q = p
  PROVE  TokenHeld'
<1> SUFFICES ASSUME faults = 0, NEW q \in OpOwners, Inside(q)', q # p PROVE FALSE
  BY DEF TokenHeld
<1>1. op = q /\ opLive = "live"
  BY DEF TokenHeld
<1>2. q # NoOne
  BY ThreadAssumption DEF OpOwners
<1> QED BY <1>1, <1>2 DEF OpHeld

(* The owner leaves and gives the token back.                               *)
LEMMA TokenReleased ==
  ASSUME TypeInv, TokenHeld, NEW p \in OpOwners, ReleaseOp(p), faults' = faults,
         \A q \in OpOwners : Inside(q)' => Inside(q) /\ q # p
  PROVE  TokenHeld'
BY DEF TokenHeld, ReleaseOp, opVars

(* A step that leaves the token alone lets nobody in.                       *)
LEMMA TokenKept ==
  ASSUME TypeInv, TokenHeld, faults' = faults, UNCHANGED opVars,
         \A q \in OpOwners : Inside(q)' => Inside(q)
  PROVE  TokenHeld'
BY DEF TokenHeld, opVars

(* The strengthening survives every step.                                   *)
LEMMA TokenInductive == TypeInv /\ TokenHeld /\ [Next]_vars => TokenHeld'
<1> SUFFICES ASSUME TypeInv, TokenHeld, [Next]_vars PROVE TokenHeld'
  OBVIOUS
<1>0. /\ Dispatcher \notin Senders /\ faults \in Nat
      /\ spc \in [Senders -> SenderSteps]
  BY ThreadAssumption, BoundAssumption DEF TypeInv, Resources, Threads
<1>1. ASSUME NEW s \in Senders, PrepareInput(s) \/ SenderNext(s)
      PROVE  TokenHeld'
  <2>1. dpc' = dpc /\ faults' = faults /\ s \in OpOwners
    BY <1>1 DEF PrepareInput, SenderNext, SenderSlot, SenderOp, SenderBind, SenderPaste,
                SenderFail, SenderUnlock, SenderRetain, dVars, sysVars, OpOwners
  <2>2. \A q \in Senders : q # s => spc'[q] = spc[q]
    BY <1>0, <1>1 DEF PrepareInput, SenderNext, SenderSlot, SenderOp, SenderBind, SenderPaste,
                SenderFail, SenderUnlock, SenderRetain, SenderAt
  <2>3. \A q \in OpOwners : q # s => (Inside(q)' <=> Inside(q))
    BY <2>1, <2>2 DEF Inside
  <2>4. CASE SenderOp(s) /\ ~OpHeld
    BY <2>1, <2>3, <2>4, TokenTaken DEF SenderOp
  <2>5. CASE SenderUnlock(s)
    <3>1. ReleaseOp(s) /\ spc'[s] \in {"retain", "idle"}
      BY <1>0, <2>5 DEF SenderUnlock, SenderAt
    <3>2. ~Inside(s)'
      BY <1>0, <3>1 DEF Inside, InsideSteps
    <3> QED BY <2>1, <2>3, <3>1, <3>2, TokenReleased
  <2>6. CASE ~(SenderOp(s) /\ ~OpHeld) /\ ~SenderUnlock(s)
    <3>1. UNCHANGED opVars
      BY <1>1, <2>6 DEF PrepareInput, SenderNext, SenderSlot, SenderOp, SenderBind, SenderPaste,
                SenderFail, SenderRetain
    <3>2. spc'[s] \in InsideSteps => spc[s] \in InsideSteps
      BY <1>0, <1>1, <2>6 DEF PrepareInput, SenderNext, SenderSlot, SenderOp, SenderBind,
                SenderPaste, SenderFail, SenderRetain, SenderAt, InsideSteps
    <3>3. Inside(s)' => Inside(s)
      BY <1>0, <3>2 DEF Inside
    <3> QED BY <2>1, <2>3, <3>1, <3>3, TokenKept
  <2> QED BY <2>4, <2>5, <2>6
<1>2. CASE DispatcherLook \/ DispatcherNext
  <2>1. spc' = spc /\ faults' = faults /\ Dispatcher \in OpOwners
    BY <1>2 DEF DispatcherLook, DispatcherNext, DispatcherBusy, DispatcherSettle,
                DispatcherRequeueSettled, ProviderOutcome, ObserveFinal, ReadyNotStable, PickTurn,
                ClaimTurn, RenewClaim, Activate, DispatcherSlot, DispatcherOp, DispatcherBind,
                DispatcherPaste, DispatcherFail, DispatcherUnlock, MarkSent, RequeueTurn,
                sVars, sysVars, OpOwners
  <2>2. \A q \in OpOwners : q # Dispatcher => (Inside(q)' <=> Inside(q))
    BY <2>1 DEF Inside
  <2>3. CASE DispatcherOp /\ ~OpHeld
    BY <2>1, <2>2, <2>3, TokenTaken DEF DispatcherOp
  <2>4. CASE DispatcherUnlock
    <3>1. ReleaseOp(Dispatcher) /\ dpc' \in {"requeue", "mark"}
      BY <2>4 DEF DispatcherUnlock
    <3>2. ~Inside(Dispatcher)'
      BY <1>0, <3>1 DEF Inside, InsideSteps
    <3> QED BY <2>1, <2>2, <3>1, <3>2, TokenReleased
  <2>5. CASE ~(DispatcherOp /\ ~OpHeld) /\ ~DispatcherUnlock
    <3>1. UNCHANGED opVars
      BY <1>2, <2>5 DEF DispatcherLook, DispatcherNext, DispatcherBusy, DispatcherSettle,
                DispatcherRequeueSettled, ProviderOutcome, ObserveFinal, ReadyNotStable, PickTurn,
                ClaimTurn, RenewClaim, Activate, DispatcherSlot, DispatcherOp, DispatcherBind,
                DispatcherPaste, DispatcherFail, MarkSent, RequeueTurn
    <3>2. dpc' \in InsideSteps => dpc \in InsideSteps
      BY <1>2, <2>5 DEF DispatcherLook, DispatcherNext, DispatcherBusy, DispatcherSettle,
                DispatcherRequeueSettled, ProviderOutcome, ObserveFinal, ReadyNotStable, PickTurn,
                ClaimTurn, RenewClaim, Activate, DispatcherSlot, DispatcherOp, DispatcherBind,
                DispatcherPaste, DispatcherFail, MarkSent, RequeueTurn, DispatcherAt, InsideSteps
    <3>3. Inside(Dispatcher)' => Inside(Dispatcher)
      BY <1>0, <3>2 DEF Inside
    <3> QED BY <2>1, <2>2, <3>1, <3>3, TokenKept
  <2> QED BY <2>3, <2>4, <2>5
<1>3. CASE OpExpires
  <2>1. CASE op = Orphan
    <3>1. \A q \in OpOwners : q # Orphan
      BY ThreadAssumption DEF OpOwners
    <3>2. faults' = faults /\ spc' = spc /\ dpc' = dpc
      BY <1>3, <2>1 DEF OpExpires, sVars, dVars
    <3> QED BY <2>1, <3>1, <3>2 DEF TokenHeld, Inside
  <2>2. CASE op # Orphan
    <3>1. faults' # 0
      BY <1>0, <1>3, <2>2 DEF OpExpires, Fault
    <3> QED BY <3>1 DEF TokenHeld
  <2> QED BY <2>1, <2>2
<1>4. CASE Crash
  <2>1. faults' # 0
    BY <1>0, <1>4 DEF Crash, Fault
  <2> QED BY <2>1 DEF TokenHeld
<1>5. CASE /\ UNCHANGED <<opVars, spc, dpc>>
           /\ faults' = faults \/ faults' # 0
  <2>1. \A q \in OpOwners : Inside(q)' => Inside(q)
    BY <1>5 DEF Inside
  <2>2. CASE faults' = faults
    BY <1>5, <2>1, <2>2, TokenKept
  <2>3. CASE faults' # 0
    BY <2>3 DEF TokenHeld
  <2> QED BY <1>5, <2>2, <2>3
<1>6. \/ \E s \in Senders : PrepareInput(s) \/ SenderNext(s)
      \/ DispatcherLook \/ DispatcherNext \/ OpExpires \/ Crash
      \/ /\ UNCHANGED <<opVars, spc, dpc>>
         /\ faults' = faults \/ faults' # 0
  <2>1. ASSUME NEW o \in Observers, ObserverLook(o) \/ ObserverNext(o)
        PROVE  UNCHANGED <<opVars, spc, dpc>> /\ faults' = faults
    BY <2>1 DEF ObserverLook, ObserverNext, ObserverSettle, ObserverBusy, ObserverRequeue,
                sVars, dVars, sysVars
  <2>2. ASSUME ReceiverNext
        PROVE  UNCHANGED <<opVars, spc, dpc>> /\ faults' = faults
    BY <2>2 DEF ReceiverNext, Admit, Resume, ClaimClose, CloseWorkflow, sVars, dVars, sysVars
  <2>3. ASSUME RecoveryNext, ~OpExpires, ~Crash
        PROVE  UNCHANGED <<opVars, spc, dpc>> /\ (faults' = faults \/ faults' # 0)
    <3>1. Fault => faults' # 0
      BY <1>0 DEF Fault
    <3>2. ASSUME NEW t \in Turns, ClaimExpires(t) \/ BecomesDue(t)
          PROVE  UNCHANGED <<opVars, spc, dpc>> /\ (faults' = faults \/ Fault)
      BY <3>2 DEF ClaimExpires, BecomesDue, sVars, dVars, sysVars
    <3>3. ASSUME RequeueExpired \/ ReopenGated \/ Restart
          PROVE  UNCHANGED <<opVars, spc, dpc>> /\ faults' = faults
      BY <3>3 DEF RequeueExpired, ReopenGated, Restart, sVars, dVars, sysVars
    <3> QED BY <2>3, <3>1, <3>2, <3>3 DEF RecoveryNext
  <2>4. CASE UNCHANGED vars
    BY <2>4 DEF vars, sVars, dVars, sysVars
  <2> QED BY <2>1, <2>2, <2>3, <2>4 DEF Next
<1> QED BY <1>1, <1>2, <1>3, <1>4, <1>5, <1>6

(* Without a stalled thread or a crash, senders and dispatcher are never in *)
(* the pane together, whatever their number.                                *)
THEOREM PaneSafe == Spec => []PaneExclusive
<1>1. Init => TokenHeld
  BY DEF Init, TokenHeld, Inside, InsideSteps
<1> QED BY <1>1, TypeInvAlways, TokenInductive, TokenExclusive, PTL DEF Spec

-----------------------------------------------------------------------------
(* What a step may do to the history of the turns.                          *)

Over == {"finished", "cancelled"}

(* From row p to row q, as every step changes a row that exists: its kind   *)
(* and parent are fixed, a receipt stays, what is over stays over; only a   *)
(* completion moves a row, an untouched input, to another workflow; a turn  *)
(* becomes pending again only in an open workflow; and an unread input is   *)
(* cancelled only by a gate or after its last attempt.                      *)
Kept(p, q) ==
    /\ q.kind = p.kind /\ q.parent = p.parent
    /\ p.receipt # "none" => q.receipt # "none"
    /\ p.state \in Over => q.state = p.state
    /\ p.state = "none" => q.state = "none"
    /\ \/ q.wf = p.wf
       \/ /\ p.kind = "external_input" /\ p.receipt = "none"
          /\ p.state = "queued" /\ q.state = "queued" /\ q.wf = nw' /\ wf'[nw'].status = "open"
    /\ q.claim = "live" => p.claim = "live" \/ dpc = "picked"
    /\ q.state \in Pending => p.state \in Pending \/ Open(p.wf)
    /\ /\ p.kind = "external_input" /\ p.receipt = "none"
       /\ p.state # "cancelled" /\ q.state = "cancelled"
       => \/ wf'[p.wf].status = "owner_gate"
          \/ p.attempts >= MaxAttempts
Untold(p, q) == q.cursor = "outcome" => p.cursor = "outcome"
Edit(p, q) == Kept(p, q) /\ Untold(p, q)

(* The three kinds of step: rows are edited; one is added; or the active    *)
(* turn a gets a policy outcome and its continuations are cancelled.        *)
Edited == nt' = nt /\ \A t \in Turns : Edit(turn[t], turn'[t])
Continues(p) == /\ p \in 1..nt /\ turn[p].state = "sent" /\ turn[p].receipt # "none"
                /\ turn'[p].state = "finished" /\ turn[p].wf = nw /\ nw' = nw
Birth(n) == /\ n.cursor = "none" /\ n.claim = "none" /\ n.state \in {"queued", "sent"}
            /\ n.wf = nw' /\ nw' # 0 /\ wf'[nw'].status = "open"
            /\ n.kind = "open_final" => Continues(n.parent)
Grown == /\ nt' = nt + 1 /\ nt + 1 \in Turns
         /\ \A t \in Turns : t # nt + 1 => Edit(turn[t], turn'[t])
         /\ Birth(turn'[nt + 1])
Judged(a) ==
    /\ nt' = nt /\ a \in Turns /\ turn[a].wf = nw /\ turn'[a].state = "finished"
    /\ \A t \in Turns : Kept(turn[t], turn'[t]) /\ (t # a => Untold(turn[t], turn'[t]))
    /\ \A u \in Turns : turn[u].wf = nw /\ turn[u].kind = "open_final" /\ turn[u].parent = a
                           => turn'[u].state = "cancelled"

(* A row that is not written is kept.                                      *)
LEMMA SameRow ==
  ASSUME NEW p
  PROVE  Edit(p, p)
BY DEF Edit, Kept, Untold

(* A step that writes no turn edits the table trivially.                   *)
LEMMA EditsNone ==
  ASSUME turn' = turn, nt' = nt
  PROVE  Edited
BY SameRow DEF Edited

(* A step that edits one row.                                              *)
LEMMA EditsOne ==
  ASSUME TypeInv, NEW t, NEW r, turn' = [turn EXCEPT ![t] = r], nt' = nt,
         t \in Turns => Edit(turn[t], r)
  PROVE  Edited
<1>1. \A u \in Turns : u # t => turn'[u] = turn[u]
  BY DEF TypeInv, TurnTable, Rows
<1>2. t \in Turns => turn'[t] = r
  BY DEF TypeInv, TurnTable, Rows
<1> QED BY <1>1, <1>2, SameRow DEF Edited

(* The active turn of the open workflow is a row.                           *)
LEMMA ActiveIsTurn ==
  ASSUME TypeInv, Open(nw)
  PROVE  /\ nw \in Workflows
         /\ wf[nw].active # 0 => wf[nw].active \in Turns
<1>1. nw \in Workflows
  BY BoundAssumption DEF TypeInv, WfTable, Open, Workflows
<1>2. wf[nw].active \in 0..MaxTurns
  BY <1>1 DEF TypeInv, WfTable, WfRows, WfRowOK, WorkflowRow
<1> QED BY <1>1, <1>2, BoundAssumption DEF Turns

(* The types of the rows, from the inductive type invariant.               *)
LEMMA RowTypes ==
  ASSUME TypeInv
  PROVE  /\ \A t \in Turns : turn[t] \in TurnRow /\ RowOK(turn[t])
         /\ \A w \in Workflows : wf[w] \in WorkflowRow
         /\ nt \in 0..MaxTurns /\ nw \in 0..MaxWorkflows
BY DEF TypeInv, TurnTable, WfTable, Rows, WfRows

(* Binding the outcome cursor never makes it an outcome.                   *)
LEMMA BindEdits ==
  ASSUME TypeInv, NEW t, NEW bound, BindCursor(t, bound), nt' = nt
  PROVE  Edited
<1> DEFINE r == [turn[t] EXCEPT !.cursor = "bound"]
<1>1. turn' = [turn EXCEPT ![t] = r] \/ turn' = turn
  BY DEF BindCursor
<1>2. t \in Turns => Edit(turn[t], r)
  BY RowTypes DEF Edit, Kept, Untold, TurnRow
<1> HIDE DEF r
<1> QED BY <1>1, <1>2, EditsOne, EditsNone

(* A settled turn goes back to the queue of its open workflow, or is       *)
(* cancelled after its last attempt.                                       *)
LEMMA RequeueSettledEdits ==
  ASSUME TypeInv, NEW t, RequeueSettled(t)
  PROVE  Edited
<1>1. CASE ~Requeueable(t)
  BY <1>1, EditsNone DEF RequeueSettled, turnVars
<1>2. CASE Requeueable(t) /\ turn[t].attempts >= MaxAttempts
  <2> DEFINE r == [turn[t] EXCEPT !.state = "cancelled", !.claim = "none", !.reason = "none"]
  <2>1. turn' = [turn EXCEPT ![t] = r] /\ nt' = nt
    BY <1>2 DEF RequeueSettled, Requeued
  <2>2. t \in Turns => Edit(turn[t], r)
    BY <1>2, RowTypes DEF Requeueable, Edit, Kept, Untold, TurnRow, Over, Pending
  <2> HIDE DEF r
  <2> QED BY <2>1, <2>2, EditsOne
<1>3. CASE Requeueable(t) /\ ~(turn[t].attempts >= MaxAttempts)
  <2> DEFINE r == [turn[t] EXCEPT !.state = "queued", !.claim = "none", !.reason = "settled",
                                  !.cursor = "none", !.due = "now"]
  <2>1. turn' = [turn EXCEPT ![t] = r] /\ nt' = nt
    BY <1>3 DEF RequeueSettled, Requeued
  <2>2. t \in Turns => Edit(turn[t], r)
    BY <1>3, RowTypes DEF Requeueable, IsActive, Edit, Kept, Untold, TurnRow, Over, Pending
  <2> HIDE DEF r
  <2> QED BY <2>1, <2>2, EditsOne
<1> QED BY <1>1, <1>2, <1>3

(* A sender puts back only a turn of the open workflow.                    *)
LEMMA RetainEdits ==
  ASSUME TypeInv, NEW s \in Senders, SenderRetain(s)
  PROVE  Edited
<1> DEFINE t == sturn[s]
           r == [turn[t] EXCEPT !.state = "queued", !.reason = "none",
                                !.claim = "none", !.cursor = "none"]
<1>1. nt' = nt
  BY DEF SenderRetain
<1>2. CASE IsActive(t) /\ turn[t].state = "sent"
  <2>1. turn' = [turn EXCEPT ![t] = r]
    BY <1>2 DEF SenderRetain
  <2>2. t \in Turns => Edit(turn[t], r)
    BY <1>2, RowTypes DEF IsActive, Edit, Kept, Untold, TurnRow, Over, Pending
  <2> HIDE DEF r, t
  <2> QED BY <1>1, <2>1, <2>2, EditsOne
<1>3. CASE ~(IsActive(t) /\ turn[t].state = "sent")
  BY <1>1, <1>3, EditsNone DEF SenderRetain
<1> QED BY <1>2, <1>3

(* A claim makes a queued turn pending in another way.                     *)
LEMMA ClaimEdits ==
  ASSUME TypeInv, ClaimTurn
  PROVE  Edited
<1> DEFINE r == [turn[dturn] EXCEPT !.state = "claimed", !.claim = "live", !.attempts = @ + 1]
<1>1. nt' = nt /\ dpc = "picked"
  BY DEF ClaimTurn
<1>2. CASE turn[dturn].state = "queued"
  <2>1. turn' = [turn EXCEPT ![dturn] = r]
    BY <1>2 DEF ClaimTurn
  <2>2. dturn \in Turns => Edit(turn[dturn], r)
    BY <1>1, <1>2, RowTypes DEF Edit, Kept, Untold, TurnRow, Over, Pending
  <2> HIDE DEF r
  <2> QED BY <1>1, <2>1, <2>2, EditsOne
<1>3. CASE turn[dturn].state # "queued"
  BY <1>1, <1>3, EditsNone DEF ClaimTurn
<1> QED BY <1>2, <1>3

(* Marking a claimed turn as sent.                                         *)
LEMMA SentEdits ==
  ASSUME TypeInv, MarkSent
  PROVE  Edited
<1> DEFINE r == [turn[dturn] EXCEPT !.state = "sent", !.reason = "none", !.claim = "none"]
<1>1. nt' = nt
  BY DEF MarkSent
<1>2. CASE MaySend(dturn)
  <2>1. turn' = [turn EXCEPT ![dturn] = r]
    BY <1>2 DEF MarkSent
  <2>2. dturn \in Turns => Edit(turn[dturn], r)
    BY <1>2, RowTypes DEF MaySend, ClaimMatches, Edit, Kept, Untold, TurnRow, Over, Pending
  <2> HIDE DEF r
  <2> QED BY <1>1, <2>1, <2>2, EditsOne
<1>3. CASE ~MaySend(dturn)
  BY <1>1, <1>3, EditsNone DEF MarkSent
<1> QED BY <1>2, <1>3

(* An admission records the receipt, and repairs an early requeue.         *)
LEMMA AdmitEdits ==
  ASSUME TypeInv, NEW t \in Turns, Admit(t)
  PROVE  Edited
<1> DEFINE q == [turn[t] EXCEPT !.receipt = "consumed", !.state = "sent",
                                !.reason = "none", !.claim = "none"]
           r == [turn[t] EXCEPT !.receipt = "consumed"]
<1>1. nt' = nt
  BY DEF Admit
<1>2. CASE SettledBeforeReceipt(t)
  <2>1. turn' = [turn EXCEPT ![t] = q]
    BY <1>2 DEF Admit
  <2>2. Edit(turn[t], q)
    BY <1>2, RowTypes DEF SettledBeforeReceipt, Edit, Kept, Untold, TurnRow, Over, Pending
  <2> HIDE DEF q
  <2> QED BY <1>1, <2>1, <2>2, EditsOne
<1>3. CASE ~SettledBeforeReceipt(t)
  <2>1. turn' = [turn EXCEPT ![t] = r]
    BY <1>3 DEF Admit
  <2>2. Edit(turn[t], r)
    BY RowTypes DEF Edit, Kept, Untold, TurnRow
  <2> HIDE DEF r
  <2> QED BY <1>1, <2>1, <2>2, EditsOne
<1> QED BY <1>2, <1>3

(* Time touches claims and back-offs only.                                 *)
LEMMA TimeEdits ==
  ASSUME TypeInv, NEW t \in Turns, ClaimExpires(t) \/ BecomesDue(t)
  PROVE  Edited
<1> DEFINE q == [turn[t] EXCEPT !.claim = "expired"]
           r == [turn[t] EXCEPT !.due = "now"]
<1>1. nt' = nt /\ (turn' = [turn EXCEPT ![t] = q] \/ turn' = [turn EXCEPT ![t] = r])
  BY DEF ClaimExpires, BecomesDue
<1>2. Edit(turn[t], q) /\ Edit(turn[t], r)
  <2>1. Edit(turn[t], q)
    BY RowTypes DEF Edit, Kept, Untold, TurnRow
  <2>2. Edit(turn[t], r)
    BY RowTypes DEF Edit, Kept, Untold, TurnRow
  <2> QED BY <2>1, <2>2
<1> HIDE DEF q, r
<1> QED BY <1>1, <1>2, EditsOne

(* The recoveries put back turns that are claimed, or sent in an open      *)
(* workflow.                                                               *)
LEMMA RecoveryEdits ==
  ASSUME TypeInv, NEW S, nt' = nt,
         \A u \in Turns : u \in S => turn[u].state = "claimed" \/ (turn[u].state = "sent" /\ Open(turn[u].wf)),
         turn' = [u \in Turns |-> IF u \in S
                                  THEN [turn[u] EXCEPT !.state = "queued", !.claim = "none",
                                                       !.cursor = "none"]
                                  ELSE turn[u]]
  PROVE  Edited
<1> SUFFICES ASSUME NEW u \in Turns PROVE Edit(turn[u], turn'[u])
  BY DEF Edited
<1>1. CASE u \in S
  <2> DEFINE r == [turn[u] EXCEPT !.state = "queued", !.claim = "none", !.cursor = "none"]
  <2>1. turn'[u] = r
    BY <1>1
  <2>2. Edit(turn[u], r)
    BY <1>1, RowTypes DEF Edit, Kept, Untold, TurnRow, Over, Pending
  <2> QED BY <2>1, <2>2
<1>2. CASE u \notin S
  BY <1>2, SameRow
<1> QED BY <1>1, <1>2

(* The gate repair makes the promoted input due.                           *)
LEMMA ReopenEdits ==
  ASSUME TypeInv, ReopenGated
  PROVE  Edited
<1> DEFINE t == GatedSuccessor(nw)
           r == [turn[t] EXCEPT !.reason = "none", !.due = "now"]
<1>1. nt' = nt /\ turn' = [turn EXCEPT ![t] = r]
  BY DEF ReopenGated
<1>2. t \in Turns => Edit(turn[t], r)
  <2> HIDE DEF t
  <2> QED BY RowTypes DEF Edit, Kept, Untold, TurnRow
<1> HIDE DEF t, r
<1> QED BY <1>1, <1>2, EditsOne

(* Cancelling pending turns keeps every row, provided that the unread      *)
(* inputs among them are dropped by a gate.                                *)
LEMMA CancelEdit ==
  ASSUME TypeInv, NEW S, NEW u \in Turns,
         u \in S => /\ turn[u].state \in Pending
                    /\ \/ turn[u].kind # "external_input"
                       \/ turn[u].receipt # "none"
                       \/ wf'[turn[u].wf].status = "owner_gate"
  PROVE  /\ Edit(turn[u], Cancel(S)[u])
         /\ u \in S => Cancel(S)[u].state = "cancelled"
<1>1. CASE u \in S
  <2> DEFINE r == [turn[u] EXCEPT !.state = "cancelled", !.claim = "none"]
  <2>1. Cancel(S)[u] = r
    BY <1>1 DEF Cancel
  <2>2. Edit(turn[u], r) /\ r.state = "cancelled"
    BY <1>1, RowTypes DEF Edit, Kept, Untold, TurnRow, Over, Pending
  <2> QED BY <2>1, <2>2
<1>2. CASE u \notin S
  BY <1>2, SameRow DEF Cancel
<1> QED BY <1>1, <1>2

(* The dispatcher gives its claim up: it retries, or drops its turn after  *)
(* the last attempt and makes the promoted input due.                      *)
LEMMA RequeueTurnEdits ==
  ASSUME TypeInv, RequeueTurn
  PROVE  Edited
<1> DEFINE t == dturn
           w == turn[t].wf
           successor == Least(QueuedInputsAfter(w, t))
           exhausted == dpc = "requeue" /\ turn[t].attempts >= MaxAttempts
           n == IF dpc = "deferred" /\ turn[t].attempts > 0
                THEN turn[t].attempts - 1 ELSE turn[t].attempts
           back == [turn[t] EXCEPT !.state = "queued", !.reason = "none", !.claim = "none",
                                   !.cursor = "none", !.due = "later", !.attempts = n]
           drop == [turn[t] EXCEPT !.state = "cancelled", !.reason = "none", !.claim = "none"]
           dropped == [turn EXCEPT ![t] = drop]
           next == [turn[successor] EXCEPT !.reason = "none", !.due = "now"]
<1>1. nt' = nt
  BY DEF RequeueTurn
<1>2. t \in Turns
  <2>1. dpc \in Ticks
    BY DEF RequeueTurn, Ticks
  <2> QED BY <2>1, BoundAssumption DEF TypeInv, Threads, Locals, Turns
<1>3. turn[t] \in TurnRow
  BY <1>2, RowTypes
<1>4. CASE ~(ClaimMatches(t) /\ Open(w))
  BY <1>1, <1>4, EditsNone DEF RequeueTurn
<1>5. CASE ClaimMatches(t) /\ Open(w) /\ ~exhausted
  <2>1. turn' = [turn EXCEPT ![t].state = "queued", ![t].reason = "none", ![t].claim = "none",
                         ![t].cursor = "none", ![t].due = "later",
                         ![t].attempts = IF dpc = "deferred" /\ @ > 0 THEN @ - 1 ELSE @]
    BY <1>5 DEF RequeueTurn
  <2>2. turn' = [turn EXCEPT ![t] = back]
    BY <1>3, <2>1 DEF TurnRow
  <2>3. Edit(turn[t], back)
    <3> HIDE DEF n
    <3> QED BY <1>3, <1>5 DEF ClaimMatches, Edit, Kept, Untold, TurnRow, Over, Pending
  <2> HIDE DEF back
  <2> QED BY <1>1, <2>2, <2>3, EditsOne
<1>6. Edit(turn[t], drop) \/ ~(ClaimMatches(t) /\ exhausted)
  BY <1>3 DEF ClaimMatches, Edit, Kept, Untold, TurnRow, Over, Pending
<1>7. CASE ClaimMatches(t) /\ Open(w) /\ exhausted /\ successor = 0
  <2>1. turn' = [turn EXCEPT ![t].state = "cancelled", ![t].reason = "none",
                             ![t].claim = "none"]
    BY <1>7 DEF RequeueTurn
  <2>2. turn' = dropped
    BY <2>1
  <2> HIDE DEF drop
  <2> QED BY <1>1, <1>6, <1>7, <2>2, EditsOne
<1>8. CASE ClaimMatches(t) /\ Open(w) /\ exhausted /\ successor # 0
  <2>1. turn' = [dropped EXCEPT ![successor].reason = "none", ![successor].due = "now"]
    BY <1>8 DEF RequeueTurn
  <2>2. successor \in QueuedInputsAfter(w, t)
    BY <1>8, QueuedInputsAreTurns, LeastOfTurns
  <2>3. successor \in Turns /\ successor # t
    <3>1. successor \in Turns /\ successor > t
      BY <2>2 DEF QueuedInputsAfter, WithState, InWorkflow
    <3> HIDE DEF successor
    <3> QED BY <1>2, <3>1, BoundAssumption DEF Turns
  <2>4. turn[successor] \in TurnRow
    BY <2>3, RowTypes
  <2>5. Edit(turn[successor], next)
    <3> HIDE DEF successor
    <3> QED BY <2>4 DEF Edit, Kept, Untold, TurnRow
  <2> HIDE DEF drop, successor
  <2>6. dropped[successor] = turn[successor]
    BY <2>3 DEF TypeInv, TurnTable, Rows
  <2>7. turn' = [dropped EXCEPT ![successor] = next]
    BY <2>1, <2>6
  <2>8. turn'[t] = drop /\ turn'[successor] = next
        /\ \A u \in Turns : u # t /\ u # successor => turn'[u] = turn[u]
    <3> HIDE DEF next
    <3> QED BY <1>2, <2>3, <2>7 DEF TypeInv, TurnTable, Rows
  <2> HIDE DEF next, dropped
  <2> QED BY <1>1, <1>6, <1>8, <2>5, <2>8, SameRow DEF Edited
<1> QED BY <1>4, <1>5, <1>7, <1>8

(* A final finishes the active turn and adds its continuation; the breaker *)
(* only cancels, under the gate it sets.                                   *)
LEMMA FinalEdits ==
  ASSUME TypeInv, ObserveFinal, wf[nw].active <= nt \/ ~Open(nw)
  PROVE  Edited \/ Grown
<1> DEFINE a == wf[nw].active
<1>1. CASE ~MayFinish(a)
  BY <1>1, EditsNone DEF ObserveFinal, turnVars
<1>2. CASE MayFinish(a)
  <2>1. Final(a) /\ nw' = nw
    BY <1>2 DEF ObserveFinal
  <2>2. Open(nw) /\ a # 0 /\ turn[a].state = "sent" /\ turn[a].receipt # "none" /\ turn[a].wf = nw
    BY <1>2 DEF MayFinish, IsActive
  <2>3. nw \in Workflows /\ a \in Turns /\ wf[nw].status = "open" /\ a <= nt
    BY <2>2, ActiveIsTurn DEF Open
  <2>4. turn[a] \in TurnRow /\ nt \in 0..MaxTurns /\ wf[nw] \in WorkflowRow /\ wf \in [Workflows -> WorkflowRow]
    BY <2>3, RowTypes DEF TypeInv, WfTable, WfRows
  <2> DEFINE r == [turn[a] EXCEPT !.state = "finished"]
  <2>5. Edit(turn[a], r) /\ r.state = "finished"
    <3> HIDE DEF a
    <3> QED BY <2>2, <2>4 DEF Edit, Kept, Untold, TurnRow, Over, Pending
  <2>6. CASE BreakerTrips
    <3> DEFINE f == Cancel(WithState(nw, Pending))
    <3>1. /\ nt' = nt
          /\ turn' = [f EXCEPT ![a].state = "finished"]
          /\ wf'[nw].status = "owner_gate"
      BY <2>1, <2>3, <2>4, <2>6 DEF Final, WorkflowRow
    <3>2. f[a] = turn[a]
      BY <2>2, <2>3 DEF Cancel, WithState, Pending
    <3>3. turn' = [f EXCEPT ![a] = r]
      BY <3>1, <3>2
    <3>4. \A u \in Turns : Edit(turn[u], f[u])
      BY <3>1, CancelEdit DEF WithState, InWorkflow
    <3>5. f = [u \in Turns |-> f[u]]
      BY DEF Cancel
    <3> HIDE DEF f, r, a
    <3>6. turn'[a] = r /\ \A u \in Turns : u # a => turn'[u] = f[u]
      BY <2>3, <3>3, <3>5
    <3> QED BY <2>5, <3>1, <3>4, <3>6 DEF Edited
  <2>7. CASE ~BreakerTrips
    <3> DEFINE new == OpenFinal(a)
    <3>1. /\ nt < MaxTurns /\ nt' = nt + 1
          /\ turn' = [turn EXCEPT ![a] = r, ![nt + 1] = new]
          /\ wf'[nw].status = "open"
      BY <2>1, <2>3, <2>4, <2>7 DEF Final, WorkflowRow
    <3>2. nt + 1 \in Turns /\ a # nt + 1 /\ a \in 1..nt
      <4> HIDE DEF a
      <4> QED BY <2>3, <2>4, <3>1, BoundAssumption DEF Turns
    <3>3. /\ new.cursor = "none" /\ new.claim = "none" /\ new.state = "queued"
          /\ new.wf = nw /\ new.parent = a
      <4> HIDE DEF a
      <4> QED BY DEF OpenFinal, NewTurn
    <3> HIDE DEF r, new, a
    <3>4. turn'[a] = r /\ turn'[nt + 1] = new
          /\ \A u \in Turns : u # a /\ u # nt + 1 => turn'[u] = turn[u]
      BY <2>3, <3>1, <3>2 DEF TypeInv, TurnTable, Rows
    <3>5. Birth(turn'[nt + 1])
      BY <2>1, <2>2, <2>3, <2>5, <3>1, <3>2, <3>3, <3>4 DEF Birth, Continues, Workflows
    <3>6. \A t \in Turns : t # nt + 1 => Edit(turn[t], turn'[t])
      BY <2>5, <3>4, SameRow
    <3> QED BY <3>1, <3>2, <3>5, <3>6 DEF Grown
  <2> QED BY <2>6, <2>7
<1> QED BY <1>1, <1>2

(* Bindings name rows that exist; beyond the newest workflow there is       *)
(* nothing; and no turn is older than the first workflow.                   *)
Known == /\ \A w \in Workflows : wf[w].active <= nt
         /\ \A w \in Workflows : w > nw => wf[w].active = 0 /\ wf[w].gate # "explicit"
         /\ \A t \in Turns : turn[t].wf <= nw
         /\ nw = 0 => \A t \in Turns : turn[t].state = "none"

(* A close cancels what is pending: a completion carries the untouched     *)
(* inputs instead and is refused while one is claimed.                     *)
LEMMA CloseEdits ==
  ASSUME TypeInv, Known, CloseWorkflow
  PROVE  Edited
<1> DEFINE s == closing.status
           carried == Carried(s)
           closed == [wf EXCEPT ![nw] = ClosedRow(s)]
           cancelled == Cancel(Doomed(s))
<1>1. s \in {"terminal", "owner_gate"} /\ nt' = nt
  BY DEF CloseWorkflow, TypeInv, Resources
<1>2. CASE Refused(s)
  BY <1>1, <1>2, EditsNone DEF CloseWorkflow
<1>3. ASSUME ~Refused(s)
      PROVE  \A u \in Turns : u \notin carried => Edit(turn[u], cancelled[u])
  <2> SUFFICES ASSUME NEW u \in Turns, u \notin carried PROVE Edit(turn[u], cancelled[u])
    OBVIOUS
  <2>1. ASSUME u \in Doomed(s)
        PROVE  /\ turn[u].state \in Pending
               /\ \/ turn[u].kind # "external_input"
                  \/ turn[u].receipt # "none"
                  \/ wf'[turn[u].wf].status = "owner_gate"
    <3>1. turn[u].state \in Pending /\ turn[u].wf = nw
      BY <2>1 DEF Doomed, WithState, InWorkflow
    <3>2. CASE s = "terminal"
      <4>1. turn[u].kind = "external_input" => turn[u].state # "claimed"
        BY <1>3, <3>1, <3>2 DEF Refused, WithState, InWorkflow
      <4>2. turn[u].kind = "external_input" => turn[u].state = "queued"
        BY <3>1, <4>1 DEF Pending
      <4>3. u > 0
        BY BoundAssumption DEF Turns
      <4>4. turn[u].kind = "external_input" => u \in QueuedInputsAfter(nw, 0)
        BY <3>1, <4>2, <4>3 DEF QueuedInputsAfter, WithState, InWorkflow
      <4> QED BY <3>1, <3>2, <4>4 DEF Carried
    <3>3. CASE s = "owner_gate"
      <4>1. carried = {}
        BY <3>3 DEF Carried
      <4>2. wf' = closed
        BY <1>3, <1>1, <4>1 DEF CloseWorkflow
      <4>3. nw \in Workflows => wf'[nw].status = "owner_gate"
        BY <3>3, <4>2, RowTypes DEF ClosedRow, WorkflowRow, TypeInv, WfTable, WfRows
      <4>4. nw \in Workflows
        <5>1. nw # 0
          BY <3>1 DEF Known, Pending
        <5> QED BY <5>1, RowTypes, BoundAssumption DEF Workflows
      <4> QED BY <3>1, <4>3, <4>4
    <3> QED BY <1>1, <3>2, <3>3
  <2> QED BY <2>1, CancelEdit
<1>4. CASE ~Refused(s) /\ carried = {}
  <2>1. turn' = cancelled
    BY <1>4 DEF CloseWorkflow
  <2> HIDE DEF s, carried, cancelled
  <2> QED BY <1>1, <1>3, <1>4, <2>1 DEF Edited
<1>5. CASE ~Refused(s) /\ carried # {}
  <2> DEFINE row(u) == [turn[u] EXCEPT !.wf = nw + 1, !.reason = "none", !.due = "now"]
  <2>1. /\ nw < MaxWorkflows /\ nw' = nw + 1
        /\ wf' = [closed EXCEPT ![nw + 1] = OpenRow(Min(carried))]
        /\ turn' = [u \in Turns |-> IF u \in carried THEN row(u) ELSE cancelled[u]]
    BY <1>5 DEF CloseWorkflow
  <2>2. wf'[nw'].status = "open"
    <3>1. nw + 1 \in Workflows
      <4>1. nw < MaxWorkflows
        BY <2>1
      <4> QED BY <4>1, RowTypes, BoundAssumption DEF Workflows
    <3>2. DOMAIN wf = Workflows
      BY DEF TypeInv, WfTable, WfRows
    <3> HIDE DEF carried, s
    <3> QED BY <2>1, <3>1, <3>2 DEF OpenRow
  <2>3. ASSUME NEW u \in Turns, u \in carried
        PROVE  Edit(turn[u], row(u))
    <3>1. turn[u].kind = "external_input" /\ turn[u].receipt = "none" /\ turn[u].state = "queued"
      BY <2>3 DEF Carried, QueuedInputsAfter, WithState, InWorkflow
    <3>2. turn[u] \in TurnRow /\ nw' = nw + 1
      BY <2>1, RowTypes
    <3> HIDE DEF carried, s
    <3> QED BY <2>2, <3>1, <3>2 DEF Edit, Kept, Untold, TurnRow, Over, Pending
  <2>4. \A u \in Turns : turn'[u] = IF u \in carried THEN row(u) ELSE cancelled[u]
    BY <2>1
  <2> HIDE DEF carried, cancelled, s, row
  <2> QED BY <1>1, <1>3, <1>5, <2>3, <2>4 DEF Edited
<1> QED BY <1>2, <1>4, <1>5

(* A resume adds the turn that carries the execution on.                   *)
LEMMA ResumeGrows ==
  ASSUME TypeInv, NEW t \in Turns, Resume(t)
  PROVE  Grown
<1> DEFINE r == [turn[t] EXCEPT !.state = "finished", !.receipt = "resumed"]
           new == NewTurn(nw, "execution_resume", t, "sent", "consumed")
<1>1. /\ nt < MaxTurns /\ nt' = nt + 1 /\ nw' = nw /\ turn[t].state = "sent"
      /\ turn' = [turn EXCEPT ![t] = r, ![nt + 1] = new]
      /\ wf' = [wf EXCEPT ![nw].active = nt + 1] /\ Open(nw)
  BY DEF Resume, IsActive
<1>2. nw \in Workflows /\ nt + 1 \in Turns
  BY <1>1, ActiveIsTurn, RowTypes, BoundAssumption DEF Turns
<1>3. wf'[nw].status = "open"
  BY <1>1, <1>2 DEF Open, TypeInv, WfTable, WfRows, WorkflowRow
<1>4. Edit(turn[t], r)
  BY <1>1, RowTypes DEF Edit, Kept, Untold, TurnRow, Over, Pending
<1>5. new.cursor = "none" /\ new.claim = "none" /\ new.state = "sent" /\ new.wf = nw
      /\ new.kind = "execution_resume"
  BY DEF NewTurn
<1> HIDE DEF r, new
<1>6. /\ turn'[nt + 1] = new
      /\ \A u \in Turns : u # nt + 1 => (turn'[u] = r /\ u = t) \/ turn'[u] = turn[u]
  BY <1>1, <1>2 DEF TypeInv, TurnTable, Rows
<1>7. Birth(turn'[nt + 1])
  BY <1>1, <1>2, <1>3, <1>5, <1>6 DEF Birth, Workflows
<1>8. \A u \in Turns : u # nt + 1 => Edit(turn[u], turn'[u])
  BY <1>4, <1>6, SameRow
<1> QED BY <1>1, <1>2, <1>7, <1>8 DEF Grown

(* An owner's input adds a turn to an open workflow and cancels only       *)
(* continuations.                                                          *)
LEMMA PrepareGrows ==
  ASSUME TypeInv, NEW s \in Senders, PrepareInput(s)
  PROVE  Grown
<1> DEFINE promoted == GatedSuccessor(nw)
           fresh == nw = 0 \/ (~Open(nw) /\ promoted = 0)
           w == IF fresh THEN nw + 1 ELSE nw
           row == IF fresh THEN OpenRow(0) ELSE IF Open(nw) THEN wf[nw] ELSE OpenRow(promoted)
           queued == \/ OpHeld
                     \/ lease # 0
                     \/ Unadmitted(w, row.active)
                     \/ WithState(w, Pending) # {}
           kept == [u \in Turns |-> IF u = promoted
                                    THEN [turn[u] EXCEPT !.reason = "none", !.due = "now"]
                                    ELSE Cancel(OpenFinals(w))[u]]
           new == NewTurn(w, "external_input", 0, IF queued THEN "queued" ELSE "sent", "none")
           wrow == [row EXCEPT !.noProgress = 0, !.active = IF queued THEN @ ELSE nt + 1]
<1>1. /\ nt < MaxTurns /\ w <= MaxWorkflows /\ nt' = nt + 1 /\ nw' = w
      /\ turn' = [kept EXCEPT ![nt + 1] = new]
      /\ wf' = [wf EXCEPT ![w] = wrow]
  BY DEF PrepareInput
<1>2. w \in Workflows /\ nt + 1 \in Turns
  <2>1. w <= MaxWorkflows /\ nt < MaxTurns
    BY DEF PrepareInput
  <2> HIDE DEF promoted
  <2> QED BY <2>1, RowTypes, BoundAssumption DEF Workflows, Turns
<1>3. wrow.status = "open"
  <2>1. row.status = "open"
    <3> HIDE DEF promoted
    <3> QED BY DEF Open, OpenRow
  <2>2. "status" \in DOMAIN row
    <3>1. nw \in Workflows => wf[nw] \in WorkflowRow
      BY RowTypes
    <3>2. Open(nw) => nw \in Workflows
      BY ActiveIsTurn
    <3> HIDE DEF promoted
    <3> QED BY <3>1, <3>2 DEF OpenRow, WorkflowRow
  <2> HIDE DEF row, queued
  <2> QED BY <2>1, <2>2
<1>4. \A u \in Turns : Edit(turn[u], kept[u])
  <2> SUFFICES ASSUME NEW u \in Turns PROVE Edit(turn[u], kept[u])
    OBVIOUS
  <2>1. Edit(turn[u], Cancel(OpenFinals(w))[u])
    <3>1. u \in OpenFinals(w) => turn[u].state \in Pending /\ turn[u].kind # "external_input"
      BY DEF OpenFinals, WithState, InWorkflow
    <3> QED BY <3>1, CancelEdit
  <2>2. Edit(turn[u], [turn[u] EXCEPT !.reason = "none", !.due = "now"])
    BY RowTypes DEF Edit, Kept, Untold, TurnRow
  <2> HIDE DEF promoted, w
  <2> QED BY <2>1, <2>2
<1>5. new.cursor = "none" /\ new.claim = "none" /\ new.state \in {"queued", "sent"} /\ new.wf = w
      /\ new.kind = "external_input"
  <2> HIDE DEF w, queued
  <2> QED BY DEF NewTurn
<1>6. DOMAIN kept = Turns /\ DOMAIN wf = Workflows
  BY DEF TypeInv, WfTable, WfRows
<1> HIDE DEF promoted, fresh, w, row, queued, kept, new, wrow
<1>7. wf'[nw'].status = "open"
  BY <1>1, <1>2, <1>3, <1>6
<1>8. turn'[nt + 1] = new /\ \A u \in Turns : u # nt + 1 => turn'[u] = kept[u]
  BY <1>1, <1>2, <1>6
<1>9. Birth(turn'[nt + 1])
  BY <1>1, <1>2, <1>5, <1>7, <1>8 DEF Birth, Workflows
<1>10. \A u \in Turns : u # nt + 1 => Edit(turn[u], turn'[u])
  BY <1>4, <1>8
<1> QED BY <1>1, <1>2, <1>9, <1>10 DEF Grown

(* A policy outcome ends the active turn with the continuations queued for *)
(* it, or changes nothing.                                                 *)
LEMMA OutcomeJudges ==
  ASSUME TypeInv, ProviderOutcome,
         wf[nw].active # 0 => turn[wf[nw].active].wf = nw
  PROVE  Edited \/ Judged(wf[nw].active)
<1> DEFINE a == wf[nw].active
           S == OutcomeSuccessors(a) \cap WithState(nw, {"queued"})
           f == Cancel(S)
           r == [f[a] EXCEPT !.state = "finished", !.cursor = "outcome"]
<1>1. nt' = nt /\ Open(nw) /\ a # 0 /\ turn[a].state \in {"sent", "finished"}
  BY DEF ProviderOutcome, Observable
<1>2. a \in Turns /\ turn[a].wf = nw
  BY <1>1, ActiveIsTurn
<1>3. CASE ~(turn[a].cursor = "bound"
             /\ \A u \in OutcomeSuccessors(a) : turn[u].state \in {"queued", "cancelled"})
  <2>1. turn' = turn
    BY <1>3 DEF ProviderOutcome
  <2> QED BY <1>1, <2>1, EditsNone
<1>4. CASE turn[a].cursor = "bound"
           /\ \A u \in OutcomeSuccessors(a) : turn[u].state \in {"queued", "cancelled"}
  <2>1. turn' = [f EXCEPT ![a].state = "finished", ![a].cursor = "outcome"]
    BY <1>4 DEF ProviderOutcome
  <2>2. turn' = [f EXCEPT ![a] = r]
    BY <2>1
  <2>3. a \notin OutcomeSuccessors(a)
    BY <1>1, <1>4
  <2>4. f[a] = turn[a]
    BY <1>2, <2>3 DEF Cancel
  <2>5. \A u \in Turns : Edit(turn[u], f[u]) /\ (u \in S => f[u].state = "cancelled")
    <3> TAKE u \in Turns
    <3>1. u \in S => turn[u].state \in Pending /\ turn[u].kind # "external_input"
      BY DEF OutcomeSuccessors, WithState, InWorkflow, Pending
    <3> HIDE DEF a, S
    <3> QED BY <3>1, CancelEdit
  <2>6. Kept(turn[a], r) /\ r.state = "finished"
    <3> DEFINE q == [turn[a] EXCEPT !.state = "finished", !.cursor = "outcome"]
    <3>1. turn[a] \in TurnRow /\ r = q
      BY <1>2, <2>4, RowTypes
    <3>2. Kept(turn[a], q) /\ q.state = "finished"
      <4> HIDE DEF a
      <4> QED BY <1>1, <3>1 DEF Kept, TurnRow, Over, Pending
    <3> QED BY <3>1, <3>2
  <2>7. DOMAIN f = Turns
    BY DEF Cancel
  <2>8. ASSUME NEW u \in Turns, turn[u].wf = nw, turn[u].kind = "open_final", turn[u].parent = a
        PROVE  u # a /\ f[u].state = "cancelled"
    <3>1. u \in OutcomeSuccessors(a)
      BY <2>8 DEF OutcomeSuccessors, InWorkflow
    <3>2. CASE turn[u].state = "queued"
      <4>1. u \in S
        BY <2>8, <3>1, <3>2 DEF WithState, InWorkflow
      <4> QED BY <2>3, <2>5, <3>1, <4>1
    <3>3. CASE turn[u].state = "cancelled"
      <4>1. u \notin S
        BY <3>3 DEF WithState
      <4> QED BY <2>3, <3>1, <3>3, <4>1 DEF Cancel
    <3> QED BY <1>4, <3>1, <3>2, <3>3
  <2> HIDE DEF a, f, r, S
  <2>9. turn'[a] = r /\ \A u \in Turns : u # a => turn'[u] = f[u]
    BY <1>2, <2>2, <2>7
  <2>10. Judged(a)
    BY <1>1, <1>2, <2>5, <2>6, <2>8, <2>9 DEF Judged, Edit
  <2> QED BY <2>10 DEF a
<1> QED BY <1>3, <1>4

-----------------------------------------------------------------------------
(* The active turn of an open workflow is one of its own turns.             *)
Belongs == \A w \in Workflows : Open(w) /\ wf[w].active # 0 => turn[wf[w].active].wf = w

(* Every step is of one of the kinds.                                      *)
LEMMA RowsStep ==
  ASSUME TypeInv, Known, Belongs, [Next]_vars
  PROVE  Edited \/ Grown \/ \E a : Judged(a)
<1>1. CASE UNCHANGED turnVars
  BY <1>1, EditsNone DEF turnVars
<1>2. ASSUME NEW s \in Senders, PrepareInput(s) \/ SenderNext(s)
      PROVE  Edited \/ Grown
  <2>1. CASE PrepareInput(s)
    BY <2>1, PrepareGrows
  <2>2. CASE SenderBind(s)
    <3>1. nt' = nt /\ \E bound \in BOOLEAN : BindCursor(sturn[s], bound)
      BY <2>2 DEF SenderBind
    <3> QED BY <3>1, BindEdits
  <2>3. CASE SenderRetain(s)
    BY <2>3, RetainEdits
  <2>4. CASE SenderSlot(s) \/ SenderOp(s) \/ SenderPaste(s) \/ SenderFail(s) \/ SenderUnlock(s)
    BY <2>4, EditsNone DEF SenderSlot, SenderOp, SenderPaste, SenderFail, SenderUnlock, turnVars
  <2> QED BY <1>2, <2>1, <2>2, <2>3, <2>4 DEF SenderNext
<1>3. ASSUME NEW o \in Observers, ObserverLook(o) \/ ObserverNext(o)
      PROVE  Edited
  <2>1. CASE ObserverRequeue(o)
    BY <2>1, RequeueSettledEdits DEF ObserverRequeue
  <2>2. CASE ~ObserverRequeue(o)
    BY <1>3, <2>2, EditsNone DEF ObserverLook, ObserverNext, ObserverSettle, ObserverBusy, turnVars
  <2> QED BY <2>1, <2>2
<1>4. CASE DispatcherLook \/ DispatcherNext
  <2>1. CASE DispatcherRequeueSettled
    BY <2>1, RequeueSettledEdits DEF DispatcherRequeueSettled
  <2>2. CASE ProviderOutcome
    <3>1. Open(nw)
      BY <2>2 DEF ProviderOutcome, Observable
    <3> QED BY <2>2, <3>1, ActiveIsTurn, OutcomeJudges DEF Belongs
  <2>3. CASE ObserveFinal
    BY <2>3, ActiveIsTurn, FinalEdits DEF Known
  <2>4. CASE ClaimTurn
    BY <2>4, ClaimEdits
  <2>5. CASE DispatcherBind
    <3>1. nt' = nt /\ \E bound \in BOOLEAN : BindCursor(dturn, bound)
      BY <2>5 DEF DispatcherBind
    <3> QED BY <3>1, BindEdits
  <2>6. CASE MarkSent
    BY <2>6, SentEdits
  <2>7. CASE RequeueTurn
    BY <2>7, RequeueTurnEdits
  <2>8. CASE \/ DispatcherLook \/ DispatcherBusy \/ DispatcherSettle \/ ReadyNotStable
             \/ PickTurn \/ RenewClaim \/ Activate \/ DispatcherSlot \/ DispatcherOp
             \/ DispatcherPaste \/ DispatcherFail \/ DispatcherUnlock
    BY <2>8, EditsNone DEF DispatcherLook, DispatcherBusy, DispatcherSettle, ReadyNotStable,
       PickTurn, RenewClaim, Activate, DispatcherSlot, DispatcherOp, DispatcherPaste,
       DispatcherFail, DispatcherUnlock, turnVars
  <2> QED BY <1>4, <2>1, <2>2, <2>3, <2>4, <2>5, <2>6, <2>7, <2>8 DEF DispatcherNext
<1>5. CASE ReceiverNext
  <2>1. ASSUME NEW t \in Turns, Admit(t) \/ Resume(t)
        PROVE  Edited \/ Grown
    BY <2>1, AdmitEdits, ResumeGrows
  <2>2. ASSUME NEW t \in Turns, NEW s \in {"terminal", "owner_gate"}, ClaimClose(t, s)
        PROVE  Edited
    BY <2>2, EditsNone DEF ClaimClose, turnVars
  <2>3. CASE CloseWorkflow
    BY <2>3, CloseEdits
  <2> QED BY <1>5, <2>1, <2>2, <2>3 DEF ReceiverNext
<1>6. CASE RecoveryNext
  <2>1. ASSUME NEW t \in Turns, ClaimExpires(t) \/ BecomesDue(t)
        PROVE  Edited
    BY <2>1, TimeEdits
  <2>2. CASE OpExpires \/ Crash
    BY <2>2, EditsNone DEF OpExpires, Crash, turnVars
  <2>3. CASE RequeueExpired
    BY <2>3, RecoveryEdits DEF RequeueExpired, ExpiredClaims
  <2>4. CASE Restart
    <3>1. \A u \in Turns : u \in Interrupted => turn[u].state = "sent" /\ Open(turn[u].wf)
      BY DEF Interrupted
    <3>2. /\ nt' = nt
          /\ turn' = [u \in Turns |-> IF u \in Interrupted
                                      THEN [turn[u] EXCEPT !.state = "queued", !.claim = "none",
                                                           !.cursor = "none"]
                                      ELSE turn[u]]
      BY <2>4 DEF Restart
    <3> QED BY <3>1, <3>2, RecoveryEdits
  <2>5. CASE ReopenGated
    BY <2>5, ReopenEdits
  <2> QED BY <1>6, <2>1, <2>2, <2>3, <2>4, <2>5 DEF RecoveryNext
<1>7. CASE UNCHANGED vars
  BY <1>7, <1>1 DEF vars
<1> QED BY <1>2, <1>3, <1>4, <1>5, <1>6, <1>7 DEF Next

-----------------------------------------------------------------------------
(* The history of the turns.                                                *)
Fresh == \A t \in Turns : t > nt => turn[t].state = "none" /\ turn[t].wf = 0
Descends(u, p) ==
    turn[u].kind = "open_final" /\ turn[u].parent = p =>
        /\ p \in 1..nt
        /\ turn[p].state = "finished" /\ turn[p].receipt # "none"
        /\ turn[u].wf = turn[p].wf
Lineage == \A u \in Turns, p \in 0..MaxTurns : Descends(u, p)
Told == \A t \in Turns : turn[t].cursor = "outcome" => turn[t].state = "finished"
History == Fresh /\ Lineage /\ Told /\ OneSuccessor /\ NoRetryAfterOutcome

(* An edited row keeps its ancestry.                                        *)
LEMMA DescentKept ==
  ASSUME TypeInv, NEW u \in Turns, NEW p \in 0..MaxTurns, Descends(u, p),
         turn'[u].kind = "open_final", turn'[u].parent = p,
         Kept(turn[u], turn'[u]), \A t \in 1..nt : Kept(turn[t], turn'[t])
  PROVE  /\ turn[u].kind = "open_final" /\ turn[u].parent = p
         /\ p \in 1..nt /\ turn[p].state = "finished"
         /\ turn'[p].state = "finished" /\ turn'[p].receipt # "none"
         /\ turn'[u].wf = turn'[p].wf /\ turn[u].wf = turn[p].wf
<1>1. turn[u].kind = "open_final" /\ turn[u].parent = p
  BY DEF Kept
<1>2. /\ p \in 1..nt /\ turn[p].state = "finished" /\ turn[p].receipt # "none"
      /\ turn[u].wf = turn[p].wf
  BY <1>1 DEF Descends
<1>3. Kept(turn[p], turn'[p])
  BY <1>2
<1>4. turn'[p].state = "finished" /\ turn'[p].receipt # "none" /\ turn'[p].wf = turn[p].wf
  BY <1>2, <1>3 DEF Kept, Over
<1>5. turn'[u].wf = turn[u].wf
  BY <1>1 DEF Kept
<1> QED BY <1>1, <1>2, <1>4, <1>5

(* The rows in use are rows of the table, the next one is not in use.      *)
LEMMA OldRows ==
  ASSUME TypeInv
  PROVE  /\ 1..nt \subseteq Turns /\ nt + 1 \notin 1..nt
         /\ nt \in Nat /\ MaxTurns \in Nat
         /\ \A u \in Turns : turn[u].parent \in 0..MaxTurns
BY RowTypes, BoundAssumption DEF Turns, TurnRow

(* Edits keep the history: an outcome is not invented, and ancestry is     *)
(* fixed.                                                                  *)
LEMMA HistoryEdited ==
  ASSUME TypeInv, TypeInv', History, Edited
  PROVE  History'
<1> USE DEF History
<1>1. /\ nt' = nt /\ 1..nt \subseteq Turns
      /\ \A u \in Turns : Kept(turn[u], turn'[u]) /\ Untold(turn[u], turn'[u])
      /\ \A t \in 1..nt : Kept(turn[t], turn'[t])
  BY OldRows DEF Edited, Edit
<1>2. Fresh'
  BY <1>1 DEF Fresh, Kept
<1>3. Lineage'
  BY <1>1, DescentKept DEF Lineage, Descends
<1>4. Told'
  BY <1>1 DEF Told, Kept, Untold, Over
<1>5. OneSuccessor'
  BY <1>1 DEF OneSuccessor, Kept
<1>6. NoRetryAfterOutcome'
  <2> SUFFICES ASSUME NEW u \in Turns, turn'[u].kind = "open_final",
                      turn'[turn'[u].parent].cursor = "outcome"
               PROVE  turn'[u].state = "cancelled"
    BY DEF NoRetryAfterOutcome
  <2>0. PICK p \in 0..MaxTurns : p = turn'[u].parent
    BY <1>1, OldRows DEF Kept
  <2>1. turn[u].kind = "open_final" /\ turn[u].parent = p /\ p \in Turns
    BY <1>1, <2>0, DescentKept DEF Lineage
  <2>2. turn[p].cursor = "outcome"
    BY <1>1, <2>0, <2>1 DEF Untold
  <2>3. turn[u].state = "cancelled"
    BY <2>1, <2>2 DEF NoRetryAfterOutcome
  <2> QED BY <1>1, <2>3 DEF Kept, Over
<1> QED BY <1>2, <1>3, <1>4, <1>5, <1>6

(* An outcome cancels every continuation of its turn: lineage says that    *)
(* all of them are in the workflow whose rows it reads.                    *)
LEMMA HistoryJudged ==
  ASSUME TypeInv, TypeInv', History, NEW a, Judged(a)
  PROVE  History'
<1> USE DEF History
<1>1. /\ nt' = nt /\ 1..nt \subseteq Turns
      /\ \A u \in Turns : Kept(turn[u], turn'[u]) /\ (u # a => Untold(turn[u], turn'[u]))
      /\ \A t \in 1..nt : Kept(turn[t], turn'[t])
      /\ turn'[a].state = "finished" /\ turn[a].wf = nw
  BY OldRows DEF Judged
<1>2. Fresh'
  BY <1>1 DEF Fresh, Kept
<1>3. Lineage'
  BY <1>1, DescentKept DEF Lineage, Descends
<1>4. Told'
  BY <1>1 DEF Told, Kept, Untold, Over
<1>5. OneSuccessor'
  BY <1>1 DEF OneSuccessor, Kept
<1>6. NoRetryAfterOutcome'
  <2> SUFFICES ASSUME NEW u \in Turns, turn'[u].kind = "open_final",
                      turn'[turn'[u].parent].cursor = "outcome"
               PROVE  turn'[u].state = "cancelled"
    BY DEF NoRetryAfterOutcome
  <2>0. PICK p \in 0..MaxTurns : p = turn'[u].parent
    BY <1>1, OldRows DEF Kept
  <2>1. turn[u].kind = "open_final" /\ turn[u].parent = p /\ p \in Turns /\ turn[u].wf = turn[p].wf
    BY <1>1, <2>0, DescentKept DEF Lineage
  <2>2. CASE p = a
    BY <1>1, <2>1, <2>2 DEF Judged
  <2>3. CASE p # a
    <3>1. turn[p].cursor = "outcome"
      BY <1>1, <2>0, <2>1, <2>3 DEF Untold
    <3>2. turn[u].state = "cancelled"
      BY <2>1, <3>1 DEF NoRetryAfterOutcome
    <3> QED BY <1>1, <3>2 DEF Kept, Over
  <2> QED BY <2>2, <2>3
<1> QED BY <1>2, <1>3, <1>4, <1>5, <1>6

(* A new continuation is the first of its parent, which was sent until now *)
(* and so has no outcome.                                                  *)
LEMMA HistoryGrown ==
  ASSUME TypeInv, TypeInv', History, Grown
  PROVE  History'
<1> USE DEF History
<1> DEFINE n == nt + 1
<1>1. /\ nt' = n /\ 1..nt \subseteq Turns /\ n \in Turns /\ n \notin 1..nt /\ 1..nt \subseteq 1..n
      /\ \A u \in Turns : u > n => u > nt /\ u # n
      /\ \A u \in Turns : u # n => Kept(turn[u], turn'[u]) /\ Untold(turn[u], turn'[u])
      /\ \A t \in 1..nt : Kept(turn[t], turn'[t])
      /\ Birth(turn'[n])
  <2>1. 1..nt \subseteq Turns /\ nt + 1 \notin 1..nt /\ nt \in Nat
    BY OldRows
  <2>2. 1..nt \subseteq 1..(nt + 1) /\ \A u \in Turns : u > nt + 1 => u > nt /\ u # nt + 1
    BY <2>1, BoundAssumption DEF Turns
  <2> QED BY <2>1, <2>2 DEF Grown, Edit
<1> HIDE DEF n
<1>2. Fresh'
  BY <1>1 DEF Fresh, Kept
<1>3. ASSUME NEW p, turn'[n].kind = "open_final", turn'[n].parent = p
      PROVE  /\ p \in 1..nt /\ turn[p].state = "sent" /\ turn[p].receipt # "none"
             /\ turn'[p].state = "finished" /\ turn'[p].receipt # "none"
             /\ turn'[p].wf = turn'[n].wf
  <2>1. /\ p \in 1..nt /\ turn[p].state = "sent" /\ turn[p].receipt # "none"
        /\ turn'[p].state = "finished" /\ turn[p].wf = nw /\ nw' = nw /\ turn'[n].wf = nw'
    BY <1>1, <1>3 DEF Birth, Continues
  <2>2. turn'[p].receipt # "none" /\ turn'[p].wf = turn[p].wf
    BY <1>1, <2>1 DEF Kept
  <2> QED BY <2>1, <2>2
<1>4. Lineage'
  <2> SUFFICES ASSUME NEW u \in Turns, NEW p \in 0..MaxTurns PROVE Descends(u, p)'
    BY DEF Lineage
  <2>1. CASE u = n
    BY <1>1, <1>3, <2>1 DEF Descends
  <2>2. CASE u # n
    BY <1>1, <2>2, DescentKept DEF Lineage, Descends
  <2> QED BY <2>1, <2>2
<1>5. Told'
  BY <1>1 DEF Told, Kept, Untold, Over, Birth
<1>6. OneSuccessor'
  <2> SUFFICES ASSUME NEW u \in Turns, NEW v \in Turns, u # v,
                      turn'[u].kind = "open_final", turn'[v].kind = "open_final",
                      turn'[u].parent = turn'[v].parent
               PROVE  FALSE
    BY DEF OneSuccessor
  <2>1. ASSUME NEW x \in Turns, x # n, turn'[x].kind = "open_final"
        PROVE  /\ turn[x].kind = "open_final" /\ turn[x].parent = turn'[x].parent
               /\ turn[turn'[x].parent].state = "finished"
    <3>1. PICK p \in 0..MaxTurns : p = turn'[x].parent
      BY <1>1, <2>1, OldRows DEF Kept
    <3> QED BY <1>1, <2>1, <3>1, DescentKept DEF Lineage
  <2>2. CASE u = n
    BY <1>3, <2>1, <2>2
  <2>3. CASE v = n
    BY <1>3, <2>1, <2>3
  <2>4. CASE u # n /\ v # n
    BY <2>1, <2>4 DEF OneSuccessor
  <2> QED BY <2>2, <2>3, <2>4
<1>7. NoRetryAfterOutcome'
  <2> SUFFICES ASSUME NEW u \in Turns, turn'[u].kind = "open_final",
                      turn'[turn'[u].parent].cursor = "outcome"
               PROVE  turn'[u].state = "cancelled"
    BY DEF NoRetryAfterOutcome
  <2>1. CASE u = n
    <3>1. PICK p : p = turn'[n].parent
      OBVIOUS
    <3>2. p \in 1..nt /\ turn[p].state = "sent"
      BY <1>3, <2>1, <3>1
    <3>3. turn[p].cursor = "outcome"
      BY <1>1, <2>1, <3>1, <3>2 DEF Untold
    <3> QED BY <1>1, <3>2, <3>3 DEF Told
  <2>2. CASE u # n
    <3>0. PICK p \in 0..MaxTurns : p = turn'[u].parent
      BY <1>1, <2>2, OldRows DEF Kept
    <3>1. turn[u].kind = "open_final" /\ turn[u].parent = p /\ p \in 1..nt
      BY <1>1, <2>2, <3>0, DescentKept DEF Lineage
    <3>2. turn[p].cursor = "outcome"
      BY <1>1, <3>0, <3>1 DEF Untold
    <3>3. turn[u].state = "cancelled"
      BY <3>1, <3>2 DEF NoRetryAfterOutcome
    <3> QED BY <1>1, <2>2, <3>3 DEF Kept, Over
  <2> QED BY <2>1, <2>2
<1> QED BY <1>2, <1>4, <1>5, <1>6, <1>7

-----------------------------------------------------------------------------
(* The bindings.                                                            *)

(* From its activation to the end of the tick, a claim that still holds is  *)
(* the active turn of its open workflow.                                    *)
Bearing == {"active", "slot", "bind", "paste", "failed", "unlock", "pasted", "mark",
            "deferred", "requeue"}
Bound == dpc \in Bearing /\ ClaimMatches(dturn) /\ Open(turn[dturn].wf)
            => wf[turn[dturn].wf].active = dturn
(* A workflow that was closed explicitly holds nothing to dispatch.         *)
Sealed == \A w \in Workflows : wf[w].gate = "explicit" =>
             /\ wf[w].status # "open"
             /\ \A t \in Turns : turn[t].wf = w => turn[t].state \notin Pending

Moves(w) ==
    /\ wf'[w].active >= wf[w].active /\ wf'[w].active <= nt'
    /\ w > nw' => wf'[w].active = 0 /\ wf'[w].gate # "explicit"
    /\ wf[w].gate = "explicit" => wf'[w].status # "open"
    /\ wf'[w].status = "open" /\ wf'[w].active # 0 => turn'[wf'[w].active].wf = w
Undecided(w) ==
    /\ wf'[w].status = "terminal" => wf[w].status = "terminal"
    /\ wf'[w].gate = "explicit" => wf[w].gate = "explicit"
RowsKept == /\ nt' >= nt /\ nt' \in Nat
            /\ \A t \in Turns : t <= nt => Kept(turn[t], turn'[t])
            /\ \A t \in Turns : turn'[t].claim = "live" => Kept(turn[t], turn'[t])
            /\ \A t \in Turns : Kept(turn[t], turn'[t])
                                \/ (turn'[t].wf = nw' /\ nw' # 0 /\ wf'[nw'].status = "open")
Situation == /\ TypeInv /\ TypeInv' /\ OneOpenWorkflow /\ OneOpenWorkflow' /\ RowsKept
             /\ Known /\ Belongs /\ Bound /\ Sealed /\ Fresh

(* Whatever its kind, a step keeps the rows that exist.                    *)
LEMMA StepKeepsRows ==
  ASSUME TypeInv, Edited \/ Grown \/ \E a : Judged(a)
  PROVE  RowsKept
<1>1. nt \in Nat /\ \A t \in Turns : t <= nt => t # nt + 1
  BY OldRows, BoundAssumption DEF Turns
<1>2. CASE Edited
  BY <1>1, <1>2 DEF Edited, Edit, RowsKept
<1>3. CASE \E a : Judged(a)
  BY <1>1, <1>3 DEF Judged, RowsKept
<1>4. CASE Grown
  BY <1>1, <1>4 DEF Grown, Birth, Edit, RowsKept
<1> QED BY <1>2, <1>3, <1>4

(* The types of the workflow rows, as numbers.                             *)
LEMMA WfTypes ==
  ASSUME TypeInv
  PROVE  /\ wf \in [Workflows -> WorkflowRow]
         /\ nw \in Nat /\ nt \in Nat /\ Workflows \subseteq Nat \ {0} /\ Turns \subseteq Nat \ {0}
         /\ \A w \in Workflows : wf[w].active \in Nat /\ (wf[w].active # 0 => wf[w].active \in Turns)
<1>1. wf \in [Workflows -> WorkflowRow] /\ nw \in Nat /\ nt \in Nat
  BY BoundAssumption DEF TypeInv, WfTable, TurnTable, WfRows
<1>2. \A w \in Workflows : wf[w].active \in 0..MaxTurns
  BY <1>1 DEF WorkflowRow
<1> QED BY <1>1, <1>2, BoundAssumption DEF Turns, Workflows

(* A workflow whose row is not written.                                     *)
LEMMA UntouchedMoves ==
  ASSUME Situation, NEW w \in Workflows, wf'[w] = wf[w], nw' >= nw,
         w = nw /\ wf[w].status = "open" => nw' = nw
  PROVE  Moves(w) /\ Undecided(w)
<1>1. wf[w].active \in Nat /\ wf[w].active <= nt /\ nt' >= nt /\ nt \in Nat /\ nt' \in Nat
      /\ nw \in Nat /\ nw' \in Nat /\ w \in Nat /\ w # 0
      /\ (wf[w].active # 0 => wf[w].active \in Turns)
  BY WfTypes DEF Situation, Known, RowsKept, TypeInv, WfTable
<1>2. wf[w].active <= nt'
  BY <1>1
<1>3. w > nw' => wf[w].active = 0 /\ wf[w].gate # "explicit"
  BY <1>1 DEF Situation, Known
<1>4. wf[w].gate = "explicit" => wf[w].status # "open"
  BY DEF Situation, Sealed
<1>5. ASSUME wf[w].status = "open", wf[w].active # 0
      PROVE  turn'[wf[w].active].wf = w
  <2> DEFINE a == wf[w].active
  <2>1. w = nw /\ nw' = nw
    BY <1>1, <1>5 DEF Situation, OneOpenWorkflow, Open
  <2>2. turn[a].wf = w
    BY <1>1, <1>5 DEF Situation, Belongs, Open
  <2>3. Kept(turn[a], turn'[a])
    BY <1>1, <1>5 DEF Situation, RowsKept
  <2> QED BY <2>1, <2>2, <2>3 DEF Kept
<1> QED BY <1>1, <1>2, <1>3, <1>4, <1>5 DEF Moves, Undecided

(* A step that writes no workflow.                                         *)
LEMMA UnwrittenMoves ==
  ASSUME Situation, UNCHANGED wfVars
  PROVE  nw' >= nw /\ \A w \in Workflows : Moves(w) /\ Undecided(w)
<1>1. nw' = nw /\ wf' = wf /\ nw \in Nat
  BY WfTypes DEF wfVars, Situation
<1> QED BY <1>1, UntouchedMoves

(* The newest workflow, an old one or a new one, gets a row.                *)
LEMMA NewestMoves ==
  ASSUME Situation, nw' = nw \/ (nw' = nw + 1 /\ ~Open(nw)), nw' \in Workflows, NEW g,
         wf' = [wf EXCEPT ![nw'] = g], wf[nw'].gate # "explicit", g.gate # "explicit",
         g.status \in {"open", "owner_gate"}, g.active >= wf[nw'].active, g.active <= nt',
         g.status = "open" /\ g.active # 0 => turn'[g.active].wf = nw'
  PROVE  nw' >= nw /\ \A w \in Workflows : Moves(w) /\ Undecided(w)
<1>1. nw \in Nat /\ wf \in [Workflows -> WorkflowRow]
  BY WfTypes DEF Situation
<1>2. nw' >= nw /\ (nw' = nw \/ ~Open(nw)) /\ nw' \in Nat
  BY <1>1
<1>3. ASSUME NEW w \in Workflows, w # nw'
      PROVE  Moves(w) /\ Undecided(w)
  <2>1. wf'[w] = wf[w]
    BY <1>1, <1>3
  <2>2. w = nw /\ wf[w].status = "open" => nw' = nw
    BY <1>2, WfTypes DEF Open, Situation
  <2> QED BY <1>2, <2>1, <2>2, UntouchedMoves
<1>4. Moves(nw') /\ Undecided(nw')
  <2>1. wf'[nw'] = g
    BY <1>1
  <2> QED BY <1>2, <2>1 DEF Moves, Undecided
<1> QED BY <1>2, <1>3, <1>4

(* A queued turn is a row, of a workflow that was not closed explicitly.    *)
LEMMA QueuedRow ==
  ASSUME Situation, NEW w \in 0..MaxWorkflows, NEW t, NEW u \in QueuedInputsAfter(w, t)
  PROVE  /\ u \in Turns /\ u <= nt /\ u > t /\ turn[u].wf = w /\ turn[u].state = "queued"
         /\ w \in Workflows => wf[w].gate # "explicit"
<1>1. u \in Turns /\ u > t /\ turn[u].wf = w /\ turn[u].state = "queued"
  BY DEF QueuedInputsAfter, WithState, InWorkflow
<1>2. u <= nt
  BY <1>1, WfTypes DEF Situation, Fresh
<1>3. w \in Workflows => wf[w].gate # "explicit"
  BY <1>1 DEF Situation, Sealed, Pending
<1> QED BY <1>1, <1>2, <1>3

(* What the gate repair promotes.                                           *)
LEMMA GatedRow ==
  ASSUME Situation, GatedSuccessor(nw) # 0
  PROVE  LET t == GatedSuccessor(nw) IN
         /\ nw \in Workflows /\ wf[nw].gate # "explicit"
         /\ t \in Turns /\ t <= nt /\ t > wf[nw].active /\ turn[t].wf = nw
         /\ turn[t].state = "queued" /\ ~Open(nw)
<1> DEFINE t == GatedSuccessor(nw)
           a == wf[nw].active
<1>1. nw # 0 /\ wf[nw].status = "owner_gate" /\ t = Least(QueuedInputsAfter(nw, a))
  BY DEF GatedSuccessor
<1>2. nw \in Workflows /\ nw \in 0..MaxWorkflows
  BY <1>1, BoundAssumption DEF Situation, TypeInv, WfTable, Workflows
<1>3. t \in QueuedInputsAfter(nw, a)
  BY <1>1, QueuedInputsAreTurns, LeastOfTurns
<1> HIDE DEF t, a
<1>4. t \in Turns /\ t <= nt /\ t > a /\ turn[t].wf = nw /\ wf[nw].gate # "explicit" /\ turn[t].state = "queued"
  BY <1>2, <1>3, QueuedRow
<1> QED BY <1>1, <1>2, <1>4 DEF t, a, Open

Advances == nw' >= nw /\ \A w \in Workflows : Moves(w) /\ Undecided(w)

(* What is known of the open workflow and of its active turn.              *)
LEMMA OpenNewest ==
  ASSUME Situation, Open(nw)
  PROVE  /\ nw \in Workflows /\ wf[nw] \in WorkflowRow
         /\ wf[nw].status = "open" /\ wf[nw].gate # "explicit"
         /\ wf[nw].active \in Nat /\ wf[nw].active <= nt
         /\ wf[nw].active # 0 => turn'[wf[nw].active].wf = nw \/ nw' # nw
<1>1. nw \in Workflows /\ wf[nw].status = "open"
  BY ActiveIsTurn DEF Situation, Open
<1>2. wf[nw] \in WorkflowRow /\ wf[nw].active \in Nat /\ wf[nw].active <= nt
  BY <1>1, WfTypes DEF Situation, Known
<1>3. wf[nw].gate # "explicit"
  BY <1>1 DEF Situation, Sealed
<1>4. ASSUME wf[nw].active # 0, nw' = nw
      PROVE  turn'[wf[nw].active].wf = nw
  <2>1. turn[wf[nw].active].wf = nw /\ wf[nw].active \in Turns
    BY <1>1, <1>4, WfTypes DEF Situation, Belongs, Open
  <2>2. Kept(turn[wf[nw].active], turn'[wf[nw].active])
    BY <1>2, <2>1 DEF Situation, RowsKept
  <2> QED BY <1>4, <2>1, <2>2 DEF Kept
<1> QED BY <1>1, <1>2, <1>3, <1>4

(* Requeueing a settled turn may gate the open workflow.                   *)
LEMMA RequeueSettledMoves ==
  ASSUME Situation, NEW t, RequeueSettled(t)
  PROVE  Advances
<1>1. CASE wf' = wf /\ nw' = nw
  BY <1>1, UnwrittenMoves DEF Advances, wfVars
<1>2. CASE Requeueable(t) /\ wf' # wf
  <2> DEFINE g == [wf[nw] EXCEPT !.status = "owner_gate", !.gate = "transport"]
  <2>1. Open(nw) /\ nw' = nw /\ wf' = [wf EXCEPT ![nw'] = g]
    BY <1>2 DEF Requeueable, IsActive, RequeueSettled, Requeued
  <2>2. g.status = "owner_gate" /\ g.gate = "transport" /\ g.active = wf[nw].active
    BY <2>1, OpenNewest DEF WorkflowRow
  <2> HIDE DEF g
  <2>3. g.active <= nt' /\ g.active >= wf[nw].active
    <3>1. wf[nw].active \in Nat /\ wf[nw].active <= nt /\ nt' >= nt /\ nt' \in Nat /\ nt \in Nat
      BY <2>1, OpenNewest, WfTypes DEF Situation, RowsKept
    <3> QED BY <2>2, <3>1
  <2> QED BY <2>1, <2>2, <2>3, OpenNewest, NewestMoves DEF Advances
<1> QED BY <1>1, <1>2 DEF RequeueSettled, wfVars

(* A final counts in the open workflow, or gates it.                       *)
LEMMA FinalMoves ==
  ASSUME Situation, ObserveFinal
  PROVE  Advances
<1> DEFINE a == wf[nw].active
<1>1. CASE ~MayFinish(a)
  BY <1>1, UnwrittenMoves DEF ObserveFinal, Advances, wfVars
<1>2. CASE MayFinish(a)
  <2>1. Final(a) /\ nw' = nw /\ Open(nw)
    BY <1>2 DEF ObserveFinal, MayFinish
  <2>2. \E g : /\ wf' = [wf EXCEPT ![nw] = g] /\ g.active = a
               /\ g.status \in {"open", "owner_gate"} /\ g.gate # "explicit"
    <3>1. CASE BreakerTrips
      <4> DEFINE g == [wf[nw] EXCEPT !.status = "owner_gate", !.gate = "breaker",
                                     !.noProgress = @ + 1]
      <4>1. wf' = [wf EXCEPT ![nw] = g]
        BY <2>1, <3>1 DEF Final
      <4>2. g.active = a /\ g.status = "owner_gate" /\ g.gate = "breaker"
        BY <2>1, OpenNewest DEF WorkflowRow
      <4> QED BY <4>1, <4>2
    <3>2. CASE ~BreakerTrips
      <4> DEFINE g == [wf[nw] EXCEPT !.noProgress = @ + 1]
      <4>1. wf' = [wf EXCEPT ![nw] = g]
        BY <2>1, <3>2 DEF Final
      <4>2. g.active = a /\ g.status = "open" /\ g.gate # "explicit"
        BY <2>1, OpenNewest DEF WorkflowRow
      <4> QED BY <4>1, <4>2
    <3> QED BY <3>1, <3>2
  <2>3. PICK g : /\ wf' = [wf EXCEPT ![nw] = g] /\ g.active = a
                 /\ g.status \in {"open", "owner_gate"} /\ g.gate # "explicit"
    BY <2>2
  <2>4. g.active <= nt' /\ g.active >= wf[nw].active
    <3>1. wf[nw].active \in Nat /\ wf[nw].active <= nt /\ nt' >= nt /\ nt' \in Nat /\ nt \in Nat
      BY <2>1, OpenNewest, WfTypes DEF Situation, RowsKept
    <3> QED BY <2>3, <3>1
  <2> QED BY <2>1, <2>3, <2>4, OpenNewest, NewestMoves DEF Advances
<1> QED BY <1>1, <1>2

(* An activation never rolls the binding back: its guard is evaluated in   *)
(* the transaction that writes it.                                         *)
LEMMA ActivateMoves ==
  ASSUME Situation, Activate
  PROVE  Advances
<1>1. CASE ~MayActivate(dturn)
  BY <1>1, UnwrittenMoves DEF Activate, Advances, wfVars
<1>2. CASE MayActivate(dturn)
  <2> DEFINE g == [wf[nw] EXCEPT !.active = dturn]
  <2>1. Open(nw) /\ nw' = nw /\ wf' = [wf EXCEPT ![nw'] = g] /\ turn' = turn /\ nt' = nt
        /\ turn[dturn].wf = nw /\ wf[nw].active <= dturn
    BY <1>2 DEF Activate, MayActivate, turnVars
  <2>2. dturn \in Turns
    BY BoundAssumption DEF Activate, Situation, TypeInv, Threads, Locals, Ticks, Turns
  <2>3. g.status = "open" /\ g.gate # "explicit" /\ g.active = dturn
    BY <2>1, OpenNewest DEF WorkflowRow
  <2> HIDE DEF g
  <2>4. dturn <= nt
    <3>1. turn[dturn].wf # 0
      BY <2>1, OpenNewest, WfTypes DEF Situation
    <3> QED BY <2>2, <3>1, WfTypes DEF Situation, Fresh
  <2>5. g.active <= nt' /\ g.active >= wf[nw].active
    <3>1. wf[nw].active \in Nat /\ dturn \in Nat
      BY <2>1, <2>2, OpenNewest, WfTypes DEF Situation
    <3> QED BY <2>1, <2>3, <2>4, <3>1
  <2> QED BY <2>1, <2>3, <2>5, OpenNewest, NewestMoves DEF Advances
<1> QED BY <1>1, <1>2

(* A resume binds the newest turn there is.                                *)
LEMMA ResumeMoves ==
  ASSUME Situation, NEW t \in Turns, Resume(t)
  PROVE  Advances
<1> DEFINE n == nt + 1
           g == [wf[nw] EXCEPT !.active = n]
<1>1. Open(nw) /\ nw' = nw /\ wf' = [wf EXCEPT ![nw'] = g] /\ nt' = n /\ n \in Turns
  <2>1. nt + 1 \in Turns
    BY ResumeGrows DEF Situation, Grown
  <2> QED BY <2>1 DEF Resume, IsActive
<1>2. g.status = "open" /\ g.gate # "explicit" /\ g.active = n
  BY <1>1, OpenNewest DEF WorkflowRow
<1>3. turn'[n].wf = nw'
  BY ResumeGrows DEF Situation, Grown, Birth
<1>4. n >= wf[nw].active /\ n <= nt'
  <2>1. wf[nw].active \in Nat /\ wf[nw].active <= nt /\ nt \in Nat
    BY <1>1, OpenNewest, WfTypes DEF Situation
  <2> QED BY <1>1, <2>1
<1> HIDE DEF g, n
<1> QED BY <1>1, <1>2, <1>3, <1>4, OpenNewest, NewestMoves DEF Advances

(* The gate repair binds an input behind the cancelled turn.               *)
LEMMA ReopenMoves ==
  ASSUME Situation, ReopenGated
  PROVE  Advances
<1> DEFINE t == GatedSuccessor(nw)
           g == OpenRow(t)
<1>1. nw' = nw /\ nt' = nt /\ t # 0 /\ wf' = [wf EXCEPT ![nw'] = g]
      /\ turn' = [turn EXCEPT ![t].reason = "none", ![t].due = "now"]
  BY DEF ReopenGated
<1>2. /\ nw \in Workflows /\ wf[nw].gate # "explicit"
      /\ t \in Turns /\ t <= nt /\ t > wf[nw].active /\ turn[t].wf = nw
  BY <1>1, GatedRow
<1>3. g.status = "open" /\ g.gate = "none" /\ g.active = t
  BY DEF OpenRow
<1> HIDE DEF g, t
<1>4. turn'[t].wf = nw
  BY <1>1, <1>2, RowTypes DEF TurnRow, Situation, TypeInv, TurnTable, Rows
<1>5. g.active >= wf[nw].active /\ g.active <= nt'
  BY <1>1, <1>2, <1>3, WfTypes DEF Situation
<1> QED BY <1>1, <1>2, <1>3, <1>4, <1>5, NewestMoves DEF Advances

(* An input opens the next workflow, reopens the newest one or binds       *)
(* itself in it.                                                           *)
LEMMA PrepareMoves ==
  ASSUME Situation, NEW s \in Senders, PrepareInput(s)
  PROVE  Advances
<1> DEFINE promoted == GatedSuccessor(nw)
           fresh == nw = 0 \/ (~Open(nw) /\ promoted = 0)
           w == IF fresh THEN nw + 1 ELSE nw
           row == IF fresh THEN OpenRow(0) ELSE IF Open(nw) THEN wf[nw] ELSE OpenRow(promoted)
           queued == \/ OpHeld
                     \/ lease # 0
                     \/ Unadmitted(w, row.active)
                     \/ WithState(w, Pending) # {}
           n == nt + 1
           b == IF queued THEN row.active ELSE n
           g == [row EXCEPT !.noProgress = 0, !.active = b]
<1>0. /\ wf \in [Workflows -> WorkflowRow] /\ nw \in Nat /\ nt \in Nat
      /\ \A x \in Workflows : wf[x].active \in Nat
  BY WfTypes DEF Situation
<1>1. /\ nt' = n /\ nw' = w
      /\ wf' = [wf EXCEPT ![w] = [row EXCEPT !.noProgress = 0, !.active = IF queued THEN @ ELSE nt + 1]]
  BY DEF PrepareInput
<1>2. wf' = [wf EXCEPT ![nw'] = g]
  BY <1>1
<1>3. n \in Turns /\ turn'[n].wf = nw' /\ wf'[nw'].status = "open"
      /\ \A u \in Turns : u # n => Edit(turn[u], turn'[u])
  BY PrepareGrows DEF Situation, Grown, Birth
<1>4. w \in Workflows
  <2>1. w <= MaxWorkflows
    BY DEF PrepareInput
  <2> HIDE DEF promoted
  <2> QED BY <1>0, <2>1, BoundAssumption DEF Workflows
<1>5. /\ row.status = "open" /\ row.gate # "explicit" /\ wf[w].gate # "explicit"
      /\ row.active \in Nat /\ row.active >= wf[w].active /\ row.active <= nt
      /\ DOMAIN row = {"status", "active", "noProgress", "gate"}
      /\ row.active # 0 => turn[row.active].wf = w /\ row.active \in Turns
  <2>1. CASE fresh
    <3>1. row = OpenRow(0) /\ w = nw + 1
      BY <2>1
    <3>2. w > nw
      BY <1>0, <3>1
    <3>3. wf[w].active = 0 /\ wf[w].gate # "explicit"
      BY <1>4, <3>2 DEF Situation, Known
    <3> HIDE DEF row, w, fresh
    <3> QED BY <1>0, <3>1, <3>3 DEF OpenRow
  <2>2. CASE ~fresh /\ Open(nw)
    <3>1. row = wf[nw] /\ w = nw
      BY <2>2
    <3>2. row.active # 0 => turn[row.active].wf = w /\ row.active \in Turns
      BY <1>4, <2>2, <3>1, WfTypes DEF Situation, Belongs
    <3> HIDE DEF row, w, fresh
    <3> QED BY <1>0, <1>4, <2>2, <3>1, <3>2, OpenNewest DEF WorkflowRow
  <2>3. CASE ~fresh /\ ~Open(nw)
    <3>1. row = OpenRow(promoted) /\ w = nw /\ promoted # 0
      BY <2>3
    <3>2. /\ nw \in Workflows /\ wf[nw].gate # "explicit"
          /\ promoted \in Turns /\ promoted <= nt /\ promoted > wf[nw].active /\ turn[promoted].wf = nw
      BY <3>1, GatedRow
    <3>3. promoted \in Nat /\ wf[nw].active \in Nat
      BY <3>2, WfTypes DEF Situation
    <3> HIDE DEF row, w, fresh, promoted
    <3> QED BY <1>0, <3>1, <3>2, <3>3 DEF OpenRow
  <2> QED BY <2>1, <2>2, <2>3
<1>6. nw' = nw \/ (nw' = nw + 1 /\ ~Open(nw))
  <2>1. fresh => ~Open(nw)
    BY DEF Open
  <2> QED BY <1>1, <2>1
<1> HIDE DEF promoted, fresh, row, queued, w
<1>7. g.status = "open" /\ g.gate # "explicit" /\ g.active = b
  BY <1>5
<1>8. b <= nt' /\ b >= wf[nw'].active
  <2>1. row.active \in Nat /\ wf[w].active \in Nat /\ row.active >= wf[w].active /\ row.active <= nt
    BY <1>0, <1>4, <1>5
  <2>2. (b = row.active \/ b = nt + 1) /\ nt' = nt + 1 /\ nw' = w
    BY <1>1
  <2> HIDE DEF b, n
  <2> QED BY <1>0, <2>1, <2>2
<1>9. b # 0 => turn'[b].wf = nw'
  <2>1. CASE queued
    <3>1. b = row.active
      BY <2>1
    <3>2. row.active # 0 => row.active # n /\ row.active \in Turns
      BY <1>0, <1>5
    <3>3. row.active # 0 => Edit(turn[row.active], turn'[row.active])
      BY <1>3, <3>2
    <3> QED BY <1>1, <1>5, <3>1, <3>3 DEF Edit, Kept
  <2>2. CASE ~queued
    BY <1>3, <2>2
  <2> QED BY <2>1, <2>2
<1> HIDE DEF g, b
<1> QED BY <1>1, <1>2, <1>4, <1>5, <1>6, <1>7, <1>8, <1>9, NewestMoves DEF Advances

(* The promotion that follows a last attempt binds an input behind the     *)
(* claim; as the claim is still the active turn, the binding moves forward *)
(* although this transaction does not read it.                             *)
LEMMA RequeueTurnMoves ==
  ASSUME Situation, RequeueTurn
  PROVE  Advances
<1> DEFINE t == dturn
           w == turn[t].wf
           successor == Least(QueuedInputsAfter(w, t))
           exhausted == dpc = "requeue" /\ turn[t].attempts >= MaxAttempts
<1>0. nw' = nw /\ nt' = nt /\ dpc \in Bearing /\ dpc \in Ticks
  BY DEF RequeueTurn, Bearing, Ticks
<1>1. t \in Turns
  BY <1>0, BoundAssumption DEF Situation, TypeInv, Threads, Locals, Turns
<1>2. CASE wf' = wf
  BY <1>0, <1>2, UnwrittenMoves DEF Advances, wfVars
<1>3. CASE wf' # wf
  <2>1. ClaimMatches(t) /\ Open(w) /\ exhausted
        /\ wf' = IF successor = 0
                 THEN [wf EXCEPT ![w].status = "owner_gate", ![w].gate = "transport"]
                 ELSE [wf EXCEPT ![w].active = successor, ![w].noProgress = 0]
    BY <1>3 DEF RequeueTurn
  <2>2. w = nw /\ Open(nw) /\ w \in 0..MaxWorkflows
    <3>1. w \in 0..MaxWorkflows /\ w # 0
      BY <1>1, <2>1, RowTypes DEF Situation, TurnRow, Open
    <3>2. w \in Workflows
      BY <3>1, BoundAssumption DEF Workflows
    <3> QED BY <2>1, <3>1, <3>2 DEF Situation, OneOpenWorkflow
  <2>3. wf[nw].active = t
    BY <1>0, <2>1, <2>2 DEF Situation, Bound
  <2>4. CASE successor = 0
    <3> DEFINE g == [wf[nw] EXCEPT !.status = "owner_gate", !.gate = "transport"]
    <3>1. wf' = [wf EXCEPT ![nw'] = g]
      BY <1>0, <2>1, <2>2, <2>4
    <3>2. g.status = "owner_gate" /\ g.gate = "transport" /\ g.active = wf[nw].active
      BY <2>2, OpenNewest DEF WorkflowRow
    <3>3. wf[nw].active >= wf[nw].active /\ wf[nw].active <= nt'
      BY <1>0, <2>2, OpenNewest
    <3> HIDE DEF g, t, w
    <3> QED BY <1>0, <2>2, <3>1, <3>2, <3>3, OpenNewest, NewestMoves DEF Advances
  <2>5. CASE successor # 0
    <3> DEFINE g == [wf[nw] EXCEPT !.active = successor, !.noProgress = 0]
    <3>1. wf' = [wf EXCEPT ![nw'] = g]
      BY <1>0, <2>1, <2>2, <2>5
    <3>2. successor \in QueuedInputsAfter(w, t)
      BY <2>5, QueuedInputsAreTurns, LeastOfTurns
    <3> HIDE DEF successor
    <3>3. g.status = "open" /\ g.gate # "explicit" /\ g.active = successor
      BY <2>2, OpenNewest DEF WorkflowRow
    <3>4. successor \in Turns /\ successor <= nt /\ successor > t /\ turn[successor].wf = nw
          /\ turn[successor].state = "queued"
      BY <2>2, <3>2, QueuedRow
    <3>5. turn'[successor].wf = nw
      <4>1. Kept(turn[successor], turn'[successor])
        BY <3>4 DEF Situation, RowsKept
      <4> QED BY <1>0, <3>4, <4>1 DEF Kept
    <3>6. t \in Nat /\ successor \in Nat
      BY <1>1, <3>4, WfTypes DEF Situation
    <3>7. successor >= wf[nw].active /\ successor <= nt'
      BY <1>0, <2>3, <3>4, <3>6
    <3> HIDE DEF g, t, w
    <3> QED BY <1>0, <2>2, <3>1, <3>3, <3>5, <3>7, OpenNewest, NewestMoves DEF Advances
  <2> QED BY <2>4, <2>5
<1> QED BY <1>2, <1>3

(* A close ends the newest workflow and may open the next one with the     *)
(* first input it carries.                                                 *)
LEMMA CloseMoves ==
  ASSUME Situation, CloseWorkflow
  PROVE  /\ nw' >= nw /\ \A w \in Workflows : Moves(w)
         /\ \A w \in Workflows : w # nw => Undecided(w)
<1> DEFINE s == closing.status
           carried == Carried(s)
           first == Min(carried)
<1>0. /\ wf \in [Workflows -> WorkflowRow] /\ nw \in Nat /\ nt \in Nat
      /\ nw \in 0..MaxWorkflows /\ nt' = nt /\ s \in {"terminal", "owner_gate"}
      /\ Workflows \subseteq Nat \ {0}
  BY WfTypes DEF Situation, CloseWorkflow, TypeInv, WfTable, Resources
<1>1. CASE UNCHANGED wfVars
  BY <1>1, UnwrittenMoves
<1>2. ASSUME nw \in Workflows, wf'[nw] = ClosedRow(s), nw' \in Nat, nw' >= nw
      PROVE  Moves(nw)
  <2>1. ClosedRow(s).active = wf[nw].active /\ ClosedRow(s).status = s
    BY <1>0, <1>2 DEF ClosedRow, WorkflowRow
  <2>2. wf[nw].active \in Nat /\ wf[nw].active <= nt
    BY <1>2, WfTypes DEF Situation, Known
  <2> HIDE DEF s
  <2> QED BY <1>0, <1>2, <2>1, <2>2 DEF Moves
<1>3. CASE ~Refused(s) /\ carried = {}
  <2>1. nw' = nw /\ wf' = [wf EXCEPT ![nw] = ClosedRow(s)]
    BY <1>3 DEF CloseWorkflow
  <2>2. \A w \in Workflows : w # nw => wf'[w] = wf[w]
    BY <1>0, <2>1
  <2>3. \A w \in Workflows : w # nw => Moves(w) /\ Undecided(w)
    BY <1>0, <2>1, <2>2, UntouchedMoves
  <2>4. nw \in Workflows => Moves(nw)
    BY <1>0, <1>2, <2>1
  <2> QED BY <1>0, <2>1, <2>3, <2>4
<1>4. CASE ~Refused(s) /\ carried # {}
  <2>1. /\ nw < MaxWorkflows /\ nw' = nw + 1
        /\ wf' = [[wf EXCEPT ![nw] = ClosedRow(s)] EXCEPT ![nw + 1] = OpenRow(first)]
        /\ \A u \in carried : u \in Turns => turn'[u] = [turn[u] EXCEPT !.wf = nw + 1, !.reason = "none", !.due = "now"]
    BY <1>4 DEF CloseWorkflow
  <2>2. nw + 1 \in Workflows /\ nw + 1 # nw /\ nw' >= nw /\ nw' \in Nat
    <3>1. nw < MaxWorkflows /\ nw' = nw + 1
      BY <2>1
    <3> QED BY <1>0, <3>1, BoundAssumption DEF Workflows
  <2>3. first \in carried /\ carried \subseteq QueuedInputsAfter(nw, 0)
    BY <1>4, QueuedInputsAreTurns, MinOfTurns DEF Carried
  <2>4. first \in Turns /\ first <= nt /\ turn[first] \in TurnRow
    BY <1>0, <2>3, QueuedRow, RowTypes DEF Situation
  <2>5. turn'[first].wf = nw + 1
    <3>1. turn'[first] = [turn[first] EXCEPT !.wf = nw + 1, !.reason = "none", !.due = "now"]
      BY <2>1, <2>3, <2>4
    <3> HIDE DEF first
    <3> QED BY <2>4, <3>1 DEF TurnRow
  <2> HIDE DEF first, carried, s
  <2>6. wf'[nw + 1] = OpenRow(first)
    BY <1>0, <2>1, <2>2
  <2>7. nw \in Workflows => wf'[nw] = ClosedRow(s)
    BY <1>0, <2>1, <2>2
  <2>8. \A w \in Workflows : w # nw /\ w # nw + 1 => wf'[w] = wf[w]
    BY <1>0, <2>1
  <2>9. \A w \in Workflows : w # nw /\ w # nw + 1 => Moves(w) /\ Undecided(w)
    BY <2>2, <2>8, UntouchedMoves
  <2>10. nw \in Workflows => Moves(nw)
    BY <1>2, <2>2, <2>7
  <2>11. Moves(nw + 1) /\ Undecided(nw + 1)
    <3>1. nw + 1 > nw
      BY <1>0
    <3>2. wf[nw + 1].active = 0 /\ wf[nw + 1].gate # "explicit"
      BY <2>2, <3>1 DEF Situation, Known
    <3>3. /\ OpenRow(first).active = first /\ OpenRow(first).status = "open"
          /\ OpenRow(first).gate = "none"
      BY DEF OpenRow
    <3>4. first \in Nat
      BY <2>4, WfTypes DEF Situation
    <3>5. nw' = nw + 1 /\ nw' \in Nat
      BY <2>1, <2>2
    <3> DEFINE x == nw + 1
    <3>6. /\ wf'[x].active = first /\ wf'[x].status = "open" /\ wf'[x].gate = "none"
          /\ wf[x].active = 0 /\ wf[x].gate # "explicit" /\ x = nw' /\ turn'[first].wf = x
      BY <2>5, <2>6, <3>2, <3>3, <3>5
    <3>7. ~(x > nw') /\ first >= wf[x].active /\ first <= nt'
      BY <1>0, <2>4, <3>4, <3>5, <3>6
    <3> HIDE DEF x
    <3>8. Moves(x) /\ Undecided(x)
      BY <3>6, <3>7 DEF Moves, Undecided
    <3> QED BY <3>8 DEF x
  <2> QED BY <2>2, <2>9, <2>10, <2>11
<1> QED BY <1>1, <1>3, <1>4 DEF CloseWorkflow, wfVars

(* Every step but a close advances the workflows.                          *)
LEMMA WorkflowsStep ==
  ASSUME Situation, [Next]_vars
  PROVE  Advances \/ CloseWorkflow
<1>1. CASE UNCHANGED wfVars
  BY <1>1, UnwrittenMoves DEF Advances
<1>2. ASSUME NEW s \in Senders, PrepareInput(s) \/ SenderNext(s)
      PROVE  Advances \/ UNCHANGED wfVars
  <2>1. CASE PrepareInput(s)
    BY <2>1, PrepareMoves
  <2>2. CASE SenderNext(s)
    BY <2>2 DEF SenderNext, SenderSlot, SenderOp, SenderBind, SenderPaste, SenderFail,
                SenderUnlock, SenderRetain
  <2> QED BY <1>2, <2>1, <2>2
<1>3. ASSUME NEW o \in Observers, ObserverLook(o) \/ ObserverNext(o)
      PROVE  Advances \/ UNCHANGED wfVars
  <2>1. CASE ObserverRequeue(o)
    BY <2>1, RequeueSettledMoves DEF ObserverRequeue
  <2>2. CASE ~ObserverRequeue(o)
    BY <1>3, <2>2 DEF ObserverLook, ObserverNext, ObserverSettle, ObserverBusy
  <2> QED BY <2>1, <2>2
<1>4. CASE DispatcherLook \/ DispatcherNext
  <2>1. CASE DispatcherRequeueSettled
    BY <2>1, RequeueSettledMoves DEF DispatcherRequeueSettled
  <2>2. CASE ObserveFinal
    BY <2>2, FinalMoves
  <2>3. CASE Activate
    BY <2>3, ActivateMoves
  <2>4. CASE RequeueTurn
    BY <2>4, RequeueTurnMoves
  <2>5. CASE \/ DispatcherLook \/ DispatcherBusy \/ DispatcherSettle \/ ReadyNotStable
             \/ PickTurn \/ ClaimTurn \/ RenewClaim \/ DispatcherSlot \/ DispatcherOp
             \/ DispatcherBind \/ MarkSent \/ ProviderOutcome
             \/ DispatcherPaste \/ DispatcherFail \/ DispatcherUnlock
    <3>1. UNCHANGED wfVars
      BY <2>5 DEF DispatcherLook, DispatcherBusy, DispatcherSettle, ReadyNotStable,
         PickTurn, ClaimTurn, RenewClaim, DispatcherSlot, DispatcherOp, DispatcherBind,
         MarkSent, ProviderOutcome, DispatcherPaste, DispatcherFail, DispatcherUnlock
    <3> QED BY <1>1, <3>1
  <2> QED BY <1>4, <2>1, <2>2, <2>3, <2>4, <2>5 DEF DispatcherNext
<1>5. CASE ReceiverNext
  <2>1. ASSUME NEW t \in Turns, Admit(t) \/ Resume(t)
        PROVE  Advances \/ UNCHANGED wfVars
    BY <2>1, ResumeMoves DEF Admit
  <2>2. ASSUME NEW t \in Turns, NEW s \in {"terminal", "owner_gate"}, ClaimClose(t, s)
        PROVE  UNCHANGED wfVars
    BY <2>2 DEF ClaimClose
  <2> QED BY <1>1, <1>5, <2>1, <2>2 DEF ReceiverNext
<1>6. CASE RecoveryNext
  <2>1. CASE ReopenGated
    BY <2>1, ReopenMoves
  <2>2. CASE ~ReopenGated
    <3>1. UNCHANGED wfVars
      BY <1>6, <2>2 DEF RecoveryNext, ClaimExpires, BecomesDue, OpExpires, RequeueExpired,
                        Crash, Restart
    <3> QED BY <1>1, <3>1
  <2> QED BY <2>1, <2>2
<1>7. CASE UNCHANGED vars
  BY <1>7, <1>1 DEF vars
<1> QED BY <1>1, <1>2, <1>3, <1>4, <1>5, <1>6, <1>7 DEF Next

(* Bindings keep naming rows that exist.                                   *)
LEMMA KnownKept ==
  ASSUME Situation, nw' >= nw, \A w \in Workflows : Moves(w)
  PROVE  Known' /\ Belongs'
<1>1. Belongs'
  BY DEF Moves, Belongs, Open
<1>2. \A w \in Workflows : wf'[w].active <= nt'
  BY DEF Moves
<1>3. \A w \in Workflows : w > nw' => wf'[w].active = 0 /\ wf'[w].gate # "explicit"
  BY DEF Moves
<1>4. ASSUME NEW t \in Turns
      PROVE  turn'[t].wf <= nw'
  <2>1. turn[t].wf \in Nat /\ turn[t].wf <= nw /\ nw \in Nat /\ nw' \in Nat
    BY RowTypes, BoundAssumption DEF Situation, Known, TurnRow, TypeInv, WfTable
  <2>2. turn'[t].wf = turn[t].wf \/ turn'[t].wf = nw'
    BY DEF Situation, RowsKept, Kept
  <2> QED BY <2>1, <2>2
<1>5. nw' = 0 => \A t \in Turns : turn'[t].state = "none"
  <2> SUFFICES ASSUME nw' = 0, NEW t \in Turns PROVE turn'[t].state = "none"
    OBVIOUS
  <2>1. nw = 0
    BY RowTypes, BoundAssumption DEF Situation
  <2>2. Kept(turn[t], turn'[t])
    BY DEF Situation, RowsKept
  <2> QED BY <2>1, <2>2 DEF Kept, Situation, Known
<1> QED BY <1>1, <1>2, <1>3, <1>4, <1>5 DEF Known

(* A workflow that was closed before the step receives nothing.            *)
LEMMA SealedKept ==
  ASSUME Situation, \A w \in Workflows : Moves(w),
         NEW v \in Workflows, wf'[v].gate = "explicit", wf[v].gate = "explicit"
  PROVE  /\ wf'[v].status # "open"
         /\ \A t \in Turns : turn'[t].wf = v => turn'[t].state \notin Pending
<1>1. wf'[v].status # "open" /\ wf[v].status # "open"
  BY DEF Moves, Situation, Sealed
<1>2. ASSUME NEW t \in Turns, turn'[t].wf = v
      PROVE  turn'[t].state \notin Pending
  <2>1. v # nw' \/ wf'[nw'].status # "open"
    BY <1>1
  <2>2. Kept(turn[t], turn'[t]) /\ turn[t].wf = v
    BY <1>2, <2>1 DEF Situation, RowsKept, Kept
  <2>3. turn[t].state \notin Pending /\ ~Open(v)
    BY <1>1, <2>2 DEF Situation, Sealed, Open
  <2> QED BY <2>2, <2>3 DEF Kept
<1> QED BY <1>1, <1>2

(* A close leaves nothing pending in the workflow it ends.                 *)
LEMMA SealedClosed ==
  ASSUME Situation, CloseWorkflow
  PROVE  Sealed'
<1> SUFFICES ASSUME NEW v \in Workflows, wf'[v].gate = "explicit"
             PROVE  /\ wf'[v].status # "open"
                    /\ \A t \in Turns : turn'[t].wf = v => turn'[t].state \notin Pending
  BY DEF Sealed
<1>1. CASE wf[v].gate = "explicit"
  BY <1>1, CloseMoves, SealedKept
<1>2. CASE wf[v].gate # "explicit"
  <2> DEFINE s == closing.status
             carried == Carried(s)
             cancelled == Cancel(Doomed(s))
  <2>1. v = nw /\ nw \in 0..MaxWorkflows /\ wf \in [Workflows -> WorkflowRow]
        /\ s \in {"terminal", "owner_gate"} /\ nw \in Nat
    BY <1>2, CloseMoves, WfTypes DEF Undecided, Situation, CloseWorkflow, TypeInv, WfTable, Resources
  <2>2. ~Refused(s)
    BY <1>2 DEF CloseWorkflow, wfVars
  <2>3. wf'[v] = ClosedRow(s) /\ nw' \in {nw, nw + 1}
    <3>1. nw + 1 # nw
      BY <2>1
    <3>2. CASE carried = {}
      BY <2>1, <2>2, <3>2 DEF CloseWorkflow
    <3>3. CASE carried # {}
      <4>1. wf' = [[wf EXCEPT ![nw] = ClosedRow(s)] EXCEPT ![nw + 1] = OpenRow(Min(carried))]
            /\ nw' = nw + 1
        BY <2>2, <3>3 DEF CloseWorkflow
      <4> HIDE DEF carried, s
      <4> QED BY <2>1, <3>1, <4>1
    <3> QED BY <3>2, <3>3
  <2>4. wf'[v].status = s
    BY <2>1, <2>3 DEF ClosedRow, WorkflowRow
  <2>5. ASSUME NEW t \in Turns, turn'[t].wf = v, turn'[t].state \in Pending
        PROVE  FALSE
    <3>1. turn[t].wf = nw
      <4>1. wf'[nw].status # "open"
        BY <2>1, <2>4
      <4> QED BY <2>1, <2>5, <4>1 DEF Situation, RowsKept, Kept
    <3>2. nw + 1 # nw
      BY <2>1
    <3>3. t \notin carried
      <4>1. t \in carried => turn'[t] = [turn[t] EXCEPT !.wf = nw + 1, !.reason = "none", !.due = "now"]
        BY <2>2 DEF CloseWorkflow
      <4>2. turn[t] \in TurnRow
        BY RowTypes DEF Situation
      <4> HIDE DEF carried
      <4> QED BY <2>1, <2>5, <3>2, <4>1, <4>2 DEF TurnRow
    <3>4. turn'[t] = cancelled[t]
      BY <2>2, <3>3 DEF CloseWorkflow
    <3>5. turn[t].state \in Pending
      BY <2>5, <3>4 DEF Cancel, Doomed, WithState, InWorkflow
    <3>6. t \in Doomed(s)
      BY <3>1, <3>3, <3>5 DEF Doomed, WithState, InWorkflow
    <3>7. cancelled[t].state = "cancelled"
      BY <3>6, RowTypes DEF Cancel, TurnRow, Situation
    <3> QED BY <2>5, <3>4, <3>7 DEF Pending
  <2> QED BY <2>1, <2>4, <2>5
<1> QED BY <1>1, <1>2

(* No step fills a workflow that was closed.                               *)
LEMMA SealedStep ==
  ASSUME Situation, Advances \/ CloseWorkflow
  PROVE  Sealed'
<1>1. CASE CloseWorkflow
  BY <1>1, SealedClosed
<1>2. CASE Advances
  BY <1>2, SealedKept DEF Advances, Undecided, Sealed
<1> QED BY <1>1, <1>2

(* While the dispatcher bears a claim, another thread's step leaves the     *)
(* binding of that claim as it is.                                          *)
LEMMA BoundStays ==
  ASSUME Situation, dpc' = dpc \/ dpc \in Bearing, dturn' = dturn,
         \A w \in Workflows : w <= nw /\ wf'[w].status = "open" =>
             /\ wf[w].status = "open"
             /\ wf'[w].active = wf[w].active \/ turn[wf[w].active].state = "sent"
  PROVE  Bound'
<1> SUFFICES ASSUME dpc' \in Bearing, turn'[dturn].state = "claimed", turn'[dturn].claim = "live",
                    turn'[dturn].wf # 0, wf'[turn'[dturn].wf].status = "open"
             PROVE  wf'[turn'[dturn].wf].active = dturn
  BY DEF Bound, ClaimMatches, Open
<1>1. dpc \in Bearing /\ dpc # "picked"
  BY DEF Bearing
<1>2. dturn \in Turns
  BY <1>1, BoundAssumption DEF Situation, TypeInv, Threads, Locals, Turns, Ticks, Bearing
<1>3. Kept(turn[dturn], turn'[dturn])
  BY <1>2 DEF Situation, RowsKept
<1>4. turn[dturn].claim = "live"
  BY <1>1, <1>3 DEF Kept
<1>5. turn[dturn].state = "claimed"
  BY <1>2, <1>4, RowTypes DEF Situation, RowOK
<1>6. turn'[dturn].wf = turn[dturn].wf
  BY <1>3, <1>5 DEF Kept
<1> DEFINE w == turn[dturn].wf
<1>7. w \in Workflows /\ w <= nw /\ w # 0
  <2>1. w \in 0..MaxWorkflows /\ w <= nw
    BY <1>2, RowTypes DEF Situation, Known, TurnRow
  <2> QED BY <1>6, <2>1, BoundAssumption DEF Workflows
<1>8. wf[w].status = "open" /\ (wf'[w].active = wf[w].active \/ turn[wf[w].active].state = "sent")
  BY <1>6, <1>7
<1>9. wf[w].active = dturn
  BY <1>1, <1>4, <1>5, <1>7, <1>8 DEF Situation, Bound, ClaimMatches, Open
<1> QED BY <1>5, <1>6, <1>8, <1>9

(* Nothing is claimed of a dispatcher that bears no claim.                 *)
LEMMA BoundNot ==
  ASSUME dpc' \notin Bearing
  PROVE  Bound'
BY DEF Bound

(* A step that writes no workflow keeps the claim bound.                   *)
LEMMA BoundSame ==
  ASSUME Situation, dpc' = dpc \/ dpc \in Bearing, dturn' = dturn, wf' = wf
  PROVE  Bound'
BY BoundStays

(* A close leaves no workflow open that it writes, but a new one.          *)
LEMMA ClosesOnly ==
  ASSUME Situation, CloseWorkflow, NEW w \in Workflows, w <= nw, wf'[w].status = "open"
  PROVE  wf'[w] = wf[w]
<1> DEFINE s == closing.status
           carried == Carried(s)
<1>1. wf \in [Workflows -> WorkflowRow] /\ s \in {"terminal", "owner_gate"} /\ w # nw + 1
  <2>1. wf \in [Workflows -> WorkflowRow] /\ nw \in Nat /\ w \in Nat
    BY WfTypes DEF Situation
  <2>2. s \in {"terminal", "owner_gate"}
    BY DEF Situation, CloseWorkflow, TypeInv, Resources
  <2> HIDE DEF s
  <2> QED BY <2>1, <2>2
<1>2. CASE wf' = wf
  BY <1>2
<1>3. CASE wf' = [wf EXCEPT ![nw] = ClosedRow(s)]
  <2>1. w # nw
    BY <1>1, <1>3 DEF ClosedRow, WorkflowRow
  <2> QED BY <1>1, <1>3, <2>1
<1>4. CASE wf' = [[wf EXCEPT ![nw] = ClosedRow(s)] EXCEPT ![nw + 1] = OpenRow(Min(carried))]
  <2> HIDE DEF carried
  <2>1. w # nw
    BY <1>1, <1>4 DEF ClosedRow, WorkflowRow
  <2> QED BY <1>1, <1>4, <2>1
<1> QED BY <1>2, <1>3, <1>4 DEF CloseWorkflow, wfVars

(* From the activation on, the claim that is borne stays bound.            *)
LEMMA BoundStep ==
  ASSUME Situation, [Next]_vars
  PROVE  Bound'
<1>0. wf \in [Workflows -> WorkflowRow] /\ nw \in Nat
  BY WfTypes DEF Situation
<1>1. ASSUME NEW s \in Senders, PrepareInput(s) \/ SenderNext(s)
      PROVE  Bound'
  <2>1. CASE PrepareInput(s)
    <3>1. dpc' = "idle"
      BY <2>1 DEF PrepareInput, dVars
    <3> QED BY <3>1, BoundNot DEF Bearing
  <2>2. CASE SenderNext(s)
    <3>1. dpc' = dpc /\ dturn' = dturn /\ wf' = wf
      BY <2>2 DEF SenderNext, SenderSlot, SenderOp, SenderBind, SenderPaste, SenderFail,
                  SenderUnlock, SenderRetain, dVars, wfVars
    <3> QED BY <3>1, BoundSame
  <2> QED BY <1>1, <2>1, <2>2
<1>2. ASSUME NEW o \in Observers, ObserverLook(o) \/ ObserverNext(o)
      PROVE  Bound'
  <2>1. dpc' = dpc /\ dturn' = dturn
    BY <1>2 DEF ObserverLook, ObserverNext, ObserverSettle, ObserverBusy, ObserverRequeue, dVars
  <2>2. CASE wf' = wf
    BY <2>1, <2>2, BoundSame
  <2>3. CASE wf' # wf
    <3>1. wf' = [wf EXCEPT ![nw].status = "owner_gate", ![nw].gate = "transport"]
      BY <1>2, <2>3 DEF ObserverLook, ObserverNext, ObserverSettle, ObserverBusy, ObserverRequeue,
                        RequeueSettled, Requeued, wfVars
    <3>2. \A w \in Workflows : wf'[w].status = "open" =>
             wf[w].status = "open" /\ wf'[w].active = wf[w].active
      BY <1>0, <3>1 DEF WorkflowRow
    <3> QED BY <2>1, <3>2, BoundStays
  <2> QED BY <2>2, <2>3
<1>3. CASE DispatcherLook \/ DispatcherNext
  <2>1. CASE Activate
    <3>1. CASE ~MayActivate(dturn)
      BY <2>1, <3>1, BoundNot DEF Activate, DispatcherAt, Bearing
    <3>2. CASE MayActivate(dturn)
      <4>1. /\ wf' = [wf EXCEPT ![nw].active = dturn] /\ turn' = turn /\ dturn' = dturn
            /\ turn[dturn].wf = nw /\ Open(nw)
        BY <2>1, <3>2 DEF Activate, MayActivate, DispatcherAt, turnVars
      <4>2. wf'[nw].active = dturn
        BY <1>0, <4>1, ActiveIsTurn DEF Situation, WorkflowRow
      <4> QED BY <4>1, <4>2 DEF Bound
    <3> QED BY <3>1, <3>2
  <2>2. CASE \/ DispatcherSlot \/ DispatcherOp \/ DispatcherBind \/ DispatcherPaste
             \/ DispatcherFail \/ DispatcherUnlock
    <3>1. dpc \in Bearing /\ dturn' = dturn /\ wf' = wf
      BY <2>2 DEF DispatcherSlot, DispatcherOp, DispatcherBind, DispatcherPaste,
                  DispatcherFail, DispatcherUnlock, Bearing, wfVars
    <3> QED BY <3>1, BoundSame
  <2>3. CASE \/ DispatcherLook \/ DispatcherBusy \/ DispatcherSettle \/ DispatcherRequeueSettled
             \/ ReadyNotStable \/ ObserveFinal \/ ProviderOutcome
             \/ PickTurn \/ ClaimTurn \/ RenewClaim \/ MarkSent \/ RequeueTurn
    <3>1. dpc' \in {"look", "idle", "released", "settled", "observed", "picked", "claimed", "renewed"}
      BY <2>3 DEF DispatcherLook, DispatcherBusy, DispatcherSettle, DispatcherRequeueSettled,
                  ReadyNotStable, ObserveFinal, ProviderOutcome, PickTurn, ClaimTurn, RenewClaim,
                  MarkSent, RequeueTurn, DispatcherAt
    <3> QED BY <3>1, BoundNot DEF Bearing
  <2> QED BY <1>3, <2>1, <2>2, <2>3 DEF DispatcherNext
<1>4. CASE ReceiverNext
  <2>1. ASSUME NEW t \in Turns, Admit(t)
        PROVE  Bound'
    BY <2>1, BoundSame DEF Admit, dVars, wfVars
  <2>2. ASSUME NEW t \in Turns, Resume(t)
        PROVE  Bound'
    <3>1. /\ dpc' = dpc /\ dturn' = dturn /\ wf' = [wf EXCEPT ![nw].active = nt + 1]
          /\ turn[wf[nw].active].state = "sent"
      BY <2>2 DEF Resume, IsActive, dVars
    <3>2. \A w \in Workflows : wf'[w].status = "open" =>
             wf[w].status = "open" /\ (wf'[w].active = wf[w].active \/ w = nw)
      BY <1>0, <3>1 DEF WorkflowRow
    <3> QED BY <3>1, <3>2, BoundStays
  <2>3. ASSUME NEW t \in Turns, NEW s \in {"terminal", "owner_gate"}, ClaimClose(t, s)
        PROVE  Bound'
    BY <2>3, BoundSame DEF ClaimClose, dVars, wfVars
  <2>4. CASE CloseWorkflow
    <3>1. dpc' = dpc /\ dturn' = dturn
      BY <2>4 DEF CloseWorkflow, dVars
    <3>2. \A w \in Workflows : w <= nw /\ wf'[w].status = "open" => wf'[w] = wf[w]
      BY <2>4, ClosesOnly
    <3> QED BY <3>1, <3>2, BoundStays
  <2> QED BY <1>4, <2>1, <2>2, <2>3, <2>4 DEF ReceiverNext
<1>5. CASE RecoveryNext
  <2>1. CASE ReopenGated \/ Crash
    <3>1. dpc' = "idle"
      BY <2>1 DEF ReopenGated, Crash, dVars
    <3> QED BY <3>1, BoundNot DEF Bearing
  <2>2. CASE ~(ReopenGated \/ Crash)
    <3>1. dpc' = dpc /\ dturn' = dturn /\ wf' = wf
      BY <1>5, <2>2 DEF RecoveryNext, ClaimExpires, BecomesDue, OpExpires, RequeueExpired, Restart,
                        dVars, wfVars
    <3> QED BY <3>1, BoundSame
  <2> QED BY <2>1, <2>2
<1>6. CASE UNCHANGED vars
  BY <1>6, BoundSame DEF vars, dVars, wfVars
<1> QED BY <1>1, <1>2, <1>3, <1>4, <1>5, <1>6 DEF Next

-----------------------------------------------------------------------------
(* The inductive invariant of the turns' history.                           *)
Inv == /\ TypeInv /\ OneOpenWorkflow
       /\ Known /\ Belongs /\ Bound /\ Sealed /\ History

(* The invariant holds before the first input.                             *)
LEMMA InitInv == Init => Inv
<1> SUFFICES ASSUME Init PROVE Inv
  OBVIOUS
<1>1. TypeInv
  BY InitTypeInv
<1>2. /\ nw = 0 /\ nt = 0 /\ dpc = "idle"
      /\ \A w \in Workflows : wf[w] = NoWorkflow
      /\ \A t \in Turns : turn[t] = NoTurn
  BY DEF Init
<1>3. OneOpenWorkflow /\ Belongs /\ Sealed
  BY <1>2 DEF OneOpenWorkflow, Belongs, Sealed, Open, NoWorkflow
<1>4. Known
  BY <1>2 DEF Known, NoWorkflow, NoTurn
<1>5. Bound
  BY <1>2 DEF Bound, Bearing
<1>6. History
  BY <1>2 DEF History, Fresh, Lineage, Descends, Told, OneSuccessor, NoRetryAfterOutcome, NoTurn
<1> QED BY <1>1, <1>3, <1>4, <1>5, <1>6 DEF Inv

(* Its parts give every lemma above its hypotheses.                        *)
LEMMA InvSituation ==
  ASSUME Inv, [Next]_vars
  PROVE  Situation /\ (Edited \/ Grown \/ \E a : Judged(a))
<1>1. TypeInv' /\ OneOpenWorkflow'
  BY TypeInvInductive, OneOpenInductive DEF Inv
<1>2. Edited \/ Grown \/ \E a : Judged(a)
  BY RowsStep DEF Inv
<1>3. RowsKept
  BY <1>2, StepKeepsRows DEF Inv
<1> QED BY <1>1, <1>2, <1>3 DEF Situation, Inv, History

(* The invariant is inductive.                                             *)
LEMMA InvInductive == Inv /\ [Next]_vars => Inv'
<1> SUFFICES ASSUME Inv, [Next]_vars PROVE Inv'
  OBVIOUS
<1>1. Situation /\ (Edited \/ Grown \/ \E a : Judged(a))
  BY InvSituation
<1>2. History'
  BY <1>1, HistoryEdited, HistoryGrown, HistoryJudged DEF Inv, Situation
<1>3. Advances \/ CloseWorkflow
  BY <1>1, WorkflowsStep
<1>4. Known' /\ Belongs'
  BY <1>1, <1>3, CloseMoves, KnownKept DEF Advances
<1>5. Sealed' /\ Bound'
  BY <1>1, <1>3, SealedStep, BoundStep
<1> QED BY <1>1, <1>2, <1>4, <1>5 DEF Inv, Situation

(* Hence it holds in every reachable state.                                *)
LEMMA InvAlways == Spec => []Inv
BY InitInv, InvInductive, PTL DEF Spec

(* Every provider final is answered by one continuation at most:            *)
(* observe_workflow_final called twice for the same turn, by two ticks or   *)
(* by a tick and a restart, adds one successor turn.                        *)
THEOREM AnsweredOnce == Spec => []OneSuccessor
<1>1. Inv => OneSuccessor
  BY DEF Inv, History
<1> QED BY <1>1, InvAlways, PTL

(* No continuation of a turn that ended in a provider-policy outcome        *)
(* survives it: neither the outcome tick, nor a final observed before or    *)
(* after it, nor a resume or requeue by                                     *)
(* claim_or_resume_workflow_turn_receipt leaves a live one.                 *)
THEOREM NoRetry == Spec => []NoRetryAfterOutcome
<1>1. Inv => NoRetryAfterOutcome
  BY DEF Inv, History
<1> QED BY <1>1, InvAlways, PTL

(* What is over stays over: no writer of turn rows, stale lease, late       *)
(* dispatcher or restart requeue included, takes a finished or cancelled    *)
(* turn to another state.                                                   *)
THEOREM OverForGood == Spec => FinalStaysFinal
<1>1. ASSUME Inv, [Next]_vars
      PROVE  [\A t \in Turns : turn[t].state \in {"finished", "cancelled"} =>
                                  turn'[t].state = turn[t].state]_vars
  <2> SUFFICES ASSUME NEW t \in Turns, turn[t].state \in Over
               PROVE  turn'[t].state = turn[t].state
    BY DEF Over
  <2>1. ~(t > nt)
    BY <1>1 DEF Inv, History, Fresh, Over
  <2>2. t <= nt
    BY <1>1, <2>1, WfTypes DEF Inv
  <2> QED BY <1>1, <2>2, InvSituation DEF Situation, RowsKept, Kept
<1> QED BY <1>1, InvAlways, PTL DEF Spec, FinalStaysFinal

(* An owner's accepted input is dropped by an owner gate or after its last  *)
(* transport attempt only: other input, a final,                            *)
(* set_workflow_terminal_state and the recoveries keep it queued or deliver *)
(* it.                                                                      *)
THEOREM NoInputLost == Spec => InputsKept
<1>1. ASSUME Inv, [Next]_vars
      PROVE  [\A t \in Turns :
                 /\ turn[t].kind = "external_input" /\ turn[t].receipt = "none"
                 /\ turn[t].state # "cancelled" /\ turn'[t].state = "cancelled"
                 => \/ wf'[turn[t].wf].status = "owner_gate"
                    \/ turn[t].attempts >= MaxAttempts]_vars
  <2> SUFFICES ASSUME NEW t \in Turns, turn[t].kind = "external_input", turn[t].receipt = "none",
                      turn[t].state # "cancelled", turn'[t].state = "cancelled"
               PROVE  \/ wf'[turn[t].wf].status = "owner_gate"
                      \/ turn[t].attempts >= MaxAttempts
    OBVIOUS
  <2>1. CASE Kept(turn[t], turn'[t])
    BY <2>1 DEF Kept
  <2>2. CASE ~Kept(turn[t], turn'[t])
    <3>1. Grown /\ t = nt + 1
      BY <1>1, <2>2, InvSituation DEF Edited, Edit, Grown, Judged
    <3> QED BY <3>1 DEF Grown, Birth
  <2> QED BY <2>1, <2>2
<1> QED BY <1>1, InvAlways, PTL DEF Spec, InputsKept

(* The active binding of a workflow never rolls back, although              *)
(* activate_workflow_turn, the receipts, the resumes and the requeue's      *)
(* promotion write it in transactions that follow a decision taken before.  *)
THEOREM Forward == Spec => ActiveForward
<1>1. ASSUME Inv, [Next]_vars
      PROVE  [\A w \in Workflows : wf'[w].active >= wf[w].active]_vars
  BY <1>1, InvSituation, WorkflowsStep, CloseMoves DEF Advances, Moves
<1> QED BY <1>1, InvAlways, PTL DEF Spec, ActiveForward

(* A workflow closed by an explicit decision never opens again: the gate    *)
(* repair reopens only a gate left without decision, and no late requeue    *)
(* leaves a queued input behind the closed one.                             *)
THEOREM ClosedForGood == Spec => ClosedStaysClosed
<1>1. ASSUME Inv, [Next]_vars
      PROVE  [\A w \in Workflows : wf[w].gate = "explicit" => wf'[w].status # "open"]_vars
  BY <1>1, InvSituation, WorkflowsStep, CloseMoves DEF Advances, Moves
<1> QED BY <1>1, InvAlways, PTL DEF Spec, ClosedStaysClosed

(* What a completion does with an untouched input.                         *)
LEMMA CloseCarries ==
  ASSUME Situation, CloseWorkflow, Open(nw), wf'[nw].status = "terminal",
         NEW t \in QueuedInputsAfter(nw, 0), turn[t].receipt = "none"
  PROVE  /\ turn'[t].state = "queued" /\ turn'[t].wf = nw'
         /\ wf'[nw'].status = "open" /\ wf'[nw'].active <= t
<1> DEFINE s == closing.status
           carried == Carried(s)
           first == Min(carried)
<1>0. s \in {"terminal", "owner_gate"}
  BY DEF Situation, CloseWorkflow, TypeInv, Resources
<1>1. /\ wf \in [Workflows -> WorkflowRow] /\ nw \in Nat /\ nw \in Workflows
      /\ s \in {"terminal", "owner_gate"} /\ wf[nw].status = "open" /\ nw + 1 # nw
  <2>1. wf \in [Workflows -> WorkflowRow] /\ nw \in Nat /\ nw \in Workflows /\ wf[nw].status = "open"
    BY WfTypes, ActiveIsTurn DEF Situation, Open
  <2> HIDE DEF s
  <2> QED BY <1>0, <2>1
<1>2. ~Refused(s)
  BY <1>1 DEF CloseWorkflow, wfVars
<1>3. s = "terminal"
  <2>1. CASE carried = {}
    <3>1. wf' = [wf EXCEPT ![nw] = ClosedRow(s)]
      BY <1>2, <2>1 DEF CloseWorkflow
    <3> HIDE DEF s
    <3> QED BY <1>1, <3>1 DEF ClosedRow, WorkflowRow
  <2>2. CASE carried # {}
    BY <1>1, <2>2 DEF Carried
  <2> QED BY <2>1, <2>2
<1>4. t \in carried /\ t \in Turns /\ turn[t].state = "queued"
  BY <1>3 DEF Carried, QueuedInputsAfter, WithState, InWorkflow
<1>5. carried \in SUBSET Turns /\ carried # {}
  BY <1>4, QueuedInputsAreTurns DEF Carried
<1>6. first <= t
  BY <1>4, <1>5, MinOfTurns
<1>7. /\ nw < MaxWorkflows /\ nw' = nw + 1
      /\ wf' = [[wf EXCEPT ![nw] = ClosedRow(s)] EXCEPT ![nw + 1] = OpenRow(first)]
      /\ turn'[t] = [turn[t] EXCEPT !.wf = nw + 1, !.reason = "none", !.due = "now"]
  BY <1>2, <1>4, <1>5 DEF CloseWorkflow
<1>8. nw + 1 \in Workflows
  <2>1. nw < MaxWorkflows
    BY <1>7
  <2> QED BY <1>1, <2>1, BoundAssumption DEF Workflows
<1>9. turn[t] \in TurnRow
  BY <1>4, RowTypes DEF Situation
<1> HIDE DEF carried, s, first
<1>10. wf'[nw'] = OpenRow(first)
  BY <1>1, <1>7, <1>8
<1> QED BY <1>4, <1>6, <1>7, <1>9, <1>10 DEF OpenRow, TurnRow

(* A completion leaves no untouched owner input behind:                     *)
(* set_workflow_terminal_state moves every queued one into the workflow     *)
(* that it opens in its place, whose active binding is above none of them.  *)
THEOREM CompletionCarries == Spec => CompletionCarriesInputs
<1>1. ASSUME Inv, [Next]_vars
      PROVE  [\A w \in Workflows : Open(w) /\ wf'[w].status = "terminal" =>
                \A t \in QueuedInputsAfter(w, 0) : turn[t].receipt = "none" =>
                   /\ turn'[t].state = "queued" /\ turn'[t].wf = nw'
                   /\ wf'[nw'].status = "open" /\ wf'[nw'].active <= t]_vars
  <2> SUFFICES ASSUME NEW w \in Workflows, Open(w), wf'[w].status = "terminal",
                      NEW t \in QueuedInputsAfter(w, 0), turn[t].receipt = "none"
               PROVE  /\ turn'[t].state = "queued" /\ turn'[t].wf = nw'
                      /\ wf'[nw'].status = "open" /\ wf'[nw'].active <= t
    OBVIOUS
  <2>1. w = nw
    BY <1>1 DEF Inv, OneOpenWorkflow
  <2>2. wf[w].status = "open"
    BY DEF Open
  <2>3. Situation
    BY <1>1, InvSituation
  <2>4. CloseWorkflow
    BY <1>1, <2>2, <2>3, WorkflowsStep DEF Advances, Undecided
  <2> QED BY <2>1, <2>3, <2>4, CloseCarries
<1> QED BY <1>1, InvAlways, PTL DEF Spec, CompletionCarriesInputs

=============================================================================
