---------------------------- MODULE ChildResults ----------------------------
(***************************************************************************)
(* What becomes of the results of delegated children: one parent terminal, *)
(* its workflow, and the attempts it has assigned or handed off            *)
(* (clients/database.py, services/inbox_service.py).                       *)
(*                                                                         *)
(* An attempt ends once: by the child's own report, or by a lifecycle      *)
(* outcome when the child leaves without one.  Ending it queues a notice   *)
(* in the parent's Inbox and a turn of the parent's workflow that carries  *)
(* the notice; the handoffs that end during one turn of the parent share a *)
(* turn.  The dispatcher takes the oldest pending notice, claims the turn  *)
(* (which seals the batch), pastes it and records the delivery.  A         *)
(* delivered result blocks the parent's completion until the parent        *)
(* acknowledges it.                                                        *)
(*                                                                         *)
(* Threads: the dispatcher and the restart pipeline, which exclude each    *)
(* other by the workflow-execution admission fence; API threads that       *)
(* submit, poll the pane or handle a child's exit; the MCP sidecars of the *)
(* parent and the children, which outlive the server.  Each step is one    *)
(* transaction.  Handlers that do not begin with BEGIN IMMEDIATE read in   *)
(* one step and write in another; their reads hold no snapshot and their   *)
(* writes overwrite by primary key the columns they changed.               *)
(*                                                                         *)
(* Assigned children are the ids of their assignments; the order of        *)
(* handoffs does not matter.  Notices and turns are the positions of their *)
(* rows, 0 is NULL.  Turn 1 is the admitted owner input that delegated the *)
(* work.  Operators that no action uses (see README) are faulty variants   *)
(* with which the properties are tested.                                   *)
(***************************************************************************)
EXTENDS Naturals, Sequences, FiniteSets, FiniteSetsExt

CONSTANTS Assigned,    \* children started by assign
          Handoffs,    \* children started by handoff
          MaxTurns,    \* bound: rows of workflow_turns
          MaxNotices,  \* bound: rows of inbox
          MaxResumes,  \* bound: execution resumes
          MaxFaults,   \* bound: crashes and claims that lapse under a live dispatcher
          MaxAttempts, \* transport attempts before the owner gate (3 in the code)
          MaxCycles    \* _MAX_HANDOFF_EXIT_RECOVERY_CYCLES (2 in the code)

ASSUME ChildAssumption == /\ IsFiniteSet(Assigned) /\ Assigned \subseteq Nat \ {0}
                          /\ IsFiniteSet(Handoffs) /\ 0 \notin Handoffs
                          /\ Assigned \cap Handoffs = {}
ASSUME BoundAssumption == /\ MaxTurns \in Nat \ {0} /\ MaxNotices \in Nat
                          /\ MaxResumes \in Nat /\ MaxFaults \in Nat
                          /\ MaxAttempts \in Nat /\ MaxCycles \in Nat

Child   == Assigned \cup Handoffs
Turns   == 1..MaxTurns
Notices == 1..MaxNotices

VARIABLES wf,        \* the parent's workflow: status and active turn
          nt, turn,  \* workflow_turns of the parent with their receipts
          nn, inbox, \* result notices in the parent's Inbox
          asg,       \* child_assignments: status and result_message_id
          result,    \* delegation_results: status and workflow_turn_id
          childWf,   \* the children's workflows
          cycles,    \* provider-exit recoveries counted for a handoff
          exited,    \* children whose runtime_lifecycle is exited
          lease,     \* the turn in the parent's provider_execution_leases row
          pasted,    \* history: turns whose text reached the pane
          shown,     \* history: children whose result reached the pane
          dpc, dturn, batch, todo, \* the dispatcher's tick, its turn, its notices, its writes left
          leaving,   \* the exit handler: a child, and the rows it has read
          acking,    \* the child whose assignment an acknowledgement has read
          boot, stale, \* the restart pipeline, and what it has read
          faults,    \* crashes and lapsed claims so far
          overtaken  \* history: a handler overwrote a row changed since it read it

turnVars   == <<nt, turn>>
noticeVars == <<nn, inbox>>
childVars  == <<childWf, cycles, exited>>
paneVars   == <<pasted, shown>>
tickVars   == <<dpc, dturn, batch, todo>>
threadVars == <<leaving, acking, boot, stale>>
vars == <<wf, turnVars, noticeVars, asg, result, childVars, lease, paneVars, tickVars,
          threadVars, faults, overtaken>>

-----------------------------------------------------------------------------
(* Rows.                                                                    *)

AsgStatus == {"awaiting", "recovering", "queued", "delivered", "failed",
              "acknowledged", "cancelled"}
ResultStatus == {"awaiting", "complete", "incomplete", "cancelled"}
AsgRow == [status : AsgStatus, notice : 0..MaxNotices]
ResultRow == [status : ResultStatus, turn : 0..MaxTurns]
InboxRow == [of : Child \cup {0}, status : {"none", "pending", "delivered", "failed", "superseded"}]
(* key: the dedupe key of a result turn.  For an assigned result its        *)
(* attempt, for a handoff boundary the turn that was active, 0 for a        *)
(* rebuilt turn.  settled: queue_reason PROVIDER_SETTLED_BEFORE_RECEIPT.    *)
(* retired: superseded_at is set.                                           *)
TurnRow == [kind : {"none", "external_input", "assigned_result", "handoff_result",
                    "execution_resume"},
            anchor : 0..MaxNotices, key : Child \cup (0..MaxTurns),
            state : {"none", "queued", "claimed", "sent", "finished", "cancelled"},
            settled : BOOLEAN, attempts : Nat,
            claim : {"none", "live", "expired"},
            receipt : {"none", "consumed", "resumed"}, retired : BOOLEAN]

NewTurn(k, n, key, attempts) ==
    [kind |-> k, anchor |-> n, key |-> key, state |-> "queued", settled |-> FALSE,
     attempts |-> attempts, claim |-> "none", receipt |-> "none", retired |-> FALSE]
Admitted(k) == [NewTurn(k, 0, 0, 0) EXCEPT !.state = "sent", !.receipt = "consumed"]
NoTurn == [NewTurn("none", 0, 0, 0) EXCEPT !.state = "none"]

NotLeaving == [child |-> 0, how |-> "exit", row |-> [status |-> "awaiting", notice |-> 0],
               res |-> "awaiting"]
NotStale == [asgs |-> {}, notices |-> {}]

TickSteps == {"idle", "close", "head", "look", "activated", "slot", "paste", "delivered",
              "undelivered", "deferred", "rejected", "failed"}
BootSteps == {"down", "terminated", "arm", "armed", "unadmitted", "results", "requeue", "up"}

TypeOK ==
    /\ wf \in [status : {"open", "completed", "cancelled", "owner_gate"}, active : Turns]
    /\ nt \in Turns /\ turn \in [Turns -> TurnRow]
    /\ nn \in 0..MaxNotices /\ inbox \in [Notices -> InboxRow]
    /\ asg \in [Child -> AsgRow] /\ result \in [Child -> ResultRow]
    /\ childWf \in [Child -> {"open", "terminal", "cancelled"}]
    /\ cycles \in [Child -> 0..MaxCycles] /\ exited \subseteq Child
    /\ lease \in 0..MaxTurns /\ pasted \subseteq Turns /\ shown \subseteq Child
    /\ dpc \in TickSteps /\ dturn \in 0..MaxTurns /\ batch \subseteq Notices
    /\ todo \in Seq(({"inbox", "read"} \X Notices) \cup ({"mark"} \X Child))
    /\ leaving \in [child : Child \cup {0}, how : {"exit", "destroy"}, row : AsgRow,
                    res : ResultStatus]
    /\ acking \in Child \cup {0}
    /\ boot \in BootSteps /\ stale \in [asgs : SUBSET Child, notices : SUBSET Notices]
    /\ faults \in 0..MaxFaults /\ overtaken \in BOOLEAN
    /\ \A t \in Turns : turn[t].claim = "none" <=> turn[t].state # "claimed"

Init ==
    /\ wf = [status |-> "open", active |-> 1]
    /\ nt = 1 /\ turn = [[t \in Turns |-> NoTurn] EXCEPT ![1] = Admitted("external_input")]
    /\ nn = 0 /\ inbox = [n \in Notices |-> [of |-> 0, status |-> "none"]]
    /\ asg = [c \in Child |-> [status |-> "awaiting", notice |-> 0]]
    /\ result = [c \in Child |-> [status |-> "awaiting", turn |-> 0]]
    /\ childWf = [c \in Child |-> "open"]
    /\ cycles = [c \in Child |-> 0] /\ exited = {}
    /\ lease = 1 /\ pasted = {1} /\ shown = {}
    /\ dpc = "idle" /\ dturn = 0 /\ batch = {} /\ todo = <<>>
    /\ leaving = NotLeaving /\ acking = 0 /\ boot = "up" /\ stale = NotStale
    /\ faults = 0 /\ overtaken = FALSE

-----------------------------------------------------------------------------
(* Reading the rows.                                                        *)

Open == wf.status = "open"
Least(S) == IF S = {} THEN 0 ELSE Min(S)
(* The i-th smallest of a set, and how many are not above m.                *)
Rank(S, m) == Cardinality({k \in S : k <= m})
Nth(S, i) == CHOOSE m \in S : Rank(S, m) = i
Active == {"awaiting", "recovering", "queued", "delivered", "failed"}
Pending == {"queued", "claimed"}
ResultKinds == {"assigned_result", "handoff_result"}

PendingNotices == {n \in Notices : inbox[n].status = "pending"}
TurnOf(n) == Least({t \in Turns : turn[t].anchor = n})
Members(t) == {c \in Child : result[c].turn = t}
NoticesOf(c) == {n \in Notices : inbox[n].of = c}
(* The sealed payload of a handoff boundary.                                *)
SealedOldest(t) == {n \in PendingNotices : turn[t].anchor = n}
SealedNotices(t) == {n \in PendingNotices : inbox[n].of \in Members(t)}
(* The pending notices a turn carries, as its anchor or as a member.        *)
CarriedBy(t) == SealedNotices(t) \cup {n \in PendingNotices : turn[t].anchor = n}

(* _workflow_has_unadmitted_active_turn and ..._active_continuation         *)
Unadmitted == /\ turn[wf.active].state \in Pending \cup {"sent"}
              /\ turn[wf.active].receipt = "none"
UnadmittedContinuation == Unadmitted /\ turn[wf.active].kind # "external_input"

(* _fail_closed_workflow_inbox_transports_in_transaction                    *)
FailAnchored == [n \in Notices |-> IF n \in PendingNotices /\ TurnOf(n) # 0
                                   THEN [inbox[n] EXCEPT !.status = "failed"] ELSE inbox[n]]

-----------------------------------------------------------------------------
(* Ending an attempt: _queue_delegation_result_notice.                      *)

(* The dedupe key of the turn that is to carry the notice, the rows that    *)
(* have it, and the row a handoff may join.                                 *)
BoundaryKind(c) == IF c \in Assigned THEN "assigned_result" ELSE "handoff_result"
BoundaryKey(c) == IF c \in Assigned THEN c ELSE wf.active
OnBoundary(c) == {t \in Turns : turn[t].kind = BoundaryKind(c) /\ turn[t].key = BoundaryKey(c)}
Joinable(c) == {t \in OnBoundary(c) : c \in Handoffs /\ turn[t].state = "queued"}
Defers(c) == c \in Handoffs /\ UnadmittedContinuation
(* The insert would break the uniqueness of dedupe keys: IntegrityError.    *)
DuplicateNever(c) == FALSE
Duplicate(c) == Joinable(c) = {} /\ OnBoundary(c) # {}

(* Notice n of child c joins a boundary turn or gets a turn of its own.     *)
Attach(c, n) ==
    LET t == IF Joinable(c) # {} THEN Least(Joinable(c)) ELSE nt + 1
        own == t = nt + 1
    IN /\ t \in Turns
       /\ nt' = IF own THEN t ELSE nt
       /\ turn' = IF own
                  THEN [turn EXCEPT ![t] = NewTurn(BoundaryKind(c), n, BoundaryKey(c), 0)]
                  ELSE turn

(* seen: the notice the caller has read; an attempt that has one keeps it.  *)
Notify(c, seen, res, refused) ==
    IF seen # 0 \/ ~Open
    THEN /\ asg' = IF seen # 0 THEN asg ELSE [asg EXCEPT ![c].status = refused]
         /\ result' = [result EXCEPT ![c].status = res]
         /\ UNCHANGED <<turnVars, noticeVars>>
    ELSE /\ nn < MaxNotices /\ nn' = nn + 1
         /\ inbox' = [inbox EXCEPT ![nn + 1] = [of |-> c, status |-> "pending"]]
         /\ asg' = [asg EXCEPT ![c] = [status |-> "queued", notice |-> nn + 1]]
         /\ IF Defers(c)
            THEN result' = [result EXCEPT ![c].status = res] /\ UNCHANGED turnVars
            ELSE /\ Attach(c, nn + 1)
                 /\ result' = [result EXCEPT ![c] =
                       [status |-> res, turn |-> IF nt' = nt THEN Least(Joinable(c)) ELSE nt']]

(* The child's own report: an assigned child's send_message or              *)
(* complete_workflow (its sidecar writes), a handoff's submit_handoff_result*)
(* (an API thread writes).  BEGIN IMMEDIATE; an insert that would repeat the *)
(* key of an activated boundary takes it all back.                          *)
MaySubmit(c) ==
    /\ Open /\ childWf[c] = "open" /\ result[c].status = "awaiting"
    /\ IF c \in Assigned THEN asg[c].status = "awaiting"
       ELSE asg[c].status \in {"awaiting", "recovering"} /\ boot # "down"
    /\ asg[c].notice = 0 => Defers(c) \/ ~Duplicate(c)
Submit(c) ==
    /\ MaySubmit(c)
    /\ Notify(c, asg[c].notice, "complete", "cancelled")
    /\ childWf' = [childWf EXCEPT ![c] = "terminal"]
    /\ UNCHANGED <<wf, cycles, exited, lease, paneVars, tickVars, threadVars, faults, overtaken>>

-----------------------------------------------------------------------------
(* A child leaves: cancel_child_assignments_for_terminal ("exit") after its *)
(* runtime was marked exited, persist_terminal_result_snapshot ("destroy")  *)
(* before its pane is destroyed.                                            *)

Leavable(c, how) == asg[c].status \in
    {"awaiting", "recovering"} \cup (IF how = "destroy" /\ c \in Assigned
                                     THEN {"queued", "delivered", "failed"} ELSE {})
ExitRead(c, how) ==
    /\ boot # "down" /\ leaving.child = 0 /\ Leavable(c, how)
    /\ leaving' = [child |-> c, how |-> how, row |-> asg[c], res |-> result[c].status]
    /\ exited' = IF how = "exit" THEN exited \cup {c} ELSE exited
    /\ UNCHANGED <<wf, turnVars, noticeVars, asg, result, childWf, cycles, lease, paneVars,
                   tickVars, acking, boot, stale, faults, overtaken>>

(* A lifecycle outcome never replaces a result the handler sees ended.      *)
EndedBy(r) == IF r = "awaiting" THEN "incomplete" ELSE r

(* _terminalize_assigned_result_incomplete                                  *)
LoseAssigned(c, r) ==
    IF EndedBy(r) \in {"complete", "incomplete"}
    THEN IF Open /\ Duplicate(c)
         THEN UNCHANGED <<asg, result, noticeVars, turnVars, childWf>>
         ELSE /\ Notify(c, leaving.row.notice, EndedBy(r), "cancelled")
              /\ childWf' = [childWf EXCEPT ![c] = IF @ = "open" THEN "cancelled" ELSE @]
    ELSE /\ asg' = [asg EXCEPT ![c].status = "cancelled"]
         /\ childWf' = [childWf EXCEPT ![c] = IF @ = "open" THEN "cancelled" ELSE @]
         /\ UNCHANGED <<result, noticeVars, turnVars>>

(* Recovery of the same child; _terminalize_handoff_recovery_exhausted.     *)
Recover(c) ==
    /\ asg' = [asg EXCEPT ![c].status = IF leaving.row.status = "recovering" THEN @
                                        ELSE "recovering"]
    /\ cycles' = [cycles EXCEPT ![c] = @ + 1]
    /\ UNCHANGED <<result, noticeVars, turnVars, childWf>>
Exhaust(c, r) ==
    /\ IF r = "awaiting" /\ ~(Open /\ ~Defers(c) /\ Duplicate(c))
       THEN Notify(c, leaving.row.notice, "incomplete", "failed")
       ELSE UNCHANGED <<asg, result, noticeVars, turnVars>>
    /\ UNCHANGED <<childWf, cycles>>
Destroy(c, r) ==
    /\ asg' = [asg EXCEPT ![c].status = "cancelled"]
    /\ result' = [result EXCEPT ![c].status = IF r = "awaiting" THEN "incomplete" ELSE @]
    /\ UNCHANGED <<noticeVars, turnVars, childWf, cycles>>

(* The result is read after the assignment, at any time before the write.   *)
ExitWrite ==
    LET c == leaving.child IN
    /\ c # 0
    /\ \E r \in {leaving.res, result[c].status} :
          \/ leaving.how = "destroy" /\ Destroy(c, r)
          \/ leaving.how = "exit" /\ c \in Assigned /\ LoseAssigned(c, r) /\ UNCHANGED cycles
          \/ leaving.how = "exit" /\ c \in Handoffs /\ cycles[c] < MaxCycles /\ Recover(c)
          \/ leaving.how = "exit" /\ c \in Handoffs /\ cycles[c] = MaxCycles /\ Exhaust(c, r)
    /\ leaving' = NotLeaving
    /\ overtaken' = (overtaken \/ asg[c] # leaving.row \/ result[c].status # leaving.res)
    /\ UNCHANGED <<wf, exited, lease, paneVars, tickVars, acking, boot, stale, faults>>

-----------------------------------------------------------------------------
(* The dispatcher: reconcile_provider_execution_queue.                      *)

(* reconcile_result_callbacks_superseded_by_resume.  Every turn it rebuilds *)
(* here carries results; r is the latest resume.                            *)
LatestResume == LET R == {t \in Turns : turn[t].kind = "execution_resume"} IN
                IF R = {} THEN 0 ELSE Max(R)
Superseded(r) == {t \in Turns \ {wf.active} :
    \/ turn[t].state \in Pending /\ turn[t].receipt = "none"
    \/ /\ t < r /\ turn[t].state = "finished" /\ turn[t].kind \in ResultKinds
       /\ ~turn[t].retired /\ turn[t].receipt # "none" /\ CarriedBy(t) # {}}
MustRebuild(r) == /\ Open /\ r # 0 /\ r <= wf.active
                  /\ \E t \in Superseded(r) : t < r /\ CarriedBy(t) # {}

Deliverable(n) == LET c == inbox[n].of IN
    asg[c].status \in {"queued", "delivered", "failed"} /\ result[c].status = "complete"
Kept(t) == {n \in CarriedBy(t) : Deliverable(n)}
(* What becomes of a pending notice that is not carried on.                 *)
Dropped(n) == LET c == inbox[n].of IN
    IF asg[c].status \in {"acknowledged", "cancelled"} \/ result[c].status = "complete"
    THEN "superseded" ELSE "failed"

Rebuild(r) ==
    LET old == Superseded(r)
        heirs == {t \in old : Kept(t) # {}}
        Heir(t) == nt + Cardinality({u \in heirs : u <= t})
        kept == UNION {Kept(t) : t \in heirs}
        HeirOf(n) == Heir(Least({t \in heirs : n \in Kept(t)}))
        Notice(c) == Least(NoticesOf(c) \cap kept)
    IN /\ nt + Cardinality(heirs) \in Turns
       /\ nt' = nt + Cardinality(heirs)
       /\ turn' = [t \in Turns |->
             IF t \in old
             THEN [turn[t] EXCEPT !.state = IF @ = "finished" THEN @ ELSE "cancelled",
                                  !.claim = "none", !.retired = TRUE,
                                  !.anchor = IF t \in heirs THEN 0 ELSE @]
             ELSE IF \E u \in heirs : Heir(u) = t
             THEN LET u == CHOOSE u \in heirs : Heir(u) = t IN
                  NewTurn(turn[u].kind, Min(Kept(u)), 0, turn[u].attempts)
             ELSE turn[t]]
       /\ inbox' = [n \in Notices |-> IF n \in (UNION {CarriedBy(t) : t \in old}) \ kept
                                      THEN [inbox[n] EXCEPT !.status = Dropped(n)]
                                      ELSE inbox[n]]
       /\ result' = [c \in Child |-> IF Notice(c) # 0
                                     THEN [result[c] EXCEPT !.turn = HeirOf(Notice(c))]
                                     ELSE result[c]]
       /\ asg' = [c \in Child |-> IF Notice(c) # 0
                                  THEN [asg[c] EXCEPT !.status = "queued"] ELSE asg[c]]
       /\ UNCHANGED nn

(* A tick with no pending notice changes nothing.                           *)
StartTick ==
    /\ boot = "up" /\ dpc = "idle" /\ PendingNotices # {}
    /\ dpc' = "close"
    /\ IF MustRebuild(LatestResume) THEN Rebuild(LatestResume)
       ELSE UNCHANGED <<turnVars, noticeVars, asg, result>>
    /\ UNCHANGED <<wf, childVars, lease, paneVars, dturn, batch, todo, threadVars, faults, overtaken>>

(* reconcile_closed_workflow_inbox_transports                               *)
CloseScan ==
    /\ dpc = "close"
    /\ inbox' = IF Open THEN inbox ELSE FailAnchored
    /\ dpc' = "head"
    /\ UNCHANGED <<wf, turnVars, nn, asg, result, childVars, lease, paneVars, dturn, batch, todo,
                   threadVars, faults, overtaken>>

(* _dispatch_pending_messages_with_admission: the oldest pending notice.    *)
Idle == dpc' = "idle" /\ dturn' = 0 /\ batch' = {} /\ todo' = <<>>
Oldest == Least(PendingNotices)
OldestDead == /\ Oldest # 0
              /\ \/ asg[inbox[Oldest].of].status = "cancelled"
                 \/ TurnOf(Oldest) # 0 /\ ~Open
(* materialize_deferred_handoff_result_turn_for_inbox                       *)
Materializes(n) == LET c == inbox[n].of IN
    /\ Open /\ asg[c] = [status |-> "queued", notice |-> n] /\ c \in Handoffs
    /\ result[c].turn = 0 /\ ~Unadmitted /\ ~Duplicate(c)

FailOldest ==
    /\ dpc = "head" /\ OldestDead
    /\ inbox' = [inbox EXCEPT ![Oldest].status = "failed"]
    /\ UNCHANGED <<wf, turnVars, nn, asg, result, childVars, lease, paneVars, tickVars,
                   threadVars, faults, overtaken>>
PickOldest ==
    LET n == Oldest
        c == inbox[n].of
    IN /\ dpc = "head" /\ ~OldestDead
       /\ \/ /\ n # 0 /\ TurnOf(n) # 0
             /\ dpc' = "look" /\ batch' = {n}
             /\ UNCHANGED <<turnVars, result, dturn, todo>>
          \/ /\ n # 0 /\ TurnOf(n) = 0 /\ Materializes(n)
             /\ Attach(c, n)
             /\ result' = [result EXCEPT ![c].turn = IF nt' = nt THEN Least(Joinable(c)) ELSE nt']
             /\ IF nt' = nt THEN Idle
                ELSE dpc' = "look" /\ batch' = {n} /\ UNCHANGED <<dturn, todo>>
          \/ /\ n = 0 \/ (TurnOf(n) = 0 /\ ~Materializes(n))
             /\ Idle /\ UNCHANGED <<turnVars, result>>
       /\ UNCHANGED <<wf, noticeVars, asg, childVars, lease, paneVars, threadVars, faults, overtaken>>

(* The Inbox writes and then the assignment marks of a batch, in order.     *)
InOrder(S) == [i \in 1..Cardinality(S) |-> Nth(S, i)]
Writes(S) == LET q == InOrder(S) IN [i \in 1..Len(q) |-> <<"inbox", q[i]>>]
                                    \o [i \in 1..Len(q) |-> <<"read", q[i]>>]
(* After a failure each message is written and marked before the next.      *)
WritesEach(S) == LET q == InOrder(S) IN
    [i \in 1..2 * Len(q) |-> <<IF i % 2 = 1 THEN "inbox" ELSE "read", q[(i + 1) \div 2]>>]

(* The process is dead, the pane is busy, or it is Ready.                   *)
LookDead ==
    /\ dpc = "look" /\ dpc' = "failed" /\ todo' = WritesEach(batch)
    /\ UNCHANGED <<wf, turnVars, noticeVars, asg, result, childVars, lease, paneVars, dturn,
                   batch, threadVars, faults, overtaken>>
LookBusy ==
    /\ dpc = "look" /\ Idle
    /\ UNCHANGED <<wf, turnVars, noticeVars, asg, result, childVars, lease, paneVars, threadVars,
                   faults, overtaken>>

Claimed(t) == [turn EXCEPT ![t].state = "claimed", ![t].claim = "live", ![t].attempts = @ + 1]
(* claim_handoff_result_batch_for_inbox and activate_workflow_turn_for_inbox*)
(* share the guard.                                                         *)
Activatable(t) == /\ Open /\ turn[t].state = "queued" /\ wf.active <= t
                  /\ wf.active = t \/ ~Unadmitted
LookReady ==
    LET n == Min(batch)
        t == TurnOf(n)
    IN /\ dpc = "look"
       /\ IF t # 0 /\ Activatable(t) /\ (turn[t].kind = "handoff_result" => SealedNotices(t) # {})
          THEN /\ wf' = [wf EXCEPT !.active = t]
               /\ dturn' = t
               /\ IF turn[t].kind = "handoff_result"
                  THEN turn' = Claimed(t) /\ batch' = SealedNotices(t) /\ dpc' = "slot"
                  ELSE UNCHANGED <<turn, batch>> /\ dpc' = "activated"
               /\ todo' = todo
          ELSE Idle /\ UNCHANGED <<wf, turn>>
       /\ UNCHANGED <<nt, noticeVars, asg, result, childVars, lease, paneVars, threadVars,
                      faults, overtaken>>
(* claim_workflow_turn with the message's id.                               *)
ClaimTurn ==
    /\ dpc = "activated"
    /\ IF Open /\ wf.active = dturn /\ turn[dturn].state = "queued"
       THEN turn' = Claimed(dturn) /\ dpc' = "slot" /\ UNCHANGED <<dturn, batch, todo>>
       ELSE Idle /\ UNCHANGED turn
    /\ UNCHANGED <<wf, nt, noticeVars, asg, result, childVars, lease, paneVars, threadVars,
                   faults, overtaken>>

(* send_input: the execution slot, then tmux, which may fail after the text *)
(* arrived; the slot of a failed paste is released unless admitted.         *)
SlotGranted == /\ dpc = "slot"
               /\ lease = dturn \/ (lease = 0 /\ Open)
               /\ lease' = dturn /\ dpc' = "paste"
SlotRefused == /\ dpc = "slot" /\ lease # dturn
               /\ lease' = lease /\ dpc' \in {"deferred", "rejected"}
Slot ==
    /\ SlotGranted \/ SlotRefused
    /\ UNCHANGED <<wf, turnVars, noticeVars, asg, result, childVars, paneVars, dturn, batch,
                   todo, threadVars, faults, overtaken>>
Shown(arrived) ==
    /\ pasted' = IF arrived THEN pasted \cup {dturn} ELSE pasted
    /\ shown' = IF arrived THEN shown \cup {inbox[n].of : n \in batch} ELSE shown
PasteAccepted ==
    /\ dpc = "paste" /\ Shown(TRUE)
    /\ dpc' = "delivered" /\ todo' = Writes(batch)
    /\ UNCHANGED <<wf, turnVars, noticeVars, asg, result, childVars, lease, dturn, batch,
                   threadVars, faults, overtaken>>
PasteFailed ==
    /\ dpc = "paste" /\ \E arrived \in BOOLEAN : Shown(arrived)
    /\ lease' = IF lease = dturn /\ turn[dturn].receipt = "none" THEN 0 ELSE lease
    /\ dpc' = "undelivered"
    /\ UNCHANGED <<wf, turnVars, noticeVars, asg, result, childVars, dturn, batch, todo,
                   threadVars, faults, overtaken>>

ClaimMatches(t) == turn[t].state = "claimed" /\ turn[t].claim = "live"

(* requeue_workflow_turn: a refused slot costs no attempt.                  *)
Exhausted(t) == [turn EXCEPT ![t].state = "cancelled", ![t].claim = "none", ![t].settled = FALSE]
Requeue ==
    LET t == dturn
        back == [turn EXCEPT ![t].state = "queued", ![t].claim = "none", ![t].settled = FALSE]
    IN /\ dpc \in {"undelivered", "deferred", "rejected"}
       /\ IF ~(ClaimMatches(t) /\ Open) THEN UNCHANGED <<wf, turn, inbox>>
          ELSE IF dpc # "undelivered"
          THEN turn' = [back EXCEPT ![t].attempts = @ - 1] /\ UNCHANGED <<wf, inbox>>
          ELSE IF turn[t].attempts >= MaxAttempts
          THEN /\ turn' = Exhausted(t) /\ inbox' = FailAnchored
               /\ wf' = [wf EXCEPT !.status = "owner_gate"]
          ELSE turn' = back /\ UNCHANGED <<wf, inbox>>
       /\ IF dpc = "deferred" THEN Idle
          ELSE dpc' = "failed" /\ todo' = WritesEach(batch) /\ UNCHANGED <<dturn, batch>>
       /\ UNCHANGED <<nt, nn, asg, result, childVars, lease, paneVars, threadVars, faults, overtaken>>

(* update_message_status; mark_child_assignment_result_delivered/_failed,   *)
(* which read a row and write it in two steps.                              *)
WriteStatus ==
    /\ dpc \in {"delivered", "failed"} /\ todo # <<>> /\ Head(todo)[1] = "inbox"
    /\ inbox' = [inbox EXCEPT ![Head(todo)[2]].status = dpc]
    /\ todo' = Tail(todo)
    /\ UNCHANGED <<wf, turnVars, nn, asg, result, childVars, lease, paneVars, dpc, dturn, batch,
                   threadVars, faults, overtaken>>
ReadMark ==
    LET S == {c \in Child : asg[c] = [status |-> "queued", notice |-> Head(todo)[2]]} IN
    /\ dpc \in {"delivered", "failed"} /\ todo # <<>> /\ Head(todo)[1] = "read"
    /\ \/ S = {} /\ todo' = Tail(todo)
       \/ \E c \in S : todo' = << <<"mark", c>> >> \o Tail(todo)
    /\ UNCHANGED <<wf, turnVars, noticeVars, asg, result, childVars, lease, paneVars, dpc, dturn,
                   batch, threadVars, faults, overtaken>>
Mark ==
    LET c == Head(todo)[2] IN
    /\ dpc \in {"delivered", "failed"} /\ todo # <<>> /\ Head(todo)[1] = "mark"
    /\ asg' = [asg EXCEPT ![c].status = dpc]
    /\ overtaken' = (overtaken \/ asg[c].status # "queued")
    /\ todo' = Tail(todo)
    /\ UNCHANGED <<wf, turnVars, noticeVars, result, childVars, lease, paneVars, dpc, dturn,
                   batch, threadVars, faults>>

(* mark_workflow_turn_sent                                                  *)
MaySendUnclaimed(t) == Open /\ wf.active <= t
MaySend(t) == ClaimMatches(t) /\ Open /\ wf.active <= t
EndTick ==
    /\ dpc \in {"delivered", "failed"} /\ todo = <<>> /\ Idle
    /\ turn' = IF dpc = "delivered" /\ MaySend(dturn)
               THEN [turn EXCEPT ![dturn].state = "sent", ![dturn].claim = "none",
                                 ![dturn].settled = FALSE]
               ELSE turn
    /\ UNCHANGED <<wf, nt, noticeVars, asg, result, childVars, lease, paneVars, threadVars,
                   faults, overtaken>>

(* requeue_expired_workflow_turn_claims, from the workflow tick, which the  *)
(* admission fence keeps out of an Inbox tick.                              *)
RequeueExpired ==
    /\ boot = "up" /\ dpc = "idle" /\ Open
    /\ \E t \in Turns : turn[t].claim = "expired"
    /\ turn' = [t \in Turns |-> IF turn[t].claim = "expired"
                                THEN [turn[t] EXCEPT !.state = "queued", !.claim = "none"]
                                ELSE turn[t]]
    /\ UNCHANGED <<wf, nt, noticeVars, asg, result, childVars, lease, paneVars, tickVars,
                   threadVars, faults, overtaken>>

(* claim_expires_at passes.  The Inbox dispatcher does not renew its claim, *)
(* which outlives a tick unless the tick is slow (counted as a fault).      *)
ClaimExpires(t) ==
    /\ turn[t].claim = "live"
    /\ turn' = [turn EXCEPT ![t].claim = "expired"]
    /\ IF dturn = t THEN faults < MaxFaults /\ faults' = faults + 1 ELSE faults' = faults
    /\ UNCHANGED <<wf, nt, noticeVars, asg, result, childVars, lease, paneVars, tickVars,
                   threadVars, overtaken>>

-----------------------------------------------------------------------------
(* A poll of get_terminal that finds the pane settled: it releases the      *)
(* lease it saw, and puts the turn back if it was not admitted.             *)

(* _validated_result_callback_transport                                     *)
ValidMember(c) ==
    /\ Cardinality(NoticesOf(c)) = 1 /\ NoticesOf(c) = {asg[c].notice}
    /\ result[c].status = "complete" /\ childWf[c] = "terminal"
    /\ asg[c].status \in {"queued", "delivered"}
    /\ inbox[asg[c].notice].status \in {"pending", "delivered"}
ValidTransport(t) ==
    /\ Members(t) # {} /\ \A c \in Members(t) : ValidMember(c)
    /\ turn[t].kind = "assigned_result" => Cardinality(Members(t)) = 1
    /\ turn[t].anchor = Min({asg[c].notice : c \in Members(t)})
(* _restore_unreceipted_inbox_transport_for_replay, and its counterpart in  *)
(* _bind_receipted_provider_execution.                                      *)
WithMembers(t, i, a) ==
    /\ inbox' = [n \in Notices |-> IF inbox[n].of \in Members(t)
                                   THEN [inbox[n] EXCEPT !.status = i] ELSE inbox[n]]
    /\ asg' = [c \in Child |-> IF c \in Members(t)
                               THEN [asg[c] EXCEPT !.status = a] ELSE asg[c]]

Settle ==
    LET t == lease
        unadmitted == /\ Open /\ wf.active = t /\ turn[t].receipt = "none"
                      /\ turn[t].state \in {"claimed", "sent"}
    IN /\ boot # "down" /\ lease # 0 /\ lease' = 0
       /\ \/ ~unadmitted /\ UNCHANGED <<wf, turn, inbox, asg>>
          \/ /\ unadmitted /\ turn[t].attempts >= MaxAttempts
             /\ wf' = [wf EXCEPT !.status = "owner_gate"]
             /\ turn' = Exhausted(t) /\ inbox' = FailAnchored /\ asg' = asg
          \/ /\ unadmitted /\ turn[t].attempts < MaxAttempts /\ ~ValidTransport(t)
             /\ wf' = [wf EXCEPT !.status = "owner_gate"]
             /\ turn' = [turn EXCEPT ![t].settled = FALSE]
             /\ UNCHANGED <<inbox, asg>>
          \/ /\ unadmitted /\ turn[t].attempts < MaxAttempts /\ ValidTransport(t)
             /\ turn' = [turn EXCEPT ![t].state = "queued", ![t].claim = "none",
                                     ![t].settled = TRUE]
             /\ WithMembers(t, "pending", "queued") /\ wf' = wf
       /\ UNCHANGED <<nt, nn, result, childVars, paneVars, tickVars, threadVars, faults, overtaken>>

-----------------------------------------------------------------------------
(* The parent's model, through its MCP sidecar.                             *)

(* claim_or_resume_workflow_turn_receipt                                    *)
Admit(t) ==
    LET settled == turn[t].settled /\ turn[t].state \in Pending IN
    /\ t \in pasted /\ Open /\ wf.active = t /\ turn[t].receipt = "none"
    /\ turn[t].state \in {"claimed", "sent"} \/ settled
    /\ lease \in {0, t}
    /\ IF settled
       THEN /\ ValidTransport(t) /\ WithMembers(t, "delivered", "delivered")
            /\ lease' = t
            /\ turn' = [turn EXCEPT ![t].receipt = "consumed", ![t].state = "sent",
                                    ![t].claim = "none", ![t].settled = FALSE]
       ELSE /\ turn' = [turn EXCEPT ![t].receipt = "consumed"]
            /\ UNCHANGED <<inbox, asg, lease>>
    /\ UNCHANGED <<wf, nt, nn, result, childVars, paneVars, tickVars, threadVars, faults, overtaken>>
Resume(t) ==
    /\ Open /\ wf.active = t /\ turn[t].receipt = "consumed" /\ turn[t].state = "sent"
    /\ lease \in {0, t} /\ nt < MaxTurns
    /\ Cardinality({u \in Turns : turn[u].kind = "execution_resume"}) < MaxResumes
    /\ nt' = nt + 1
    /\ turn' = [turn EXCEPT ![t].state = "finished", ![t].receipt = "resumed",
                            ![nt + 1] = Admitted("execution_resume")]
    /\ wf' = [wf EXCEPT !.active = nt + 1]
    /\ lease' = IF lease = t THEN nt + 1 ELSE 0
    /\ UNCHANGED <<noticeVars, asg, result, childVars, paneVars, tickVars, threadVars, faults,
                   overtaken>>

(* acknowledge_child_assignment_result_outcome reads, then writes.  The     *)
(* tool call needs an admitted turn.                                        *)
MayAcknowledge(c) == /\ Open /\ turn[wf.active].receipt = "consumed"
                     /\ asg[c].status = "delivered"
AckRead(c) ==
    /\ acking = 0 /\ MayAcknowledge(c)
    /\ acking' = c
    /\ UNCHANGED <<wf, turnVars, noticeVars, asg, result, childVars, lease, paneVars, tickVars,
                   leaving, boot, stale, faults, overtaken>>
AckWrite ==
    /\ acking # 0
    /\ asg' = [asg EXCEPT ![acking].status = "acknowledged"]
    /\ overtaken' = (overtaken \/ asg[acking].status # "delivered")
    /\ acking' = 0
    /\ UNCHANGED <<wf, turnVars, noticeVars, result, childVars, lease, paneVars, tickVars,
                   leaving, boot, stale, faults>>

(* set_workflow_terminal_state with _cancel_parent_assignments: completion  *)
(* requires that no attempt is active, cancellation does not.  A gate that  *)
(* the parent asks for cancels its attempts, and is a cancellation here;    *)
(* "owner_gate" is the gate at the transport limit, which keeps them.       *)
MayCloseAny(status) == Open
MayClose(status) == /\ Open
                    /\ status = "completed" => \A c \in Child : asg[c].status \notin Active
Close(status) ==
    /\ MayClose(status)
    /\ wf' = [wf EXCEPT !.status = status]
    /\ turn' = [t \in Turns |-> IF turn[t].state \in Pending
                                THEN [turn[t] EXCEPT !.state = "cancelled", !.claim = "none"]
                                ELSE turn[t]]
    /\ inbox' = FailAnchored
    /\ asg' = [c \in Child |-> IF asg[c].status \in Active
                               THEN [asg[c] EXCEPT !.status = "cancelled"] ELSE asg[c]]
    /\ result' = [c \in Child |-> IF asg[c].status \in Active /\ result[c].status = "awaiting"
                                  THEN [result[c] EXCEPT !.status = "cancelled"] ELSE result[c]]
    /\ UNCHANGED <<nt, nn, childVars, lease, paneVars, tickVars, threadVars, faults, overtaken>>

-----------------------------------------------------------------------------
(* The server dies; the pipeline of its restart, before dispatch resumes:   *)
(* _reconcile_pending_messages_with_admission.                              *)

Crash ==
    /\ faults < MaxFaults /\ faults' = faults + 1
    /\ boot' = "down" /\ stale' = NotStale /\ leaving' = NotLeaving
    /\ Idle
    /\ UNCHANGED <<wf, turnVars, noticeVars, asg, result, childVars, lease, paneVars, acking,
                   overtaken>>

Restart ==
    /\ boot = "down" /\ boot' = "terminated"
    /\ UNCHANGED <<wf, turnVars, noticeVars, asg, result, childVars, lease, paneVars, tickVars,
                   leaving, acking, stale, faults, overtaken>>

(* reconcile_terminated_assigned_results: one BEGIN IMMEDIATE transaction,  *)
(* in the order of the assignments.                                         *)
Terminated == {c \in Assigned : /\ asg[c].status = "awaiting" /\ result[c].status = "awaiting"
                                /\ c \in exited \/ childWf[c] # "open"}
BootTerminated ==
    LET k == IF Open THEN Cardinality(Terminated) ELSE 0
        ChildAt(i) == Nth(Terminated, i)
    IN /\ boot = "terminated" /\ boot' = "arm"
       /\ nn + k <= MaxNotices /\ nt + k <= MaxTurns
       /\ nn' = nn + k /\ nt' = nt + k
       /\ inbox' = [n \in Notices |-> IF n \in nn + 1..nn + k
                       THEN [of |-> ChildAt(n - nn), status |-> "pending"] ELSE inbox[n]]
       /\ turn' = [t \in Turns |-> IF t \in nt + 1..nt + k
                       THEN NewTurn("assigned_result", nn + t - nt, ChildAt(t - nt), 0)
                       ELSE turn[t]]
       /\ asg' = [c \in Child |-> IF c \notin Terminated THEN asg[c]
                                  ELSE IF Open
                                  THEN [status |-> "queued", notice |-> nn + Rank(Terminated, c)]
                                  ELSE [asg[c] EXCEPT !.status = "cancelled"]]
       /\ result' = [c \in Child |-> IF c \notin Terminated THEN result[c]
                         ELSE [status |-> "incomplete",
                               turn |-> IF Open THEN nt + Rank(Terminated, c) ELSE 0]]
       /\ childWf' = [c \in Child |-> IF c \in Terminated /\ childWf[c] = "open"
                                      THEN "cancelled" ELSE childWf[c]]
       /\ UNCHANGED <<wf, cycles, exited, lease, paneVars, tickVars, leaving, acking, stale, faults,
                      overtaken>>

(* arm_handoff_continuations_for_restart reads, then writes.                *)
BootArm ==
    \/ /\ boot = "arm" /\ boot' = "armed"
       /\ stale' = [stale EXCEPT !.asgs = {c \in Handoffs : asg[c].status = "awaiting"}]
       /\ UNCHANGED <<asg, overtaken>>
    \/ /\ boot = "armed" /\ boot' = "unadmitted" /\ stale' = NotStale
       /\ asg' = [c \in Child |-> IF c \in stale.asgs
                                  THEN [asg[c] EXCEPT !.status = "recovering"] ELSE asg[c]]
       /\ overtaken' = (overtaken \/ \E c \in stale.asgs : asg[c].status # "awaiting")
(* requeue_unadmitted_workflow_turns_for_restart                            *)
BootUnadmitted ==
    LET a == wf.active IN
    /\ boot = "unadmitted" /\ boot' = "results"
    /\ turn' = IF Open /\ turn[a].state = "sent" /\ turn[a].receipt = "none" /\ lease # a
               THEN [turn EXCEPT ![a].state = "queued"] ELSE turn
(* requeue_unacknowledged_child_assignment_results reads, then writes.      *)
BootResults ==
    \/ /\ boot = "results" /\ boot' = "requeue"
       /\ LET S == {c \in Child : asg[c].status \in {"queued", "delivered", "failed"}
                                  /\ asg[c].notice # 0}
          IN stale' = [asgs |-> {c \in S : asg[c].status # "queued"},
                       notices |-> {asg[c].notice : c \in S} \ PendingNotices]
       /\ UNCHANGED <<asg, inbox, overtaken>>
    \/ /\ boot = "requeue" /\ boot' = "up" /\ stale' = NotStale
       /\ inbox' = [n \in Notices |-> IF n \in stale.notices
                                      THEN [inbox[n] EXCEPT !.status = "pending"] ELSE inbox[n]]
       /\ asg' = [c \in Child |-> IF c \in stale.asgs
                                  THEN [asg[c] EXCEPT !.status = "queued"] ELSE asg[c]]
       /\ overtaken' = (overtaken \/ \E c \in stale.asgs :
                                         asg[c].status \notin {"delivered", "failed"})
BootStep ==
    \/ BootTerminated
    \/ /\ \/ BootArm /\ UNCHANGED <<turn, inbox>>
          \/ BootUnadmitted /\ UNCHANGED <<asg, inbox, stale, overtaken>>
          \/ BootResults /\ UNCHANGED turn
       /\ UNCHANGED <<wf, nt, nn, result, childVars, lease, paneVars, tickVars, leaving, acking,
                      faults>>

-----------------------------------------------------------------------------
ChildNext == \E c \in Child : Submit(c) \/ \E how \in {"exit", "destroy"} : ExitRead(c, how)
TickNext == \/ CloseScan \/ FailOldest \/ PickOldest \/ LookBusy \/ LookReady \/ ClaimTurn \/ Slot
            \/ PasteAccepted \/ PasteFailed \/ Requeue \/ WriteStatus \/ ReadMark \/ Mark \/ EndTick
ParentNext == \/ \E t \in Turns : Admit(t) \/ Resume(t)
              \/ \E c \in Child : AckRead(c)
              \/ AckWrite
              \/ \E status \in {"completed", "cancelled"} : Close(status)
Next == \/ ChildNext \/ ExitWrite \/ StartTick \/ TickNext \/ LookDead
        \/ RequeueExpired \/ \E t \in Turns : ClaimExpires(t)
        \/ Settle \/ ParentNext \/ Crash \/ Restart \/ BootStep

Spec == Init /\ [][Next]_vars

(* The dispatcher and the restart pipeline run, claims lapse in time, the   *)
(* workflow tick has its turn at the fence, and a pane that keeps being     *)
(* looked at is eventually seen settled, alive and Ready, with capacity     *)
(* left.  Nothing makes the parent's model or tmux co-operate.              *)
Fairness == /\ WF_vars(StartTick \/ TickNext) /\ WF_vars(Restart \/ BootStep) /\ WF_vars(Settle)
            /\ SF_vars(LookReady) /\ SF_vars(SlotGranted /\ Slot)
            /\ WF_vars(\E t \in Turns : ClaimExpires(t)) /\ SF_vars(RequeueExpired)
FairSpec == Spec /\ Fairness

-----------------------------------------------------------------------------
(* Properties.                                                              *)

(* A handler that writes rows it read before another handler changed them   *)
(* may break much of what follows; the findings show how.                   *)

(* Every attempt queues one notice, however it ended and whoever ended it:  *)
(* report against exit, restart against submission.  An assigned attempt    *)
(* does so even when an exit handler was overtaken, by its dedupe key.      *)
OneNotice == \A c \in Child : c \in Assigned \/ ~overtaken =>
    /\ Cardinality(NoticesOf(c)) <= 1
    /\ asg[c].notice # 0 => NoticesOf(c) = {asg[c].notice}

(* What the parent may acknowledge, or has acknowledged, was in its pane:   *)
(* batches sealed at the claim, replays and receipts of settled turns never *)
(* mark a result that joined later.                                         *)
DeliveredShown == ~overtaken => \A c \in Child :
    asg[c].status \in {"delivered", "acknowledged"} => c \in shown

(* A parent that completed or was cancelled has no active attempt.          *)
ClosedInactive == ~overtaken /\ wf.status \in {"completed", "cancelled"} =>
    \A c \in Child : asg[c].status \notin Active
(* A parent completes only when it has consumed the results it was          *)
(* promised: a handoff's complete result was acknowledged, and what was     *)
(* acknowledged had ended.                                                  *)
CompletedConsumed == ~overtaken /\ wf.status = "completed" => \A c \in Child :
    /\ asg[c].status = "acknowledged" => result[c].status # "awaiting"
    /\ c \in Handoffs /\ result[c].status = "complete" => asg[c].status = "acknowledged"

(* A result that ended keeps its outcome, an acknowledged attempt stays so. *)
OutcomeFinal == [][~overtaken' => \A c \in Child :
    /\ result[c].status # "awaiting" => result'[c].status = result[c].status
    /\ asg[c].status = "acknowledged" => asg'[c].status = "acknowledged"]_vars

(* Between two ticks, a notice that waits for delivery to an open parent    *)
(* can still be delivered: the turn that carries it is queued or claimed,   *)
(* or is made or rebuilt when its turn comes, or a poll decides on it.      *)
Waits(n) == LET c == inbox[n].of IN
    inbox[n].status = "pending" /\ asg[c] = [status |-> "queued", notice |-> n]
CanDeliver(n) == LET t == result[inbox[n].of].turn IN
    \/ t = 0 \/ lease = t
    \/ turn[t].state \in Pending
    \/ \E u \in Superseded(LatestResume) : n \in CarriedBy(u)
BetweenTicks == boot = "up" /\ dpc = "idle" /\ Open /\ ~overtaken
Redeliverable == BetweenTicks => \A n \in Notices : Waits(n) => CanDeliver(n)

(* The same, but for a notice whose turn was admitted, or was rebuilt       *)
(* without it, before a restart made the notice pending again.              *)
Spent(n) == LET t == result[inbox[n].of].turn IN
    t # 0 /\ (turn[t].receipt # "none" \/ turn[t].retired)
NoOrphan == BetweenTicks => \A n \in Notices : Waits(n) => CanDeliver(n) \/ Spent(n)

(* A notice that waits is delivered or fails, or its parent closes.         *)
NoticeMoves == \A c \in Child :
    LET Waiting == \E n \in NoticesOf(c) : Waits(n) /\ ~Spent(n)
    IN Waiting ~> (~Waiting \/ ~Open \/ overtaken)

(* A complete result is never left waiting for the child that delivered it. *)
CompletedSurvives == \A c \in Child :
    result[c].status = "complete" => asg[c].status \notin {"awaiting", "recovering"}

=============================================================================
