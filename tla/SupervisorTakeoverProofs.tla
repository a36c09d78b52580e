---------------------- MODULE SupervisorTakeoverProofs ----------------------
(***************************************************************************)
(* A supervisor's runtime, its writer lease and its replacement, for any   *)
(* numbers of takeovers, exits, launches, inputs and crashes.              *)
(***************************************************************************)
EXTENDS SupervisorTakeover, FiniteSetTheorems, TLAPS

-----------------------------------------------------------------------------
(* The inductive invariant.                                                 *)

(* What a takeover has done by its status: a claim has fenced nobody, and   *)
(* nothing is launched that was not fenced.                                 *)
Stages ==
  \A t \in Takeovers :
    /\ tk[t].st \in {"none", "claimed"} => ~tk[t].fenced /\ tk[t].attempts = 0
    /\ tk[t].st \in Open \ {"claimed"} => tk[t].fenced
    /\ tk[t].st = "fenced" => tk[t].attempts < MaxDispatches
    /\ tk[t].st # "none" => tk[t].old < t

(* A terminal's row is written once, by the launch its context waits for:   *)
(* the context goes from terminal to terminal and never back.               *)
Early == {"none", "reserved", "provisioned", "abandoned"}
Written(t) == t < ctx.term \/ (t = ctx.term /\ ctx.st \notin {"none", "reserved", "provisioned"})
Live(t)    == life[t] \notin {"none"} \cup Ended
WrittenOnce ==
  /\ ctx.st \in Early => ctx.term = 0 /\ life[0] = "none"
  /\ \A t \in Terminals : /\ life[t] # "none" => Written(t)
                          /\ Live(t) => t = ctx.term
  /\ \A t \in Takeovers :
       tk[t].st \in {"none", "claimed", "fenced", "dispatching"} => life[t] = "none"

(* The terminal that answers for the context has the lease or has lost it,  *)
(* a dead one has lost it, and no pane of a written row is without it.      *)
LeaseFollows ==
  /\ Live(ctx.term) => lease \in {ctx.term, Nobody}
  /\ \A t \in Terminals :
       /\ life[t] = "exited" => lease # t
       /\ pane[t] \in {"provider", "orphan"} => life[t] # "none"
       /\ life[t] # "none" /\ pane[t] # "none" => lease = t

(* A replaced supervisor stays replaced.                                    *)
Replaced ==
  \A t \in Takeovers : tk[t].fenced =>
    life[tk[t].old] = "recovery_fenced" /\ tk[t].old \notin busy /\ lease # tk[t].old

(* What the holder of the lock works on.                                    *)
JobFits ==
  /\ job.step \in {"provision", "create", "row", "fence", "dispatch"} => life[job.t] = "none"
  /\ job.step \in {"start", "publish", "admit", "complete"} => life[job.t] # "none"
  /\ ~Idle => life[job.t] # "recovery_fenced"
  /\ ~Idle /\ job.t = 0 => ctx.term = 0
  /\ job.step \in {"provision", "discard"} => job.t = 0
  /\ job.step \in {"fence", "dispatch"} => job.t # 0
  /\ job.step = "fence" => tk[job.t].st = "claimed" /\ pane[tk[job.t].old] = "none"

(* What the reconciler of dead runtimes has read is of a row that is not    *)
(* written again, and a pane it found gone does not come back under it.     *)
ReapFits ==
  /\ reap.step # "idle" => Written(reap.t) /\ reap.life \in {"starting", "running", "exit_pending"}
  /\ reap.step = "dead" => /\ pane[reap.t] \in {"none", "shell"}
                           /\ life[reap.t] # "none" => pane[reap.t] = "none"

(* An exit is claimed early, before its runtime was published, or late; and *)
(* the row remembers it while it lives: it is pending, or was published all *)
(* the same, and its operation is kept.                                     *)
Publishing(t) == job.step \in {"start", "publish"} /\ job.t = t
EarlyMark(t) == Written(t) /\ \/ life[t] \in {"exit_pending", "running"} /\ op[t] = "retire"
                              \/ life[t] \in {"none", "exited"}
LateMark(t)  == Written(t) /\ \/ life[t] = "exit_pending" /\ op[t] = "retire" /\ ~Publishing(t)
                              \/ life[t] \in {"none", "exited"}
Sending(e)   == exits[e].step = "send"
Sent(t, early) == IF early THEN sent[t].early ELSE sent[t].late
AskedOnce ==
  /\ \A t \in Terminals : /\ life[t] = "running" => ~Publishing(t)
                          /\ sent[t].early > 0 => EarlyMark(t)
                          /\ sent[t].late > 0 => LateMark(t)
  /\ \A e \in Exiters : Sending(e) =>
       /\ IF exits[e].early THEN EarlyMark(exits[e].t) ELSE LateMark(exits[e].t)
       /\ Sent(exits[e].t, exits[e].early) = 0
       /\ \A f \in Exiters : /\ Sending(f) /\ exits[f].t = exits[e].t
                             /\ exits[f].early = exits[e].early
                             => f = e

IInv == /\ TypeOK /\ Stages /\ WrittenOnce /\ LeaseFollows /\ Replaced
        /\ JobFits /\ ReapFits /\ AskedOnce /\ ExitOnce
-----------------------------------------------------------------------------
(* The numbers.                                                             *)
LEMMA Numbers ==
  /\ Takeovers \subseteq Terminals /\ Terminals \subseteq Nat /\ Exiters \subseteq Nat
  /\ Nobody \notin Terminals /\ 0 \in Terminals /\ 0 \notin Takeovers
  /\ \A t \in Terminals : t # 0 => t \in Takeovers
  /\ MaxDispatches \in Nat \ {0} /\ MaxFaults \in Nat /\ MaxInputs \in Nat
  /\ ExitTargets \subseteq Terminals
  BY ConstantAssumption DEF Takeovers, Terminals, Exiters, Nobody

(* What the types say of a single element: the facts that the leaves below *)
(* cite instead of TypeOK.                                                 *)
LEMMA Types ==
  ASSUME TypeOK
  PROVE  /\ life = [t \in Terminals |-> life[t]] /\ op = [t \in Terminals |-> op[t]]
         /\ pane = [t \in Terminals |-> pane[t]] /\ tk = [t \in Takeovers |-> tk[t]]
         /\ exits = [e \in Exiters |-> exits[e]] /\ sent = [t \in Terminals |-> sent[t]]
         /\ job = [step |-> job.step, t |-> job.t, again |-> job.again, made |-> job.made]
         /\ ctx = [st |-> ctx.st, term |-> ctx.term]
         /\ reap = [step |-> reap.step, t |-> reap.t, life |-> reap.life, op |-> reap.op]
         /\ job.t \in Terminals /\ ctx.term \in Terminals /\ reap.t \in Terminals
         /\ \A t \in Takeovers : tk[t] = [st |-> tk[t].st, old |-> tk[t].old, attempts |-> tk[t].attempts, fenced |-> tk[t].fenced]
         /\ \A t \in Takeovers : tk[t].old \in Terminals /\ tk[t].attempts \in 0..MaxDispatches /\ tk[t].fenced \in BOOLEAN
         /\ \A e \in Exiters : exits[e] = [step |-> exits[e].step, t |-> exits[e].t, target |-> exits[e].target, early |-> exits[e].early]
         /\ \A e \in Exiters : exits[e].t \in Terminals /\ exits[e].early \in BOOLEAN
         /\ \A t \in Terminals : sent[t] = [early |-> sent[t].early, late |-> sent[t].late]
         /\ \A t \in Terminals : sent[t].early \in Nat /\ sent[t].late \in Nat
         /\ lease \in Terminals \cup {Nobody}
  BY DEF TypeOK, JobRow, CtxRow, ReapRow, TakeoverRow, ExitRow

(* A released lease finds no heir: the one row that lives is the one that  *)
(* releases it.                                                            *)
LEMMA ReleasedIs ==
  ASSUME TypeOK, WrittenOnce, LeaseFollows, NEW t \in Terminals
  PROVE  Released(t) = IF lease = t THEN Nobody ELSE lease
<1> DEFINE heirs == {u \in Terminals \ {t} : life[u] \in {"starting", "running", "exit_pending"}}
<1>1. CASE lease # t
  BY <1>1 DEF Released
<1>2. CASE lease = t
  <2>1. heirs = {}
    <3> SUFFICES ASSUME NEW u \in heirs PROVE FALSE
      OBVIOUS
    <3>1. Live(u)
      BY DEF Live, Ended
    <3>2. u \in Terminals
      OBVIOUS
    <3>3. u = ctx.term /\ t # Nobody /\ t # u
      BY <3>1, <3>2, Numbers DEF WrittenOnce
    <3> QED BY <1>2, <3>1, <3>3 DEF LeaseFollows
  <2> QED BY <1>2, <2>1 DEF Released
<1> QED BY <1>1, <1>2

(* A takeover's status moves along its table, and nothing else of its row   *)
(* moves with it, but for a request and a fence.                            *)
StatusMoves(t) ==
  LET was == tk[t].st  is == tk'[t].st IN
  \/ is = was /\ tk'[t].attempts = tk[t].attempts
  \/ /\ was \in {"dispatching", "admitted"} /\ tk'[t].attempts = tk[t].attempts
     /\ \/ is \in {"completed", "dispatch_uncertain", "failed"}
        \/ is = "admitted" /\ life'[t] # "none"
        \/ is = "fenced" /\ tk[t].attempts < MaxDispatches /\ life'[t] = "none"
  \/ Idle /\ was = "claimed" /\ is = "failed"
  \/ was = "fenced" /\ is \in {"dispatching", "dispatch_uncertain", "failed"}
StatusOnly == \A t \in Takeovers : /\ tk'[t].old = tk[t].old /\ tk'[t].fenced = tk[t].fenced
                                   /\ StatusMoves(t)

(* Marking a takeover uncertain moves its status and nothing else.         *)
LEMMA UncertainMoves ==
  ASSUME TypeOK, NEW t, tk' = Uncertain(t)
  PROVE  StatusOnly
  BY Types DEF Uncertain, StatusOnly, StatusMoves

(* So does a confirmed failure of its launch, which also removes the row.  *)
LEMMA ResetMoves ==
  ASSUME TypeOK, NEW t, ResetBy(t)
  PROVE  StatusOnly
<1>1. CASE t \in Takeovers /\ tk[t].st \in {"dispatching", "admitted"}
  <2>1. tk' = [tk EXCEPT ![t].st = Reset(t)] /\ life' = [life EXCEPT ![t] = "none"]
    BY <1>1 DEF ResetBy
  <2>2. Reset(t) = "failed" \/ (Reset(t) = "fenced" /\ tk[t].attempts < MaxDispatches)
    BY <1>1, Types, Numbers DEF Reset
  <2>3. life'[t] = "none"
    BY <1>1, <2>1, Types, Numbers
  <2>4. \A u \in Takeovers : /\ tk'[u].old = tk[u].old /\ tk'[u].fenced = tk[u].fenced
                             /\ tk'[u].attempts = tk[u].attempts
                             /\ tk'[u].st = IF u = t THEN Reset(t) ELSE tk[u].st
    BY <1>1, <2>1, Types
  <2> QED BY <1>1, <2>2, <2>3, <2>4 DEF StatusOnly, StatusMoves
<1>2. CASE t \notin Takeovers
  BY <1>2, Types DEF ResetBy, StatusOnly, StatusMoves
<1>3. CASE tk[t].st \notin {"dispatching", "admitted"}
  BY <1>3, Types DEF ResetBy, StatusOnly, StatusMoves
<1> QED BY <1>1, <1>2, <1>3

(* Every step moves a takeover's row like that, unless it requests it or   *)
(* fences it.                                                              *)
LEMMA TkStep ==
  ASSUME TypeOK, [Next]_vars
  PROVE  \/ StatusOnly \/ Fence
         \/ \E t \in Takeovers, o \in Terminals : Request(t, o)
<1>1. ASSUME Row PROVE StatusOnly
  <2> DEFINE t == job.t
  <2>1. CASE RowValid(t) /\ t # 0
    <3>1. /\ tk[t].st = "dispatching" /\ tk' = [tk EXCEPT ![t].st = "admitted"]
          /\ life' = [life EXCEPT ![t] = "starting"] /\ t \in Takeovers
      BY <1>1, <2>1, Types, Numbers DEF Row, RowWritten, RowValid
    <3>2. life'[t] # "none" /\ tk'[t].st = "admitted"
      BY <3>1, Types, Numbers
    <3>3. /\ \A u \in Takeovers : /\ tk'[u].old = tk[u].old /\ tk'[u].fenced = tk[u].fenced
                                  /\ tk'[u].attempts = tk[u].attempts
          /\ \A u \in Takeovers \ {t} : tk'[u].st = tk[u].st
      BY <3>1, Types
    <3> HIDE DEF t
    <3> QED BY <3>1, <3>2, <3>3 DEF StatusOnly, StatusMoves
  <2>2. CASE ~RowValid(t) \/ t = 0
    <3>1. tk' = tk
      BY <1>1, <2>2 DEF Row, RowWritten
    <3> QED BY <3>1 DEF StatusOnly, StatusMoves
  <2> QED BY <2>1, <2>2
<1>2. ASSUME tk' = Uncertain(job.t) PROVE StatusOnly
  BY <1>2, UncertainMoves
<1>3. ASSUME UNCHANGED tk PROVE StatusOnly
  BY <1>3 DEF StatusOnly, StatusMoves
<1>4. ASSUME Complete PROVE StatusOnly
  <2> DEFINE t == job.t
  <2>1. tk' = tk \/ (tk[t].st = "admitted" /\ tk' = [tk EXCEPT ![t].st = "completed"])
    BY <1>4 DEF Complete
  <2>2. \A u \in Takeovers : /\ tk'[u].old = tk[u].old /\ tk'[u].fenced = tk[u].fenced
                             /\ tk'[u].attempts = tk[u].attempts
                             /\ \/ tk'[u].st = tk[u].st
                                \/ tk[u].st = "admitted" /\ tk'[u].st = "completed"
    <3>1. CASE tk' = tk
      BY <3>1
    <3>2. CASE tk[t].st = "admitted" /\ tk' = [tk EXCEPT ![t].st = "completed"]
      <4>1. \A u \in Takeovers \ {t} : tk'[u] = tk[u]
        BY <3>2, Types
      <4>2. t \in Takeovers => /\ tk'[t].old = tk[t].old /\ tk'[t].fenced = tk[t].fenced
                               /\ tk'[t].attempts = tk[t].attempts /\ tk'[t].st = "completed"
        BY <3>2, Types
      <4> QED BY <3>2, <4>1, <4>2
    <3> QED BY <2>1, <3>1, <3>2
  <2> QED BY <2>2 DEF StatusOnly, StatusMoves
<1>5. ASSUME Cleanup PROVE StatusOnly
  <2>1. ResetBy(job.t) \/ tk' = Uncertain(job.t) \/ UNCHANGED tk
    BY <1>5 DEF Cleanup
  <2> QED BY <2>1, <1>2, <1>3, ResetMoves
<1>6. ASSUME NEW t \in Takeovers, ClaimFails(t) PROVE StatusOnly
  BY <1>6, Types DEF ClaimFails, StatusOnly, StatusMoves
<1>7. ASSUME NEW t \in Takeovers, Dispatch(t) PROVE StatusOnly
  <2>1. /\ tk[t].st = "fenced"
        /\ \/ tk' = [tk EXCEPT ![t].st = "failed"]
           \/ \E s \in {"dispatching", "dispatch_uncertain"} :
                tk' = [tk EXCEPT ![t].st = s, ![t].attempts = @ + 1]
    BY <1>7 DEF Dispatch, LaunchClaimed
  <2>2. \A u \in Takeovers : /\ tk'[u].old = tk[u].old /\ tk'[u].fenced = tk[u].fenced
                             /\ u # t => tk'[u] = tk[u]
    BY <2>1, Types
  <2>3. tk'[t].st \in {"failed", "dispatching", "dispatch_uncertain"}
    BY <2>1, Types
  <2> QED BY <2>1, <2>2, <2>3 DEF StatusOnly, StatusMoves
<1>8. ASSUME NEW t \in Takeovers, Recover(t) PROVE StatusOnly
  <2>1. ResetBy(t) \/ tk' = Uncertain(t) \/ UNCHANGED tk
    BY <1>8 DEF Recover
  <2> QED BY <2>1, <1>3, UncertainMoves, ResetMoves
<1>9. ASSUME JobStep PROVE StatusOnly \/ Fence
  <2>1. ASSUME Publish \/ Admit PROVE tk' = Uncertain(job.t) \/ UNCHANGED tk
    BY <2>1 DEF Publish, Admit, GiveUp
  <2>2. ASSUME Provision \/ Create \/ Start \/ Discard PROVE UNCHANGED tk
    BY <2>2 DEF Provision, Create, Start, Discard
  <2> QED BY <1>1, <1>2, <1>3, <1>4, <1>5, <1>9, <2>1, <2>2 DEF JobStep
<1>10. ASSUME NEW t \in Takeovers, Saga(t) PROVE StatusOnly
  <2>1. ASSUME Retire(t) PROVE UNCHANGED tk
    BY <2>1 DEF Retire
  <2> QED BY <1>3, <1>6, <1>7, <1>8, <1>10, <2>1 DEF Saga
<1>11. ASSUME Launch \/ ReconcileProvisioning \/ Reaper \/ Crash PROVE UNCHANGED tk
  BY <1>11 DEF Launch, ReconcileProvisioning, Reaper, ReapObserve, ReapWrite, Reap, Crash
<1>12. ASSUME NEW t \in Terminals, \/ Abandon(t) \/ ProviderEnds(t) \/ PaneGoes(t)
             \/ Acquire(t) \/ Paste(t) \/ TransportExpires(t) \/ WorkSettles(t)
       PROVE UNCHANGED tk
  BY <1>12 DEF Abandon, ProviderEnds, PaneGoes, Acquire, Paste, TransportExpires, WorkSettles
<1>13. ASSUME NEW e \in Exiters, (\E t \in ExitTargets : ExitBegin(e, t)) \/ ExitClaim(e) \/ ExitSend(e)
       PROVE UNCHANGED tk
  BY <1>13 DEF ExitBegin, ExitClaim, ExitSend
<1>14. ASSUME UNCHANGED vars PROVE UNCHANGED tk
  BY <1>14 DEF vars
<1> QED BY <1>3, <1>9, <1>10, <1>11, <1>12, <1>13, <1>14 DEF Next

(* Every step keeps what the statuses mean.                                 *)
LEMMA StagesStep ==
  ASSUME TypeOK, Stages, JobFits, [Next]_vars
  PROVE  Stages'
<1>1. CASE StatusOnly
  BY <1>1, Types DEF StatusOnly, StatusMoves, Stages, Open
<1>2. ASSUME NEW t \in Takeovers, NEW o \in Terminals, Request(t, o) PROVE Stages'
  BY <1>2, Types DEF Request, ClaimWritten, Stages, Open
<1>3. CASE Fence
  <2> DEFINE t == job.t
  <2>1. t \in Takeovers /\ tk[t].st = "claimed" /\ job.step = "fence"
    BY <1>3, Types, Numbers DEF Fence, JobFits
  <2>2. \/ tk' = [tk EXCEPT ![t].st = "fenced", ![t].fenced = TRUE]
        \/ tk' = [tk EXCEPT ![t].st = "failed"]
    BY <1>3 DEF Fence
  <2>3. /\ \A u \in Takeovers \ {t} : tk'[u] = tk[u]
        /\ tk'[t].old = tk[t].old /\ tk'[t].attempts = tk[t].attempts
        /\ \/ tk'[t].st = "fenced" /\ tk'[t].fenced
           \/ tk'[t].st = "failed"
    <3>1. /\ \A u \in Takeovers \ {t} : tk'[u] = tk[u]
          /\ tk'[t].old = tk[t].old /\ tk'[t].attempts = tk[t].attempts
      BY <2>1, <2>2, Types
    <3>2. tk' = [tk EXCEPT ![t].st = "failed"] => tk'[t].st = "failed"
      BY <2>1, Types
    <3>3. tk' = [tk EXCEPT ![t].st = "fenced", ![t].fenced = TRUE] => tk'[t].st = "fenced" /\ tk'[t].fenced
      BY <2>1, Types
    <3> QED BY <2>2, <3>1, <3>2, <3>3
  <2>4. tk[t].attempts < MaxDispatches
    <3>1. MaxDispatches \in Nat /\ MaxDispatches # 0
      BY Numbers
    <3>2. tk[t].attempts = 0
      BY <2>1 DEF Stages
    <3> QED BY <3>1, <3>2
  <2> HIDE DEF t
  <2> QED BY <2>1, <2>3, <2>4 DEF Stages, Open
<1> QED BY <1>1, <1>2, <1>3, TkStep

(* Only the one dispatch whose context still belongs to the terminal it     *)
(* replaces writes a row, and nobody else lives then.                       *)
LEMMA RowIsFirst ==
  ASSUME TypeOK, Stages, WrittenOnce, Replaced, JobFits, Row, RowValid(job.t)
  PROVE  /\ life[job.t] = "none" /\ ~Written(job.t) /\ ctx.term <= job.t
         /\ \A u \in Terminals : ~Live(u)
         /\ \A u \in Terminals : life[u] # "none" => u < job.t
         /\ lease \in {job.t, Nobody}
         /\ ctx' = [st |-> "launching", term |-> job.t] /\ lease' = job.t
         /\ \A u \in Terminals : life'[u] = IF u = job.t THEN "starting" ELSE life[u]
<1> DEFINE t == job.t
<1>1. t \in Terminals /\ life[t] = "none" /\ t \in Nat /\ ctx.term \in Nat
  BY Types, Numbers DEF JobFits, Row
<1>2. /\ life' = [life EXCEPT ![t] = "starting"] /\ lease' = t
      /\ ctx' = [st |-> "launching", term |-> t]
  BY DEF Row, RowWritten
<1>3. CASE t = 0
  <2>1. ctx.st = "provisioned" /\ ctx.term = 0 /\ lease = Nobody
    BY <1>3 DEF RowValid, ContextValid
  <2>2. \A u \in Terminals : life[u] = "none"
    <3> SUFFICES ASSUME NEW u \in Terminals, life[u] # "none" PROVE FALSE
      OBVIOUS
    <3>1. u \in Nat /\ Written(u)
      BY Numbers DEF WrittenOnce
    <3> QED BY <1>1, <1>3, <2>1, <3>1 DEF Written
  <2> QED BY <1>1, <1>2, <1>3, <2>1, <2>2, Types DEF Live, Written
<1>4. CASE t # 0
  <2>1. /\ t \in Takeovers /\ tk[t].st = "dispatching" /\ lease = t
        /\ ctx.term = tk[t].old /\ ctx.st = "admitted"
    BY <1>1, <1>4, Numbers DEF RowValid, ContextValid
  <2>2. tk[t].old < t /\ life[tk[t].old] = "recovery_fenced"
    BY <2>1 DEF Stages, Replaced, Open
  <2>3. ctx.term < t
    BY <2>1, <2>2
  <2>4. \A u \in Terminals : ~Live(u)
    BY <2>1, <2>2 DEF WrittenOnce, Live, Ended
  <2>5. \A u \in Terminals : life[u] # "none" => u < t
    BY <1>1, <2>3, Numbers DEF WrittenOnce, Written
  <2>6. ~Written(t)
    BY <1>1, <2>3 DEF Written
  <2> QED BY <1>1, <1>2, <2>1, <2>3, <2>4, <2>5, <2>6, Types
<1> QED BY <1>3, <1>4

(* What a step can do to the life of a terminal.                            *)
LifeMoves(t) ==
  LET was == life[t]  is == life'[t] IN
  \/ is = was
  \/ Row /\ RowValid(job.t) /\ t = job.t
  \/ Publish /\ t = job.t /\ was \in {"starting", "running", "exit_pending"} /\ is = "running"
  \/ /\ Cleanup /\ t = job.t /\ was # "none" /\ op'[t] = "none" /\ pane'[t] = "none"
     /\ \/ t # 0 /\ is = "none"
        \/ t = 0 /\ is = "exited" /\ lease' # t
  \/ Discard /\ t = 0 /\ was = "exited" /\ is = "none"
  \/ /\ Fence /\ t = tk[job.t].old /\ is = "recovery_fenced" /\ op[t] = "takeover"
     /\ was \in {"starting", "running", "recovery_required"}
  \/ was = "recovery_required" /\ is = "exited" /\ lease' = lease /\ lease # t
  \/ was \in {"starting", "running", "recovery_required"} /\ is = "exit_pending" /\ op'[t] = "retire"
  \/ /\ ReapWrite /\ t = reap.t /\ Live(t) /\ is \in {"recovery_required", "exited"}
     /\ is = "recovery_required" => op[t] = "none" /\ was # "exit_pending" /\ lease = t
     /\ lease' # t

(* Every step is one of those.                                             *)
LEMMA LifeStep ==
  ASSUME TypeOK, WrittenOnce, LeaseFollows, ReapFits, JobFits, [Next]_vars, NEW t \in Terminals
  PROVE  LifeMoves(t)
<1>1. ASSUME UNCHANGED life PROVE LifeMoves(t)
  BY <1>1 DEF LifeMoves
<1>2. ASSUME JobStep PROVE LifeMoves(t)
  <2>1. ASSUME Provision \/ Create \/ Start \/ Admit \/ Complete PROVE UNCHANGED life
    BY <2>1 DEF Provision, Create, Start, Admit, Complete
  <2>2. ASSUME Row PROVE LifeMoves(t)
    BY <2>2, Types DEF Row, RowWritten, LifeMoves
  <2>3. ASSUME Publish PROVE LifeMoves(t)
    <3>1. life[job.t] \in Lives
      BY Types DEF TypeOK
    <3> QED BY <2>3, <3>1, Types DEF Publish, LifeMoves, Lives, Ended
  <2>4. ASSUME Cleanup PROVE LifeMoves(t)
    <3>1. Released(0) # 0
      BY ReleasedIs, Numbers
    <3> QED BY <2>4, <3>1, Types DEF Cleanup, ResetBy, LifeMoves
  <2>5. ASSUME Discard PROVE LifeMoves(t)
    BY <2>5, Types DEF Discard, LifeMoves
  <2>6. ASSUME Fence PROVE LifeMoves(t)
    BY <2>6, Types DEF Fence, Replaceable, LifeMoves
  <2> QED BY <1>1, <1>2, <2>1, <2>2, <2>3, <2>4, <2>5, <2>6 DEF JobStep
<1>3. ASSUME NEW u \in Takeovers, Saga(u) PROVE UNCHANGED life
  <2>1. ASSUME Recover(u), life[u] = "none" PROVE UNCHANGED life
    BY <2>1, Types, Numbers DEF Recover, ResetBy
  <2>2. ASSUME Recover(u), life[u] # "none" PROVE UNCHANGED life
    BY <2>2 DEF Recover
  <2> QED BY <1>3, <2>1, <2>2 DEF Saga, ClaimFails, Retire, Dispatch
<1>4. ASSUME Launch \/ ReconcileProvisioning \/ Crash PROVE UNCHANGED life
  BY <1>4 DEF Launch, ReconcileProvisioning, Crash
<1>5. ASSUME Reaper PROVE LifeMoves(t)
  <2>1. ASSUME ReapWrite PROVE LifeMoves(t)
    <3>1. reap.life \in {"starting", "running", "exit_pending"}
      BY <2>1 DEF ReapWrite, ReapFits
    <3>2. Released(reap.t) # reap.t /\ Nobody # reap.t
      BY ReleasedIs, Types, Numbers
    <3> QED BY <2>1, <3>1, <3>2, Types DEF ReapWrite, Reaped, Recoverable, LifeMoves, Live, Ended
  <2>2. ASSUME ReapObserve \/ \E u \in Terminals : Reap(u) PROVE UNCHANGED life
    BY <2>2 DEF ReapObserve, Reap
  <2> QED BY <1>1, <1>5, <2>1, <2>2 DEF Reaper
<1>6. ASSUME NEW u \in Takeovers, NEW o \in Terminals, Request(u, o) PROVE UNCHANGED life
  BY <1>6 DEF Request
<1>7. ASSUME NEW u \in Terminals, Abandon(u) PROVE LifeMoves(t)
  BY <1>7, Types DEF Abandon, LifeMoves
<1>8. ASSUME NEW u \in Terminals, \/ ProviderEnds(u) \/ PaneGoes(u) \/ Acquire(u) \/ Paste(u)
                                \/ TransportExpires(u) \/ WorkSettles(u)
      PROVE  UNCHANGED life
  BY <1>8 DEF ProviderEnds, PaneGoes, Acquire, Paste, TransportExpires, WorkSettles
<1>9. ASSUME NEW e \in Exiters, ExitClaim(e) PROVE LifeMoves(t)
  <2>1. exits[e].t \in Terminals /\ life[exits[e].t] \in Lives
    BY Types DEF TypeOK
  <2> QED BY <1>9, <2>1, Types DEF ExitClaim, Exitable, LifeMoves, Lives, Ended
<1>10. ASSUME NEW e \in Exiters, (\E u \in ExitTargets : ExitBegin(e, u)) \/ ExitSend(e)
       PROVE  UNCHANGED life
  BY <1>10 DEF ExitBegin, ExitSend
<1>11. ASSUME UNCHANGED vars PROVE UNCHANGED life
  BY <1>11 DEF vars
<1> QED BY <1>1, <1>2, <1>3, <1>4, <1>5, <1>6, <1>7, <1>8, <1>9, <1>10, <1>11 DEF Next

(* What a step can do to the context.                                       *)
Unwritten == {"none", "reserved", "provisioned"}
ContextMoves ==
  \/ Row /\ RowValid(job.t)
  \/ /\ ctx'.term = ctx.term /\ (ctx.st \notin Unwritten => ctx'.st \notin Unwritten)
     /\ ctx'.st \in Early => ctx.st \in Early \/ (Discard /\ life'[0] = "none")

(* Every step is one of those.                                             *)
LEMMA ContextStep ==
  ASSUME TypeOK, [Next]_vars
  PROVE  ContextMoves
<1>1. ASSUME UNCHANGED ctx PROVE ContextMoves
  BY <1>1 DEF ContextMoves
<1>2. ASSUME JobStep PROVE ContextMoves
  <2>1. ASSUME Create \/ Start \/ Publish \/ Complete \/ Cleanup \/ Fence PROVE UNCHANGED ctx
    BY <2>1 DEF Create, Start, Publish, Complete, Cleanup, Fence
  <2>2. ASSUME Provision PROVE ContextMoves
    BY <2>2, Types DEF Provision, Moved, ContextMoves, Unwritten, Early
  <2>3. ASSUME Row PROVE ContextMoves
    BY <2>3 DEF Row, ContextMoves
  <2>4. ASSUME Admit PROVE ContextMoves
    BY <2>4, Types DEF Admit, Moved, ContextMoves, Unwritten, Early
  <2>5. ASSUME Discard PROVE ContextMoves
    BY <2>5, Types, Numbers DEF Discard, Moved, Moves, Underway, ContextMoves, Unwritten, Early
  <2> QED BY <1>1, <1>2, <2>1, <2>2, <2>3, <2>4, <2>5 DEF JobStep
<1>3. ASSUME NEW u \in Takeovers, Saga(u) PROVE UNCHANGED ctx
  BY <1>3 DEF Saga, ClaimFails, Retire, Dispatch, Recover
<1>4. ASSUME Launch \/ ReconcileProvisioning PROVE ContextMoves
  BY <1>4, Types DEF Launch, Launchable, Reserved, ReconcileProvisioning, ContextMoves, Unwritten, Early
<1>5. ASSUME Reaper \/ Crash PROVE UNCHANGED ctx
  BY <1>5 DEF Reaper, ReapWrite, ReapObserve, Reap, Crash
<1>6. ASSUME NEW u \in Takeovers, NEW o \in Terminals, Request(u, o) PROVE UNCHANGED ctx
  BY <1>6 DEF Request
<1>7. ASSUME NEW u \in Terminals, \/ Abandon(u) \/ ProviderEnds(u) \/ PaneGoes(u) \/ Acquire(u)
                                \/ Paste(u) \/ TransportExpires(u) \/ WorkSettles(u)
      PROVE  UNCHANGED ctx
  BY <1>7 DEF Abandon, ProviderEnds, PaneGoes, Acquire, Paste, TransportExpires, WorkSettles
<1>8. ASSUME NEW e \in Exiters, (\E u \in ExitTargets : ExitBegin(e, u)) \/ ExitClaim(e) \/ ExitSend(e)
      PROVE  UNCHANGED ctx
  BY <1>8 DEF ExitBegin, ExitClaim, ExitSend
<1>9. ASSUME UNCHANGED vars PROVE UNCHANGED ctx
  BY <1>9 DEF vars
<1> QED BY <1>1, <1>2, <1>3, <1>4, <1>5, <1>6, <1>7, <1>8, <1>9 DEF Next

(* What a step can do to the lease.                                         *)
LeaseMoves ==
  \/ lease' = lease
  \/ Row /\ RowValid(job.t)
  \/ /\ Fence /\ lease' = job.t /\ LeaseFits(tk[job.t].old)
     /\ Live(tk[job.t].old) /\ life'[tk[job.t].old] = "recovery_fenced"
  \/ /\ lease' = Nobody /\ lease \in Terminals
     /\ \/ Cleanup /\ lease = 0 /\ life'[0] = "exited" /\ pane'[0] = "none"
        \/ Discard /\ lease = 0 /\ life'[0] = "none" /\ life[0] \in {"none", "exited"}
        \/ ReapWrite /\ lease = reap.t /\ life'[lease] \in {"recovery_required", "exited"}

(* Every step is one of those.                                             *)
LEMMA LeaseStep ==
  ASSUME TypeOK, WrittenOnce, LeaseFollows, ReapFits, JobFits, [Next]_vars
  PROVE  LeaseMoves
<1>1. ASSUME UNCHANGED lease PROVE LeaseMoves
  BY <1>1 DEF LeaseMoves
<1>2. ASSUME JobStep PROVE LeaseMoves
  <2>1. ASSUME Create \/ Start \/ Publish \/ Complete \/ Provision \/ Admit PROVE UNCHANGED lease
    BY <2>1 DEF Create, Start, Publish, Complete, Provision, Admit
  <2>2. ASSUME Row PROVE LeaseMoves
    BY <2>2 DEF Row, LeaseMoves
  <2>3. ASSUME Cleanup PROVE LeaseMoves
    <3>1. Released(0) = IF lease = 0 THEN Nobody ELSE lease
      BY ReleasedIs, Numbers
    <3> QED BY <2>3, <3>1, Types, Numbers DEF Cleanup, LeaseMoves
  <2>4. ASSUME Discard PROVE LeaseMoves
    <3>1. Released(0) = IF lease = 0 THEN Nobody ELSE lease
      BY ReleasedIs, Numbers
    <3> QED BY <2>4, <3>1, Types, Numbers DEF Discard, LeaseMoves
  <2>5. ASSUME Fence PROVE LeaseMoves
    <3>1. job.t \in Takeovers
      BY <2>5, Types, Numbers DEF Fence, JobFits
    <3>2. ASSUME Replaceable(tk[job.t].old) PROVE Live(tk[job.t].old) /\ LeaseFits(tk[job.t].old)
      BY <3>2 DEF Replaceable, Live, Ended
    <3> QED BY <2>5, <3>1, <3>2, Types, Numbers DEF Fence, LeaseMoves
  <2> QED BY <1>1, <1>2, <2>1, <2>2, <2>3, <2>4, <2>5 DEF JobStep
<1>3. ASSUME NEW u \in Takeovers, Saga(u) PROVE UNCHANGED lease
  BY <1>3 DEF Saga, ClaimFails, Retire, Dispatch, Recover
<1>4. ASSUME Launch \/ ReconcileProvisioning \/ Crash PROVE UNCHANGED lease
  BY <1>4 DEF Launch, ReconcileProvisioning, Crash
<1>5. ASSUME Reaper PROVE LeaseMoves
  <2>1. ASSUME ReapWrite PROVE LeaseMoves
    <3>1. Released(reap.t) = IF lease = reap.t THEN Nobody ELSE lease
      BY ReleasedIs, Types
    <3> QED BY <2>1, <3>1, Types, Numbers DEF ReapWrite, Reaped, Recoverable, LeaseMoves
  <2>2. ASSUME ReapObserve \/ \E u \in Terminals : Reap(u) PROVE UNCHANGED lease
    BY <2>2 DEF ReapObserve, Reap
  <2> QED BY <1>1, <1>5, <2>1, <2>2 DEF Reaper
<1>6. ASSUME NEW u \in Takeovers, NEW o \in Terminals, Request(u, o) PROVE UNCHANGED lease
  BY <1>6 DEF Request
<1>7. ASSUME NEW u \in Terminals, \/ Abandon(u) \/ ProviderEnds(u) \/ PaneGoes(u) \/ Acquire(u)
                                \/ Paste(u) \/ TransportExpires(u) \/ WorkSettles(u)
      PROVE  UNCHANGED lease
  BY <1>7 DEF Abandon, ProviderEnds, PaneGoes, Acquire, Paste, TransportExpires, WorkSettles
<1>8. ASSUME NEW e \in Exiters, (\E u \in ExitTargets : ExitBegin(e, u)) \/ ExitClaim(e) \/ ExitSend(e)
      PROVE  UNCHANGED lease
  BY <1>8 DEF ExitBegin, ExitClaim, ExitSend
<1>9. ASSUME UNCHANGED vars PROVE UNCHANGED lease
  BY <1>9 DEF vars
<1> QED BY <1>1, <1>2, <1>3, <1>4, <1>5, <1>6, <1>7, <1>8, <1>9 DEF Next

(* What a step can do to a pane.                                            *)
PaneMoves(t) ==
  LET was == pane[t]  is == pane'[t] IN
  \/ is \in {was, "none"}
  \/ was = "provider" /\ is \in {"shell", "orphan"}
  \/ Create /\ t = job.t /\ is = "shell"
  \/ Start /\ t = job.t /\ was = "shell" /\ is = "provider"

(* Every step is one of those.                                             *)
LEMMA PaneStep ==
  ASSUME TypeOK, [Next]_vars, NEW t \in Terminals
  PROVE  PaneMoves(t)
<1>1. ASSUME UNCHANGED pane PROVE PaneMoves(t)
  BY <1>1 DEF PaneMoves
<1>2. ASSUME JobStep PROVE PaneMoves(t)
  <2>1. ASSUME Provision \/ Row \/ Publish \/ Admit \/ Complete \/ Discard \/ Fence PROVE UNCHANGED pane
    BY <2>1 DEF Provision, Row, Publish, Admit, Complete, Discard, Fence
  <2>2. ASSUME Create PROVE PaneMoves(t)
    BY <2>2, Types DEF Create, PaneMoves
  <2>3. ASSUME Start PROVE PaneMoves(t)
    BY <2>3, Types DEF Start, PaneMoves
  <2>4. ASSUME Cleanup PROVE PaneMoves(t)
    BY <2>4, Types DEF Cleanup, PaneMoves
  <2> QED BY <1>1, <1>2, <2>1, <2>2, <2>3, <2>4 DEF JobStep
<1>3. ASSUME NEW u \in Takeovers, Saga(u) PROVE PaneMoves(t)
  <2>1. ASSUME ClaimFails(u) \/ Dispatch(u) PROVE UNCHANGED pane
    BY <2>1 DEF ClaimFails, Dispatch
  <2>2. ASSUME Retire(u) PROVE PaneMoves(t)
    BY <2>2, Types DEF Retire, PaneMoves
  <2>3. ASSUME Recover(u) PROVE PaneMoves(t)
    BY <2>3, Types DEF Recover, PaneMoves
  <2> QED BY <1>1, <1>3, <2>1, <2>2, <2>3 DEF Saga
<1>4. ASSUME Launch \/ ReconcileProvisioning \/ Crash PROVE UNCHANGED pane
  BY <1>4 DEF Launch, ReconcileProvisioning, Crash
<1>5. ASSUME Reaper PROVE PaneMoves(t)
  BY <1>5, Types DEF Reaper, Reap, ReapObserve, ReapWrite, PaneMoves
<1>6. ASSUME NEW u \in Takeovers, NEW o \in Terminals, Request(u, o) PROVE UNCHANGED pane
  BY <1>6 DEF Request
<1>7. ASSUME NEW u \in Terminals, ProviderEnds(u) \/ PaneGoes(u) PROVE PaneMoves(t)
  BY <1>7, Types DEF ProviderEnds, PaneGoes, PaneMoves
<1>8. ASSUME NEW u \in Terminals, \/ Abandon(u) \/ Acquire(u) \/ Paste(u)
                                \/ TransportExpires(u) \/ WorkSettles(u)
      PROVE  UNCHANGED pane
  BY <1>8 DEF Abandon, Acquire, Paste, TransportExpires, WorkSettles
<1>9. ASSUME NEW e \in Exiters, (\E u \in ExitTargets : ExitBegin(e, u)) \/ ExitClaim(e) \/ ExitSend(e)
      PROVE  UNCHANGED pane
  BY <1>9 DEF ExitBegin, ExitClaim, ExitSend
<1>10. ASSUME UNCHANGED vars PROVE UNCHANGED pane
  BY <1>10 DEF vars
<1> QED BY <1>1, <1>2, <1>3, <1>4, <1>5, <1>6, <1>7, <1>8, <1>9, <1>10 DEF Next

(* How the lock is taken, and the path of its holder.                       *)
JobGoes ==
  \/ Launch /\ job'.t = 0 /\ job'.step = "provision"
  \/ \E t \in Takeovers : \/ Retire(t) /\ job'.t = t /\ job'.step = "fence"
                          \/ Dispatch(t) /\ job'.t = t /\ job'.step = "create"
                          \/ /\ Recover(t) /\ job'.t = t /\ life[t] \in {"starting", "running"}
                             /\ job'.step \in {"start", "publish", "admit"}
                             /\ job'.step = "admit" \/ life[t] = "starting"
  \/ /\ JobStep /\ job'.t = job.t
     /\ \/ Provision /\ job'.step = "create"
        \/ Create /\ job'.step \in {"row", "cleanup"}
        \/ Row /\ RowValid(job.t) /\ job'.step = "start"
        \/ Row /\ ~RowValid(job.t) /\ job'.step = "cleanup"
        \/ Start /\ job'.step \in {"publish", "cleanup"}
        \/ Publish /\ life[job.t] # "none" /\ life'[job.t] = "running" /\ job'.step = "admit"
        \/ Admit /\ job.t # 0 /\ job'.step = "complete"
        \/ (Publish \/ Admit \/ Complete) /\ job'.step = "cleanup"
        \/ Cleanup /\ job.t = 0 /\ job'.step = "discard"
        \/ Fence /\ job'.step = "dispatch"
JobMoves == \/ job' = job /\ ~JobStep
            \/ job' = NoJob
            \/ JobGoes

(* Every step is one of those, and a step of the holder always moves on.   *)
LEMMA JobPath ==
  ASSUME TypeOK, [Next]_vars
  PROVE  JobMoves
<1>1. ASSUME JobStep PROVE job' # job
  <2>1. ASSUME Provision PROVE job'.step # job.step
    BY <2>1, Types DEF Provision, Goto, NoJob
  <2>2. ASSUME Create PROVE job'.step # job.step
    BY <2>2, Types DEF Create, Goto, NoJob
  <2>3. ASSUME Row PROVE job'.step # job.step
    BY <2>3, Types DEF Row, Goto, NoJob
  <2>4. ASSUME Start PROVE job'.step # job.step
    BY <2>4, Types DEF Start, Goto, NoJob
  <2>5. ASSUME Publish PROVE job'.step # job.step
    BY <2>5, Types DEF Publish, GiveUp, Goto, NoJob
  <2>6. ASSUME Admit PROVE job'.step # job.step
    BY <2>6, Types DEF Admit, GiveUp, Goto, NoJob
  <2>7. ASSUME Complete PROVE job'.step # job.step
    BY <2>7, Types DEF Complete, Goto, NoJob
  <2>8. ASSUME Cleanup PROVE job'.step # job.step
    BY <2>8, Types DEF Cleanup, Goto, NoJob
  <2>9. ASSUME Discard PROVE job'.step # job.step
    BY <2>9, Types DEF Discard, Goto, NoJob
  <2>10. ASSUME Fence PROVE job'.step # job.step
    BY <2>10, Types DEF Fence, Goto, NoJob
  <2> QED BY <1>1, <2>1, <2>2, <2>3, <2>4, <2>5, <2>6, <2>7, <2>8, <2>9, <2>10 DEF JobStep
<1>2. ASSUME UNCHANGED job PROVE JobMoves
  BY <1>1, <1>2 DEF JobMoves
<1>3. ASSUME JobStep PROVE JobMoves
  <2>1. ASSUME Provision PROVE JobMoves
    BY <1>3, <2>1, Types DEF Provision, Goto, JobMoves, JobGoes
  <2>2. ASSUME Create PROVE JobMoves
    BY <1>3, <2>2, Types DEF Create, Goto, JobMoves, JobGoes
  <2>3. ASSUME Row PROVE JobMoves
    BY <1>3, <2>3, Types DEF Row, Goto, JobMoves, JobGoes
  <2>4. ASSUME Start PROVE JobMoves
    BY <1>3, <2>4, Types DEF Start, Goto, JobMoves, JobGoes
  <2>5. ASSUME Publish PROVE JobMoves
    BY <1>3, <2>5, Types DEF Publish, GiveUp, Goto, JobMoves, JobGoes
  <2>6. ASSUME Admit PROVE JobMoves
    BY <1>3, <2>6, Types DEF Admit, GiveUp, Goto, JobMoves, JobGoes
  <2>7. ASSUME Complete PROVE JobMoves
    BY <1>3, <2>7, Types DEF Complete, Goto, JobMoves, JobGoes
  <2>8. ASSUME Cleanup PROVE JobMoves
    BY <1>3, <2>8, Types DEF Cleanup, Goto, JobMoves, JobGoes
  <2>9. ASSUME Discard PROVE JobMoves
    BY <2>9 DEF Discard, JobMoves
  <2>10. ASSUME Fence PROVE JobMoves
    BY <1>3, <2>10, Types DEF Fence, Goto, JobMoves, JobGoes
  <2> QED BY <1>3, <2>1, <2>2, <2>3, <2>4, <2>5, <2>6, <2>7, <2>8, <2>9, <2>10 DEF JobStep
<1>4. ASSUME NEW u \in Takeovers, Saga(u) PROVE JobMoves
  <2>1. ASSUME ClaimFails(u) PROVE UNCHANGED job
    BY <2>1 DEF ClaimFails
  <2>2. ASSUME Retire(u) PROVE JobMoves
    BY <2>2 DEF Retire, JobMoves, JobGoes, NoJob
  <2>3. ASSUME Dispatch(u) PROVE JobMoves
    BY <2>3 DEF Dispatch, LaunchClaimed, JobMoves, JobGoes, NoJob
  <2>4. ASSUME Recover(u) PROVE JobMoves
    <3>1. job' = job \/ (/\ life[u] \in {"starting", "running"}
                         /\ \/ job' = [NoJob EXCEPT !.step = "admit", !.t = u, !.again = TRUE]
                            \/ /\ life[u] = "starting"
                               /\ \E s \in {"start", "publish"} : job' = [NoJob EXCEPT !.step = s, !.t = u, !.again = TRUE])
      BY <2>4 DEF Recover
    <3> QED BY <1>2, <2>4, <3>1 DEF JobMoves, JobGoes, NoJob
  <2> QED BY <1>2, <1>4, <2>1, <2>2, <2>3, <2>4 DEF Saga
<1>5. ASSUME Launch PROVE JobMoves
  BY <1>5 DEF Launch, JobMoves, JobGoes, NoJob
<1>6. ASSUME Crash PROVE JobMoves
  BY <1>6 DEF Crash, JobMoves
<1>7. ASSUME Reaper \/ ReconcileProvisioning PROVE UNCHANGED job
  BY <1>7 DEF Reaper, Reap, ReapObserve, ReapWrite, ReconcileProvisioning
<1>8. ASSUME NEW u \in Takeovers, NEW o \in Terminals, Request(u, o) PROVE UNCHANGED job
  BY <1>8 DEF Request
<1>9. ASSUME NEW u \in Terminals, \/ Abandon(u) \/ ProviderEnds(u) \/ PaneGoes(u) \/ Acquire(u)
                                \/ Paste(u) \/ TransportExpires(u) \/ WorkSettles(u)
      PROVE  UNCHANGED job
  BY <1>9 DEF Abandon, ProviderEnds, PaneGoes, Acquire, Paste, TransportExpires, WorkSettles
<1>10. ASSUME NEW e \in Exiters, (\E u \in ExitTargets : ExitBegin(e, u)) \/ ExitClaim(e) \/ ExitSend(e)
       PROVE  UNCHANGED job
  BY <1>10 DEF ExitBegin, ExitClaim, ExitSend
<1>11. ASSUME UNCHANGED vars PROVE UNCHANGED job
  BY <1>11 DEF vars
<1> QED BY <1>2, <1>3, <1>4, <1>5, <1>6, <1>7, <1>8, <1>9, <1>10, <1>11 DEF Next

(* What a step of the holder of the lock is called.                         *)
LEMMA JobNames ==
  /\ Provision => job.step = "provision"
  /\ Create => job.step = "create"
  /\ Row => job.step = "row"
  /\ Start => job.step = "start"
  /\ Publish => job.step = "publish"
  /\ Admit => job.step = "admit"
  /\ Complete => job.step = "complete"
  /\ Cleanup => job.step = "cleanup"
  /\ Discard => job.step = "discard"
  /\ Fence => job.step = "fence"
  BY DEF Provision, Create, Row, Start, Publish, Admit, Complete, Cleanup, Discard, Fence

Base == TypeOK /\ Stages /\ WrittenOnce /\ LeaseFollows /\ Replaced /\ JobFits /\ ReapFits

(* A row that was written is not written again.                             *)
LEMMA WrittenKept ==
  ASSUME Base, [Next]_vars, NEW t \in Terminals, Written(t)
  PROVE  Written(t)' /\ (life[t] = "none" => life'[t] = "none")
<1>1. LifeMoves(t) /\ ContextMoves
  BY LifeStep, ContextStep DEF Base
<1>2. t \in Nat /\ ctx.term \in Nat /\ job.t \in Nat
  BY Types, Numbers DEF Base
<1>3. CASE Row /\ RowValid(job.t)
  <2>1. /\ ~Written(job.t) /\ ctx.term <= job.t /\ ctx' = [st |-> "launching", term |-> job.t]
        /\ \A u \in Terminals : life'[u] = IF u = job.t THEN "starting" ELSE life[u]
    BY <1>3, RowIsFirst DEF Base
  <2>2. t # job.t
    BY <2>1
  <2>3. t < job.t
    BY <1>2, <2>1, <2>2 DEF Written
  <2> QED BY <2>1, <2>2, <2>3 DEF Written
<1>4. CASE ~(Row /\ RowValid(job.t))
  <2>1. ctx'.term = ctx.term /\ (ctx.st \notin Unwritten => ctx'.st \notin Unwritten)
    BY <1>1, <1>4 DEF ContextMoves
  <2>2. Written(t)'
    BY <2>1 DEF Written, Unwritten
  <2>3. life[t] = "none" => life'[t] = "none"
    BY <1>1, <1>4 DEF LifeMoves, Live
  <2> QED BY <2>2, <2>3
<1> QED BY <1>3, <1>4

(* The launch that writes a row says so in its takeover.                    *)
LEMMA RowAdmits ==
  ASSUME Base, Row, RowValid(job.t), job.t \in Takeovers
  PROVE  tk'[job.t].st = "admitted"
<1>1. tk' = [tk EXCEPT ![job.t].st = "admitted"]
  BY Numbers DEF Row, RowWritten
<1> QED BY <1>1, Types DEF Base

(* Every step keeps WrittenOnce: a row appears only with the context.      *)
LEMMA WrittenStep ==
  ASSUME Base, [Next]_vars
  PROVE  WrittenOnce'
<1>0. ContextMoves /\ (StatusOnly \/ Fence \/ \E t \in Takeovers, o \in Terminals : Request(t, o))
  BY ContextStep, TkStep DEF Base
<1>1. ASSUME NEW t \in Terminals, life[t] = "none", life'[t] # "none"
      PROVE  /\ Row /\ RowValid(job.t) /\ t = job.t
  <2>1. LifeMoves(t)
    BY LifeStep DEF Base
  <2> QED BY <1>1, <2>1 DEF LifeMoves, Live
<1>2. ASSUME Row, RowValid(job.t)
      PROVE  /\ ctx' = [st |-> "launching", term |-> job.t]
             /\ \A u \in Terminals : life'[u] = IF u = job.t THEN "starting" ELSE life[u]
             /\ \A u \in Terminals : ~Live(u)
  BY <1>2, RowIsFirst DEF Base
<1>3. ctx'.st \in Early => ctx'.term = 0 /\ life'[0] = "none"
  <2> SUFFICES ASSUME ctx'.st \in Early PROVE ctx'.term = 0 /\ life'[0] = "none"
    OBVIOUS
  <2>1. ~(Row /\ RowValid(job.t))
    BY <1>2 DEF Early
  <2>2. ctx'.term = ctx.term
    BY <1>0, <2>1 DEF ContextMoves
  <2>3. CASE ctx.st \in Early
    BY <1>1, <2>1, <2>2, <2>3, Numbers DEF Base, WrittenOnce
  <2>4. CASE Discard /\ life'[0] = "none"
    <3>1. job.step = "discard"
      BY <2>4, JobNames
    <3>2. job.t = 0 /\ ctx.term = 0
      BY <3>1 DEF Base, JobFits, Idle
    <3> QED BY <2>2, <2>4, <3>2
  <2> QED BY <1>0, <2>1, <2>3, <2>4 DEF ContextMoves
<1>4. ASSUME NEW t \in Terminals, life'[t] # "none" PROVE Written(t)'
  <2>1. CASE life[t] # "none"
    BY <2>1, WrittenKept DEF Base, WrittenOnce
  <2>2. CASE life[t] = "none"
    <3>1. ctx' = [st |-> "launching", term |-> t]
      BY <1>1, <1>2, <1>4, <2>2
    <3> QED BY <3>1 DEF Written
  <2> QED BY <2>1, <2>2
<1>5. ASSUME NEW t \in Terminals, Live(t)' PROVE t = ctx'.term
  <2>1. CASE Row /\ RowValid(job.t)
    BY <1>2, <1>5, <2>1 DEF Live, Ended
  <2>2. CASE ~(Row /\ RowValid(job.t))
    <3>1. LifeMoves(t)
      BY LifeStep DEF Base
    <3>2. Live(t)
      BY <1>5, <2>2, <3>1 DEF LifeMoves, Live, Ended
    <3>3. ctx'.term = ctx.term
      BY <1>0, <2>2 DEF ContextMoves
    <3> QED BY <3>2, <3>3 DEF Base, WrittenOnce
  <2> QED BY <2>1, <2>2
<1>6. ASSUME NEW t \in Takeovers, tk'[t].st \in {"none", "claimed", "fenced", "dispatching"}
      PROVE  life'[t] = "none"
  <2>1. t \in Terminals
    BY Numbers
  <2>2. ASSUME life[t] = "none" PROVE life'[t] = "none"
    BY <1>1, <1>6, <2>1, <2>2, RowAdmits
  <2>3. CASE StatusOnly
    <3>1. StatusMoves(t)
      BY <2>3 DEF StatusOnly
    <3> QED BY <1>6, <2>2, <3>1 DEF StatusMoves, Base, WrittenOnce
  <2>4. ASSUME NEW u \in Takeovers, NEW o \in Terminals, Request(u, o) PROVE life[t] = "none"
    <3>1. tk[u].st = "none" /\ tk' = [tk EXCEPT ![u].st = "claimed", ![u].old = o]
      BY <2>4 DEF Request, ClaimWritten
    <3>2. u # t => tk'[t] = tk[t]
      BY <3>1, Types DEF Base
    <3> QED BY <1>6, <3>1, <3>2 DEF Base, WrittenOnce
  <2>5. CASE Fence
    <3>1. job.t \in Takeovers /\ tk[job.t].st = "claimed"
      <4>1. job.step = "fence"
        BY <2>5, JobNames
      <4> QED BY <4>1, Types, Numbers DEF Base, JobFits
    <3>2. \/ tk' = [tk EXCEPT ![job.t].st = "fenced", ![job.t].fenced = TRUE]
          \/ tk' = [tk EXCEPT ![job.t].st = "failed"]
      BY <2>5 DEF Fence
    <3>3. job.t # t => tk'[t] = tk[t]
      BY <3>2, Types DEF Base
    <3> QED BY <1>6, <2>2, <3>1, <3>3 DEF Base, WrittenOnce
  <2> QED BY <1>0, <2>2, <2>3, <2>4, <2>5
<1> QED BY <1>3, <1>4, <1>5, <1>6 DEF WrittenOnce

(* Every step keeps LeaseFollows: what releases a lease has ended the row  *)
(* or its pane.                                                            *)
LEMMA LeaseKept ==
  ASSUME Base, [Next]_vars
  PROVE  LeaseFollows'
<1>0. ContextMoves /\ LeaseMoves
  BY ContextStep, LeaseStep DEF Base
<1>1. ASSUME NEW t \in Terminals PROVE LifeMoves(t) /\ PaneMoves(t)
  BY LifeStep, PaneStep DEF Base
<1>2. ASSUME Row, RowValid(job.t)
      PROVE  /\ ctx'.term = job.t /\ lease' = job.t /\ lease \in {job.t, Nobody}
             /\ \A u \in Terminals : life'[u] = IF u = job.t THEN "starting" ELSE life[u]
             /\ \A u \in Terminals : ~Live(u)
  BY <1>2, RowIsFirst DEF Base
<1>3. job.t \in Terminals /\ ctx.term \in Terminals /\ Nobody \notin Terminals /\ 0 \in Terminals
  BY Types, Numbers DEF Base
<1>4. ASSUME Fence PROVE /\ life[job.t] = "none" /\ life'[job.t] = "none"
                         /\ pane[tk[job.t].old] = "none"
  <2>1. job.step = "fence"
    BY <1>4, JobNames
  <2>2. life[job.t] = "none" /\ pane[tk[job.t].old] = "none"
    BY <2>1 DEF Base, JobFits
  <2>3. LifeMoves(job.t) /\ ~Row
    BY <1>1, <1>3, <2>1, JobNames
  <2> QED BY <2>2, <2>3 DEF LifeMoves, Live
<1>5. ASSUME NEW c, c = ctx'.term, Live(c)' PROVE lease' \in {c, Nobody}
  <2>1. CASE Row /\ RowValid(job.t)
    BY <1>2, <1>5, <2>1
  <2>2. CASE ~(Row /\ RowValid(job.t))
    <3>1. c = ctx.term
      BY <1>0, <1>5, <2>2 DEF ContextMoves
    <3>2. LifeMoves(c)
      BY <1>1, <1>3, <3>1
    <3>3. Live(c)
      BY <1>5, <2>2, <3>2 DEF LifeMoves, Live, Ended
    <3>4. lease \in {c, Nobody}
      BY <3>1, <3>3 DEF Base, LeaseFollows
    <3>5. ASSUME Fence, Live(tk[job.t].old), life'[tk[job.t].old] = "recovery_fenced" PROVE FALSE
      <4>1. job.t \in Takeovers
        <5>1. job.step = "fence"
          BY <3>5, JobNames
        <5> QED BY <5>1, <1>3, Numbers DEF Base, JobFits
      <4>2. tk[job.t].old \in Terminals
        BY <4>1, Types DEF Base
      <4>3. tk[job.t].old = c
        BY <3>1, <3>5, <4>2 DEF Base, WrittenOnce
      <4> QED BY <1>5, <3>5, <4>3 DEF Live, Ended
    <3> QED BY <1>0, <2>2, <3>4, <3>5 DEF LeaseMoves
  <2> QED BY <2>1, <2>2
<1>6. ASSUME NEW t \in Terminals, life'[t] = "exited" PROVE lease' # t
  <2>1. CASE life[t] = "exited"
    <3>1. lease # t
      BY <2>1 DEF Base, LeaseFollows
    <3> QED BY <1>0, <1>2, <1>3, <1>4, <1>6, <2>1, <3>1 DEF LeaseMoves
  <2>2. CASE life[t] # "exited"
    <3>1. LifeMoves(t)
      BY <1>1
    <3> QED BY <1>2, <1>6, <2>2, <3>1 DEF LifeMoves
  <2> QED BY <2>1, <2>2
<1>7. ASSUME NEW t \in Terminals, pane'[t] \in {"provider", "orphan"} PROVE life'[t] # "none"
  <2>1. LifeMoves(t) /\ PaneMoves(t)
    BY <1>1
  <2>2. CASE pane[t] \in {"provider", "orphan"}
    <3>1. life[t] # "none"
      BY <2>2 DEF Base, LeaseFollows
    <3>2. life[t] # "exited"
      BY <2>2, <3>1 DEF Base, LeaseFollows
    <3> QED BY <1>2, <1>7, <2>1, <3>1, <3>2 DEF LifeMoves
  <2>3. CASE pane[t] \notin {"provider", "orphan"}
    <3>1. Start /\ t = job.t
      BY <1>7, <2>1, <2>3 DEF PaneMoves
    <3>2. job.step = "start"
      BY <3>1, JobNames
    <3>3. life[t] # "none" /\ ~Cleanup /\ ~Discard
      BY <3>1, <3>2, JobNames DEF Base, JobFits
    <3> QED BY <1>2, <2>1, <3>3 DEF LifeMoves
  <2> QED BY <2>2, <2>3
<1>8. ASSUME NEW t \in Terminals, life'[t] # "none", pane'[t] # "none" PROVE lease' = t
  <2>1. LifeMoves(t) /\ PaneMoves(t)
    BY <1>1
  <2>2. CASE life[t] = "none"
    BY <1>2, <1>8, <2>1, <2>2 DEF LifeMoves, Live
  <2>3. CASE life[t] # "none" /\ pane[t] = "none"
    <3>1. Create /\ t = job.t
      BY <1>8, <2>1, <2>3 DEF PaneMoves
    <3>2. job.step = "create"
      BY <3>1, JobNames
    <3> QED BY <2>3, <3>1, <3>2 DEF Base, JobFits
  <2>4. CASE life[t] # "none" /\ pane[t] # "none"
    <3>1. lease = t
      BY <2>4 DEF Base, LeaseFollows
    <3>2. life[t] # "exited"
      BY <3>1 DEF Base, LeaseFollows
    <3>3. CASE Row /\ RowValid(job.t)
      BY <1>2, <1>3, <3>1, <3>3
    <3>4. ~(Fence /\ LeaseFits(tk[job.t].old))
      <4> SUFFICES ASSUME Fence, LeaseFits(tk[job.t].old) PROVE FALSE
        OBVIOUS
      <4>1. pane[tk[job.t].old] = "none"
        BY <1>4
      <4>2. lease \in {Nobody, tk[job.t].old}
        BY DEF LeaseFits
      <4> QED BY <1>3, <2>4, <3>1, <4>1, <4>2
    <3>5. ~(ReapWrite /\ lease = reap.t)
      <4> SUFFICES ASSUME ReapWrite, lease = reap.t PROVE FALSE
        OBVIOUS
      <4>1. reap.step = "dead"
        BY DEF ReapWrite
      <4> QED BY <2>4, <3>1, <4>1 DEF Base, ReapFits
    <3> QED BY <1>0, <1>8, <2>4, <3>1, <3>2, <3>3, <3>4, <3>5 DEF LeaseMoves
  <2> QED BY <2>2, <2>3, <2>4
<1>9. (Live(ctx.term) => lease \in {ctx.term, Nobody})'
  BY <1>5 DEF Live
<1> QED BY <1>6, <1>7, <1>8, <1>9 DEF LeaseFollows

(* Only a running runtime begins work.                                      *)
LEMMA BusyStep ==
  ASSUME TypeOK, [Next]_vars, NEW t \in busy'
  PROVE  t \in busy \/ life[t] = "running"
<1>1. ASSUME UNCHANGED busy PROVE t \in busy
  BY <1>1
<1>2. ASSUME JobStep PROVE UNCHANGED busy
  BY <1>2 DEF JobStep, Provision, Create, Row, Start, Publish, Admit, Complete, Cleanup, Discard, Fence
<1>3. ASSUME NEW u \in Takeovers, Saga(u) PROVE UNCHANGED busy
  BY <1>3 DEF Saga, ClaimFails, Retire, Dispatch, Recover
<1>4. ASSUME Launch \/ ReconcileProvisioning \/ Crash PROVE UNCHANGED busy
  BY <1>4 DEF Launch, ReconcileProvisioning, Crash
<1>5. ASSUME Reaper PROVE t \in busy
  BY <1>5 DEF Reaper, Reap, ReapObserve, ReapWrite
<1>6. ASSUME NEW u \in Takeovers, NEW o \in Terminals, Request(u, o) PROVE UNCHANGED busy
  BY <1>6 DEF Request
<1>7. ASSUME NEW u \in Terminals, Paste(u) \/ WorkSettles(u) PROVE t \in busy \/ life[t] = "running"
  BY <1>7 DEF Paste, WorkSettles
<1>8. ASSUME NEW u \in Terminals, \/ Abandon(u) \/ Acquire(u) \/ ProviderEnds(u) \/ PaneGoes(u)
                                \/ TransportExpires(u)
      PROVE  UNCHANGED busy
  BY <1>8 DEF Abandon, Acquire, ProviderEnds, PaneGoes, TransportExpires
<1>9. ASSUME NEW e \in Exiters, ExitSend(e) PROVE t \in busy
  BY <1>9 DEF ExitSend
<1>10. ASSUME NEW e \in Exiters, (\E u \in ExitTargets : ExitBegin(e, u)) \/ ExitClaim(e)
       PROVE  UNCHANGED busy
  BY <1>10 DEF ExitBegin, ExitClaim
<1>11. ASSUME UNCHANGED vars PROVE UNCHANGED busy
  BY <1>11 DEF vars
<1> QED BY <1>1, <1>2, <1>3, <1>4, <1>5, <1>6, <1>7, <1>8, <1>9, <1>10, <1>11 DEF Next

(* Every step keeps Replaced: nothing launches, publishes or gives work to *)
(* a fenced row.                                                           *)
LEMMA ReplacedKept ==
  ASSUME Base, [Next]_vars
  PROVE  Replaced'
<1>0. LeaseMoves /\ (StatusOnly \/ Fence \/ \E t \in Takeovers, o \in Terminals : Request(t, o))
  BY LeaseStep, TkStep DEF Base
<1>1. job.t \in Terminals /\ Nobody \notin Terminals
  BY Types, Numbers DEF Base
<1>2. ASSUME Row, RowValid(job.t) PROVE life[job.t] = "none" /\ lease' = job.t
  BY <1>2, RowIsFirst DEF Base
<1>3. ASSUME Fence PROVE job.t \in Takeovers /\ tk[job.t].st = "claimed" /\ life[job.t] = "none"
  <2>1. job.step = "fence"
    BY <1>3, JobNames
  <2> QED BY <1>1, <2>1, Numbers DEF Base, JobFits
<1>4. ASSUME NEW o \in Terminals, life[o] = "recovery_fenced", o \notin busy, lease # o
      PROVE  life'[o] = "recovery_fenced" /\ o \notin busy' /\ lease' # o
  <2>1. life'[o] = "recovery_fenced"
    <3>1. LifeMoves(o)
      BY LifeStep DEF Base
    <3>2. ~(Cleanup /\ o = job.t)
      <4> SUFFICES ASSUME Cleanup, o = job.t PROVE FALSE
        OBVIOUS
      <4>1. job.step = "cleanup"
        BY JobNames
      <4> QED BY <1>4, <4>1 DEF Base, JobFits, Idle
    <3> QED BY <1>2, <1>4, <3>1, <3>2 DEF LifeMoves, Live, Ended
  <2>2. o \notin busy'
    BY <1>4, BusyStep DEF Base
  <2>3. lease' # o
    BY <1>0, <1>1, <1>2, <1>3, <1>4 DEF LeaseMoves
  <2> QED BY <2>1, <2>2, <2>3
<1>5. ASSUME NEW t \in Takeovers, tk[t].fenced, tk'[t].old = tk[t].old
      PROVE  life'[tk'[t].old] = "recovery_fenced" /\ tk'[t].old \notin busy' /\ lease' # tk'[t].old
  BY <1>4, <1>5, Types DEF Base, Replaced
<1>6. CASE StatusOnly
  BY <1>5, <1>6 DEF StatusOnly, Replaced
<1>7. ASSUME NEW u \in Takeovers, NEW o \in Terminals, Request(u, o) PROVE Replaced'
  <2>1. tk[u].st = "none" /\ tk' = [tk EXCEPT ![u].st = "claimed", ![u].old = o]
    BY <1>7 DEF Request, ClaimWritten
  <2>2. ~tk[u].fenced
    BY <2>1 DEF Base, Stages
  <2>3. \A t \in Takeovers : tk'[t].fenced = tk[t].fenced /\ (t # u => tk'[t].old = tk[t].old)
    BY <2>1, Types DEF Base
  <2> QED BY <1>5, <2>2, <2>3 DEF Replaced
<1>8. CASE Fence
  <2> DEFINE t == job.t  o == tk[job.t].old
  <2>1. t \in Takeovers /\ o \in Terminals /\ o < t /\ ~tk[t].fenced /\ tk[t].st = "claimed"
    BY <1>3, <1>8, Types DEF Base, Stages
  <2>2. CASE Replaceable(o) /\ op[o] = "takeover"
    <3>1. /\ life' = [life EXCEPT ![o] = "recovery_fenced"] /\ lease' = t /\ busy' = busy
          /\ tk' = [tk EXCEPT ![t].st = "fenced", ![t].fenced = TRUE] /\ o \notin busy
      BY <1>8, <2>2 DEF Fence, Replaceable, Settled
    <3>2. life'[o] = "recovery_fenced"
      BY <2>1, <3>1, Types DEF Base
    <3>3. /\ tk'[t].old = o
          /\ \A u \in Takeovers \ {t} : tk'[u] = tk[u]
      BY <2>1, <3>1, Types DEF Base
    <3>4. lease' # o
      BY <1>1, <2>1, <3>1, Numbers
    <3> HIDE DEF t, o
    <3>5. ASSUME NEW u \in Takeovers, tk'[u].fenced
          PROVE  life'[tk'[u].old] = "recovery_fenced" /\ tk'[u].old \notin busy' /\ lease' # tk'[u].old
      <4>1. CASE u = t
        BY <3>1, <3>2, <3>3, <3>4, <4>1
      <4>2. CASE u # t
        BY <1>5, <3>3, <3>5, <4>2
      <4> QED BY <4>1, <4>2
    <3> QED BY <3>5 DEF Replaced
  <2>3. CASE ~(Replaceable(o) /\ op[o] = "takeover")
    <3>1. tk' = [tk EXCEPT ![t].st = "failed"]
      BY <1>8, <2>3 DEF Fence
    <3>2. \A u \in Takeovers : tk'[u].fenced = tk[u].fenced /\ tk'[u].old = tk[u].old
      BY <3>1, Types DEF Base
    <3> QED BY <1>5, <3>2 DEF Replaced
  <2> QED BY <2>2, <2>3
<1> QED BY <1>0, <1>6, <1>7, <1>8

(* Every step keeps JobFits: nobody but the holder of the lock writes the  *)
(* row it works on, or makes it dead.                                      *)
LEMMA JobKept ==
  ASSUME Base, [Next]_vars
  PROVE  JobFits'
<1>0. /\ JobMoves /\ ContextMoves
      /\ StatusOnly \/ Fence \/ \E t \in Takeovers, o \in Terminals : Request(t, o)
  BY JobPath, ContextStep, TkStep DEF Base
<1>1. /\ job.t \in Terminals /\ Nobody \notin Terminals /\ 0 \in Terminals /\ 0 \notin Takeovers
      /\ Takeovers \subseteq Terminals /\ \A t \in Terminals : t # 0 => t \in Takeovers
  BY Types, Numbers DEF Base
<1>2. ASSUME NEW t \in Terminals PROVE LifeMoves(t) /\ PaneMoves(t)
  BY LifeStep, PaneStep DEF Base
<1>3. ASSUME NEW t \in Terminals, life[t] = "none", ~Row PROVE life'[t] = "none"
  BY <1>2, <1>3 DEF LifeMoves, Live
<1>4. ASSUME NEW t \in Terminals, life[t] # "none", ~Cleanup, ~Discard PROVE life'[t] # "none"
  <2>1. CASE Row /\ RowValid(job.t)
    BY <1>4, <2>1, RowIsFirst DEF Base
  <2>2. CASE ~(Row /\ RowValid(job.t))
    BY <1>2, <1>4, <2>2 DEF LifeMoves
  <2> QED BY <2>1, <2>2
<1>5. ASSUME ~Idle PROVE life'[job.t] # "recovery_fenced"
  <2>1. life[job.t] # "recovery_fenced"
    BY <1>5 DEF Base, JobFits
  <2>2. Fence => life[job.t] = "none" /\ ~Row
    BY JobNames DEF Base, JobFits
  <2>3. CASE Row /\ RowValid(job.t)
    BY <1>1, <2>3, RowIsFirst DEF Base
  <2>4. CASE ~(Row /\ RowValid(job.t))
    BY <1>1, <1>2, <2>1, <2>2, <2>4 DEF LifeMoves
  <2> QED BY <2>3, <2>4
<1>6. ASSUME ~Idle, job.t = 0 PROVE ctx'.term = 0
  <2>1. CASE Row /\ RowValid(job.t)
    BY <1>6, <2>1, RowIsFirst DEF Base
  <2>2. CASE ~(Row /\ RowValid(job.t))
    BY <1>0, <1>6, <2>2 DEF ContextMoves, Base, JobFits
  <2> QED BY <2>1, <2>2
<1>7. CASE job' = job /\ ~JobStep
  <2> DEFINE t == job.t  o == tk[job.t].old
  <2>1. ~Row /\ ~Cleanup /\ ~Discard /\ ~Create /\ ~Fence
    BY <1>7 DEF JobStep
  <2>2. /\ job.step \in {"provision", "create", "row", "fence", "dispatch"} => life'[t] = "none"
        /\ job.step \in {"start", "publish", "admit", "complete"} => life'[t] # "none"
    BY <1>1, <1>3, <1>4, <2>1 DEF Base, JobFits
  <2>3. job.step = "fence" => tk'[t].st = "claimed" /\ tk'[t].old = o /\ pane'[o] = "none"
    <3> SUFFICES ASSUME job.step = "fence" PROVE tk'[t].st = "claimed" /\ tk'[t].old = o /\ pane'[o] = "none"
      OBVIOUS
    <3>1. ~Idle /\ t \in Takeovers /\ tk[t].st = "claimed" /\ pane[o] = "none"
      BY <1>1 DEF Base, JobFits, Idle
    <3>2. StatusOnly
      BY <1>0, <2>1, <3>1 DEF Request
    <3>3. StatusMoves(t) /\ tk'[t].old = o
      BY <3>1, <3>2 DEF StatusOnly
    <3>4. o \in Terminals
      BY <3>1, Types DEF Base
    <3>5. PaneMoves(o)
      BY <1>2, <3>4
    <3> QED BY <2>1, <3>1, <3>3, <3>5 DEF StatusMoves, PaneMoves
  <2> QED BY <1>5, <1>6, <1>7, <2>2, <2>3 DEF JobFits, Base, Idle
<1>8. CASE job' = NoJob
  BY <1>8 DEF NoJob, JobFits, Idle
<1>9. CASE JobGoes
  <2>1. ASSUME Launch, job'.t = 0, job'.step = "provision" PROVE JobFits'
    <3>1. ctx.term = 0 /\ life[0] = "none" /\ life' = life /\ ctx'.term = ctx.term
      BY <2>1 DEF Launch, Launchable, Reserved, Early, Base, WrittenOnce
    <3> QED BY <2>1, <3>1 DEF JobFits, Idle
  <2>2. ASSUME NEW t \in Takeovers, Retire(t), job'.t = t, job'.step = "fence" PROVE JobFits'
    <3>1. /\ tk[t].st = "claimed" /\ life' = life /\ tk' = tk /\ Absent(tk[t].old)
          /\ pane' = [pane EXCEPT ![tk[t].old] = IF @ = "orphan" THEN @ ELSE "none"]
      BY <2>2 DEF Retire
    <3>2. tk[t].old \in Terminals
      BY Types DEF Base
    <3>3. pane'[tk[t].old] = "none"
      BY <3>1, <3>2, Types DEF Absent, Base
    <3>4. life[t] = "none"
      BY <3>1 DEF Base, WrittenOnce
    <3> QED BY <1>1, <2>2, <3>1, <3>3, <3>4 DEF JobFits, Idle
  <2>3. ASSUME NEW t \in Takeovers, Dispatch(t), job'.t = t, job'.step = "create" PROVE JobFits'
    <3>1. tk[t].st = "fenced" /\ life' = life
      BY <2>3 DEF Dispatch
    <3>2. life[t] = "none"
      BY <3>1 DEF Base, WrittenOnce
    <3> QED BY <1>1, <2>3, <3>1, <3>2 DEF JobFits, Idle
  <2>4. ASSUME NEW t \in Takeovers, Recover(t), job'.t = t, life[t] \in {"starting", "running"},
               job'.step \in {"start", "publish", "admit"}
        PROVE  JobFits'
    <3>1. life' = life
      BY <2>4 DEF Recover
    <3> QED BY <1>1, <2>4, <3>1 DEF JobFits, Idle
  <2>5. ASSUME JobStep, job'.t = job.t PROVE ~Idle
    BY <2>5, JobNames DEF JobStep, Idle
  <2>6. ASSUME JobStep, job'.t = job.t, job'.step \in {"create", "row"}, ~Row,
               job.step \in {"provision", "create"}
        PROVE  JobFits'
    <3>1. life'[job.t] = "none"
      BY <1>1, <1>3, <2>6 DEF Base, JobFits
    <3> QED BY <1>5, <1>6, <2>5, <2>6, <3>1 DEF JobFits, Idle
  <2>7. ASSUME JobStep, job'.t = job.t, job'.step = "cleanup" PROVE JobFits'
    BY <1>5, <1>6, <2>5, <2>7 DEF JobFits, Idle
  <2>8. ASSUME JobStep, job'.t = job.t, job'.step \in {"start", "publish", "admit", "complete"},
               life'[job.t] # "none"
        PROVE  JobFits'
    BY <1>5, <1>6, <2>5, <2>8 DEF JobFits, Idle
  <2>9. ASSUME JobStep, job'.t = job.t, Cleanup, job.t = 0, job'.step = "discard" PROVE JobFits'
    BY <1>5, <1>6, <2>5, <2>9 DEF JobFits, Idle
  <2>10. ASSUME JobStep, job'.t = job.t, Fence, job'.step = "dispatch" PROVE JobFits'
    <3>1. job.step = "fence" /\ ~Row
      BY <2>10, JobNames
    <3>2. life[job.t] = "none" /\ job.t # 0
      BY <3>1 DEF Base, JobFits
    <3>3. life'[job.t] = "none"
      BY <1>1, <1>3, <3>1, <3>2
    <3> QED BY <1>5, <1>6, <2>5, <2>10, <3>2, <3>3 DEF JobFits, Idle
  <2>11. ASSUME Row, RowValid(job.t) PROVE life'[job.t] # "none"
    BY <1>1, <2>11, RowIsFirst DEF Base
  <2>12. ASSUME Start \/ Admit PROVE life'[job.t] # "none"
    <3>1. job.step \in {"start", "admit"}
      BY <2>12, JobNames
    <3>2. ~Cleanup /\ ~Discard
      BY <3>1, JobNames
    <3> QED BY <1>1, <1>4, <3>1, <3>2 DEF Base, JobFits
  <2>13. (Provision \/ Create => ~Row) /\ (Provision => job.step = "provision") /\ (Create => job.step = "create")
    BY JobNames
  <2> QED BY <1>9, <2>1, <2>2, <2>3, <2>4, <2>6, <2>7, <2>8, <2>9, <2>10, <2>11, <2>12, <2>13 DEF JobGoes
<1> QED BY <1>0, <1>7, <1>8, <1>9 DEF JobMoves

(* The steps of the reconciler of dead runtimes.                            *)
ReapMoves ==
  \/ reap' = reap
  \/ reap'.step = "idle"
  \/ reap'.step = "seen" /\ reap'.t \in Terminals /\ life[reap'.t] \in {"starting", "running", "exit_pending"}
     /\ reap'.life = life[reap'.t]
  \/ /\ reap.step = "seen" /\ reap' = [reap EXCEPT !.step = "dead"] /\ pane'[reap.t] = "none"

(* Every step is one of those.                                             *)
LEMMA ReapStep ==
  ASSUME TypeOK, [Next]_vars
  PROVE  ReapMoves
<1>1. ASSUME UNCHANGED reap PROVE ReapMoves
  BY <1>1 DEF ReapMoves
<1>2. ASSUME JobStep PROVE UNCHANGED reap
  BY <1>2 DEF JobStep, Provision, Create, Row, Start, Publish, Admit, Complete, Cleanup, Discard, Fence
<1>3. ASSUME NEW u \in Takeovers, Saga(u) PROVE UNCHANGED reap
  BY <1>3 DEF Saga, ClaimFails, Retire, Dispatch, Recover
<1>4. ASSUME Launch \/ ReconcileProvisioning PROVE UNCHANGED reap
  BY <1>4 DEF Launch, ReconcileProvisioning
<1>5. ASSUME Crash \/ ReapWrite PROVE ReapMoves
  BY <1>5 DEF Crash, ReapWrite, NoReap, ReapMoves
<1>6. ASSUME ReapObserve PROVE ReapMoves
  BY <1>6, Types DEF ReapObserve, NoReap, ReapMoves
<1>7. ASSUME NEW u \in Terminals, Reap(u) PROVE ReapMoves
  BY <1>7 DEF Reap, ReapMoves
<1>8. ASSUME NEW u \in Takeovers, NEW o \in Terminals, Request(u, o) PROVE UNCHANGED reap
  BY <1>8 DEF Request
<1>9. ASSUME NEW u \in Terminals, \/ Abandon(u) \/ ProviderEnds(u) \/ PaneGoes(u) \/ Acquire(u)
                                \/ Paste(u) \/ TransportExpires(u) \/ WorkSettles(u)
      PROVE  UNCHANGED reap
  BY <1>9 DEF Abandon, ProviderEnds, PaneGoes, Acquire, Paste, TransportExpires, WorkSettles
<1>10. ASSUME NEW e \in Exiters, (\E u \in ExitTargets : ExitBegin(e, u)) \/ ExitClaim(e) \/ ExitSend(e)
       PROVE  UNCHANGED reap
  BY <1>10 DEF ExitBegin, ExitClaim, ExitSend
<1>11. ASSUME UNCHANGED vars PROVE UNCHANGED reap
  BY <1>11 DEF vars
<1> QED BY <1>1, <1>2, <1>3, <1>4, <1>5, <1>6, <1>7, <1>8, <1>9, <1>10, <1>11 DEF Next, Reaper

(* Every step keeps ReapFits: a row that was read is not written a second  *)
(* time.                                                                   *)
LEMMA ReapKept ==
  ASSUME Base, [Next]_vars
  PROVE  ReapFits'
<1>0. ReapMoves
  BY ReapStep DEF Base
<1>1. ASSUME NEW t \in Terminals, Written(t) PROVE Written(t)' /\ (life[t] = "none" => life'[t] = "none")
  BY <1>1, WrittenKept
<1>2. CASE reap' = reap
  <2> SUFFICES ASSUME NEW r \in Terminals, r = reap.t, reap.step # "idle"
               PROVE  /\ Written(r)'
                      /\ reap.step = "dead" => /\ pane'[r] \in {"none", "shell"}
                                               /\ life'[r] # "none" => pane'[r] = "none"
    BY <1>2, Types DEF ReapFits, Base, Written
  <2>1. Written(r)
    BY DEF Base, ReapFits
  <2>2. ASSUME reap.step = "dead" PROVE /\ pane'[r] \in {"none", "shell"}
                                        /\ life'[r] # "none" => pane'[r] = "none"
    <3>1. pane[r] \in {"none", "shell"} /\ (life[r] # "none" => pane[r] = "none")
      BY <2>2 DEF Base, ReapFits
    <3>2. PaneMoves(r)
      BY PaneStep DEF Base
    <3>3. Start /\ r = job.t => life[r] # "none"
      BY JobNames DEF Base, JobFits
    <3>4. Create /\ r = job.t => life[r] = "none"
      BY JobNames DEF Base, JobFits
    <3>5. life'[r] # "none" => life[r] # "none"
      BY <1>1, <2>1
    <3> QED BY <3>1, <3>2, <3>3, <3>4, <3>5 DEF PaneMoves
  <2> QED BY <1>1, <2>1, <2>2
<1>3. CASE reap'.step = "idle"
  BY <1>3 DEF ReapFits
<1>4. ASSUME reap'.step = "seen", NEW r \in Terminals, r = reap'.t, reap'.life = life[r],
             life[r] \in {"starting", "running", "exit_pending"}
      PROVE  ReapFits'
  <2>1. Written(r)
    BY <1>4 DEF Base, WrittenOnce
  <2>2. Written(r)'
    BY <1>1, <2>1
  <2>3. Written(reap.t)'
    BY <1>4, <2>2 DEF Written
  <2> QED BY <1>4, <2>3 DEF ReapFits
<1>5. CASE reap.step = "seen" /\ reap' = [reap EXCEPT !.step = "dead"] /\ pane'[reap.t] = "none"
  <2>1. Written(reap.t) /\ reap.life \in {"starting", "running", "exit_pending"} /\ reap.t \in Terminals
    BY <1>5, Types DEF Base, ReapFits
  <2>2. PICK r \in Terminals : r = reap.t
    BY <2>1
  <2>3. Written(r)'
    BY <1>1, <2>1, <2>2
  <2>4. reap'.t = r /\ reap'.life = reap.life /\ reap'.step = "dead"
    BY <1>5, <2>2, Types DEF Base
  <2>5. Written(reap.t)'
    BY <2>3, <2>4 DEF Written
  <2> QED BY <1>5, <2>1, <2>2, <2>4, <2>5 DEF ReapFits
<1> QED BY <1>0, <1>2, <1>3, <1>4, <1>5 DEF ReapMoves

(* A runtime that was asked to exit keeps that operation while it lives.    *)
OpMoves(t) == op[t] = "retire" => op'[t] = "retire" \/ life'[t] \in {"none", "exited"}

(* Every step is one of those.                                             *)
LEMMA OpStep ==
  ASSUME TypeOK, WrittenOnce, LeaseFollows, ReapFits, JobFits, [Next]_vars, NEW t \in Terminals
  PROVE  OpMoves(t)
<1> USE DEF OpMoves
<1>1. ASSUME UNCHANGED op PROVE OpMoves(t)
  BY <1>1
<1>2. ASSUME JobStep PROVE OpMoves(t)
  <2>1. ASSUME Provision \/ Create \/ Row \/ Start \/ Publish \/ Admit \/ Complete \/ Discard PROVE UNCHANGED op
    BY <2>1 DEF Provision, Create, Row, Start, Publish, Admit, Complete, Discard
  <2>2. ASSUME Cleanup PROVE OpMoves(t)
    BY <2>2, Types DEF Cleanup, ResetBy
  <2>3. ASSUME Fence PROVE OpMoves(t)
    BY <2>3, Types DEF Fence, Unclaimed
  <2> QED BY <1>1, <1>2, <2>1, <2>2, <2>3 DEF JobStep
<1>3. ASSUME NEW u \in Takeovers, Saga(u) PROVE OpMoves(t)
  <2>1. ASSUME ClaimFails(u) PROVE OpMoves(t)
    BY <2>1, Types DEF ClaimFails, Unclaimed
  <2>2. ASSUME Retire(u) \/ Dispatch(u) PROVE UNCHANGED op
    BY <2>2 DEF Retire, Dispatch
  <2>3. ASSUME Recover(u) PROVE OpMoves(t)
    BY <2>3, Types DEF Recover, ResetBy
  <2> QED BY <1>1, <1>3, <2>1, <2>2, <2>3 DEF Saga
<1>4. ASSUME Launch \/ ReconcileProvisioning \/ Crash PROVE UNCHANGED op
  BY <1>4 DEF Launch, ReconcileProvisioning, Crash
<1>5. ASSUME Reaper PROVE OpMoves(t)
  <2>1. ASSUME ReapWrite PROVE OpMoves(t)
    BY <2>1, Types DEF ReapWrite, Recoverable
  <2>2. ASSUME ReapObserve \/ \E u \in Terminals : Reap(u) PROVE UNCHANGED op
    BY <2>2 DEF ReapObserve, Reap
  <2> QED BY <1>1, <1>5, <2>1, <2>2 DEF Reaper
<1>6. ASSUME NEW u \in Takeovers, NEW o \in Terminals, Request(u, o) PROVE OpMoves(t)
  BY <1>6, Types DEF Request, ClaimWritten, Claimable
<1>7. ASSUME NEW u \in Terminals, Acquire(u) \/ Paste(u) \/ TransportExpires(u) PROVE OpMoves(t)
  BY <1>7, Types DEF Acquire, Paste, TransportExpires
<1>8. ASSUME NEW u \in Terminals, Abandon(u) \/ ProviderEnds(u) \/ PaneGoes(u) \/ WorkSettles(u)
      PROVE  UNCHANGED op
  BY <1>8 DEF Abandon, ProviderEnds, PaneGoes, WorkSettles
<1>9. ASSUME NEW e \in Exiters, ExitClaim(e) PROVE OpMoves(t)
  BY <1>9, Types DEF ExitClaim
<1>10. ASSUME NEW e \in Exiters, (\E u \in ExitTargets : ExitBegin(e, u)) \/ ExitSend(e)
       PROVE  UNCHANGED op
  BY <1>10 DEF ExitBegin, ExitSend
<1>11. ASSUME UNCHANGED vars PROVE UNCHANGED op
  BY <1>11 DEF vars
<1> QED BY <1>1, <1>2, <1>3, <1>4, <1>5, <1>6, <1>7, <1>8, <1>9, <1>10, <1>11 DEF Next

(* A launch is published once: nobody starts one that runs.                 *)
LEMMA PublishedOnce ==
  ASSUME Base, [Next]_vars, NEW t \in Terminals
  PROVE  /\ ~Publishing(t) /\ Publishing(t)' => life[t] \in {"none", "starting"}
         /\ ~Publishing(t) /\ Publishing(t)' => life'[t] = "starting"
         /\ Publishing(t)' /\ life'[t] = "running" => life[t] = "running"
<1>0. JobMoves /\ LifeMoves(t)
  BY JobPath, LifeStep DEF Base
<1>1. ASSUME ~Publishing(t), Publishing(t)' PROVE life[t] \in {"none", "starting"} /\ life'[t] = "starting"
  <2>1. JobGoes /\ job'.step \in {"start", "publish"} /\ job'.t = t
    BY <1>0, <1>1 DEF JobMoves, Publishing, NoJob
  <2>2. CASE Row /\ RowValid(job.t) /\ t = job.t
    BY <2>2, RowIsFirst DEF Base
  <2>3. ASSUME NEW u \in Takeovers, Recover(u), u = t, life[t] = "starting" PROVE life'[t] = "starting"
    BY <2>3 DEF Recover
  <2>4. CASE Start
    <3>1. job.t = t
      BY <2>1, <2>4, Types DEF Start, Goto, NoJob, Base
    <3> QED BY <1>1, <2>4, <3>1, JobNames DEF Publishing
  <2> QED BY <1>1, <2>1, <2>2, <2>3, <2>4 DEF JobGoes
<1>2. ASSUME Publishing(t)', life'[t] = "running", life[t] # "running" PROVE FALSE
  <2>1. ~(Row /\ RowValid(job.t) /\ t = job.t)
    BY <1>2, RowIsFirst DEF Base
  <2>2. Publish /\ t = job.t /\ life'[t] = "running"
    BY <1>0, <1>2, <2>1 DEF LifeMoves
  <2>3. job' = [job EXCEPT !.step = "admit"]
    BY <1>2, <2>2 DEF Publish, Goto
  <2> QED BY <1>2, <2>3, Types DEF Publishing, Base
<1> QED BY <1>1, <1>2

(* What an exit that was claimed has left on the row stays there.           *)
LEMMA EarlyKept ==
  ASSUME Base, [Next]_vars, NEW t \in Terminals, EarlyMark(t)
  PROVE  EarlyMark(t)'
<1>1. Written(t) /\ Written(t)' /\ LifeMoves(t) /\ OpMoves(t) /\ (life[t] = "none" => life'[t] = "none")
  BY WrittenKept, LifeStep, OpStep DEF Base, EarlyMark
<1>2. ~(Row /\ RowValid(job.t) /\ t = job.t)
  BY <1>1, RowIsFirst DEF Base
<1>3. CASE life[t] \in {"none", "exited"}
  <2>1. life'[t] \in {"none", "exited"}
    BY <1>1, <1>2, <1>3 DEF LifeMoves, Live, Ended
  <2> QED BY <1>1, <2>1 DEF EarlyMark
<1>4. CASE life[t] \in {"exit_pending", "running"} /\ op[t] = "retire"
  <2>1. life'[t] \in {"exit_pending", "running", "none", "exited"}
    BY <1>1, <1>2, <1>4 DEF LifeMoves
  <2> QED BY <1>1, <1>4, <2>1 DEF EarlyMark, OpMoves
<1> QED BY <1>3, <1>4 DEF EarlyMark

(* A late one too: a row that is published is not started again, so the    *)
(* publication that undoes a pending exit is behind it.                    *)
LEMMA LateKept ==
  ASSUME Base, [Next]_vars, NEW t \in Terminals, LateMark(t)
  PROVE  LateMark(t)'
<1>1. Written(t) /\ Written(t)' /\ LifeMoves(t) /\ OpMoves(t) /\ (life[t] = "none" => life'[t] = "none")
  BY WrittenKept, LifeStep, OpStep DEF Base, LateMark
<1>2. ~(Row /\ RowValid(job.t) /\ t = job.t)
  BY <1>1, RowIsFirst DEF Base
<1>3. CASE life[t] \in {"none", "exited"}
  <2>1. life'[t] \in {"none", "exited"}
    BY <1>1, <1>2, <1>3 DEF LifeMoves, Live, Ended
  <2> QED BY <1>1, <2>1 DEF LateMark
<1>4. CASE life[t] = "exit_pending" /\ op[t] = "retire" /\ ~Publishing(t)
  <2>1. ~(Publish /\ t = job.t)
    BY <1>4, JobNames DEF Publishing
  <2>2. life'[t] \in {"exit_pending", "none", "exited"}
    BY <1>1, <1>2, <1>4, <2>1 DEF LifeMoves
  <2>3. ~Publishing(t)'
    BY <1>4, PublishedOnce
  <2> QED BY <1>1, <1>4, <2>2, <2>3 DEF LateMark, OpMoves
<1> QED BY <1>3, <1>4 DEF LateMark

(* The steps of exit_terminal.                                              *)
ExitMoves ==
  \/ sent' = sent /\ \A e \in Exiters : exits'[e] = exits[e] \/ exits'[e].step # "send"
  \/ /\ sent' = sent
     /\ \E e \in Exiters :
          /\ exits'[e].step = "send" /\ exits'[e].t = exits[e].t /\ ~Sending(e)
          /\ Exitable(exits[e].t) /\ exits'[e].early = (life[exits[e].t] # "running")
          /\ life'[exits[e].t] = "exit_pending" /\ op'[exits[e].t] = "retire" /\ job' = job
          /\ \A f \in Exiters \ {e} : exits'[f] = exits[f]
  \/ \E e \in Exiters :
       /\ Sending(e) /\ exits'[e].step = "idle"
       /\ \A f \in Exiters \ {e} : exits'[f] = exits[f]
       /\ \A t \in Terminals :
            /\ sent'[t].early = IF t = exits[e].t /\ exits[e].early THEN sent[t].early + 1 ELSE sent[t].early
            /\ sent'[t].late = IF t = exits[e].t /\ ~exits[e].early THEN sent[t].late + 1 ELSE sent[t].late

(* Every step is one of those.                                             *)
LEMMA ExitStep ==
  ASSUME TypeOK, [Next]_vars
  PROVE  ExitMoves
<1>1. ASSUME UNCHANGED <<exits, sent>> PROVE ExitMoves
  BY <1>1 DEF ExitMoves
<1>2. ASSUME JobStep PROVE UNCHANGED <<exits, sent>>
  BY <1>2 DEF JobStep, Provision, Create, Row, Start, Publish, Admit, Complete, Cleanup, Discard, Fence
<1>3. ASSUME NEW u \in Takeovers, Saga(u) PROVE UNCHANGED <<exits, sent>>
  BY <1>3 DEF Saga, ClaimFails, Retire, Dispatch, Recover
<1>4. ASSUME Launch \/ ReconcileProvisioning PROVE UNCHANGED <<exits, sent>>
  BY <1>4 DEF Launch, ReconcileProvisioning
<1>5. ASSUME Crash PROVE ExitMoves
  <2>1. sent' = sent /\ exits' = [e \in Exiters |-> NoExit]
    BY <1>5 DEF Crash
  <2>2. \A e \in Exiters : exits'[e].step = "idle"
    BY <2>1 DEF NoExit
  <2> QED BY <2>1, <2>2 DEF ExitMoves
<1>6. ASSUME Reaper PROVE UNCHANGED <<exits, sent>>
  BY <1>6 DEF Reaper, Reap, ReapObserve, ReapWrite
<1>7. ASSUME NEW u \in Takeovers, NEW o \in Terminals, Request(u, o) PROVE UNCHANGED <<exits, sent>>
  BY <1>7 DEF Request
<1>8. ASSUME NEW u \in Terminals, \/ Abandon(u) \/ ProviderEnds(u) \/ PaneGoes(u) \/ Acquire(u)
                                \/ Paste(u) \/ TransportExpires(u) \/ WorkSettles(u)
      PROVE  UNCHANGED <<exits, sent>>
  BY <1>8 DEF Abandon, ProviderEnds, PaneGoes, Acquire, Paste, TransportExpires, WorkSettles
<1>9. ASSUME NEW e \in Exiters, NEW u \in ExitTargets, ExitBegin(e, u) PROVE ExitMoves
  <2> DEFINE row == [NoExit EXCEPT !.step = "claim", !.t = u, !.target = life[u] # "exit_pending"]
  <2>1. sent' = sent /\ exits' = [exits EXCEPT ![e] = row]
    BY <1>9 DEF ExitBegin
  <2>2. row.step = "claim"
    BY DEF NoExit
  <2> HIDE DEF row
  <2> QED BY <2>1, <2>2, Types DEF ExitMoves
<1>10. ASSUME NEW e \in Exiters, ExitClaim(e) PROVE ExitMoves
  <2> DEFINE t == exits[e].t  row == [exits[e] EXCEPT !.step = "send", !.early = life[t] # "running"]
  <2>1. NoExit.step = "idle" /\ row.step = "send" /\ row.t = t /\ row.early = (life[t] # "running")
    BY Types DEF NoExit
  <2>2. t \in Terminals /\ exits[e].step = "claim" /\ sent' = sent /\ job' = job
    BY <1>10, Types DEF ExitClaim
  <2>3. CASE Exitable(t) /\ exits[e].target
    <3>1. /\ exits' = [exits EXCEPT ![e] = row]
          /\ life' = [life EXCEPT ![t] = "exit_pending"] /\ op' = [op EXCEPT ![t] = "retire"]
      BY <1>10, <2>3 DEF ExitClaim
    <3>2. life'[t] = "exit_pending" /\ op'[t] = "retire"
      BY <2>2, <3>1, Types
    <3>3. exits'[e] = row /\ \A f \in Exiters \ {e} : exits'[f] = exits[f]
      BY <3>1, Types
    <3> HIDE DEF row
    <3>4. /\ exits'[e].step = "send" /\ exits'[e].t = exits[e].t /\ ~Sending(e)
          /\ Exitable(exits[e].t) /\ exits'[e].early = (life[exits[e].t] # "running")
          /\ life'[exits[e].t] = "exit_pending" /\ op'[exits[e].t] = "retire" /\ job' = job
          /\ \A f \in Exiters \ {e} : exits'[f] = exits[f]
      BY <2>1, <2>2, <2>3, <3>2, <3>3 DEF Sending
    <3> QED BY <2>2, <3>4 DEF ExitMoves
  <2>4. CASE ~(Exitable(t) /\ exits[e].target)
    <3>1. exits' = [exits EXCEPT ![e] = NoExit]
      BY <1>10, <2>4 DEF ExitClaim
    <3> HIDE DEF row
    <3>2. \A f \in Exiters : exits'[f] = IF f = e THEN NoExit ELSE exits[f]
      BY <3>1, Types
    <3> QED BY <2>1, <2>2, <3>2 DEF ExitMoves
  <2> QED BY <2>3, <2>4
<1>11. ASSUME NEW e \in Exiters, ExitSend(e) PROVE ExitMoves
  <2> DEFINE t == exits[e].t
  <2>1. /\ Sending(e) /\ t \in Terminals /\ exits' = [exits EXCEPT ![e] = NoExit]
        /\ sent' = IF exits[e].early THEN [sent EXCEPT ![t].early = @ + 1]
                   ELSE [sent EXCEPT ![t].late = @ + 1]
    BY <1>11, Types DEF ExitSend, Sending
  <2>2. exits'[e].step = "idle" /\ \A f \in Exiters \ {e} : exits'[f] = exits[f]
    BY <2>1, Types DEF NoExit
  <2>3. ASSUME NEW u \in Terminals
        PROVE  /\ sent'[u].early = IF u = t /\ exits[e].early THEN sent[u].early + 1 ELSE sent[u].early
               /\ sent'[u].late = IF u = t /\ ~exits[e].early THEN sent[u].late + 1 ELSE sent[u].late
    <3>1. CASE exits[e].early
      BY <2>1, <3>1, Types
    <3>2. CASE ~exits[e].early
      BY <2>1, <3>2, Types
    <3> QED BY <3>1, <3>2
  <2> QED BY <2>1, <2>2, <2>3 DEF ExitMoves
<1>12. ASSUME UNCHANGED vars PROVE UNCHANGED <<exits, sent>>
  BY <1>12 DEF vars
<1> QED BY <1>1, <1>2, <1>3, <1>4, <1>5, <1>6, <1>7, <1>8, <1>9, <1>10, <1>11, <1>12 DEF Next

(* The mark of an early or a late exit, and the claim that leaves one.      *)
Mark(t, early) == IF early THEN EarlyMark(t) ELSE LateMark(t)

(* Both marks stay.                                                        *)
LEMMA MarkKept ==
  ASSUME Base, [Next]_vars, NEW t \in Terminals, NEW b \in BOOLEAN, Mark(t, b)
  PROVE  Mark(t, b)'
  BY EarlyKept, LateKept DEF Mark

(* A claim finds no mark of its kind, and leaves one.                      *)
LEMMA ClaimMarks ==
  ASSUME Base, AskedOnce, [Next]_vars, NEW t \in Terminals, Exitable(t),
         life'[t] = "exit_pending", op'[t] = "retire", job' = job,
         NEW b, b = (life[t] # "running")
  PROVE  ~Mark(t, b) /\ Mark(t, b)'
<1>1. ~Mark(t, b)
  BY DEF Mark, EarlyMark, LateMark, Exitable, Ended
<1>2. Written(t)'
  <2>1. Written(t)
    BY DEF Exitable, Base, WrittenOnce
  <2> QED BY <2>1, WrittenKept
<1>3. life[t] = "running" => ~Publishing(t)'
  BY DEF AskedOnce, Publishing
<1> QED BY <1>1, <1>2, <1>3 DEF Mark, EarlyMark, LateMark

(* Every step keeps AskedOnce and ExitOnce: whoever holds a claim has the  *)
(* only one of its kind.                                                   *)
LEMMA AskedKept ==
  ASSUME Base, AskedOnce, ExitOnce, [Next]_vars
  PROVE  AskedOnce' /\ ExitOnce'
<1>0. ExitMoves
  BY ExitStep DEF Base
<1>1. ASSUME NEW t \in Terminals, life'[t] = "running" PROVE ~Publishing(t)'
  BY <1>1, PublishedOnce DEF AskedOnce
<1>2. /\ \A t \in Terminals : sent[t].early \in Nat /\ sent[t].late \in Nat
      /\ \A e \in Exiters : exits[e].t \in Terminals /\ exits[e].early \in BOOLEAN
  BY Types DEF Base
<1>3. \A t \in Terminals, b \in BOOLEAN : Sent(t, b) > 0 => Mark(t, b)
  BY DEF AskedOnce, Sent, Mark
<1>4. \A e \in Exiters : Sending(e) =>
        /\ Mark(exits[e].t, exits[e].early) /\ Sent(exits[e].t, exits[e].early) = 0
        /\ \A f \in Exiters : /\ Sending(f) /\ exits[f].t = exits[e].t
                              /\ exits[f].early = exits[e].early
                              => f = e
  BY DEF AskedOnce, Mark
<1>5. \A t \in Terminals, b \in BOOLEAN : Sent(t, b) <= 1
  BY DEF ExitOnce, Sent
<1>6. \A t \in Terminals, b \in BOOLEAN : Mark(t, b) => Mark(t, b)'
  BY MarkKept
<1>7. ASSUME \A t \in Terminals, b \in BOOLEAN : Sent(t, b)' <= 1 /\ (Sent(t, b)' > 0 => Mark(t, b)'),
             NEW e \in Exiters, Sending(e)' =>
               \E t \in Terminals, b \in BOOLEAN :
                 /\ t = exits'[e].t /\ b = exits'[e].early /\ Mark(t, b)' /\ Sent(t, b)' = 0
                 /\ \A f \in Exiters : /\ Sending(f)' /\ exits'[f].t = t /\ exits'[f].early = b
                                       => f = e
      PROVE  Sending(e)' =>
               /\ IF exits'[e].early THEN EarlyMark(exits[e].t)' ELSE LateMark(exits[e].t)'
               /\ Sent(exits[e].t, exits[e].early)' = 0
               /\ \A f \in Exiters : /\ Sending(f)' /\ exits'[f].t = exits'[e].t
                                     /\ exits'[f].early = exits'[e].early
                                     => f = e
  BY <1>7 DEF Mark, Sent, EarlyMark, LateMark, Written, Publishing
<1>8. ASSUME \A t \in Terminals, b \in BOOLEAN : Sent(t, b)' <= 1 /\ (Sent(t, b)' > 0 => Mark(t, b)'),
             \A e \in Exiters : Sending(e)' =>
               \E t \in Terminals, b \in BOOLEAN :
                 /\ t = exits'[e].t /\ b = exits'[e].early /\ Mark(t, b)' /\ Sent(t, b)' = 0
                 /\ \A f \in Exiters : /\ Sending(f)' /\ exits'[f].t = t /\ exits'[f].early = b
                                       => f = e
      PROVE  AskedOnce' /\ ExitOnce'
  <2>1. ASSUME NEW t \in Terminals
        PROVE  /\ (sent'[t].early > 0 => EarlyMark(t)') /\ (sent'[t].late > 0 => LateMark(t)')
               /\ sent'[t].early <= 1 /\ sent'[t].late <= 1
    <3>1. Sent(t, TRUE)' <= 1 /\ (Sent(t, TRUE)' > 0 => Mark(t, TRUE)')
      BY <1>8
    <3>2. Sent(t, FALSE)' <= 1 /\ (Sent(t, FALSE)' > 0 => Mark(t, FALSE)')
      BY <1>8
    <3> QED BY <3>1, <3>2 DEF Mark, Sent
  <2>2. ExitOnce'
    BY <2>1 DEF ExitOnce
  <2>3. AskedOnce'
    BY <1>1, <1>7, <1>8, <2>1 DEF AskedOnce
  <2> QED BY <2>2, <2>3
<1>9. CASE sent' = sent /\ \A e \in Exiters : exits'[e] = exits[e] \/ exits'[e].step # "send"
  <2>1. \A t \in Terminals, b \in BOOLEAN : Sent(t, b)' = Sent(t, b)
    BY <1>9 DEF Sent
  <2>2. \A e \in Exiters : Sending(e)' => exits'[e] = exits[e] /\ Sending(e)
    BY <1>9 DEF Sending
  <2> QED BY <1>2, <1>3, <1>4, <1>5, <1>6, <1>8, <2>1, <2>2
<1>10. ASSUME sent' = sent, NEW e \in Exiters,
              exits'[e].step = "send", exits'[e].t = exits[e].t, ~Sending(e),
              Exitable(exits[e].t), exits'[e].early = (life[exits[e].t] # "running"),
              life'[exits[e].t] = "exit_pending", op'[exits[e].t] = "retire", job' = job,
              \A f \in Exiters \ {e} : exits'[f] = exits[f]
       PROVE  AskedOnce' /\ ExitOnce'
  <2>1. PICK t \in Terminals : t = exits[e].t
    BY <1>2
  <2>2. PICK b \in BOOLEAN : b = (life[t] # "running")
    OBVIOUS
  <2>3. ~Mark(t, b) /\ Mark(t, b)'
    BY <1>10, <2>1, <2>2, ClaimMarks
  <2>4. \A u \in Terminals, c \in BOOLEAN : Sent(u, c)' = Sent(u, c)
    BY <1>10 DEF Sent
  <2>5. \A f \in Exiters : f # e => exits'[f] = exits[f] /\ (Sending(f)' <=> Sending(f))
    BY <1>10 DEF Sending
  <2>6. Sent(t, b) = 0
    <3>1. Sent(t, b) \in Nat
      BY <1>2 DEF Sent
    <3> QED BY <1>3, <2>3, <3>1
  <2>7. \A f \in Exiters : f # e /\ Sending(f) => ~(exits[f].t = t /\ exits[f].early = b)
    BY <1>4, <2>3
  <2>8. exits'[e].t = t /\ exits'[e].early = b
    BY <1>10, <2>1, <2>2
  <2>9. ASSUME NEW f \in Exiters, Sending(f)'
        PROVE  \E u \in Terminals, c \in BOOLEAN :
                 /\ u = exits'[f].t /\ c = exits'[f].early /\ Mark(u, c)' /\ Sent(u, c)' = 0
                 /\ \A g \in Exiters : /\ Sending(g)' /\ exits'[g].t = u /\ exits'[g].early = c
                                       => g = f
    <3>1. CASE f = e
      <4>1. \A g \in Exiters : Sending(g)' /\ exits'[g].t = t /\ exits'[g].early = b => g = e
        BY <2>5, <2>7
      <4> QED BY <2>3, <2>4, <2>6, <2>8, <3>1, <4>1
    <3>2. CASE f # e
      <4>1. Sending(f) /\ exits'[f] = exits[f]
        BY <2>5, <2>9, <3>2
      <4>2. \A g \in Exiters : Sending(g)' /\ exits'[g].t = exits[f].t /\ exits'[g].early = exits[f].early => g = f
        <5>1. ~(exits[f].t = t /\ exits[f].early = b)
          BY <2>7, <3>2, <4>1
        <5> QED BY <1>4, <2>5, <2>8, <4>1, <5>1
      <4> QED BY <1>2, <1>4, <1>6, <2>4, <4>1, <4>2
    <3> QED BY <3>1, <3>2
  <2> QED BY <1>3, <1>5, <1>6, <1>8, <2>4, <2>9
<1>11. ASSUME NEW e \in Exiters, Sending(e), exits'[e].step = "idle",
              \A f \in Exiters \ {e} : exits'[f] = exits[f],
              \A t \in Terminals :
                /\ sent'[t].early = IF t = exits[e].t /\ exits[e].early THEN sent[t].early + 1 ELSE sent[t].early
                /\ sent'[t].late = IF t = exits[e].t /\ ~exits[e].early THEN sent[t].late + 1 ELSE sent[t].late
       PROVE  AskedOnce' /\ ExitOnce'
  <2>1. PICK t \in Terminals, b \in BOOLEAN : t = exits[e].t /\ b = exits[e].early
    BY <1>2
  <2>2. \A u \in Terminals, c \in BOOLEAN : ~(u = t /\ c = b) => Sent(u, c)' = Sent(u, c)
    BY <1>11, <2>1 DEF Sent
  <2>3. Mark(t, b) /\ Sent(t, b) = 0
    BY <1>4, <1>11, <2>1
  <2>4. Sent(t, b)' = 1
    <3>1. CASE b
      <4>1. sent'[t].early = sent[t].early + 1 /\ sent[t].early = 0
        BY <1>11, <2>1, <2>3, <3>1 DEF Sent
      <4> QED BY <3>1, <4>1 DEF Sent
    <3>2. CASE ~b
      <4>1. sent'[t].late = sent[t].late + 1 /\ sent[t].late = 0
        BY <1>11, <2>1, <2>3, <3>2 DEF Sent
      <4> QED BY <3>2, <4>1 DEF Sent
    <3> QED BY <3>1, <3>2
  <2>5. \A u \in Terminals, c \in BOOLEAN : Sent(u, c)' <= 1 /\ (Sent(u, c)' > 0 => Mark(u, c)')
    BY <1>3, <1>5, <1>6, <2>2, <2>3, <2>4
  <2>6. \A f \in Exiters : Sending(f)' => f # e /\ exits'[f] = exits[f] /\ Sending(f)
    BY <1>11 DEF Sending
  <2>7. ASSUME NEW f \in Exiters, Sending(f)'
        PROVE  \E u \in Terminals, c \in BOOLEAN :
                 /\ u = exits'[f].t /\ c = exits'[f].early /\ Mark(u, c)' /\ Sent(u, c)' = 0
                 /\ \A g \in Exiters : /\ Sending(g)' /\ exits'[g].t = u /\ exits'[g].early = c
                                       => g = f
    <3>1. f # e /\ exits'[f] = exits[f] /\ Sending(f)
      BY <2>6, <2>7
    <3>2. ~(exits[f].t = t /\ exits[f].early = b)
      BY <1>4, <1>11, <2>1, <3>1
    <3>3. \A g \in Exiters : Sending(g)' /\ exits'[g].t = exits[f].t /\ exits'[g].early = exits[f].early => g = f
      BY <1>4, <2>6, <3>1
    <3> QED BY <1>2, <1>4, <1>6, <2>2, <3>1, <3>2, <3>3
  <2> QED BY <1>8, <2>5, <2>7
<1> QED BY <1>0, <1>9, <1>10, <1>11 DEF ExitMoves

(* The types, variable by variable.                                         *)
LEMMA LifeType ==
  ASSUME TypeOK, [Next]_vars
  PROVE  life' \in [Terminals -> Lives]
<1>1. ASSUME Row PROVE life' \in [Terminals -> Lives]
  BY <1>1 DEF TypeOK, Row, RowWritten, Lives
<1>2. ASSUME Publish PROVE life' \in [Terminals -> Lives]
  BY <1>2 DEF TypeOK, Publish, Lives
<1>3. ASSUME Cleanup PROVE life' \in [Terminals -> Lives]
  BY <1>3 DEF TypeOK, Cleanup, ResetBy, Lives
<1>4. ASSUME Discard PROVE life' \in [Terminals -> Lives]
  BY <1>4 DEF TypeOK, Discard, Lives
<1>5. ASSUME Fence PROVE life' \in [Terminals -> Lives]
  BY <1>5 DEF TypeOK, Fence, Lives
<1>6. ASSUME NEW t \in Takeovers, Recover(t) PROVE life' \in [Terminals -> Lives]
  BY <1>6 DEF TypeOK, Recover, ResetBy, Lives
<1>7. ASSUME NEW t \in Terminals, Abandon(t) PROVE life' \in [Terminals -> Lives]
  BY <1>7 DEF TypeOK, Abandon, Lives
<1>8. ASSUME NEW e \in Exiters, ExitClaim(e) PROVE life' \in [Terminals -> Lives]
  BY <1>8 DEF TypeOK, ExitClaim, Lives
<1>9. ASSUME ReapWrite PROVE life' \in [Terminals -> Lives]
  BY <1>9 DEF TypeOK, ReapWrite, Lives
<1>10. ASSUME Provision \/ Create \/ Start \/ Admit \/ Complete PROVE UNCHANGED life
  BY <1>10 DEF Provision, Create, Start, Admit, Complete
<1>11. ASSUME NEW t \in Takeovers, ClaimFails(t) \/ Retire(t) \/ Dispatch(t) PROVE UNCHANGED life
  BY <1>11 DEF ClaimFails, Retire, Dispatch
<1>12. ASSUME Launch \/ ReconcileProvisioning \/ Crash \/ ReapObserve PROVE UNCHANGED life
  BY <1>12 DEF Launch, ReconcileProvisioning, Crash, ReapObserve
<1>13. ASSUME NEW t \in Takeovers, NEW o \in Terminals, Request(t, o) PROVE UNCHANGED life
  BY <1>13 DEF Request
<1>14. ASSUME NEW t \in Terminals, ProviderEnds(t) \/ PaneGoes(t) \/ Acquire(t) \/ Paste(t) \/ TransportExpires(t) \/ WorkSettles(t) \/ Reap(t)
       PROVE  UNCHANGED life
  BY <1>14 DEF ProviderEnds, PaneGoes, Acquire, Paste, TransportExpires, WorkSettles, Reap
<1>15. ASSUME NEW e \in Exiters, NEW t \in ExitTargets, ExitBegin(e, t) PROVE UNCHANGED life
  BY <1>15 DEF ExitBegin
<1>16. ASSUME NEW e \in Exiters, ExitSend(e) PROVE UNCHANGED life
  BY <1>16 DEF ExitSend
<1>17. ASSUME UNCHANGED life PROVE life' \in [Terminals -> Lives]
  BY <1>17 DEF TypeOK
<1> QED BY <1>1, <1>2, <1>3, <1>4, <1>5, <1>6, <1>7, <1>8, <1>9, <1>10, <1>11, <1>12, <1>13, <1>14, <1>15, <1>16, <1>17 DEF Next, JobStep, Saga, Reaper, vars

(* The operations.                                                         *)
LEMMA OpType ==
  ASSUME TypeOK, [Next]_vars
  PROVE  op' \in [Terminals -> Ops]
<1>1. ASSUME Cleanup PROVE op' \in [Terminals -> Ops]
  BY <1>1 DEF TypeOK, Cleanup, ResetBy, Ops
<1>2. ASSUME NEW t \in Takeovers, NEW o \in Terminals, Request(t, o) PROVE op' \in [Terminals -> Ops]
  BY <1>2 DEF TypeOK, Request, ClaimWritten, Ops
<1>3. ASSUME NEW t \in Takeovers, ClaimFails(t) PROVE op' \in [Terminals -> Ops]
  BY <1>3 DEF TypeOK, ClaimFails, Unclaimed, Ops
<1>4. ASSUME Fence PROVE op' \in [Terminals -> Ops]
  BY <1>4 DEF TypeOK, Fence, Unclaimed, Ops
<1>5. ASSUME NEW t \in Takeovers, Recover(t) PROVE op' \in [Terminals -> Ops]
  BY <1>5 DEF TypeOK, Recover, ResetBy, Ops
<1>6. ASSUME NEW e \in Exiters, ExitClaim(e) PROVE op' \in [Terminals -> Ops]
  BY <1>6 DEF TypeOK, ExitClaim, Ops
<1>7. ASSUME ReapWrite PROVE op' \in [Terminals -> Ops]
  BY <1>7 DEF TypeOK, ReapWrite, Ops
<1>8. ASSUME NEW t \in Terminals, Acquire(t) PROVE op' \in [Terminals -> Ops]
  BY <1>8 DEF TypeOK, Acquire, Ops
<1>9. ASSUME NEW t \in Terminals, Paste(t) PROVE op' \in [Terminals -> Ops]
  BY <1>9 DEF TypeOK, Paste, Ops
<1>10. ASSUME NEW t \in Terminals, TransportExpires(t) PROVE op' \in [Terminals -> Ops]
  BY <1>10 DEF TypeOK, TransportExpires, Ops
<1>11. ASSUME Provision \/ Create \/ Row \/ Start \/ Publish \/ Admit \/ Complete \/ Discard
       PROVE  UNCHANGED op
  BY <1>11 DEF Provision, Create, Row, Start, Publish, Admit, Complete, Discard
<1>12. ASSUME NEW t \in Takeovers, Retire(t) \/ Dispatch(t) PROVE UNCHANGED op
  BY <1>12 DEF Retire, Dispatch
<1>13. ASSUME Launch \/ ReconcileProvisioning \/ Crash \/ ReapObserve PROVE UNCHANGED op
  BY <1>13 DEF Launch, ReconcileProvisioning, Crash, ReapObserve
<1>14. ASSUME NEW t \in Terminals, Abandon(t) \/ ProviderEnds(t) \/ PaneGoes(t) \/ WorkSettles(t) \/ Reap(t)
       PROVE  UNCHANGED op
  BY <1>14 DEF Abandon, ProviderEnds, PaneGoes, WorkSettles, Reap
<1>15. ASSUME NEW e \in Exiters, NEW t \in ExitTargets, ExitBegin(e, t) PROVE UNCHANGED op
  BY <1>15 DEF ExitBegin
<1>16. ASSUME NEW e \in Exiters, ExitSend(e) PROVE UNCHANGED op
  BY <1>16 DEF ExitSend
<1>17. ASSUME UNCHANGED op PROVE op' \in [Terminals -> Ops]
  BY <1>17 DEF TypeOK
<1> QED BY <1>1, <1>2, <1>3, <1>4, <1>5, <1>6, <1>7, <1>8, <1>9, <1>10, <1>11, <1>12, <1>13, <1>14, <1>15, <1>16, <1>17 DEF Next, JobStep, Saga, Reaper, vars

(* Who ends a lifecycle clears its operation, and a dead row takes none.   *)
LEMMA IdleOps ==
  ASSUME TypeOK, [Next]_vars
  PROVE  \A u \in Terminals : life'[u] \in {"none"} \cup Ended => op'[u] = "none"
<1>1. ASSUME Row PROVE \A u \in Terminals : life'[u] \in {"none"} \cup Ended => op'[u] = "none"
  BY <1>1 DEF Row, RowWritten, TypeOK, Ended
<1>2. ASSUME Publish PROVE \A u \in Terminals : life'[u] \in {"none"} \cup Ended => op'[u] = "none"
  BY <1>2 DEF Publish, TypeOK, Ended
<1>3. ASSUME Cleanup PROVE \A u \in Terminals : life'[u] \in {"none"} \cup Ended => op'[u] = "none"
  BY <1>3 DEF Cleanup, ResetBy, TypeOK, Ended
<1>4. ASSUME Discard PROVE \A u \in Terminals : life'[u] \in {"none"} \cup Ended => op'[u] = "none"
  BY <1>4 DEF Discard, TypeOK, Ended
<1>5. ASSUME Fence PROVE \A u \in Terminals : life'[u] \in {"none"} \cup Ended => op'[u] = "none"
  BY <1>5 DEF Fence, Unclaimed, TypeOK, Ended
<1>6. ASSUME NEW t \in Takeovers, ClaimFails(t) PROVE \A u \in Terminals : life'[u] \in {"none"} \cup Ended => op'[u] = "none"
  BY <1>6 DEF ClaimFails, Unclaimed, TypeOK, Ended
<1>7. ASSUME NEW t \in Takeovers, Recover(t) PROVE \A u \in Terminals : life'[u] \in {"none"} \cup Ended => op'[u] = "none"
  BY <1>7 DEF Recover, ResetBy, TypeOK, Ended
<1>8. ASSUME NEW t \in Takeovers, NEW o \in Terminals, Request(t, o) PROVE \A u \in Terminals : life'[u] \in {"none"} \cup Ended => op'[u] = "none"
  BY <1>8 DEF Request, Claimable, Replaceable, ClaimWritten, TypeOK, Ended
<1>9. ASSUME NEW t \in Terminals, Abandon(t) PROVE \A u \in Terminals : life'[u] \in {"none"} \cup Ended => op'[u] = "none"
  BY <1>9 DEF Abandon, TypeOK, Ended
<1>10. ASSUME NEW e \in Exiters, ExitClaim(e) PROVE \A u \in Terminals : life'[u] \in {"none"} \cup Ended => op'[u] = "none"
  BY <1>10 DEF ExitClaim, TypeOK, Ended
<1>11. ASSUME ReapWrite PROVE \A u \in Terminals : life'[u] \in {"none"} \cup Ended => op'[u] = "none"
  BY <1>11 DEF ReapWrite, TypeOK, Ended
<1>12. ASSUME NEW t \in Terminals, Acquire(t) PROVE \A u \in Terminals : life'[u] \in {"none"} \cup Ended => op'[u] = "none"
  BY <1>12 DEF Acquire, TypeOK, Ended
<1>13. ASSUME NEW t \in Terminals, Paste(t) PROVE \A u \in Terminals : life'[u] \in {"none"} \cup Ended => op'[u] = "none"
  BY <1>13 DEF Paste, TypeOK, Ended
<1>14. ASSUME NEW t \in Terminals, TransportExpires(t) PROVE \A u \in Terminals : life'[u] \in {"none"} \cup Ended => op'[u] = "none"
  BY <1>14 DEF TransportExpires, TypeOK, Ended
<1>15. ASSUME Provision \/ Create \/ Start \/ Admit \/ Complete PROVE UNCHANGED <<life, op>>
  BY <1>15 DEF Provision, Create, Start, Admit, Complete
<1>16. ASSUME NEW t \in Takeovers, Retire(t) \/ Dispatch(t) PROVE UNCHANGED <<life, op>>
  BY <1>16 DEF Retire, Dispatch
<1>17. ASSUME Launch \/ ReconcileProvisioning \/ Crash \/ ReapObserve PROVE UNCHANGED <<life, op>>
  BY <1>17 DEF Launch, ReconcileProvisioning, Crash, ReapObserve
<1>18. ASSUME NEW t \in Terminals, ProviderEnds(t) \/ PaneGoes(t) \/ WorkSettles(t) \/ Reap(t)
       PROVE  UNCHANGED <<life, op>>
  BY <1>18 DEF ProviderEnds, PaneGoes, WorkSettles, Reap
<1>19. ASSUME NEW e \in Exiters, NEW t \in ExitTargets, ExitBegin(e, t) PROVE UNCHANGED <<life, op>>
  BY <1>19 DEF ExitBegin
<1>20. ASSUME NEW e \in Exiters, ExitSend(e) PROVE UNCHANGED <<life, op>>
  BY <1>20 DEF ExitSend
<1>21. ASSUME UNCHANGED <<life, op>> PROVE \A u \in Terminals : life'[u] \in {"none"} \cup Ended => op'[u] = "none"
  BY <1>21 DEF TypeOK
<1> QED BY <1>1, <1>2, <1>3, <1>4, <1>5, <1>6, <1>7, <1>8, <1>9, <1>10, <1>11, <1>12, <1>13, <1>14, <1>15, <1>16, <1>17, <1>18, <1>19, <1>20, <1>21 DEF Next, JobStep, Saga, Reaper, vars

(* The panes.                                                              *)
LEMMA PaneType ==
  ASSUME TypeOK, [Next]_vars
  PROVE  pane' \in [Terminals -> {"none", "shell", "provider", "orphan"}]
<1>1. ASSUME Create PROVE pane' \in [Terminals -> {"none", "shell", "provider", "orphan"}]
  BY <1>1 DEF TypeOK, Create
<1>2. ASSUME Start PROVE pane' \in [Terminals -> {"none", "shell", "provider", "orphan"}]
  BY <1>2 DEF TypeOK, Start
<1>3. ASSUME Cleanup PROVE pane' \in [Terminals -> {"none", "shell", "provider", "orphan"}]
  BY <1>3 DEF TypeOK, Cleanup
<1>4. ASSUME NEW t \in Takeovers, Retire(t) PROVE pane' \in [Terminals -> {"none", "shell", "provider", "orphan"}]
  BY <1>4 DEF TypeOK, Retire
<1>5. ASSUME NEW t \in Takeovers, Recover(t) PROVE pane' \in [Terminals -> {"none", "shell", "provider", "orphan"}]
  BY <1>5 DEF TypeOK, Recover, ResetBy
<1>6. ASSUME ReapObserve PROVE pane' \in [Terminals -> {"none", "shell", "provider", "orphan"}]
  BY <1>6 DEF TypeOK, ReapObserve
<1>7. ASSUME NEW t \in Terminals, ProviderEnds(t) PROVE pane' \in [Terminals -> {"none", "shell", "provider", "orphan"}]
  BY <1>7 DEF TypeOK, ProviderEnds
<1>8. ASSUME NEW t \in Terminals, PaneGoes(t) PROVE pane' \in [Terminals -> {"none", "shell", "provider", "orphan"}]
  BY <1>8 DEF TypeOK, PaneGoes
<1>9. ASSUME Provision \/ Row \/ Publish \/ Admit \/ Complete \/ Discard \/ Fence
      PROVE  UNCHANGED pane
  BY <1>9 DEF Provision, Row, Publish, Admit, Complete, Discard, Fence
<1>10. ASSUME NEW t \in Takeovers, ClaimFails(t) \/ Dispatch(t) PROVE UNCHANGED pane
  BY <1>10 DEF ClaimFails, Dispatch
<1>11. ASSUME Launch \/ ReconcileProvisioning \/ Crash \/ ReapWrite PROVE UNCHANGED pane
  BY <1>11 DEF Launch, ReconcileProvisioning, Crash, ReapWrite
<1>12. ASSUME NEW t \in Takeovers, NEW o \in Terminals, Request(t, o) PROVE UNCHANGED pane
  BY <1>12 DEF Request
<1>13. ASSUME NEW t \in Terminals, Abandon(t) \/ Acquire(t) \/ Paste(t) \/ TransportExpires(t) \/ WorkSettles(t) \/ Reap(t)
       PROVE  UNCHANGED pane
  BY <1>13 DEF Abandon, Acquire, Paste, TransportExpires, WorkSettles, Reap
<1>14. ASSUME NEW e \in Exiters, NEW t \in ExitTargets, ExitBegin(e, t) PROVE UNCHANGED pane
  BY <1>14 DEF ExitBegin
<1>15. ASSUME NEW e \in Exiters, ExitClaim(e) \/ ExitSend(e) PROVE UNCHANGED pane
  BY <1>15 DEF ExitClaim, ExitSend
<1>16. ASSUME UNCHANGED pane PROVE pane' \in [Terminals -> {"none", "shell", "provider", "orphan"}]
  BY <1>16 DEF TypeOK
<1> QED BY <1>1, <1>2, <1>3, <1>4, <1>5, <1>6, <1>7, <1>8, <1>9, <1>10, <1>11, <1>12, <1>13, <1>14, <1>15, <1>16 DEF Next, JobStep, Saga, Reaper, vars

(* The context.                                                            *)
LEMMA CtxType ==
  ASSUME TypeOK, [Next]_vars
  PROVE  ctx' \in CtxRow
<1>1. ASSUME Launch PROVE ctx' \in CtxRow
  BY <1>1 DEF TypeOK, Launch, Reserved, CtxRow
<1>2. ASSUME Provision PROVE ctx' \in CtxRow
  BY <1>2 DEF TypeOK, Provision, Moved, CtxRow
<1>3. ASSUME Row PROVE ctx' \in CtxRow
  <2>1. job.t \in Terminals
    BY Types
  <2>2. ctx' = ctx \/ ctx' = [st |-> "launching", term |-> job.t]
    BY <1>3 DEF Row, RowWritten
  <2> QED BY <2>1, <2>2 DEF TypeOK, CtxRow
<1>4. ASSUME Admit PROVE ctx' \in CtxRow
  BY <1>4 DEF TypeOK, Admit, Moved, CtxRow
<1>5. ASSUME Discard PROVE ctx' \in CtxRow
  BY <1>5 DEF TypeOK, Discard, Moved, CtxRow
<1>6. ASSUME ReconcileProvisioning PROVE ctx' \in CtxRow
  BY <1>6 DEF TypeOK, ReconcileProvisioning, CtxRow
<1>7. ASSUME Create \/ Start \/ Publish \/ Complete \/ Cleanup \/ Fence PROVE UNCHANGED ctx
  BY <1>7 DEF Create, Start, Publish, Complete, Cleanup, Fence
<1>8. ASSUME NEW t \in Takeovers, ClaimFails(t) \/ Retire(t) \/ Dispatch(t) \/ Recover(t)
      PROVE  UNCHANGED ctx
  BY <1>8 DEF ClaimFails, Retire, Dispatch, Recover
<1>9. ASSUME Crash \/ ReapObserve \/ ReapWrite PROVE UNCHANGED ctx
  BY <1>9 DEF Crash, ReapObserve, ReapWrite
<1>10. ASSUME NEW t \in Takeovers, NEW o \in Terminals, Request(t, o) PROVE UNCHANGED ctx
  BY <1>10 DEF Request
<1>11. ASSUME NEW t \in Terminals, Abandon(t) \/ ProviderEnds(t) \/ PaneGoes(t) \/ Acquire(t) \/ Paste(t) \/ TransportExpires(t) \/ WorkSettles(t) \/ Reap(t)
       PROVE  UNCHANGED ctx
  BY <1>11 DEF Abandon, ProviderEnds, PaneGoes, Acquire, Paste, TransportExpires, WorkSettles, Reap
<1>12. ASSUME NEW e \in Exiters, NEW t \in ExitTargets, ExitBegin(e, t) PROVE UNCHANGED ctx
  BY <1>12 DEF ExitBegin
<1>13. ASSUME NEW e \in Exiters, ExitClaim(e) \/ ExitSend(e) PROVE UNCHANGED ctx
  BY <1>13 DEF ExitClaim, ExitSend
<1>14. ASSUME UNCHANGED ctx PROVE ctx' \in CtxRow
  BY <1>14 DEF TypeOK
<1> QED BY <1>1, <1>2, <1>3, <1>4, <1>5, <1>6, <1>7, <1>8, <1>9, <1>10, <1>11, <1>12, <1>13, <1>14 DEF Next, JobStep, Saga, Reaper, vars

(* No exit under way.                                                      *)
LEMMA NoExitType == NoExit \in ExitRow
  BY Numbers DEF NoExit, ExitRow

(* No reconciliation under way.                                            *)
LEMMA NoReapType == NoReap \in ReapRow
  BY Numbers DEF NoReap, ReapRow, Lives, Ops

(* The exits.                                                              *)
LEMMA ExitsType ==
  ASSUME TypeOK, [Next]_vars
  PROVE  exits' \in [Exiters -> ExitRow]
<1>1. ASSUME NEW e \in Exiters, NEW t \in ExitTargets, ExitBegin(e, t) PROVE exits' \in [Exiters -> ExitRow]
  <2>1. t \in Terminals /\ 0 \in Terminals
    BY Numbers
  <2>2. exits' = [exits EXCEPT ![e] = [NoExit EXCEPT !.step = "claim", !.t = t, !.target = life[t] # "exit_pending"]]
    BY <1>1 DEF ExitBegin
  <2>3. [NoExit EXCEPT !.step = "claim", !.t = t, !.target = life[t] # "exit_pending"] \in ExitRow
    BY <2>1 DEF NoExit, ExitRow
  <2> QED BY <2>2, <2>3 DEF TypeOK
<1>2. ASSUME NEW e \in Exiters, ExitClaim(e) PROVE exits' \in [Exiters -> ExitRow]
  <2>1. NoExit \in ExitRow /\ exits[e] \in ExitRow
    BY NoExitType DEF TypeOK
  <2> DEFINE row == [exits[e] EXCEPT !.step = "send", !.early = life[exits[e].t] # "running"]
  <2>2. row \in ExitRow
    BY <2>1 DEF ExitRow
  <2>3. exits' = [exits EXCEPT ![e] = row] \/ exits' = [exits EXCEPT ![e] = NoExit]
    BY <1>2 DEF ExitClaim
  <2> HIDE DEF row
  <2> QED BY <2>1, <2>2, <2>3 DEF TypeOK
<1>3. ASSUME NEW e \in Exiters, ExitSend(e) PROVE exits' \in [Exiters -> ExitRow]
  <2>1. exits' = [exits EXCEPT ![e] = NoExit]
    BY <1>3 DEF ExitSend
  <2> QED BY <2>1, NoExitType DEF TypeOK
<1>4. ASSUME Crash PROVE exits' \in [Exiters -> ExitRow]
  <2>1. exits' = [e \in Exiters |-> NoExit]
    BY <1>4 DEF Crash
  <2> QED BY <2>1, NoExitType
<1>5. ASSUME Provision \/ Create \/ Row \/ Start \/ Publish \/ Admit \/ Complete \/ Cleanup \/ Discard \/ Fence
      PROVE  UNCHANGED exits
  BY <1>5 DEF Provision, Create, Row, Start, Publish, Admit, Complete, Cleanup, Discard, Fence
<1>6. ASSUME NEW t \in Takeovers, ClaimFails(t) \/ Retire(t) \/ Dispatch(t) \/ Recover(t)
      PROVE  UNCHANGED exits
  BY <1>6 DEF ClaimFails, Retire, Dispatch, Recover
<1>7. ASSUME Launch \/ ReconcileProvisioning \/ ReapObserve \/ ReapWrite PROVE UNCHANGED exits
  BY <1>7 DEF Launch, ReconcileProvisioning, ReapObserve, ReapWrite
<1>8. ASSUME NEW t \in Takeovers, NEW o \in Terminals, Request(t, o) PROVE UNCHANGED exits
  BY <1>8 DEF Request
<1>9. ASSUME NEW t \in Terminals, Abandon(t) \/ ProviderEnds(t) \/ PaneGoes(t) \/ Acquire(t) \/ Paste(t) \/ TransportExpires(t) \/ WorkSettles(t) \/ Reap(t)
      PROVE  UNCHANGED exits
  BY <1>9 DEF Abandon, ProviderEnds, PaneGoes, Acquire, Paste, TransportExpires, WorkSettles, Reap
<1>10. ASSUME UNCHANGED exits PROVE exits' \in [Exiters -> ExitRow]
  BY <1>10 DEF TypeOK
<1> QED BY <1>1, <1>2, <1>3, <1>4, <1>5, <1>6, <1>7, <1>8, <1>9, <1>10 DEF Next, JobStep, Saga, Reaper, vars

(* The reconciler's reading.                                               *)
LEMMA ReapType ==
  ASSUME TypeOK, [Next]_vars
  PROVE  reap' \in ReapRow
<1>1. ASSUME NEW t \in Terminals, Reap(t) PROVE reap' \in ReapRow
  <2>1. reap' = [step |-> "seen", t |-> t, life |-> life[t], op |-> op[t]]
    BY <1>1 DEF Reap
  <2> QED BY <2>1 DEF TypeOK, ReapRow
<1>2. ASSUME ReapObserve PROVE reap' \in ReapRow
  <2>1. reap' = NoReap \/ reap' = [reap EXCEPT !.step = "dead"]
    BY <1>2 DEF ReapObserve
  <2>2. [reap EXCEPT !.step = "dead"] \in ReapRow
    BY DEF TypeOK, ReapRow
  <2> QED BY <2>1, <2>2, NoReapType
<1>3. ASSUME ReapWrite PROVE reap' \in ReapRow
  <2>1. reap' = NoReap
    BY <1>3 DEF ReapWrite
  <2> QED BY <2>1, NoReapType
<1>4. ASSUME Crash PROVE reap' \in ReapRow
  <2>1. reap' = NoReap
    BY <1>4 DEF Crash
  <2> QED BY <2>1, NoReapType
<1>5. ASSUME Provision \/ Create \/ Row \/ Start \/ Publish \/ Admit \/ Complete \/ Cleanup \/ Discard \/ Fence
      PROVE  UNCHANGED reap
  BY <1>5 DEF Provision, Create, Row, Start, Publish, Admit, Complete, Cleanup, Discard, Fence
<1>6. ASSUME NEW t \in Takeovers, ClaimFails(t) \/ Retire(t) \/ Dispatch(t) \/ Recover(t)
      PROVE  UNCHANGED reap
  BY <1>6 DEF ClaimFails, Retire, Dispatch, Recover
<1>7. ASSUME Launch \/ ReconcileProvisioning PROVE UNCHANGED reap
  BY <1>7 DEF Launch, ReconcileProvisioning
<1>8. ASSUME NEW t \in Takeovers, NEW o \in Terminals, Request(t, o) PROVE UNCHANGED reap
  BY <1>8 DEF Request
<1>9. ASSUME NEW t \in Terminals, Abandon(t) \/ ProviderEnds(t) \/ PaneGoes(t) \/ Acquire(t) \/ Paste(t) \/ TransportExpires(t) \/ WorkSettles(t)
      PROVE  UNCHANGED reap
  BY <1>9 DEF Abandon, ProviderEnds, PaneGoes, Acquire, Paste, TransportExpires, WorkSettles
<1>10. ASSUME NEW e \in Exiters, NEW t \in ExitTargets, ExitBegin(e, t) PROVE UNCHANGED reap
  BY <1>10 DEF ExitBegin
<1>11. ASSUME NEW e \in Exiters, ExitClaim(e) \/ ExitSend(e) PROVE UNCHANGED reap
  BY <1>11 DEF ExitClaim, ExitSend
<1>12. ASSUME UNCHANGED reap PROVE reap' \in ReapRow
  BY <1>12 DEF TypeOK
<1> QED BY <1>1, <1>2, <1>3, <1>4, <1>5, <1>6, <1>7, <1>8, <1>9, <1>10, <1>11, <1>12 DEF Next, JobStep, Saga, Reaper, vars

(* The commands sent.                                                      *)
LEMMA SentType ==
  ASSUME TypeOK, [Next]_vars
  PROVE  sent' \in [Terminals -> [early : Nat, late : Nat]]
<1>1. ASSUME NEW e \in Exiters, ExitSend(e) PROVE sent' \in [Terminals -> [early : Nat, late : Nat]]
  <2> DEFINE u == exits[e].t
  <2>1. u \in Terminals
    BY Types
  <2>2. sent[u] \in [early : Nat, late : Nat]
    BY <2>1 DEF TypeOK
  <2>3. sent' = [sent EXCEPT ![u].early = @ + 1] \/ sent' = [sent EXCEPT ![u].late = @ + 1]
    BY <1>1 DEF ExitSend
  <2> HIDE DEF u
  <2>4. sent'[u] \in [early : Nat, late : Nat]
    BY <2>1, <2>2, <2>3 DEF TypeOK
  <2> QED BY <2>1, <2>3, <2>4 DEF TypeOK
<1>2. ASSUME Provision \/ Create \/ Row \/ Start \/ Publish \/ Admit \/ Complete \/ Cleanup \/ Discard \/ Fence
      PROVE  UNCHANGED sent
  BY <1>2 DEF Provision, Create, Row, Start, Publish, Admit, Complete, Cleanup, Discard, Fence
<1>3. ASSUME NEW t \in Takeovers, ClaimFails(t) \/ Retire(t) \/ Dispatch(t) \/ Recover(t)
      PROVE  UNCHANGED sent
  BY <1>3 DEF ClaimFails, Retire, Dispatch, Recover
<1>4. ASSUME Launch \/ ReconcileProvisioning \/ Crash \/ ReapObserve \/ ReapWrite
      PROVE  UNCHANGED sent
  BY <1>4 DEF Launch, ReconcileProvisioning, Crash, ReapObserve, ReapWrite
<1>5. ASSUME NEW t \in Takeovers, NEW o \in Terminals, Request(t, o) PROVE UNCHANGED sent
  BY <1>5 DEF Request
<1>6. ASSUME NEW t \in Terminals, Abandon(t) \/ ProviderEnds(t) \/ PaneGoes(t) \/ Acquire(t) \/ Paste(t) \/ TransportExpires(t) \/ WorkSettles(t) \/ Reap(t)
      PROVE  UNCHANGED sent
  BY <1>6 DEF Abandon, ProviderEnds, PaneGoes, Acquire, Paste, TransportExpires, WorkSettles, Reap
<1>7. ASSUME NEW e \in Exiters, NEW t \in ExitTargets, ExitBegin(e, t) PROVE UNCHANGED sent
  BY <1>7 DEF ExitBegin
<1>8. ASSUME NEW e \in Exiters, ExitClaim(e) PROVE UNCHANGED sent
  BY <1>8 DEF ExitClaim
<1>9. ASSUME UNCHANGED sent PROVE sent' \in [Terminals -> [early : Nat, late : Nat]]
  BY <1>9 DEF TypeOK
<1> QED BY <1>1, <1>2, <1>3, <1>4, <1>5, <1>6, <1>7, <1>8, <1>9 DEF Next, JobStep, Saga, Reaper, vars

(* The rest.                                                               *)
LEMMA RestType ==
  ASSUME TypeOK, [Next]_vars
  PROVE  tree' \in BOOLEAN /\ busy' \in SUBSET Terminals /\ faults' \in 0..MaxFaults /\ inputs' \in 0..MaxInputs
<1>1. ASSUME Provision PROVE tree' \in BOOLEAN /\ busy' \in SUBSET Terminals /\ faults' \in 0..MaxFaults /\ inputs' \in 0..MaxInputs
  BY <1>1, Numbers DEF TypeOK, Provision
<1>2. ASSUME Discard PROVE tree' \in BOOLEAN /\ busy' \in SUBSET Terminals /\ faults' \in 0..MaxFaults /\ inputs' \in 0..MaxInputs
  BY <1>2, Numbers DEF TypeOK, Discard
<1>3. ASSUME ReconcileProvisioning PROVE tree' \in BOOLEAN /\ busy' \in SUBSET Terminals /\ faults' \in 0..MaxFaults /\ inputs' \in 0..MaxInputs
  BY <1>3, Numbers DEF TypeOK, ReconcileProvisioning
<1>4. ASSUME NEW t \in Terminals, Paste(t) PROVE tree' \in BOOLEAN /\ busy' \in SUBSET Terminals /\ faults' \in 0..MaxFaults /\ inputs' \in 0..MaxInputs
  BY <1>4, Numbers DEF TypeOK, Paste
<1>5. ASSUME NEW t \in Terminals, WorkSettles(t) PROVE tree' \in BOOLEAN /\ busy' \in SUBSET Terminals /\ faults' \in 0..MaxFaults /\ inputs' \in 0..MaxInputs
  BY <1>5, Numbers DEF TypeOK, WorkSettles
<1>6. ASSUME ReapWrite PROVE tree' \in BOOLEAN /\ busy' \in SUBSET Terminals /\ faults' \in 0..MaxFaults /\ inputs' \in 0..MaxInputs
  BY <1>6, Numbers DEF TypeOK, ReapWrite
<1>7. ASSUME NEW e \in Exiters, ExitSend(e) PROVE tree' \in BOOLEAN /\ busy' \in SUBSET Terminals /\ faults' \in 0..MaxFaults /\ inputs' \in 0..MaxInputs
  BY <1>7, Numbers DEF TypeOK, ExitSend
<1>8. ASSUME Start PROVE tree' \in BOOLEAN /\ busy' \in SUBSET Terminals /\ faults' \in 0..MaxFaults /\ inputs' \in 0..MaxInputs
  BY <1>8, Numbers DEF TypeOK, Start
<1>9. ASSUME Crash PROVE tree' \in BOOLEAN /\ busy' \in SUBSET Terminals /\ faults' \in 0..MaxFaults /\ inputs' \in 0..MaxInputs
  BY <1>9, Numbers DEF TypeOK, Crash
<1>10. ASSUME NEW t \in Terminals, Acquire(t) PROVE tree' \in BOOLEAN /\ busy' \in SUBSET Terminals /\ faults' \in 0..MaxFaults /\ inputs' \in 0..MaxInputs
  BY <1>10, Numbers DEF TypeOK, Acquire
<1>11. ASSUME Create \/ Row \/ Publish \/ Admit \/ Complete \/ Cleanup \/ Fence
       PROVE  UNCHANGED <<tree, busy, faults, inputs>>
  BY <1>11 DEF Create, Row, Publish, Admit, Complete, Cleanup, Fence
<1>12. ASSUME NEW t \in Takeovers, ClaimFails(t) \/ Retire(t) \/ Dispatch(t) \/ Recover(t)
       PROVE  UNCHANGED <<tree, busy, faults, inputs>>
  BY <1>12 DEF ClaimFails, Retire, Dispatch, Recover
<1>13. ASSUME Launch \/ ReapObserve PROVE UNCHANGED <<tree, busy, faults, inputs>>
  BY <1>13 DEF Launch, ReapObserve
<1>14. ASSUME NEW t \in Takeovers, NEW o \in Terminals, Request(t, o)
       PROVE  UNCHANGED <<tree, busy, faults, inputs>>
  BY <1>14 DEF Request
<1>15. ASSUME NEW t \in Terminals, Abandon(t) \/ ProviderEnds(t) \/ PaneGoes(t) \/ TransportExpires(t) \/ Reap(t)
       PROVE  UNCHANGED <<tree, busy, faults, inputs>>
  BY <1>15 DEF Abandon, ProviderEnds, PaneGoes, TransportExpires, Reap
<1>16. ASSUME NEW e \in Exiters, NEW t \in ExitTargets, ExitBegin(e, t)
       PROVE  UNCHANGED <<tree, busy, faults, inputs>>
  BY <1>16 DEF ExitBegin
<1>17. ASSUME NEW e \in Exiters, ExitClaim(e) PROVE UNCHANGED <<tree, busy, faults, inputs>>
  BY <1>17 DEF ExitClaim
<1>18. ASSUME UNCHANGED <<tree, busy, faults, inputs>> PROVE tree' \in BOOLEAN /\ busy' \in SUBSET Terminals /\ faults' \in 0..MaxFaults /\ inputs' \in 0..MaxInputs
  BY <1>18 DEF TypeOK
<1> QED BY <1>1, <1>2, <1>3, <1>4, <1>5, <1>6, <1>7, <1>8, <1>9, <1>10, <1>11, <1>12, <1>13, <1>14, <1>15, <1>16, <1>17, <1>18 DEF Next, JobStep, Saga, Reaper, vars

Statuses == {"none", "completed", "failed", "dispatch_uncertain"} \cup Open

(* The statuses of a takeover.                                             *)
LEMMA StatusNames ==
  /\ "completed" \in Statuses /\ "failed" \in Statuses /\ "dispatch_uncertain" \in Statuses
  /\ "claimed" \in Statuses /\ "fenced" \in Statuses /\ "dispatching" \in Statuses
  /\ "admitted" \in Statuses
  BY DEF Statuses, Open

(* Setting a status keeps the type.                                        *)
LEMMA TkSet ==
  ASSUME tk \in [Takeovers -> TakeoverRow], NEW t, NEW s \in Statuses
  PROVE  [tk EXCEPT ![t].st = s] \in [Takeovers -> TakeoverRow]
<1>1. CASE t \in Takeovers
  <2>1. [tk[t] EXCEPT !.st = s] \in TakeoverRow
    BY <1>1 DEF TakeoverRow, Statuses
  <2> QED BY <2>1
<1>2. CASE t \notin Takeovers
  BY <1>2
<1> QED BY <1>1, <1>2

(* So does marking it uncertain.                                           *)
LEMMA UncertainType ==
  ASSUME tk \in [Takeovers -> TakeoverRow], NEW t
  PROVE  Uncertain(t) \in [Takeovers -> TakeoverRow]
<1>1. CASE t \notin Takeovers
  BY <1>1 DEF Uncertain
<1>2. CASE t \in Takeovers
  <2>1. tk[t] \in TakeoverRow
    BY <1>2
  <2>2. CASE tk[t].st \in {"dispatching", "admitted"}
    <3>1. Uncertain(t) = [tk EXCEPT ![t].st = "dispatch_uncertain"]
      BY <2>2 DEF Uncertain
    <3>2. [tk EXCEPT ![t].st = "dispatch_uncertain"] \in [Takeovers -> TakeoverRow]
      BY StatusNames, TkSet
    <3> QED BY <3>1, <3>2
  <2>3. CASE tk[t].st \notin {"dispatching", "admitted"}
    <3>1. Uncertain(t) = [tk EXCEPT ![t].st = tk[t].st]
      BY <2>3 DEF Uncertain
    <3>2. tk[t].st \in Statuses
      BY <2>1 DEF TakeoverRow, Statuses
    <3>3. [tk EXCEPT ![t].st = tk[t].st] \in [Takeovers -> TakeoverRow]
      BY <3>2, TkSet
    <3> QED BY <3>1, <3>3
  <2> QED BY <2>2, <2>3
<1> QED BY <1>1, <1>2

(* So does the confirmed failure of a launch.                              *)
LEMMA ResetType ==
  ASSUME TypeOK, NEW t, ResetBy(t)
  PROVE  tk' \in [Takeovers -> TakeoverRow] /\ life' \in [Terminals -> Lives] /\ op' \in [Terminals -> Ops]
<1>1. Reset(t) \in Statuses
  BY StatusNames DEF Reset
<1>2. tk \in [Takeovers -> TakeoverRow]
  BY DEF TypeOK
<1>3. tk' = tk \/ tk' = [tk EXCEPT ![t].st = Reset(t)]
  BY DEF ResetBy
<1>4. tk' \in [Takeovers -> TakeoverRow]
  BY <1>1, <1>2, <1>3, TkSet
<1> QED BY <1>4 DEF ResetBy, TypeOK, Lives, Ops

(* The free lock.                                                          *)
LEMMA NoJobType == NoJob \in JobRow
  BY Numbers DEF NoJob, JobRow, Steps

(* The holder of the lock.                                                 *)
LEMMA JobType ==
  ASSUME TypeOK, [Next]_vars
  PROVE  job' \in JobRow
<1>1. ASSUME Launch PROVE job' \in JobRow
  <2>1. job' = [NoJob EXCEPT !.step = "provision"]
    BY <1>1 DEF Launch, Goto
  <2>2. job \in JobRow
    BY DEF TypeOK
  <2> QED BY <2>1, <2>2, NoJobType, Numbers DEF JobRow, NoJob, Steps
<1>2. ASSUME Provision PROVE job' \in JobRow
  <2>1. \/ job' = [job EXCEPT !.step = "create"]
        \/ job' = NoJob
    BY <1>2 DEF Provision, Goto
  <2>2. job \in JobRow
    BY DEF TypeOK
  <2> QED BY <2>1, <2>2, NoJobType, Numbers DEF JobRow, Steps
<1>3. ASSUME Create PROVE job' \in JobRow
  <2>1. \/ job' = [job EXCEPT !.step = "cleanup"]
        \/ job' = [job EXCEPT !.step = "row", !.made = TRUE]
        \/ job' = [job EXCEPT !.step = "cleanup", !.made = TRUE]
    BY <1>3 DEF Create, Goto
  <2>2. job \in JobRow
    BY DEF TypeOK
  <2> QED BY <2>1, <2>2, NoJobType, Numbers DEF JobRow, Steps
<1>4. ASSUME Row PROVE job' \in JobRow
  <2>1. \/ job' = [job EXCEPT !.step = "start"]
        \/ job' = [job EXCEPT !.step = "cleanup"]
    BY <1>4 DEF Row, Goto
  <2>2. job \in JobRow
    BY DEF TypeOK
  <2> QED BY <2>1, <2>2, NoJobType, Numbers DEF JobRow, Steps
<1>5. ASSUME Start PROVE job' \in JobRow
  <2>1. \/ job' = [job EXCEPT !.step = "publish"]
        \/ job' = [job EXCEPT !.step = "cleanup"]
        \/ job' = NoJob
    BY <1>5 DEF Start, Goto
  <2>2. job \in JobRow
    BY DEF TypeOK
  <2> QED BY <2>1, <2>2, NoJobType, Numbers DEF JobRow, Steps
<1>6. ASSUME Publish PROVE job' \in JobRow
  <2>1. \/ job' = [job EXCEPT !.step = "admit"]
        \/ job' = [job EXCEPT !.step = "cleanup"]
        \/ job' = NoJob
    BY <1>6 DEF Publish, GiveUp, Goto
  <2>2. job \in JobRow
    BY DEF TypeOK
  <2> QED BY <2>1, <2>2, NoJobType, Numbers DEF JobRow, Steps
<1>7. ASSUME Admit PROVE job' \in JobRow
  <2>1. \/ job' = [job EXCEPT !.step = "complete"]
        \/ job' = [job EXCEPT !.step = "cleanup"]
        \/ job' = NoJob
    BY <1>7 DEF Admit, GiveUp, Goto
  <2>2. job \in JobRow
    BY DEF TypeOK
  <2> QED BY <2>1, <2>2, NoJobType, Numbers DEF JobRow, Steps
<1>8. ASSUME Complete PROVE job' \in JobRow
  <2>1. \/ job' = [job EXCEPT !.step = "cleanup"]
        \/ job' = NoJob
    BY <1>8 DEF Complete, Goto
  <2>2. job \in JobRow
    BY DEF TypeOK
  <2> QED BY <2>1, <2>2, NoJobType, Numbers DEF JobRow, Steps
<1>9. ASSUME Cleanup PROVE job' \in JobRow
  <2>1. \/ job' = [job EXCEPT !.step = "discard"]
        \/ job' = NoJob
    BY <1>9 DEF Cleanup, Goto
  <2>2. job \in JobRow
    BY DEF TypeOK
  <2> QED BY <2>1, <2>2, NoJobType, Numbers DEF JobRow, Steps
<1>10. ASSUME Discard PROVE job' \in JobRow
  <2>1. job' = NoJob
    BY <1>10 DEF Discard, Goto
  <2>2. job \in JobRow
    BY DEF TypeOK
  <2> QED BY <2>1, <2>2, NoJobType, Numbers DEF JobRow, Steps
<1>11. ASSUME NEW t \in Takeovers, Retire(t) PROVE job' \in JobRow
  <2>1. job' = [NoJob EXCEPT !.step = "fence", !.t = t]
    BY <1>11 DEF Retire, Goto
  <2>2. job \in JobRow
    BY DEF TypeOK
  <2> QED BY <2>1, <2>2, NoJobType, Numbers DEF JobRow, NoJob, Steps
<1>12. ASSUME Fence PROVE job' \in JobRow
  <2>1. \/ job' = [job EXCEPT !.step = "dispatch"]
        \/ job' = NoJob
    BY <1>12 DEF Fence, Goto
  <2>2. job \in JobRow
    BY DEF TypeOK
  <2> QED BY <2>1, <2>2, NoJobType, Numbers DEF JobRow, Steps
<1>13. ASSUME NEW t \in Takeovers, Dispatch(t) PROVE job' \in JobRow
  <2>1. \/ job' = [NoJob EXCEPT !.step = "create", !.t = t]
        \/ job' = NoJob
    BY <1>13 DEF Dispatch, LaunchClaimed, Goto
  <2>2. job \in JobRow
    BY DEF TypeOK
  <2> QED BY <2>1, <2>2, NoJobType, Numbers DEF JobRow, NoJob, Steps
<1>14. ASSUME NEW t \in Takeovers, Recover(t) PROVE job' \in JobRow
  <2>1. \/ job' = job
        \/ job' = [NoJob EXCEPT !.step = "admit", !.t = t, !.again = TRUE]
        \/ job' = [NoJob EXCEPT !.step = "start", !.t = t, !.again = TRUE]
        \/ job' = [NoJob EXCEPT !.step = "publish", !.t = t, !.again = TRUE]
    BY <1>14 DEF Recover, Goto
  <2>2. job \in JobRow
    BY DEF TypeOK
  <2> QED BY <2>1, <2>2, NoJobType, Numbers DEF JobRow, NoJob, Steps
<1>15. ASSUME Crash PROVE job' \in JobRow
  <2>1. job' = NoJob
    BY <1>15 DEF Crash, Goto
  <2>2. job \in JobRow
    BY DEF TypeOK
  <2> QED BY <2>1, <2>2, NoJobType, Numbers DEF JobRow, Steps
<1>16. ASSUME NEW t \in Takeovers, ClaimFails(t) PROVE UNCHANGED job
  BY <1>16 DEF ClaimFails
<1>17. ASSUME ReconcileProvisioning \/ ReapObserve \/ ReapWrite PROVE UNCHANGED job
  BY <1>17 DEF ReconcileProvisioning, ReapObserve, ReapWrite
<1>18. ASSUME NEW t \in Takeovers, NEW o \in Terminals, Request(t, o) PROVE UNCHANGED job
  BY <1>18 DEF Request
<1>19. ASSUME NEW t \in Terminals, Abandon(t) \/ ProviderEnds(t) \/ PaneGoes(t) \/ Acquire(t) \/ Paste(t) \/ TransportExpires(t) \/ WorkSettles(t) \/ Reap(t)
       PROVE  UNCHANGED job
  BY <1>19 DEF Abandon, ProviderEnds, PaneGoes, Acquire, Paste, TransportExpires, WorkSettles, Reap
<1>20. ASSUME NEW e \in Exiters, NEW t \in ExitTargets, ExitBegin(e, t) PROVE UNCHANGED job
  BY <1>20 DEF ExitBegin
<1>21. ASSUME NEW e \in Exiters, ExitClaim(e) \/ ExitSend(e) PROVE UNCHANGED job
  BY <1>21 DEF ExitClaim, ExitSend
<1>22. ASSUME UNCHANGED job PROVE job' \in JobRow
  BY <1>22 DEF TypeOK
<1> QED BY <1>1, <1>2, <1>3, <1>4, <1>5, <1>6, <1>7, <1>8, <1>9, <1>10, <1>11, <1>12, <1>13, <1>14, <1>15, <1>16, <1>17, <1>18, <1>19, <1>20, <1>21, <1>22 DEF Next, JobStep, Saga, Reaper, vars

(* The takeovers.                                                          *)
LEMMA TkType ==
  ASSUME TypeOK, Stages, [Next]_vars
  PROVE  tk' \in [Takeovers -> TakeoverRow]
<1>0. TypeOK /\ tk \in [Takeovers -> TakeoverRow]
  BY DEF TypeOK
<1>1. ASSUME Row PROVE tk' \in [Takeovers -> TakeoverRow]
  <2>1. \/ tk' = tk
        \/ tk' = [tk EXCEPT ![job.t].st = "admitted"]
    BY <1>1 DEF Row, RowWritten
  <2> QED BY <1>0, <2>1, TkSet, UncertainType, ResetType, StatusNames
<1>2. ASSUME Publish PROVE tk' \in [Takeovers -> TakeoverRow]
  <2>1. \/ tk' = tk
        \/ tk' = Uncertain(job.t)
    BY <1>2 DEF Publish, GiveUp
  <2> QED BY <1>0, <2>1, TkSet, UncertainType, ResetType, StatusNames
<1>3. ASSUME Admit PROVE tk' \in [Takeovers -> TakeoverRow]
  <2>1. \/ tk' = tk
        \/ tk' = Uncertain(job.t)
    BY <1>3 DEF Admit, GiveUp
  <2> QED BY <1>0, <2>1, TkSet, UncertainType, ResetType, StatusNames
<1>4. ASSUME Complete PROVE tk' \in [Takeovers -> TakeoverRow]
  <2>1. \/ tk' = tk
        \/ tk' = [tk EXCEPT ![job.t].st = "completed"]
    BY <1>4 DEF Complete
  <2> QED BY <1>0, <2>1, TkSet, UncertainType, ResetType, StatusNames
<1>5. ASSUME Cleanup PROVE tk' \in [Takeovers -> TakeoverRow]
  <2>1. \/ tk' = tk
        \/ tk' = Uncertain(job.t)
        \/ ResetBy(job.t)
    BY <1>5 DEF Cleanup
  <2> QED BY <1>0, <2>1, TkSet, UncertainType, ResetType, StatusNames
<1>6. ASSUME NEW t \in Takeovers, ClaimFails(t) PROVE tk' \in [Takeovers -> TakeoverRow]
  <2>1. tk' = [tk EXCEPT ![t].st = "failed"]
    BY <1>6 DEF ClaimFails
  <2> QED BY <1>0, <2>1, TkSet, UncertainType, ResetType, StatusNames
<1>7. ASSUME NEW t \in Takeovers, Recover(t) PROVE tk' \in [Takeovers -> TakeoverRow]
  <2>1. \/ tk' = tk
        \/ tk' = Uncertain(t)
        \/ ResetBy(t)
    BY <1>7 DEF Recover
  <2> QED BY <1>0, <2>1, TkSet, UncertainType, ResetType, StatusNames
<1>8. ASSUME NEW t \in Takeovers, NEW o \in Terminals, Request(t, o) PROVE tk' \in [Takeovers -> TakeoverRow]
  <2>1. tk' = [tk EXCEPT ![t].st = "claimed", ![t].old = o]
    BY <1>8 DEF Request, ClaimWritten
  <2>2. tk'[t] \in TakeoverRow
    BY <1>0, <2>1 DEF TakeoverRow, Open
  <2> QED BY <1>0, <2>1, <2>2
<1>9. ASSUME Fence PROVE tk' \in [Takeovers -> TakeoverRow]
  <2>1. \/ tk' = [tk EXCEPT ![job.t].st = "fenced", ![job.t].fenced = TRUE]
        \/ tk' = [tk EXCEPT ![job.t].st = "failed"]
    BY <1>9 DEF Fence
  <2>2. job.t \in Takeovers => tk[job.t] \in TakeoverRow
    BY <1>0
  <2>3. job.t \in Takeovers => tk'[job.t] \in TakeoverRow
    BY <1>0, <2>1, <2>2 DEF TakeoverRow, Open
  <2> QED BY <1>0, <2>1, <2>3
<1>10. ASSUME NEW t \in Takeovers, Dispatch(t) PROVE tk' \in [Takeovers -> TakeoverRow]
  <2>1. \/ tk' = [tk EXCEPT ![t].st = "failed"]
        \/ \E s \in {"dispatching", "dispatch_uncertain"} :
              tk' = [tk EXCEPT ![t].st = s, ![t].attempts = @ + 1]
    BY <1>10 DEF Dispatch, LaunchClaimed
  <2>2. tk[t] \in TakeoverRow /\ tk[t].attempts < MaxDispatches
    BY <1>0, <1>10 DEF Stages, Dispatch
  <2>3. tk[t].attempts + 1 \in 0..MaxDispatches
    BY <2>2, Numbers DEF TakeoverRow
  <2>4. tk'[t] \in TakeoverRow
    BY <1>0, <2>1, <2>2, <2>3 DEF TakeoverRow, Open
  <2> QED BY <1>0, <2>1, <2>4
<1>11. ASSUME Provision \/ Create \/ Start \/ Discard PROVE UNCHANGED tk
  BY <1>11 DEF Provision, Create, Start, Discard
<1>12. ASSUME NEW t \in Takeovers, Retire(t) PROVE UNCHANGED tk
  BY <1>12 DEF Retire
<1>13. ASSUME Launch \/ ReconcileProvisioning \/ Crash \/ ReapObserve \/ ReapWrite
       PROVE  UNCHANGED tk
  BY <1>13 DEF Launch, ReconcileProvisioning, Crash, ReapObserve, ReapWrite
<1>14. ASSUME NEW t \in Terminals, Abandon(t) \/ ProviderEnds(t) \/ PaneGoes(t) \/ Acquire(t) \/ Paste(t) \/ TransportExpires(t) \/ WorkSettles(t) \/ Reap(t)
       PROVE  UNCHANGED tk
  BY <1>14 DEF Abandon, ProviderEnds, PaneGoes, Acquire, Paste, TransportExpires, WorkSettles, Reap
<1>15. ASSUME NEW e \in Exiters, NEW t \in ExitTargets, ExitBegin(e, t) PROVE UNCHANGED tk
  BY <1>15 DEF ExitBegin
<1>16. ASSUME NEW e \in Exiters, ExitClaim(e) \/ ExitSend(e) PROVE UNCHANGED tk
  BY <1>16 DEF ExitClaim, ExitSend
<1>17. ASSUME UNCHANGED tk PROVE tk' \in [Takeovers -> TakeoverRow]
  BY <1>17 DEF TypeOK
<1> QED BY <1>1, <1>2, <1>3, <1>4, <1>5, <1>6, <1>7, <1>8, <1>9, <1>10, <1>11, <1>12, <1>13, <1>14, <1>15, <1>16, <1>17 DEF Next, JobStep, Saga, Reaper, vars

(* All types together.                                                     *)
LEMMA TypeKept ==
  ASSUME Base, [Next]_vars
  PROVE  TypeOK'
<1>1. lease' \in Terminals \cup {Nobody}
  <2>1. LeaseMoves
    BY LeaseStep DEF Base
  <2>2. Row /\ RowValid(job.t) => lease' = job.t
    BY RowIsFirst DEF Base
  <2> QED BY <2>1, <2>2, Types DEF LeaseMoves, Base
<1>2. /\ life' \in [Terminals -> Lives] /\ op' \in [Terminals -> Ops]
      /\ pane' \in [Terminals -> {"none", "shell", "provider", "orphan"}]
      /\ ctx' \in CtxRow /\ tk' \in [Takeovers -> TakeoverRow] /\ job' \in JobRow
  BY LifeType, OpType, PaneType, CtxType, TkType, JobType DEF Base
<1>3. /\ exits' \in [Exiters -> ExitRow] /\ reap' \in ReapRow
      /\ sent' \in [Terminals -> [early : Nat, late : Nat]]
      /\ tree' \in BOOLEAN /\ busy' \in SUBSET Terminals
      /\ faults' \in 0..MaxFaults /\ inputs' \in 0..MaxInputs
  BY ExitsType, ReapType, SentType, RestType DEF Base
<1>4. \A u \in Terminals : life'[u] \in {"none"} \cup Ended => op'[u] = "none"
  BY IdleOps DEF Base
<1> QED BY <1>1, <1>2, <1>3, <1>4 DEF TypeOK

-----------------------------------------------------------------------------
(* Every behaviour keeps the inductive invariant.                           *)
LEMMA Begins == Init => IInv
<1> SUFFICES ASSUME Init PROVE IInv
  OBVIOUS
<1>1. /\ \A t \in Terminals : /\ life[t] = "none" /\ op[t] = "none" /\ pane[t] = "none"
                              /\ sent[t].early = 0 /\ sent[t].late = 0
      /\ \A t \in Takeovers : tk[t].st = "none" /\ ~tk[t].fenced /\ tk[t].attempts = 0
      /\ \A e \in Exiters : exits[e].step = "idle"
      /\ job.step = "idle" /\ reap.step = "idle" /\ ctx.term = 0 /\ ctx.st = "none"
      /\ lease = Nobody
  BY DEF Init, NoJob, NoReap, NoExit
<1>2. TypeOK
  <2>1. /\ job \in JobRow /\ reap \in ReapRow /\ exits \in [Exiters -> ExitRow]
    BY NoJobType, NoReapType, NoExitType DEF Init
  <2>2. tk \in [Takeovers -> TakeoverRow]
    BY Numbers DEF Init, TakeoverRow
  <2>3. ctx \in CtxRow
    BY Numbers DEF Init, CtxRow
  <2>4. /\ life \in [Terminals -> Lives] /\ op \in [Terminals -> Ops]
        /\ pane \in [Terminals -> {"none", "shell", "provider", "orphan"}]
        /\ sent \in [Terminals -> [early : Nat, late : Nat]]
    BY DEF Init, Lives, Ops
  <2>5. faults \in 0..MaxFaults /\ inputs \in 0..MaxInputs
    BY Numbers DEF Init
  <2>6. tree \in BOOLEAN /\ busy \in SUBSET Terminals
    BY DEF Init
  <2> QED BY <1>1, <2>1, <2>2, <2>3, <2>4, <2>5, <2>6 DEF TypeOK
<1>3. Stages /\ Replaced /\ JobFits /\ ReapFits
  BY <1>1, Numbers DEF Stages, Replaced, JobFits, ReapFits, Idle, Open
<1>4. WrittenOnce /\ LeaseFollows
  BY <1>1, Numbers DEF WrittenOnce, LeaseFollows, Live, Early
<1>5. AskedOnce /\ ExitOnce
  BY <1>1 DEF AskedOnce, ExitOnce, Sending
<1> QED BY <1>2, <1>3, <1>4, <1>5 DEF IInv

(* Every step keeps the inductive invariant.                               *)
LEMMA Keeps == IInv /\ [Next]_vars => IInv'
<1> SUFFICES ASSUME IInv, [Next]_vars PROVE IInv'
  OBVIOUS
<1>1. Base /\ AskedOnce /\ ExitOnce
  BY DEF IInv, Base
<1>2. TypeOK' /\ WrittenOnce' /\ LeaseFollows' /\ Replaced' /\ JobFits' /\ ReapFits'
  BY <1>1, TypeKept, WrittenStep, LeaseKept, ReplacedKept, JobKept, ReapKept
<1>3. Stages'
  BY <1>1, StagesStep DEF Base
<1>4. AskedOnce' /\ ExitOnce'
  BY <1>1, AskedKept
<1> QED BY <1>2, <1>3, <1>4 DEF IInv

(* Invariance: in every behaviour a takeover's row says how far it came, a  *)
(* terminal's row is written once, the writer lease is with the terminal of *)
(* the context or with nobody, a fenced supervisor is not revived, and what *)
(* an exit has claimed is remembered by the row (clients/database.py's      *)
(* takeover transactions, create_terminal and claim_terminal_runtime_exit). *)
THEOREM Invariance == Spec => []IInv
  BY Begins, Keeps, PTL DEF Spec

(* Every variable keeps its type, and a runtime that is gone has no         *)
(* operation: whoever ends a lifecycle clears runtime_operation_kind.       *)
THEOREM TypeCorrect == Spec => []TypeOK
<1>1. IInv => TypeOK
  BY DEF IInv
<1> QED BY <1>1, Invariance, PTL

(* At most one supervisor may work, whatever writes the worktree holds the  *)
(* lease, and one that fence_claimed_recovery_takeover has replaced neither *)
(* lives, works nor gets the lease again: for any number of takeovers,      *)
(* exits, launches, reconciliations and crashes in between.                 *)
THEOREM One == Spec => []OneSupervisor
<1>1. ASSUME IInv PROVE OneSupervisor
  <2> DEFINE working == {t \in Terminals : life[t] \in {"starting", "running"}}
  <2>1. \A t \in Terminals : pane[t] \in {"provider", "orphan"} => lease = t
    BY <1>1 DEF IInv, LeaseFollows
  <2>2. Cardinality(working) <= 1
    <3>1. working \subseteq {ctx.term}
      BY <1>1 DEF IInv, WrittenOnce, Live, Ended
    <3>2. IsFiniteSet({ctx.term}) /\ Cardinality({ctx.term}) = 1
      BY FS_Singleton
    <3> HIDE DEF working
    <3>3. Cardinality(working) <= Cardinality({ctx.term})
      BY <3>1, <3>2, FS_Subset
    <3> QED BY <3>2, <3>3
  <2>3. Replaced
    BY <1>1 DEF IInv
  <2> QED BY <2>1, <2>2, <2>3 DEF OneSupervisor, Replaced
<1> QED BY <1>1, Invariance, PTL

(* A runtime is sent at most one exit command that was claimed before it    *)
(* was published and one after: claim_terminal_runtime_exit commits before  *)
(* the command goes out, and no crash, publication or reconciliation in     *)
(* between lets a second caller claim it.                                   *)
THEOREM Once == Spec => []ExitOnce
<1>1. IInv => ExitOnce
  BY DEF IInv
<1> QED BY <1>1, Invariance, PTL
=============================================================================
