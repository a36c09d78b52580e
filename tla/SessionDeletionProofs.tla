----------------------- MODULE SessionDeletionProofs ------------------------
(***************************************************************************)
(* A fenced Session is dead, its receipt is true and its worktree goes     *)
(* only when nobody runs in it, for any number of Sessions that took over  *)
(* from each other, any edits and any crashes.  The last section is about  *)
(* the notifications of the Session, whose unknown outcomes its deletion   *)
(* retires under the same fence (TelegramDelivery).                        *)
(***************************************************************************)
EXTENDS SessionDeletion, TelegramDelivery, TLAPS

(* Where the Sessions stand: a Session that is taken over was fenced for it  *)
(* first, and one that was ever launched had all before it completed.        *)
Lineage ==
    /\ \A k \in Session : tk[k] # "none" => k < N /\ life[k] \in {"fenced", "deleted"}
    /\ \A k \in Session : tk[k] = "fenced" => life[k] = "fenced"
    /\ \A k, j \in Session : life[k] # "none" /\ j < k => tk[j] = "completed"

(* What a fence and a receipt say of their Session.                          *)
Ended ==
    \A k \in Session :
        /\ op[k].st # "none" => life[k] \in {"exited", "fenced"}
        /\ receipt[k] # "none" => life[k] = "deleted"
        /\ op[k].st # "none" \/ receipt[k] # "none" => child[k] # "running" /\ work[k] # "open"

(* Who holds the writer lease, and whose the context is.                     *)
Holder ==
    lease # 0 => \/ life[lease] = "running"
                 \/ \E j \in Session : lease = j + 1 /\ tk[j] \in {"fenced", "failed"}
Owner ==
    \A k \in Session : life[k] = "running" \/ tk[k] = "fenced" => ctx.owner = k

(* Who is about to remove the worktree knows that nobody runs in it.         *)
Quiet ==
    job.step \in {"purge", "remove"} =>
        \A k \in Session : life[k] # "running" /\ tk[k] # "fenced"

(* How far the removal has come.                                             *)
Removal ==
    \A k \in Session : job.k = k =>
        /\ job.step \in {"purge", "branch", "retire", "mark", "complete"} => op[k].disp # "none"
        /\ job.step \in {"branch", "retire"} => ~tree.present
        /\ job.step = "retire" => ~tree.branch
        /\ job.step \in {"mark", "complete"} /\ op[k].disp = "retired"
             => ~tree.present /\ ~tree.branch

(* What is preserved belongs to a Session of a completed takeover.           *)
Successors(k) == {k - 1, k} \cap Session
Preserved ==
    \A k \in Session : op[k].disp = "foreign" => \E j \in Successors(k) : tk[j] = "completed"

(* A confirmation that something may go was given by somebody.               *)
Consented ==
    /\ \A k \in Session : op[k].allow => consent
    /\ job.allow => consent
    /\ ctx.dirty => consent

IInv == /\ TypeOK /\ Lineage /\ Ended /\ Holder /\ Owner /\ Quiet
        /\ Removal /\ ReceiptIsTrue /\ Preserved /\ Consented

-----------------------------------------------------------------------------
(* Which actions change which variable; job aside, which nearly all of     *)
(* them do.                                                                *)
LEMMA Steps ==
    ASSUME [Next]_vars
    PROVE
      /\ \/ UNCHANGED life
         \/ \E k \in Session : Complete(k) \/ Fence(k) \/ Launch(k) \/ Exit(k)
      /\ \/ UNCHANGED child
         \/ \E k \in Session : Complete(k) \/ AskChild(k) \/ CreateChild(k) \/ ChildExits(k) \/ DeleteChild(k)
         \/ Crash
      /\ \/ UNCHANGED work
         \/ \E k \in Session : Cancel(k) \/ Sweep(k) \/ Input(k) \/ Done(k)
      /\ \/ UNCHANGED tk
         \/ \E k \in Session : Fence(k) \/ Launch(k) \/ LaunchFails(k)
      /\ \/ UNCHANGED lease
         \/ \E k \in Session : Fence(k) \/ Exit(k)
      /\ \/ UNCHANGED ctx
         \/ \E k \in Session : Claim(k) \/ Retire(k) \/ Complete(k) \/ Launch(k)
         \/ \E allow \in BOOLEAN : KeepNew(allow)
         \/ Removed
      /\ \/ UNCHANGED tree
         \/ \E k \in Session : Purge(k) \/ PurgeBranch(k)
         \/ Remove
         \/ Edit
      /\ \/ UNCHANGED op
         \/ \E k \in Session : Begin(k) \/ Bind(k) \/ Preserve(k) \/ Mark(k) \/ Complete(k)
      /\ \/ UNCHANGED receipt
         \/ \E k \in Session : Complete(k)
      /\ \/ UNCHANGED consent
         \/ \E k \in Session, yes \in BOOLEAN : Request(k, yes)
         \/ \E allow \in BOOLEAN : KeepNew(allow)
      /\ \/ UNCHANGED crashes
         \/ Crash
<1>1. CASE UNCHANGED vars
  BY <1>1 DEF vars
<1>2. CASE \E k \in Session, yes \in BOOLEAN : Request(k, yes)
  <2>1. UNCHANGED <<life, child, work, tk, lease, ctx, tree, op, receipt, crashes>>
    BY <1>2 DEF Request, runtime, durable
  <2> QED  BY <1>2, <2>1
<1>3. CASE \E k \in Session : Cancel(k) \/ Sweep(k)
  <2>1. UNCHANGED <<life, child, tk, lease, ctx, tree, op, receipt, consent, crashes>>
    BY <1>3 DEF Cancel, Sweep, runtime, durable
  <2> QED  BY <1>3, <2>1
<1>4. CASE \E k \in Session : Begin(k)
  <2>1. UNCHANGED <<life, child, work, tk, lease, ctx, tree, receipt, consent, crashes>>
    BY <1>4 DEF Begin, runtime, durable
  <2> QED  BY <1>4, <2>1
<1>5. CASE \E k \in Session : Bind(k)
  <2>1. UNCHANGED <<life, child, work, tk, lease, ctx, tree, receipt, consent, crashes>>
    BY <1>5 DEF Bind, runtime, durable
  <2> QED  BY <1>5, <2>1
<1>6. CASE \E k \in Session : Preserve(k)
  <2>1. UNCHANGED <<life, child, work, tk, lease, ctx, tree, receipt, consent, crashes>>
    BY <1>6 DEF Preserve, runtime, durable
  <2> QED  BY <1>6, <2>1
<1>7. CASE \E k \in Session : Claim(k)
  <2>1. UNCHANGED <<life, child, work, tk, lease, tree, op, receipt, consent, crashes>>
    BY <1>7 DEF Claim, runtime, durable
  <2> QED  BY <1>7, <2>1
<1>8. CASE \E k \in Session : Purge(k)
  <2>1. UNCHANGED <<life, child, work, tk, lease, ctx, op, receipt, consent, crashes>>
    BY <1>8 DEF Purge, runtime, durable
  <2> QED  BY <1>8, <2>1
<1>9. CASE \E k \in Session : PurgeBranch(k)
  <2>1. UNCHANGED <<life, child, work, tk, lease, ctx, op, receipt, consent, crashes>>
    BY <1>9 DEF PurgeBranch, runtime, durable
  <2> QED  BY <1>9, <2>1
<1>10. CASE \E k \in Session : Retire(k)
  <2>1. UNCHANGED <<life, child, work, tk, lease, tree, op, receipt, consent, crashes>>
    BY <1>10 DEF Retire, runtime, durable
  <2> QED  BY <1>10, <2>1
<1>11. CASE \E k \in Session : Mark(k)
  <2>1. UNCHANGED <<life, child, work, tk, lease, ctx, tree, receipt, consent, crashes>>
    BY <1>11 DEF Mark, runtime, durable
  <2> QED  BY <1>11, <2>1
<1>12. CASE \E k \in Session : Complete(k)
  <2>1. UNCHANGED <<work, tk, lease, tree, consent, crashes>>
    BY <1>12 DEF Complete, Purged, runtime, durable
  <2> QED  BY <1>12, <2>1
<1>13. CASE Refuse
  <2>1. UNCHANGED <<life, child, work, tk, lease, ctx, tree, op, receipt, consent, crashes>>
    BY <1>13 DEF Refuse, runtime, durable
  <2> QED  BY <1>13, <2>1
<1>14. CASE \E k \in Session : Retry(k)
  <2>1. UNCHANGED <<life, child, work, tk, lease, ctx, tree, op, receipt, consent, crashes>>
    BY <1>14 DEF Retry, runtime, durable
  <2> QED  BY <1>14, <2>1
<1>15. CASE \E allow \in BOOLEAN : KeepNew(allow)
  <2>1. UNCHANGED <<life, child, work, tk, lease, tree, op, receipt, crashes>>
    BY <1>15 DEF runtime, durable, KeepOld, Keep, KeepNew
  <2> QED  BY <1>15, <2>1
<1>16. CASE KeepOld
  <2>1. UNCHANGED <<life, child, work, tk, lease, ctx, tree, op, receipt, consent, crashes>>
    BY <1>16 DEF runtime, durable, KeepOld, Keep, KeepNew
  <2> QED  BY <1>16, <2>1
<1>17. CASE Remove
  <2>1. UNCHANGED <<life, child, work, tk, lease, ctx, op, receipt, consent, crashes>>
    BY <1>17 DEF Remove, runtime, durable
  <2> QED  BY <1>17, <2>1
<1>18. CASE Removed
  <2>1. UNCHANGED <<life, child, work, tk, lease, tree, op, receipt, consent, crashes>>
    BY <1>18 DEF Removed, runtime, durable
  <2> QED  BY <1>18, <2>1
<1>19. CASE \E k \in Session : Fence(k)
  <2>1. UNCHANGED <<child, work, ctx, tree, op, receipt, consent, crashes>>
    BY <1>19 DEF Fence, runtime, durable
  <2> QED  BY <1>19, <2>1
<1>20. CASE \E k \in Session : Launch(k)
  <2>1. UNCHANGED <<child, work, lease, tree, op, receipt, consent, crashes>>
    BY <1>20 DEF Launch, runtime, durable
  <2> QED  BY <1>20, <2>1
<1>21. CASE \E k \in Session : LaunchFails(k)
  <2>1. UNCHANGED <<life, child, work, lease, ctx, tree, op, receipt, consent, crashes>>
    BY <1>21 DEF LaunchFails, runtime, durable
  <2> QED  BY <1>21, <2>1
<1>22. CASE \E k \in Session : Input(k)
  <2>1. UNCHANGED <<life, child, tk, lease, ctx, tree, op, receipt, consent, crashes>>
    BY <1>22 DEF Input, runtime, durable
  <2> QED  BY <1>22, <2>1
<1>23. CASE \E k \in Session : Done(k)
  <2>1. UNCHANGED <<life, child, tk, lease, ctx, tree, op, receipt, consent, crashes>>
    BY <1>23 DEF Done, runtime, durable
  <2> QED  BY <1>23, <2>1
<1>24. CASE \E k \in Session : AskChild(k)
  <2>1. UNCHANGED <<life, work, tk, lease, ctx, tree, op, receipt, consent, crashes>>
    BY <1>24 DEF AskChild, runtime, durable
  <2> QED  BY <1>24, <2>1
<1>25. CASE \E k \in Session : CreateChild(k)
  <2>1. UNCHANGED <<life, work, tk, lease, ctx, tree, op, receipt, consent, crashes>>
    BY <1>25 DEF CreateChild, runtime, durable
  <2> QED  BY <1>25, <2>1
<1>26. CASE \E k \in Session : ChildExits(k)
  <2>1. UNCHANGED <<life, work, tk, lease, ctx, tree, op, receipt, consent, crashes>>
    BY <1>26 DEF ChildExits, runtime, durable
  <2> QED  BY <1>26, <2>1
<1>27. CASE \E k \in Session : DeleteChild(k)
  <2>1. UNCHANGED <<life, work, tk, lease, ctx, tree, op, receipt, consent, crashes>>
    BY <1>27 DEF DeleteChild, runtime, durable
  <2> QED  BY <1>27, <2>1
<1>28. CASE \E k \in Session : Exit(k)
  <2>1. UNCHANGED <<child, work, tk, ctx, tree, op, receipt, consent, crashes>>
    BY <1>28 DEF Exit, runtime, durable
  <2> QED  BY <1>28, <2>1
<1>29. CASE Edit
  <2>1. UNCHANGED <<life, child, work, tk, lease, ctx, op, receipt, consent, crashes>>
    BY <1>29 DEF Edit, runtime, durable
  <2> QED  BY <1>29, <2>1
<1>30. CASE Crash
  <2>1. UNCHANGED <<life, work, tk, lease, ctx, tree, op, receipt, consent>>
    BY <1>30 DEF Crash, runtime, durable
  <2> QED  BY <1>30, <2>1
<1>31. QED
  BY <1>1, <1>2, <1>3, <1>4, <1>5, <1>6, <1>7, <1>8, <1>9, <1>10, <1>11, <1>12, <1>13, <1>14, <1>15, <1>16, <1>17, <1>18, <1>19, <1>20, <1>21, <1>22, <1>23, <1>24, <1>25, <1>26, <1>27, <1>28, <1>29, <1>30 DEF Next, Delete, Housekeep, Takeover, Beside

(* A supervisor is only fenced for a takeover while it runs, and only the  *)
(* successor of a fenced one is launched: so a Session that exists has     *)
(* every earlier one behind it as a completed takeover.                    *)
LEMMA LineageKept == ASSUME IInv, [Next]_vars PROVE Lineage'
<1> USE DEF IInv
<1>1. ASSUME NEW k \in Session, Fence(k) PROVE Lineage'
  <2>1. /\ life[k] = "running" /\ k < N
        /\ life' = [life EXCEPT ![k] = "fenced"] /\ tk' = [tk EXCEPT ![k] = "fenced"]
    BY <1>1 DEF Fence
  <2>2. tk[k] = "none"
    BY <2>1 DEF Lineage, TypeOK
  <2>3. \A j \in Session : k < j => life[j] = "none"
    BY <2>1, <2>2 DEF Lineage, TypeOK
  <2> QED  BY <2>1, <2>2, <2>3 DEF Lineage, TypeOK, Session
<1>2. ASSUME NEW k \in Session, Launch(k) PROVE Lineage'
  <2>1. /\ tk[k] = "fenced" /\ k + 1 \in Session /\ life[k] = "fenced"
        /\ tk' = [tk EXCEPT ![k] = "completed"] /\ life' = [life EXCEPT ![k + 1] = "running"]
    BY <1>2, ConstantAssumption DEF Launch, Lineage, Session
  <2>2. \A j \in Session : k < j => life[j] = "none"
    BY <2>1 DEF Lineage
  <2>3. \A j \in Session : j < k => tk[j] = "completed"
    BY <2>1 DEF Lineage
  <2>4. tk[k + 1] = "none"
    BY <2>1, <2>2 DEF Lineage, TypeOK, Session
  <2>5. \A i, j \in Session : life'[i] # "none" /\ j < i => tk'[j] = "completed"
    <3>1. SUFFICES ASSUME NEW i \in Session, NEW j \in Session, life'[i] # "none", j < i
                   PROVE  tk'[j] = "completed"
      OBVIOUS
    <3>2. i \in 1..k + 1 /\ j \in 1..k
      BY <3>1, <2>1, <2>2 DEF TypeOK, Session
    <3> QED  BY <3>2, <2>1, <2>3 DEF TypeOK, Session
  <2> QED  BY <2>1, <2>4, <2>5 DEF Lineage, TypeOK, Session
<1>3. ASSUME NEW k \in Session, LaunchFails(k) PROVE Lineage'
  <2>1. /\ tk[k] = "fenced" /\ life' = life /\ tk' = [tk EXCEPT ![k] = "failed"]
    BY <1>3 DEF LaunchFails
  <2>2. \A i, j \in Session : life[i] # "none" /\ j < i => tk'[j] = "completed"
    BY <2>1 DEF Lineage, TypeOK
  <2> QED  BY <2>1, <2>2 DEF Lineage, TypeOK
<1>4. ASSUME NEW k \in Session, Exit(k) PROVE Lineage'
  <2>1. /\ life[k] = "running" /\ tk' = tk /\ life' = [life EXCEPT ![k] = "exited"]
    BY <1>4 DEF Exit
  <2> QED  BY <2>1 DEF Lineage, TypeOK
<1>5. ASSUME NEW k \in Session, Complete(k) PROVE Lineage'
  <2>1. /\ life[k] # "none" /\ tk[k] # "fenced"
        /\ tk' = tk /\ life' = [life EXCEPT ![k] = "deleted"]
    BY <1>5 DEF Complete, Purged, MarkedOK, BoundValid, Valid, Settled, Dead, Gone, Untaken
  <2> QED  BY <2>1 DEF Lineage, TypeOK
<1>6. CASE UNCHANGED <<life, tk>>
  BY <1>6 DEF Lineage
<1>7. QED  BY <1>1, <1>2, <1>3, <1>4, <1>5, <1>6, Steps

(* The context is with the one Session that runs or is being taken over: a *)
(* launch moves both at once, and a purge takes the context of a dead      *)
(* Session only.                                                           *)
LEMMA OwnerKept == ASSUME IInv, [Next]_vars PROVE Owner'
<1> USE DEF IInv
<1>1. ASSUME NEW k \in Session, Fence(k) PROVE Owner'
  BY <1>1 DEF Fence, Owner, TypeOK, durable
<1>2. ASSUME NEW k \in Session, Launch(k) PROVE Owner'
  <2>1. /\ tk[k] = "fenced" /\ k + 1 \in Session /\ life[k] = "fenced"
        /\ tk' = [tk EXCEPT ![k] = "completed"] /\ life' = [life EXCEPT ![k + 1] = "running"]
        /\ ctx' = [ctx EXCEPT !.owner = k + 1]
    BY <1>2, ConstantAssumption DEF Launch, Lineage, Session
  <2>2. ctx'.owner = k + 1
    BY <2>1 DEF TypeOK, Context
  <2>3. \A j \in Session \ {k} : life[j] # "running" /\ tk[j] # "fenced"
    BY <2>1 DEF Owner
  <2> QED  BY <2>1, <2>2, <2>3 DEF Owner, TypeOK
<1>3. ASSUME NEW k \in Session, LaunchFails(k) PROVE Owner'
  BY <1>3 DEF LaunchFails, Owner, TypeOK, durable
<1>4. ASSUME NEW k \in Session, Exit(k) PROVE Owner'
  BY <1>4 DEF Exit, Owner, TypeOK, durable
<1>5. ASSUME NEW k \in Session, Complete(k) PROVE Owner'
  <2>1. /\ tk[k] # "fenced" /\ tk' = tk /\ life' = [life EXCEPT ![k] = "deleted"]
        /\ life[k] # "running"
    BY <1>5 DEF Complete, Purged, MarkedOK, BoundValid, Valid, Settled, Dead, Gone, Untaken
  <2>2. ctx.owner # k => ctx' = ctx
    BY <1>5 DEF Complete, Purged, Owns
  <2> QED  BY <2>1, <2>2 DEF Owner, TypeOK
<1>6. CASE UNCHANGED <<life, tk>>
  <2>1. ctx'.owner = ctx.owner \/ \E k \in Session : Launch(k) \/ Complete(k)
    <3>1. ASSUME NEW k \in Session, Claim(k) PROVE ctx'.owner = ctx.owner
      <4>1. ctx' = ctx \/ ClaimFor(op[k].allow)
        BY <3>1 DEF Claim
      <4> QED  BY <4>1 DEF ClaimFor, TypeOK, Context
    <3>2. ASSUME NEW k \in Session, Retire(k) PROVE ctx'.owner = ctx.owner
      BY <3>2 DEF Retire, TypeOK, Context
    <3>3. ASSUME NEW a \in BOOLEAN, KeepNew(a) PROVE ctx'.owner = ctx.owner
      BY <3>3 DEF KeepNew, ClaimFor, TypeOK, Context
    <3>4. ASSUME Removed PROVE ctx'.owner = ctx.owner
      BY <3>4 DEF Removed, TypeOK, Context
    <3> QED  BY <3>1, <3>2, <3>3, <3>4, Steps
  <2> QED  BY <1>1, <1>2, <1>5, <1>6, <2>1 DEF Owner
<1>7. QED  BY <1>1, <1>2, <1>3, <1>4, <1>5, <1>6, Steps

(* The writer lease is with a running supervisor or waits for the          *)
(* successor of a takeover that was fenced.                                *)
LEMMA HolderKept == ASSUME IInv, [Next]_vars PROVE Holder'
<1> USE DEF IInv
<1>1. ASSUME NEW k \in Session, Fence(k) PROVE Holder'
  BY <1>1 DEF Fence, Holder, TypeOK, Session
<1>2. ASSUME NEW k \in Session, Launch(k) PROVE Holder'
  <2>1. /\ tk[k] = "fenced" /\ k + 1 \in Session /\ life[k] = "fenced" /\ lease' = lease
        /\ tk' = [tk EXCEPT ![k] = "completed"] /\ life' = [life EXCEPT ![k + 1] = "running"]
    BY <1>2, ConstantAssumption DEF Launch, Lineage, Session
  <2>2. CASE lease = 0 \/ lease = k + 1
    BY <2>1, <2>2 DEF Holder, TypeOK
  <2>3. CASE lease \notin {0, k + 1}
    <3>1. lease \in Session
      BY <2>3 DEF TypeOK, Session
    <3>2. CASE life[lease] = "running"
      BY <2>1, <3>1, <3>2 DEF Holder, TypeOK
    <3>3. ASSUME NEW j \in Session, lease = j + 1, tk[j] \in {"fenced", "failed"} PROVE Holder'
      BY <2>1, <2>3, <3>3 DEF Holder, TypeOK, Session
    <3> QED  BY <3>2, <3>3, <2>3 DEF Holder
  <2> QED  BY <2>2, <2>3
<1>3. ASSUME NEW k \in Session, LaunchFails(k) PROVE Holder'
  <2>1. /\ tk' = [tk EXCEPT ![k] = "failed"] /\ life' = life /\ lease' = lease
    BY <1>3 DEF LaunchFails
  <2> QED  BY <2>1 DEF Holder, TypeOK
<1>4. ASSUME NEW k \in Session, Exit(k) PROVE Holder'
  <2>1. /\ tk' = tk /\ life' = [life EXCEPT ![k] = "exited"]
        /\ lease' = IF lease = k THEN 0 ELSE lease
    BY <1>4 DEF Exit
  <2> QED  BY <2>1 DEF Holder, TypeOK, Session
<1>5. ASSUME NEW k \in Session, Complete(k) PROVE Holder'
  <2>1. /\ lease' = lease /\ tk' = tk /\ life' = [life EXCEPT ![k] = "deleted"]
        /\ life[k] # "running"
    BY <1>5 DEF Complete, Purged, MarkedOK, BoundValid, Valid, Settled, Dead, Gone
  <2> QED  BY <2>1 DEF Holder, TypeOK, Session
<1>6. CASE UNCHANGED <<life, tk, lease>>
  BY <1>6 DEF Holder
<1>7. QED  BY <1>1, <1>2, <1>3, <1>4, <1>5, <1>6, Steps

(* Once a Session is fenced by delete_session no input is accepted for it, *)
(* no child of it starts and no takeover brings it back, until its receipt *)
(* is written and afterwards.                                              *)
LEMMA EndedKept == ASSUME IInv, [Next]_vars PROVE Ended'
<1> USE DEF IInv
<1> SUFFICES ASSUME NEW k \in Session
             PROVE  /\ op'[k].st # "none" => life'[k] \in {"exited", "fenced"}
                    /\ receipt'[k] # "none" => life'[k] = "deleted"
                    /\ op'[k].st # "none" \/ receipt'[k] # "none" =>
                           child'[k] # "running" /\ work'[k] # "open"
  BY DEF Ended
<1> DEFINE Begun == Settled(k) /\ UNCHANGED <<life, child, work, receipt>>
<1>1. op'[k].st # "none" => op[k].st # "none" \/ Begun
  <2>1. ASSUME NEW j \in Session, Begin(j) PROVE op'[k].st # "none" => op[k].st # "none" \/ Begun
    BY <2>1 DEF Begin, BeginOK, TypeOK, runtime
  <2>2. ASSUME NEW j \in Session, Bind(j) PROVE op'[k].st = op[k].st
    BY <2>2 DEF Bind, TypeOK, Operation
  <2>3. ASSUME NEW j \in Session, Preserve(j) PROVE op'[k].st = op[k].st
    BY <2>3 DEF Preserve, TypeOK, Operation
  <2>4. ASSUME NEW j \in Session, Mark(j) PROVE op[k].st = "none" => op'[k].st = "none"
    BY <2>4 DEF Mark, TypeOK, Operation
  <2>5. ASSUME NEW j \in Session, Complete(j) PROVE op[k].st = "none" => op'[k].st = "none"
    BY <2>5 DEF Complete, Purged, TypeOK, NoOp
  <2> QED  BY <2>1, <2>2, <2>3, <2>4, <2>5, Steps
<1>2. receipt'[k] # receipt[k] => Complete(k)
  <2>1. ASSUME NEW j \in Session, Complete(j), j # k PROVE receipt'[k] = receipt[k]
    BY <2>1 DEF Complete, TypeOK
  <2> QED  BY <2>1, Steps
<1>3. life'[k] # life[k] => \/ life[k] = "running" /\ life'[k] \in {"exited", "fenced"}
                            \/ life[k] = "none"
                            \/ Complete(k)
  <2>1. ASSUME NEW j \in Session, Fence(j) PROVE life'[k] # life[k] => life[k] = "running" /\ life'[k] = "fenced"
    BY <2>1 DEF Fence, TypeOK
  <2>2. ASSUME NEW j \in Session, Launch(j) PROVE life'[k] # life[k] => life[k] = "none"
    <3>1. tk[j] = "fenced" /\ life' = [life EXCEPT ![j + 1] = "running"]
      BY <2>2 DEF Launch
    <3>2. k = j + 1 => life[k] = "none"
      BY <3>1 DEF Lineage, Session
    <3> QED  BY <3>1, <3>2 DEF TypeOK
  <2>3. ASSUME NEW j \in Session, Exit(j) PROVE life'[k] # life[k] => life[k] = "running" /\ life'[k] = "exited"
    BY <2>3 DEF Exit, TypeOK
  <2>4. ASSUME NEW j \in Session, Complete(j), j # k PROVE life'[k] = life[k]
    BY <2>4 DEF Complete, Purged, TypeOK
  <2> QED  BY <2>1, <2>2, <2>3, <2>4, Steps
<1>4. child'[k] = "running" => child[k] = "running" \/ Accepts(k)
  <2>1. ASSUME NEW j \in Session, CreateChild(j) PROVE child'[k] = "running" => child[k] = "running" \/ Accepts(k)
    BY <2>1 DEF CreateChild, TypeOK
  <2>2. ASSUME NEW j \in Session, AskChild(j) \/ ChildExits(j) \/ DeleteChild(j)
        PROVE child'[k] = "running" => child[k] = "running"
    BY <2>2 DEF AskChild, ChildExits, DeleteChild, TypeOK
  <2>3. ASSUME NEW j \in Session, Complete(j) PROVE child'[k] = "running" => child[k] = "running"
    BY <2>3 DEF Complete, Purged, TypeOK
  <2>4. ASSUME Crash PROVE child'[k] = "running" => child[k] = "running"
    BY <2>4 DEF Crash, TypeOK
  <2> QED  BY <2>1, <2>2, <2>3, <2>4, Steps
<1>5. work'[k] = "open" => work[k] = "open" \/ Accepts(k)
  <2>1. ASSUME NEW j \in Session, Input(j) PROVE work'[k] = "open" => work[k] = "open" \/ Accepts(k)
    BY <2>1 DEF Input, TypeOK
  <2>2. ASSUME NEW j \in Session, Done(j) \/ Cancel(j) \/ Sweep(j) PROVE work'[k] = "open" => work[k] = "open"
    BY <2>2 DEF Done, Cancel, Sweep, TypeOK
  <2> QED  BY <2>1, <2>2, Steps
<1>6. Settled(k) => life[k] \in {"exited", "fenced"} /\ child[k] # "running" /\ work[k] # "open"
  BY DEF Settled, Dead, Gone
<1>7. Accepts(k) => op[k].st = "none" /\ receipt[k] = "none"
  BY DEF Accepts
<1>8. ASSUME Complete(k)
      PROVE  op'[k].st = "none" /\ life'[k] = "deleted" /\ Settled(k) /\ work'[k] = work[k]
             /\ child'[k] # "running"
  BY <1>8, <1>4, <1>6, <1>7 DEF Complete, Purged, MarkedOK, BoundValid, Valid, NoOp, TypeOK
<1>9. CASE Complete(k)
  BY <1>8, <1>9, <1>6
<1>10. CASE ~Complete(k)
  <2>1. receipt'[k] = receipt[k]
    BY <1>2, <1>10
  <2>2. CASE Begun /\ op[k].st = "none"
    BY <2>1, <2>2, <1>6 DEF Ended
  <2>3. CASE op'[k].st # "none" => op[k].st # "none"
    BY <1>10, <2>1, <2>3, <1>3, <1>4, <1>5, <1>7 DEF Ended
  <2> QED  BY <1>1, <2>2, <2>3
<1>11. QED  BY <1>9, <1>10

(* A removed worktree and a removed branch do not come back.               *)
LEMMA TreeGoes ==
    ASSUME TypeOK, [Next]_vars
    PROVE  (~tree.present => ~tree'.present) /\ (~tree.branch => ~tree'.branch)
<1>1. ASSUME NEW k \in Session, Purge(k) \/ PurgeBranch(k)
      PROVE  (~tree.present => ~tree'.present) /\ (~tree.branch => ~tree'.branch)
  BY <1>1 DEF Purge, PurgeBranch, TypeOK, Tree
<1>2. ASSUME Remove PROVE (~tree.present => ~tree'.present) /\ (~tree.branch => ~tree'.branch)
  BY <1>2 DEF Remove, TypeOK, Tree
<1>3. ASSUME Edit PROVE (~tree.present => ~tree'.present) /\ (~tree.branch => ~tree'.branch)
  BY <1>3 DEF Edit, TypeOK, Tree
<1> QED  BY <1>1, <1>2, <1>3, Steps

(* Which actions bring a request to the steps from which it removes or     *)
(* settles.                                                                *)
LEMMA JobSteps ==
    ASSUME TypeOK, [Next]_vars
    PROVE  \/ job' = job
           \/ job'.step \in {"idle", "cancel", "sweep", "begin", "bind", "claim", "launch", "removed"}
           \/ \E k \in Session : \/ Claim(k) \/ Purge(k) \/ PurgeBranch(k)
                                 \/ Retire(k) \/ Mark(k) \/ Preserve(k)
           \/ KeepOld \/ \E allow \in BOOLEAN : KeepNew(allow)
<1> DEFINE Others == {"idle", "cancel", "sweep", "begin", "bind", "claim", "launch", "removed"}
<1>1. ASSUME NEW k \in Session, NEW yes \in BOOLEAN, Request(k, yes) PROVE job'.step \in Others
  BY <1>1 DEF Request
<1>2. ASSUME NEW k \in Session, Cancel(k) \/ Sweep(k) \/ Begin(k) \/ Bind(k) PROVE job'.step \in Others
  BY <1>2 DEF Cancel, Sweep, Begin, Bind, Go, TypeOK, Job
<1>3. ASSUME NEW k \in Session, Complete(k) \/ Retry(k) PROVE job'.step \in Others
  BY <1>3 DEF Complete, Retry, Idle
<1>4. ASSUME Refuse \/ Removed \/ Crash PROVE job'.step \in Others
  BY <1>4 DEF Refuse, Removed, Crash, Idle
<1>5. ASSUME Remove PROVE job'.step \in Others
  BY <1>5 DEF Remove, Go, Idle, TypeOK, Job
<1>6. ASSUME NEW k \in Session, Fence(k) \/ Launch(k) \/ LaunchFails(k) PROVE job'.step \in Others
  BY <1>6 DEF Fence, Launch, LaunchFails, Idle
<1>7. ASSUME NEW k \in Session, Beside(k) PROVE job' = job
  BY <1>7 DEF Beside, Input, Done, Exit, AskChild, CreateChild, ChildExits, DeleteChild
<1>8. ASSUME Edit \/ UNCHANGED vars PROVE job' = job
  BY <1>8 DEF Edit, vars
<1> HIDE DEF Others
<1>9. CASE Next
  BY <1>9, <1>1, <1>2, <1>3, <1>4, <1>5, <1>6, <1>7, <1>8 DEF Next, Delete, Takeover, Housekeep, Others
<1> QED  BY <1>8, <1>9

(* When the Session that owns the context is settled no other Session runs *)
(* either: all before it are fenced, none after it was launched.           *)
LEMMA DeadOwner ==
    ASSUME IInv, NEW o \in Session, ctx.owner = o, Settled(o)
    PROVE  \A k \in Session : life[k] # "running" /\ tk[k] # "fenced"
<1>1. life[o] # "running" /\ tk[o] # "fenced"
  BY DEF Settled, Dead, Gone, Untaken, IInv, TypeOK
<1> QED  BY <1>1 DEF IInv, Owner

(* Whoever is about to remove the worktree, a deletion or a retirement,    *)
(* has claimed the context of a settled Session, and takeovers wait for    *)
(* the lock.                                                               *)
LEMMA QuietKept == ASSUME IInv, [Next]_vars PROVE Quiet'
<1> DEFINE Nobody == \A k \in Session : life[k] # "running" /\ tk[k] # "fenced"
<1> SUFFICES ASSUME job'.step \in {"purge", "remove"}
             PROVE  \A k \in Session : life'[k] # "running" /\ tk'[k] # "fenced"
  BY DEF Quiet
<1> TypeOK
  BY DEF IInv
<1>1. ASSUME NEW k \in Session, Claim(k) PROVE Nobody /\ UNCHANGED <<life, tk>>
  <2>1. ClaimOK(k) /\ UNCHANGED <<life, tk>>
    BY <1>1 DEF Claim, runtime
  <2>2. CASE ctx.st = "retired"
    <3>1. Ownership(k, op[k].plan.tree.present) = "own" /\ Settled(k)
      BY <2>1 DEF ClaimOK, BoundValid, Valid
    <3>2. ctx.owner = k
      BY <3>1 DEF Ownership, Owns
    <3> QED  BY <2>1, <3>1, <3>2, DeadOwner
  <2>3. CASE Claimable(op[k].allow)
    <3>1. ctx.owner \in Session /\ Settled(ctx.owner)
      BY <2>3 DEF Claimable, Retirable, TypeOK, Context, Session
    <3> QED  BY <2>1, <3>1, DeadOwner
  <2> QED  BY <2>1, <2>2, <2>3 DEF ClaimOK
<1>2. ASSUME NEW a \in BOOLEAN, Keep(a) PROVE Nobody /\ UNCHANGED <<life, tk>>
  <2>1. ctx.owner \in Session /\ Settled(ctx.owner)
    BY <1>2 DEF Keep, Claimable, Retirable, TypeOK, Context, Session
  <2> QED  BY <2>1, <1>2, DeadOwner DEF Keep, runtime
<1>3. KeepOld \/ (\E a \in BOOLEAN : KeepNew(a)) => \E a \in BOOLEAN : Keep(a)
  BY DEF KeepOld, KeepNew, TypeOK, Context
<1>4. ASSUME NEW k \in Session, Purge(k) \/ PurgeBranch(k) \/ Retire(k) \/ Mark(k) \/ Preserve(k)
      PROVE  FALSE
  BY <1>4 DEF Purge, PurgeBranch, Retire, Mark, Preserve, Go, TypeOK, Job
<1>5. CASE job' = job
  <2>1. Nobody
    BY <1>5 DEF IInv, Quiet
  <2>2. ASSUME NEW k \in Session, Fence(k) \/ Launch(k) \/ LaunchFails(k) \/ Complete(k) PROVE FALSE
    BY <2>2 DEF Fence, Launch, LaunchFails, Complete, Idle
  <2>3. ASSUME NEW k \in Session, Exit(k) PROVE FALSE
    BY <2>1, <2>3 DEF Exit
  <2> QED  BY <2>1, <2>2, <2>3, Steps
<1> HIDE DEF Nobody
<1>6. Nobody /\ UNCHANGED <<life, tk>> => \A k \in Session : life'[k] # "running" /\ tk'[k] # "fenced"
  BY DEF Nobody
<1> QED  BY <1>1, <1>2, <1>3, <1>4, <1>5, <1>6, JobSteps

(* A deletion that reaches its mark with a worktree to retire has removed  *)
(* it and its branch, in this order; crash and refusal give up the place   *)
(* and not the order.                                                      *)
LEMMA RemovalKept == ASSUME IInv, [Next]_vars PROVE Removal'
<1> TypeOK /\ Removal
  BY DEF IInv
<1> SUFFICES ASSUME NEW k \in Session, job'.k = k
             PROVE  /\ job'.step \in {"purge", "branch", "retire", "mark", "complete"} =>
                           op'[k].disp # "none"
                    /\ job'.step \in {"branch", "retire"} => ~tree'.present
                    /\ job'.step = "retire" => ~tree'.branch
                    /\ job'.step \in {"mark", "complete"} /\ op'[k].disp = "retired"
                         => ~tree'.present /\ ~tree'.branch
  BY DEF Removal
<1>1. ASSUME NEW j \in Session, Purge(j) PROVE job'.step = "branch" /\ ~tree'.present /\ op'[k].disp # "none"
  BY <1>1 DEF Purge, At, Go, TypeOK, Job, Tree, Removal
<1>2. ASSUME NEW j \in Session, PurgeBranch(j) 
      PROVE  job'.step = "retire" /\ ~tree'.branch /\ ~tree'.present /\ op'[k].disp # "none"
  BY <1>2 DEF PurgeBranch, At, Go, TypeOK, Job, Tree, Removal
<1>3. ASSUME NEW j \in Session, Retire(j) 
      PROVE  job'.step = "mark" /\ ~tree'.branch /\ ~tree'.present /\ op'[k].disp # "none"
  BY <1>3 DEF Retire, At, Go, TypeOK, Job, Removal
<1>4. ASSUME NEW j \in Session, Preserve(j) PROVE job'.step = "mark" /\ op'[k].disp = "foreign"
  BY <1>4 DEF Preserve, At, Go, TypeOK, Job, Operation
<1>5. ASSUME NEW j \in Session, Mark(j)
      PROVE  /\ job'.step = "complete" /\ op'[k].disp # "none"
             /\ op'[k].disp = "retired" => ~tree'.branch /\ ~tree'.present
  <2>1. j = k /\ job.k = k /\ job.step = "mark" /\ job'.step = "complete"
    BY <1>5 DEF Mark, At, Go, TypeOK, Job
  <2>2. op'[k].disp = op[k].disp /\ tree' = tree
    BY <1>5 DEF Mark, TypeOK, Operation
  <2> QED  BY <2>1, <2>2 DEF Removal
<1>6. ASSUME NEW j \in Session, Claim(j) PROVE job'.step = "purge" /\ op'[k].disp # "none"
  BY <1>6 DEF Claim, ClaimOK, Go, TypeOK, Job
<1>7. ASSUME NEW a \in BOOLEAN, Keep(a) PROVE job'.step = "remove"
  BY <1>7 DEF Keep, Idle
<1>8. KeepOld \/ (\E a \in BOOLEAN : KeepNew(a)) => \E a \in BOOLEAN : Keep(a)
  BY DEF KeepOld, KeepNew, TypeOK, Context
<1>9. CASE job' = job
  <2>1. ASSUME NEW j \in Session, Begin(j) \/ Bind(j) \/ Complete(j) \/ Mark(j) \/ Preserve(j) PROVE FALSE
    BY <1>9, <2>1 DEF Begin, Bind, Complete, Mark, Preserve, At, Go, Idle, TypeOK, Job
  <2>2. op' = op
    BY <2>1, Steps
  <2> QED  BY <1>9, <2>2, TreeGoes DEF Removal
<1> QED  BY <1>1, <1>2, <1>3, <1>4, <1>5, <1>6, <1>7, <1>8, <1>9, JobSteps

(* A worktree that the relational check calls foreign is shared with a     *)
(* Session that took over from this one or that it took over from.         *)
LEMMA ForeignNamed ==
    ASSUME IInv, NEW k \in Session, NEW p, Valid(k), Ownership(k, p) = "foreign"
    PROVE  \E j \in Successors(k) : tk[j] = "completed"
<1> TypeOK /\ Lineage /\ Holder
  BY DEF IInv
<1>1. life[k] # "none" /\ lease # k /\ tk[k] \in {"none", "completed"}
  BY DEF Valid, Settled, Dead, Gone, Unwritten, Untaken, TypeOK
<1>2. CASE k # 1
  <2>1. k - 1 \in Session /\ k - 1 < k
    BY <1>2, ConstantAssumption DEF Session
  <2> QED  BY <1>1, <2>1 DEF Lineage, Successors
<1>3. CASE k = 1
  <2> SUFFICES tk[k] = "completed"
    BY DEF Successors
  <2>1. CASE ~Owns(k)
    BY <2>1 DEF Ownership, Succeeded
  <2>2. CASE Owns(k)
    <3>1. (\E j \in Session \ {k} : Row(j)) \/ lease \notin {0, k}
      BY <2>2 DEF Ownership, Shared
    <3>2. ASSUME NEW j \in Session, j # k, life[j] # "none" PROVE tk[k] = "completed"
      <4>1. k < j
        BY <1>3, <3>2, ConstantAssumption DEF Session
      <4> QED  BY <3>2, <4>1 DEF Lineage
    <3>3. ASSUME lease \notin {0, k} PROVE tk[k] = "completed"
      <4>1. lease \in Session
        BY <3>3, ConstantAssumption DEF TypeOK, Session
      <4>2. CASE life[lease] = "running"
        BY <3>2, <3>3, <4>1, <4>2
      <4>3. ASSUME NEW j \in Session, lease = j + 1, tk[j] \in {"fenced", "failed"}
            PROVE  tk[k] = "completed"
        <5>1. j # k /\ life[j] # "none"
          BY <1>1, <4>3 DEF Lineage
        <5> QED  BY <3>2, <5>1
      <4> QED  BY <3>3, <4>2, <4>3 DEF Holder
    <3> QED  BY <3>1, <3>2, <3>3 DEF Row
  <2> QED  BY <2>1, <2>2
<1> QED  BY <1>2, <1>3

(* A completed takeover stays completed.                                   *)
LEMMA CompletedStays ==
    ASSUME IInv, [Next]_vars, NEW j \in Session, tk[j] = "completed"
    PROVE  tk'[j] = "completed"
<1> TypeOK /\ Lineage
  BY DEF IInv
<1>1. ASSUME NEW k \in Session, Fence(k) PROVE tk'[j] = "completed"
  BY <1>1 DEF Fence, Lineage, TypeOK
<1>2. ASSUME NEW k \in Session, Launch(k) \/ LaunchFails(k) PROVE tk'[j] = "completed"
  BY <1>2 DEF Launch, LaunchFails, TypeOK
<1> QED  BY <1>1, <1>2, Steps

(* A deletion preserves the worktree only for such another Session,        *)
(* whether it was found out when the authority was bound or later.         *)
LEMMA PreservedKept == ASSUME IInv, [Next]_vars PROVE Preserved'
<1> TypeOK /\ Preserved
  BY DEF IInv
<1> SUFFICES ASSUME NEW k \in Session, op'[k].disp = "foreign"
             PROVE  \E j \in Successors(k) : tk[j] = "completed"
  BY CompletedStays DEF Preserved, Successors
<1>1. ASSUME NEW i \in Session, Begin(i) PROVE op[k].disp = "foreign"
  BY <1>1 DEF Begin, TypeOK, NoOp
<1>2. ASSUME NEW i \in Session, Bind(i)
      PROVE  op[k].disp = "foreign" \/ \E j \in Successors(k) : tk[j] = "completed"
  <2>1. CASE i # k
    BY <1>2, <2>1 DEF Bind, TypeOK
  <2>2. CASE i = k
    <3>1. Valid(k) /\ Ownership(k, job.plan.tree.present) # "changed"
      BY <1>2, <2>2 DEF Bind, BindOK
    <3>2. Ownership(k, job.plan.tree.present) # "own"
      BY <1>2, <2>2 DEF Bind, TypeOK, Operation
    <3>3. Ownership(k, job.plan.tree.present) = "foreign"
      BY <3>1, <3>2 DEF Ownership
    <3> QED  BY <3>1, <3>3, ForeignNamed
  <2> QED  BY <2>1, <2>2
<1>3. ASSUME NEW i \in Session, Preserve(i)
      PROVE  op[k].disp = "foreign" \/ \E j \in Successors(k) : tk[j] = "completed"
  <2>1. CASE i # k
    BY <1>3, <2>1 DEF Preserve, TypeOK
  <2>2. CASE i = k /\ op[k].disp # "foreign"
    <3>1. Admitted(k)
      BY <1>3, <2>2 DEF Preserve, PreserveOK
    <3> QED  BY <3>1, ForeignNamed DEF Admitted
  <2> QED  BY <2>1, <2>2
<1>4. ASSUME NEW i \in Session, Mark(i) PROVE op[k].disp = "foreign"
  BY <1>4 DEF Mark, TypeOK, Operation
<1>5. ASSUME NEW i \in Session, Complete(i) PROVE op[k].disp = "foreign"
  BY <1>5 DEF Complete, Purged, TypeOK, NoOp
<1> QED  BY <1>1, <1>2, <1>3, <1>4, <1>5, Steps DEF Preserved

(* A receipt is written from the disposition of the operation, after the   *)
(* removal it speaks of.                                                   *)
LEMMA ReceiptKept == ASSUME IInv, [Next]_vars PROVE ReceiptIsTrue'
<1> TypeOK /\ ReceiptIsTrue /\ Preserved /\ Removal
  BY DEF IInv
<1> SUFFICES ASSUME NEW k \in Session
             PROVE  /\ receipt'[k] = "retired" => ~tree'.present /\ ~tree'.branch
                    /\ receipt'[k] = "foreign" =>
                           \E j \in {k - 1, k} \cap Session : tk'[j] = "completed"
  BY DEF ReceiptIsTrue
<1>1. CASE receipt'[k] = receipt[k]
  BY <1>1, TreeGoes, CompletedStays DEF ReceiptIsTrue
<1>2. ASSUME Complete(k)
      PROVE  /\ receipt'[k] = "retired" => ~tree'.present /\ ~tree'.branch
             /\ receipt'[k] = "foreign" =>
                    \E j \in {k - 1, k} \cap Session : tk'[j] = "completed"
  <2>1. /\ receipt'[k] = op[k].disp /\ tk' = tk /\ tree' = tree
        /\ job.k = k /\ job.step = "complete"
    BY <1>2 DEF Complete, At, TypeOK
  <2> QED  BY <2>1 DEF Removal, Preserved, Successors
<1>3. receipt'[k] # receipt[k] => Complete(k)
  <2>1. ASSUME NEW j \in Session, Complete(j), j # k PROVE receipt'[k] = receipt[k]
    BY <2>1 DEF Complete, TypeOK
  <2> QED  BY <2>1, Steps
<1> QED  BY <1>1, <1>2, <1>3

(* Every permission to remove uncommitted changes, in a request, in an     *)
(* operation or in the context, goes back to a confirmation.               *)
LEMMA ConsentedKept == ASSUME IInv, [Next]_vars PROVE Consented'
<1> TypeOK /\ Consented
  BY DEF IInv
<1>1. consent => consent'
  <2>1. ASSUME NEW k \in Session, NEW yes \in BOOLEAN, Request(k, yes) PROVE consent => consent'
    BY <2>1 DEF Request
  <2>2. ASSUME NEW a \in BOOLEAN, KeepNew(a) PROVE consent => consent'
    BY <2>2 DEF KeepNew
  <2> QED  BY <2>1, <2>2, Steps
<1>2. ASSUME NEW k \in Session PROVE op'[k].allow => consent'
  <2>1. ASSUME NEW i \in Session, Begin(i) PROVE op'[k].allow => op[k].allow \/ ctx.dirty \/ job.allow
    BY <2>1 DEF Begin, TypeOK, NoOp
  <2>2. ASSUME NEW i \in Session, Bind(i) PROVE op'[k].allow = op[k].allow
    BY <2>2 DEF Bind, TypeOK, Operation
  <2>3. ASSUME NEW i \in Session, Preserve(i) PROVE op'[k].allow = op[k].allow
    BY <2>3 DEF Preserve, TypeOK, Operation
  <2>4. ASSUME NEW i \in Session, Mark(i) PROVE op'[k].allow = op[k].allow
    BY <2>4 DEF Mark, TypeOK, Operation
  <2>5. ASSUME NEW i \in Session, Complete(i) PROVE op'[k].allow => op[k].allow
    BY <2>5 DEF Complete, Purged, TypeOK, NoOp
  <2> QED  BY <1>1, <2>1, <2>2, <2>3, <2>4, <2>5, Steps DEF Consented
<1>3. job'.allow => consent'
  <2>1. ASSUME NEW k \in Session, NEW yes \in BOOLEAN, Request(k, yes) PROVE job'.allow => consent'
    BY <2>1 DEF Request
  <2>2. ASSUME NEW k \in Session, Cancel(k) \/ Sweep(k) \/ Begin(k) \/ Bind(k) \/ Preserve(k) \/ Claim(k) PROVE job'.allow => consent'
    BY <2>2, <1>1 DEF Cancel, Sweep, Begin, Bind, Preserve, Claim, Go, TypeOK, Job, Consented
  <2>3. ASSUME NEW k \in Session, Purge(k) \/ PurgeBranch(k) \/ Retire(k) \/ Mark(k) PROVE job'.allow => consent'
    BY <2>3, <1>1 DEF Purge, PurgeBranch, Retire, Mark, Go, TypeOK, Job, Consented
  <2>4. ASSUME NEW k \in Session, Complete(k) PROVE job'.allow => consent'
    BY <2>4 DEF Complete, Idle
  <2>5. ASSUME NEW k \in Session, Retry(k) PROVE job'.allow => consent'
    BY <2>5, <1>1 DEF Retry, Consented
  <2>6. ASSUME Refuse \/ Removed \/ Crash PROVE job'.allow => consent'
    BY <2>6 DEF Refuse, Removed, Crash, Idle
  <2>7. ASSUME Remove PROVE job'.allow => consent'
    BY <2>7, <1>1 DEF Remove, Go, Idle, TypeOK, Job, Consented
  <2>8. ASSUME NEW k \in Session, Fence(k) \/ Launch(k) \/ LaunchFails(k) PROVE job'.allow => consent'
    BY <2>8 DEF Fence, Launch, LaunchFails, Idle
  <2>9. ASSUME NEW k \in Session, Beside(k) PROVE job'.allow => consent'
    BY <2>9, <1>1 DEF Beside, Input, Done, Exit, AskChild, CreateChild, ChildExits, DeleteChild, Consented
  <2>10. ASSUME NEW a \in BOOLEAN, KeepNew(a) PROVE job'.allow => consent'
    BY <2>10 DEF KeepNew, Keep, Idle
  <2>11. ASSUME KeepOld PROVE job'.allow => consent'
    BY <2>11 DEF KeepOld, Keep, Idle, Consented
  <2>12. ASSUME Edit \/ UNCHANGED vars PROVE job'.allow => consent'
    BY <2>12, <1>1 DEF Edit, vars, Consented
  <2>13. CASE Next
    BY <2>1, <2>2, <2>3, <2>4, <2>5, <2>6, <2>7, <2>8, <2>9, <2>10, <2>11, <2>12, <2>13
       DEF Next, Delete, Takeover, Housekeep
  <2> QED  BY <2>12, <2>13
<1>4. ctx'.dirty => consent'
  <2>1. ASSUME NEW k \in Session, Claim(k) PROVE ctx'.dirty => ctx.dirty \/ op[k].allow
    <3>1. ctx' = ctx \/ ClaimFor(op[k].allow)
      BY <2>1 DEF Claim
    <3> QED  BY <3>1 DEF ClaimFor, TypeOK, Context
  <2>2. ASSUME NEW k \in Session, Retire(k) PROVE ctx'.dirty = ctx.dirty
    BY <2>2 DEF Retire, TypeOK, Context
  <2>3. ASSUME NEW k \in Session, Launch(k) PROVE ctx'.dirty = ctx.dirty
    BY <2>3 DEF Launch, TypeOK, Context
  <2>4. ASSUME NEW k \in Session, Complete(k) PROVE ctx'.dirty => ctx.dirty
    BY <2>4 DEF Complete, Purged, NoPlan
  <2>5. ASSUME Removed PROVE ctx'.dirty = ctx.dirty
    BY <2>5 DEF Removed, TypeOK, Context
  <2>6. ASSUME NEW a \in BOOLEAN, KeepNew(a) PROVE ctx'.dirty => consent'
    BY <2>6 DEF KeepNew, ClaimFor, TypeOK, Context
  <2> QED  BY <1>1, <2>1, <2>2, <2>3, <2>4, <2>5, <2>6, Steps DEF Consented
<1> QED  BY <1>2, <1>3, <1>4 DEF Consented

(* The empty records have their types, and so has a captured authority     *)
(* document.                                                               *)
LEMMA RecordTypes ==
    /\ NoPlan \in Plan /\ NoPlan.ctx \in Context /\ Idle \in Job /\ NoOp \in Operation
    /\ \A k \in Session : TypeOK => Capture(k) \in Plan
<1>1. 0 \in 0..N /\ 0 \in 0..MaxEdits
  BY ConstantAssumption
<1>2. NoPlan \in Plan /\ NoPlan.ctx \in Context
  BY <1>1 DEF NoPlan, Plan, Tree, Context, ChildState
<1>3. Idle \in Job /\ NoOp \in Operation
  BY <1>1, <1>2 DEF Idle, NoOp, Job, Operation
<1>4. ASSUME NEW k \in Session, TypeOK PROVE Capture(k) \in Plan
  <2>1. Kids(k) \in ChildState
    BY <1>4 DEF Kids, TypeOK, ChildState
  <2> HIDE DEF ChildState
  <2>2. (IF Owns(k) THEN ctx ELSE NoPlan.ctx) \in Context
    BY <1>2, <1>4 DEF TypeOK
  <2>3. tree \in Tree
    BY <1>4 DEF TypeOK
  <2> QED  BY <2>1, <2>2, <2>3 DEF Capture, Plan
<1> QED  BY <1>2, <1>3, <1>4

(* The rows of the runtimes keep their types.                                *)
LEMMA RuntimeTypes ==
    ASSUME IInv, [Next]_vars
    PROVE  /\ life' \in [Session -> {"none", "running", "exited", "fenced", "deleted"}]
           /\ child' \in [Session -> ChildState]
           /\ work' \in [Session -> {"none", "open", "over"}]
           /\ tk' \in [Session -> {"none", "fenced", "completed", "failed"}]
           /\ lease' \in 0..N /\ consent' \in BOOLEAN /\ crashes' \in 0..MaxCrashes
<1> TypeOK /\ Lineage
  BY DEF IInv
<1>1. life' \in [Session -> {"none", "running", "exited", "fenced", "deleted"}]
  <2> DEFINE L == [Session -> {"none", "running", "exited", "fenced", "deleted"}]
  <2>1. ASSUME NEW k \in Session, Fence(k) \/ Launch(k) \/ Exit(k) \/ Complete(k) PROVE life' \in L
    BY <2>1 DEF Fence, Launch, Exit, Complete, Purged, TypeOK
  <2> QED  BY <2>1, Steps DEF TypeOK
<1>2. child' \in [Session -> ChildState]
  <2>1. ASSUME NEW k \in Session, AskChild(k) \/ CreateChild(k) \/ ChildExits(k) \/ DeleteChild(k)
        PROVE  child' \in [Session -> ChildState]
    BY <2>1 DEF AskChild, CreateChild, ChildExits, DeleteChild, TypeOK, ChildState
  <2>2. ASSUME NEW k \in Session, Complete(k) PROVE child' \in [Session -> ChildState]
    BY <2>2 DEF Complete, Purged, TypeOK, ChildState
  <2>3. ASSUME Crash PROVE child' \in [Session -> ChildState]
    BY <2>3 DEF Crash, TypeOK, ChildState
  <2> QED  BY <2>1, <2>2, <2>3, Steps DEF TypeOK
<1>3. work' \in [Session -> {"none", "open", "over"}]
  <2>1. ASSUME NEW k \in Session, Cancel(k) \/ Sweep(k) \/ Input(k) \/ Done(k)
        PROVE  work' \in [Session -> {"none", "open", "over"}]
    BY <2>1 DEF Cancel, Sweep, Input, Done, TypeOK
  <2> QED  BY <2>1, Steps DEF TypeOK
<1>4. tk' \in [Session -> {"none", "fenced", "completed", "failed"}]
  <2>1. ASSUME NEW k \in Session, Fence(k) \/ Launch(k) \/ LaunchFails(k)
        PROVE  tk' \in [Session -> {"none", "fenced", "completed", "failed"}]
    BY <2>1 DEF Fence, Launch, LaunchFails, TypeOK
  <2> QED  BY <2>1, Steps DEF TypeOK
<1>5. lease' \in 0..N
  <2>1. ASSUME NEW k \in Session, Fence(k) PROVE lease' \in 0..N
    BY <2>1, ConstantAssumption DEF Fence, Session
  <2>2. ASSUME NEW k \in Session, Exit(k) PROVE lease' \in 0..N
    BY <2>2, ConstantAssumption DEF Exit, TypeOK
  <2> QED  BY <2>1, <2>2, Steps DEF TypeOK
<1>6. consent' \in BOOLEAN
  <2>1. ASSUME NEW k \in Session, NEW yes \in BOOLEAN, Request(k, yes) PROVE consent' \in BOOLEAN
    BY <2>1 DEF Request
  <2>2. ASSUME NEW a \in BOOLEAN, KeepNew(a) PROVE consent' \in BOOLEAN
    BY <2>2 DEF KeepNew
  <2> QED  BY <2>1, <2>2, Steps DEF TypeOK
<1>7. crashes' \in 0..MaxCrashes
  <2>1. ASSUME Crash PROVE crashes' \in 0..MaxCrashes
    BY <2>1, ConstantAssumption DEF Crash, TypeOK
  <2> QED  BY <2>1, Steps DEF TypeOK
<1> QED  BY <1>1, <1>2, <1>3, <1>4, <1>5, <1>6, <1>7

(* So do the durable rows of the worktree and the deletion.                  *)
LEMMA DurableTypes ==
    ASSUME IInv, [Next]_vars
    PROVE  /\ ctx' \in Context /\ tree' \in Tree /\ op' \in [Session -> Operation]
           /\ receipt' \in [Session -> {"none", "retired", "foreign"}]
<1> TypeOK /\ Lineage /\ Removal
  BY DEF IInv
<1>1. ASSUME NEW d \in BOOLEAN, ClaimFor(d), Claimable(d) PROVE ctx' \in Context
  <2>1. ctx.owner \in Session
    BY <1>1, ConstantAssumption DEF Claimable, Retirable, TypeOK, Context, Session
  <2>2. Kids(ctx.owner) \in ChildState
    BY <2>1 DEF Kids, TypeOK, ChildState
  <2> QED  BY <1>1, <2>2 DEF ClaimFor, TypeOK, Context
<1>2. ctx' \in Context
  <2>1. ASSUME NEW k \in Session, Claim(k) PROVE ctx' \in Context
    <3>1. ctx' = ctx \/ (ClaimFor(op[k].allow) /\ Claimable(op[k].allow))
      BY <2>1 DEF Claim, ClaimOK
    <3>2. op[k].allow \in BOOLEAN
      BY DEF TypeOK, Operation
    <3> QED  BY <3>1, <3>2, <1>1 DEF TypeOK
  <2>2. ASSUME NEW k \in Session, Retire(k) PROVE ctx' \in Context
    BY <2>2 DEF Retire, TypeOK, Context
  <2>3. ASSUME NEW k \in Session, Launch(k) PROVE ctx' \in Context
    <3>1. ctx' = [ctx EXCEPT !.owner = k + 1] /\ k + 1 \in 0..N
      BY <2>3, ConstantAssumption DEF Launch, Lineage, Session
    <3> QED  BY <3>1 DEF TypeOK, Context
  <2>4. ASSUME NEW k \in Session, Complete(k) PROVE ctx' \in Context
    BY <2>4, RecordTypes DEF Complete, Purged, TypeOK
  <2>5. ASSUME Removed PROVE ctx' \in Context
    BY <2>5 DEF Removed, TypeOK, Context
  <2>6. ASSUME NEW d \in BOOLEAN, KeepNew(d) PROVE ctx' \in Context
    BY <2>6, <1>1 DEF KeepNew, Keep
  <2> QED  BY <2>1, <2>2, <2>3, <2>4, <2>5, <2>6, Steps DEF TypeOK
<1>3. tree' \in Tree
  <2>1. tree \in Tree
    BY DEF TypeOK
  <2>2. ASSUME NEW k \in Session, Purge(k) \/ PurgeBranch(k) \/ Remove PROVE tree' \in Tree
    <3>1. \/ tree' = tree \/ tree' = [tree EXCEPT !.branch = FALSE]
          \/ tree' = [tree EXCEPT !.present = FALSE, !.dirty = FALSE]
      BY <2>2 DEF Purge, PurgeBranch, Remove
    <3> QED  BY <2>1, <3>1 DEF Tree
  <2>3. ASSUME Edit PROVE tree' \in Tree
    <3>1. PICK d \in BOOLEAN : tree' = [tree EXCEPT !.rev = @ + 1, !.dirty = d]
      BY <2>3 DEF Edit
    <3>2. tree.rev + 1 \in 0..MaxEdits
      BY <2>3, ConstantAssumption DEF Edit, TypeOK, Tree
    <3> QED  BY <2>1, <3>1, <3>2 DEF Tree
  <2>4. 1 \in Session
    BY ConstantAssumption DEF Session
  <2> QED  BY <2>1, <2>2, <2>3, <2>4, Steps
<1>4. op' \in [Session -> Operation]
  <2> USE DEF TypeOK
  <2>1. ASSUME NEW k \in Session, Begin(k) PROVE op' \in [Session -> Operation]
    <3> DEFINE allow == IF Owns(k) /\ ctx.st = "retiring" THEN ctx.dirty ELSE job.allow
               new == [NoOp EXCEPT !.st = "fenced", !.plan.kids = job.plan.kids, !.allow = allow]
    <3>1. allow \in BOOLEAN /\ job.plan.kids \in ChildState
      BY DEF Context, Job, Plan
    <3> HIDE DEF allow
    <3>2. new \in Operation
      BY <3>1, RecordTypes DEF Operation, Plan
    <3>3. op' = [op EXCEPT ![k] = new]
      BY <2>1 DEF Begin, allow
    <3> HIDE DEF new
    <3> QED  BY <3>2, <3>3
  <2>2. ASSUME NEW k \in Session, Bind(k) PROVE op' \in [Session -> Operation]
    <3> DEFINE disp == IF Ownership(k, job.plan.tree.present) = "own" THEN "retired" ELSE "foreign"
               new == [op[k] EXCEPT !.plan = job.plan, !.disp = disp]
    <3>1. disp \in {"retired", "foreign"} /\ job.plan \in Plan /\ op[k] \in Operation
      BY DEF Job
    <3>2. op' = [op EXCEPT ![k] = new]
      BY <2>2 DEF Bind
    <3> HIDE DEF disp
    <3>3. new \in Operation
      BY <3>1 DEF Operation
    <3> HIDE DEF new
    <3> QED  BY <3>2, <3>3
  <2>3. ASSUME NEW k \in Session, Preserve(k) PROVE op' \in [Session -> Operation]
    BY <2>3 DEF Preserve, Operation
  <2>4. ASSUME NEW k \in Session, Mark(k) PROVE op' \in [Session -> Operation]
    BY <2>4 DEF Mark, Operation
  <2>5. ASSUME NEW k \in Session, Complete(k) PROVE op' \in [Session -> Operation]
    BY <2>5, RecordTypes DEF Complete, Purged
  <2> QED  BY <2>1, <2>2, <2>3, <2>4, <2>5, Steps
<1>5. receipt' \in [Session -> {"none", "retired", "foreign"}]
  <2>1. ASSUME NEW k \in Session, Complete(k)
        PROVE  receipt' \in [Session -> {"none", "retired", "foreign"}]
    <3>1. op[k].disp \in {"retired", "foreign"}
      <4>1. op[k].disp \in {"none", "retired", "foreign"}
        BY DEF TypeOK, Operation
      <4>2. op[k].disp # "none"
        BY <2>1 DEF Complete, At, Removal
      <4> QED  BY <4>1, <4>2
    <3> QED  BY <2>1, <3>1 DEF Complete, TypeOK
  <2> QED  BY <2>1, Steps DEF TypeOK
<1> QED  BY <1>2, <1>3, <1>4, <1>5

(* And the request that holds the lock.                                      *)
LEMMA JobTypes == ASSUME TypeOK, [Next]_vars PROVE job' \in Job
<1> job \in Job
  BY DEF TypeOK
<1> USE RecordTypes
<1>1. ASSUME NEW k \in Session, NEW yes \in BOOLEAN, Request(k, yes) PROVE job' \in Job
  <2>1. k \in 0..N
    BY ConstantAssumption DEF Session
  <2> QED  BY <1>1, <2>1 DEF Request, Job
<1>2. ASSUME NEW k \in Session, Retry(k) PROVE job' \in Job
  <2>1. k \in 0..N /\ op[k].allow \in BOOLEAN
    BY ConstantAssumption DEF Session, TypeOK, Operation
  <2> QED  BY <1>2, <2>1 DEF Retry, Job
<1>3. ASSUME NEW s \in {"sweep", "begin", "bind", "claim", "purge", "branch", "retire", "mark", "complete",
                       "removed"}, Go(s)
      PROVE  job' \in Job
  BY <1>3 DEF Go, Job
<1>4. ASSUME NEW k \in Session, \/ Cancel(k) \/ Sweep(k) \/ Begin(k) \/ Bind(k) \/ Preserve(k) \/ Claim(k)
                               \/ Purge(k) \/ PurgeBranch(k) \/ Retire(k) \/ Mark(k)
      PROVE  job' \in Job
  <2>1. \E s \in {"sweep", "begin", "bind", "claim", "purge", "branch", "retire", "mark", "complete"} : Go(s)
    BY <1>4 DEF Cancel, Sweep, Begin, Bind, Preserve, Claim, Purge, PurgeBranch, Retire, Mark
  <2> QED  BY <2>1, <1>3
<1>5. ASSUME job' = Idle PROVE job' \in Job
  BY <1>5
<1>6. ASSUME Remove PROVE job' \in Job
  BY <1>6, <1>3, <1>5 DEF Remove
<1>7. ASSUME NEW a \in BOOLEAN, Keep(a) PROVE job' \in Job
  <2>1. job' = [Idle EXCEPT !.step = "remove", !.allow = a]
    BY <1>7 DEF Keep
  <2> QED  BY <2>1 DEF Job
<1>8. ASSUME NEW k \in Session, Fence(k) PROVE job' \in Job
  <2>1. job' = [Idle EXCEPT !.step = "launch"]
    BY <1>8 DEF Fence
  <2> QED  BY <2>1 DEF Job
<1>9. KeepOld \/ (\E a \in BOOLEAN : KeepNew(a)) => \E a \in BOOLEAN : Keep(a)
  BY DEF KeepOld, KeepNew, TypeOK, Context
<1>10. ASSUME NEW k \in Session, Complete(k) \/ Launch(k) \/ LaunchFails(k) \/ Refuse \/ Removed \/ Crash
       PROVE  job' \in Job
  BY <1>10, <1>5 DEF Complete, Launch, LaunchFails, Refuse, Removed, Crash
<1>11. ASSUME NEW k \in Session, Beside(k) \/ Edit \/ UNCHANGED vars PROVE job' \in Job
  BY <1>11 DEF Beside, Input, Done, Exit, AskChild, CreateChild, ChildExits, DeleteChild, Edit, vars
<1>12. 1 \in Session
  BY ConstantAssumption DEF Session
<1>13. CASE Next
  BY <1>13, <1>1, <1>2, <1>4, <1>6, <1>7, <1>8, <1>9, <1>10, <1>11, <1>12
     DEF Next, Delete, Takeover, Housekeep
<1> QED  BY <1>11, <1>12, <1>13

(* The invariant holds in every reachable state, for any numbers of        *)
(* Sessions, edits and crashes of delete_session, retire_session_workspace *)
(* and the takeovers between them.                                         *)
THEOREM Invariance == Spec => []IInv
<1>1. Init => IInv
  <2> SUFFICES ASSUME Init PROVE IInv
    OBVIOUS
  <2>1. TypeOK
    <3>1. ctx \in Context /\ tree \in Tree
      BY ConstantAssumption DEF Init, Context, Tree, ChildState
    <3>2. op \in [Session -> Operation] /\ job \in Job /\ \A k \in Session : op[k].st = "none"
      BY RecordTypes DEF Init, NoOp
    <3>3. lease \in 0..N /\ crashes \in 0..MaxCrashes
      <4>1. lease = 1 /\ crashes = 0
        BY DEF Init
      <4> QED  BY <4>1, ConstantAssumption
    <3>5. consent \in BOOLEAN
      BY DEF Init
    <3>4. /\ life \in [Session -> {"none", "running", "exited", "fenced", "deleted"}]
          /\ child \in [Session -> ChildState] /\ work \in [Session -> {"none", "open", "over"}]
          /\ tk \in [Session -> {"none", "fenced", "completed", "failed"}]
          /\ receipt \in [Session -> {"none", "retired", "foreign"}]
      BY DEF Init, ChildState
    <3> QED  BY <3>1, <3>2, <3>3, <3>4, <3>5 DEF TypeOK
  <2>2. Lineage /\ Holder /\ Owner
    BY ConstantAssumption DEF Init, Lineage, Holder, Owner, Session
  <2>3. Ended /\ ReceiptIsTrue /\ Preserved /\ Consented
    BY DEF Init, Ended, ReceiptIsTrue, Preserved, Consented, NoOp, Idle
  <2>4. Quiet /\ Removal
    BY DEF Init, Quiet, Removal, Idle
  <2> QED  BY <2>1, <2>2, <2>3, <2>4 DEF IInv
<1>2. IInv /\ [Next]_vars => IInv'
  <2> SUFFICES ASSUME IInv, [Next]_vars PROVE IInv'
    OBVIOUS
  <2>1. TypeOK'
    <3>1. \A k \in Session : op'[k].st # "none" => receipt'[k] = "none"
      BY EndedKept DEF Ended
    <3>2. TypeOK
      BY DEF IInv
    <3> QED  BY <3>1, <3>2, RuntimeTypes, DurableTypes, JobTypes DEF TypeOK
  <2> QED  BY <2>1, LineageKept, EndedKept, HolderKept, OwnerKept, QuietKept, RemovalKept, ReceiptKept,
              PreservedKept, ConsentedKept DEF IInv
<1> QED  BY <1>1, <1>2, PTL DEF Spec

(* Every row keeps its type, and a Session has an operation or a receipt   *)
(* and never both.                                                         *)
THEOREM TypeCorrect == Spec => []TypeOK
<1>1. IInv => TypeOK
  BY DEF IInv
<1> QED  BY <1>1, Invariance, PTL

(* A fenced or deleted Session is dead, whatever inputs, children and      *)
(* takeovers were under way when begin_session_hard_deletion committed its *)
(* fence.                                                                  *)
THEOREM FencedDead == Spec => []FencedIsDead
<1>1. IInv => FencedIsDead
  BY DEF IInv, Ended, FencedIsDead
<1> QED  BY <1>1, Invariance, PTL

(* The receipts of complete_session_hard_deletion are true of the          *)
(* worktree, the branch and the takeovers.                                 *)
THEOREM TrueReceipt == Spec => []ReceiptIsTrue
<1>1. IInv => ReceiptIsTrue
  BY DEF IInv
<1> QED  BY <1>1, Invariance, PTL

(* Neither purge_session_managed_worktrees nor remove_managed_worktree     *)
(* takes the worktree from a supervisor that runs or is being replaced, or *)
(* takes changes nobody gave up.                                           *)
THEOREM SafeRemoval == Spec => RemovalIsSafe
<1>1. ASSUME IInv, [Next]_vars
      PROVE  [tree.present /\ ~tree'.present =>
                /\ \A k \in Session : life[k] # "running" /\ tk[k] # "fenced"
                /\ tree.dirty => consent]_vars
  <2> SUFFICES ASSUME tree.present, ~tree'.present
               PROVE  /\ \A k \in Session : life[k] # "running" /\ tk[k] # "fenced"
                      /\ tree.dirty => consent
    OBVIOUS
  <2> TypeOK /\ Quiet /\ Consented
    BY <1>1 DEF IInv
  <2>1. ASSUME NEW k \in Session, Purge(k)
        PROVE  /\ \A j \in Session : life[j] # "running" /\ tk[j] # "fenced"
               /\ tree.dirty => consent
    <3>1. At("purge") /\ PurgeOK(k)
      BY <2>1 DEF Purge
    <3>2. tree.dirty => op[k].allow
      BY <3>1 DEF PurgeOK, Same
    <3> QED  BY <3>1, <3>2 DEF At, Quiet, Consented
  <2>2. ASSUME Remove
        PROVE  /\ \A j \in Session : life[j] # "running" /\ tk[j] # "fenced"
               /\ tree.dirty => consent
    <3>1. At("remove") /\ (tree.dirty => job.allow)
      BY <2>2 DEF Remove, Unconfirmed
    <3> QED  BY <3>1 DEF At, Quiet, Consented
  <2>3. ASSUME NEW k \in Session, PurgeBranch(k) PROVE tree'.present = tree.present
    BY <2>3 DEF PurgeBranch, TypeOK, Tree
  <2>4. ASSUME Edit PROVE tree'.present = tree.present
    BY <2>4 DEF Edit, TypeOK, Tree
  <2> QED  BY <1>1, <2>1, <2>2, <2>3, <2>4, Steps
<1> QED  BY <1>1, Invariance, PTL DEF Spec, RemovalIsSafe

-----------------------------------------------------------------------------
(* Lifecycle notifications of the Session, which deletion retires under the *)
(* same fence (TelegramDelivery): one-shot delivery for any number of       *)
(* notifiers and events.                                                    *)

(* What the calls in flight know about Telegram: nothing was posted before  *)
(* the claim or between the claim and the post, and the result that will    *)
(* be sealed agrees with what Telegram accepted.                            *)
PostedOnlyAfterClaim == \A e \in Events : row[e] = "none" => accepted[e] = 0
ClaimedNotPosted == \A n \in Notifiers : pc[n] = "claimed" => accepted[event[n]] = 0
ResultIsTruthful == \A n \in Notifiers :
    pc[n] = "posted" => /\ result[n] = "ok" => accepted[event[n]] = 1
                        /\ result[n] = "disabled" => accepted[event[n]] = 0

(* Whoever is inside the fenced section holds the fence.                    *)
HolderInside == /\ \A n \in Notifiers : pc[n] # "idle" => fence = n
                /\ dpc = "fenced" => fence = Deleter

(* The inductive invariant.  AtMostOnePost alone is not inductive: that a   *)
(* notifier about to post is the first needs the fence and the claim row.   *)
Delivery == /\ TTypeOK
            /\ HolderInside
            /\ ClaimIsFenced
            /\ PostedOnlyAfterClaim
            /\ ClaimedNotPosted
            /\ ResultIsTruthful
            /\ AtMostOnePost
            /\ SealIsTruthful

(* A fresh database satisfies the invariant: no row, no call, no post.      *)
LEMMA InitDelivery == TInit => Delivery
  BY NotifierAssumption, MaxSendsAssumption
     DEF Delivery, HolderInside, PostedOnlyAfterClaim, ClaimedNotPosted, ResultIsTruthful, TInit,
         TTypeOK, ClaimIsFenced, AtMostOnePost, SealIsTruthful, RowStates, Results

(* Every step of dispatch_workflow_notification, update_settings,           *)
(* delete_session and a crash preserves it.                                 *)
LEMMA NextDelivery == Delivery /\ [TNext]_tvars => Delivery'
<1> SUFFICES ASSUME Delivery, [TNext]_tvars PROVE Delivery'
  OBVIOUS
<1> USE NotifierAssumption, MaxSendsAssumption
    DEF Delivery, HolderInside, PostedOnlyAfterClaim, ClaimedNotPosted,
        ResultIsTruthful, TTypeOK, ClaimIsFenced, AtMostOnePost,
        SealIsTruthful, RowStates, Results
<1>1. ASSUME NEW n \in Notifiers, NEW e \in Events, Acquire(n, e) PROVE Delivery'
  BY <1>1 DEF Acquire
<1>2. ASSUME NEW n \in Notifiers, ClaimDelivery(n) PROVE Delivery'
  <2>1. CASE Unclaimed(n)
    BY <1>2, <2>1 DEF ClaimDelivery, Unclaimed
  <2>2. CASE ~Unclaimed(n)
    BY <1>2, <2>2 DEF ClaimDelivery
  <2> QED BY <2>1, <2>2
<1>3. ASSUME NEW n \in Notifiers, SendMessage(n) PROVE Delivery'
  <2>1. event[n] \in Events /\ accepted[event[n]] = 0 /\ fence = n
    BY <1>3 DEF SendMessage
  <2> QED BY <1>3, <2>1 DEF SendMessage
<1>4. ASSUME NEW n \in Notifiers, FinishDelivery(n) PROVE Delivery'
  <2>1. row[event[n]] = "claimed" /\ fence = n
    BY <1>4 DEF FinishDelivery
  <2>2. SealOf(result[n]) \in {"sent", "failed", "skipped"}
    BY DEF SealOf
  <2>3. /\ SealOf(result[n]) = "sent" => result[n] = "ok"
        /\ SealOf(result[n]) = "skipped" => result[n] = "disabled"
    BY DEF SealOf
  <2> QED BY <1>4, <2>1, <2>2, <2>3 DEF FinishDelivery
<1>5. CASE SetEnabled
  BY <1>5 DEF SetEnabled
<1>6. CASE DeleteBegin
  BY <1>6 DEF DeleteBegin
<1>7. CASE RetireIndeterminate
  <2>1. \A n \in Notifiers : fence # n /\ pc[n] \notin {"claimed", "posted"}
    BY <1>7 DEF RetireIndeterminate
  <2> QED BY <1>7, <2>1 DEF RetireIndeterminate
<1>8. CASE DeleteEnd
  BY <1>8 DEF DeleteEnd
<1>9. CASE ServiceDies
  BY <1>9 DEF ServiceDies
<1>10. CASE UNCHANGED tvars
  BY <1>10 DEF tvars
<1> QED BY <1>1, <1>2, <1>3, <1>4, <1>5, <1>6, <1>7, <1>8, <1>9, <1>10
        DEF TNext, Step

(* A lifecycle event is posted to Telegram at most once, whatever the       *)
(* number of notifiers and however often the service dies                   *)
(* (dispatch_workflow_notification, claim_telegram_delivery).               *)
THEOREM OnePost == TSpec => []AtMostOnePost
<1>1. Delivery => AtMostOnePost
  BY DEF Delivery
<1> QED BY <1>1, InitDelivery, NextDelivery, PTL DEF TSpec

(* What the sealed row says about the post is true (_send_message,          *)
(* finish_telegram_delivery).                                               *)
THEOREM TruthfulSeal == TSpec => []SealIsTruthful
<1>1. Delivery => SealIsTruthful
  BY DEF Delivery
<1> QED BY <1>1, InitDelivery, NextDelivery, PTL DEF TSpec

(* A claim in progress is fenced against Session deletion                   *)
(* (context_lifecycle_fence).                                               *)
THEOREM FencedClaim == TSpec => []ClaimIsFenced
<1>1. Delivery => ClaimIsFenced
  BY DEF Delivery
<1> QED BY <1>1, InitDelivery, NextDelivery, PTL DEF TSpec
=============================================================================
