------------------------- MODULE WorkflowEffectsProofs -------------------------
(***************************************************************************)
(* The effect ledger keeps its promise, for any numbers of calls, turns,   *)
(* effects and faults: WorkflowEffects implements EffectPromise.           *)
(***************************************************************************)
EXTENDS WorkflowEffects, TLAPS

(* What the argument needs of the types.                                   *)
RowsOK == /\ turn \in [Turns -> TurnRow] /\ active \in 0..MaxTurns
          /\ eff \in [Turns -> [Keys -> EffectRow]]
          /\ call \in [Callers -> CallRow]
          /\ made \in [Turns -> [Keys -> Nat]]

(* Only a turn that exists is admitted or active, and of any other there   *)
(* is no ledger.                                                           *)
Existing == /\ \A t \in Turns : turn[t].receipt => Exists(t)
            /\ active # 0 => Exists(active)
Blank == \A t \in Turns, k \in Keys : ~Exists(t) => eff[t][k] = NoEffect /\ made[t][k] = 0

(* An effect that may be claimed was not made here, nor by an execution    *)
(* this one carries on.                                                    *)
Untouched == \A t \in Turns, k \in Keys :
               eff[t][k].state \in {"none", "not_admitted"} => made[t][k] = 0 /\ ~eff[t][k].sealed

(* A call under way has entered its effect, and made it only if it says    *)
(* so; the row is still its own, unless the runtime's exit has taken it.   *)
UnderWay(c) ==
    call[c].step # "idle" =>
      LET t == call[c].t  k == call[c].k IN
      /\ t \in Turns /\ k \in Keys /\ Exists(t)
      /\ eff[t][k].state = "indeterminate" \/ (eff[t][k].state = "claimed" /\ eff[t][k].holder = c)
      /\ ~eff[t][k].sealed
      /\ call[c].step # "made" => made[t][k] = 0

(* No two calls are about the same effect of the same turn.                *)
Apart(c, d) == call[c].step # "idle" /\ call[d].step # "idle" /\ c # d
                 => call[c].t # call[d].t \/ call[c].k # call[d].k

(* The inductive invariant.                                                *)
IInv == /\ RowsOK /\ Existing /\ Blank /\ Untouched
        /\ \A c \in Callers : UnderWay(c)
        /\ \A c, d \in Callers : Apart(c, d)

-----------------------------------------------------------------------------
(* The kinds of step.  Most leave the ledger as it is, but for the outcome *)
(* of rows and the exit of the runtime, which makes a claimed row          *)
(* indeterminate.                                                          *)
Free0 == {"none", "not_admitted"}
Faded(r, q) == /\ q.sealed = r.sealed
               /\ \/ q.state = r.state /\ (r.state = "claimed" => q.holder = r.holder)
                  \/ r.state = "claimed" /\ q.state = "indeterminate"
QuietStep == /\ RowsOK' /\ Existing' /\ call' = call /\ made' = made
             /\ \A t \in Turns : Exists(t)' <=> Exists(t)
             /\ \A t \in Turns, k \in Keys :
                  Faded(eff[t][k], eff'[t][k]) /\ (~Exists(t) => eff'[t][k] = eff[t][k])

(* A turn begins and carries on those of S.                                *)
Birth(t, S) == /\ RowsOK' /\ Existing' /\ call' = call /\ made' = made
               /\ ~Exists(t) /\ Exists(t)' /\ \A s \in S : Exists(s)
               /\ \A s \in Turns \ {t} : (Exists(s)' <=> Exists(s)) /\ eff'[s] = eff[s]
               /\ \A k \in Keys :
                    /\ eff'[t][k].state \in Free0 <=> \A s \in S : eff[s][k].state \in Free0
                    /\ eff'[t][k].sealed <=> eff'[t][k].state \notin Free0

(* What a call does: it claims, makes, goes on, or ends.                   *)
Steady == RowsOK' /\ turn' = turn /\ active' = active
Claims(c, k) ==
  /\ Steady /\ made' = made /\ call[c].step = "idle"
  /\ active \in Turns /\ Exists(active) /\ eff[active][k].state \in Free0
  /\ call'[c].t = active /\ call'[c].k = k /\ call'[c].step = "claimed"
  /\ \A d \in Callers \ {c} : call'[d] = call[d]
  /\ eff'[active][k].state = "claimed" /\ eff'[active][k].holder = c
  /\ eff'[active][k].sealed = eff[active][k].sealed
  /\ eff'[active][k].res \in {"none", eff[active][k].res}
  /\ \A t \in Turns, j \in Keys : t # active \/ j # k => eff'[t][j] = eff[t][j]
Makes(c) ==
  /\ Steady /\ eff' = eff /\ call[c].step \in {"claimed", "checked"}
  /\ call'[c].t = call[c].t /\ call'[c].k = call[c].k /\ call'[c].step = "made"
  /\ \A d \in Callers \ {c} : call'[d] = call[d]
  /\ made' = [made EXCEPT ![call[c].t][call[c].k] = made[call[c].t][call[c].k] + 1]
GoesOn(c) ==
  /\ Steady /\ eff' = eff /\ made' = made /\ call[c].step \in {"claimed", "checked"}
  /\ call'[c].t = call[c].t /\ call'[c].k = call[c].k
  /\ call'[c].step \in {"checked", "refused", "unknown"}
  /\ \A d \in Callers \ {c} : call'[d] = call[d]
Ends(c) ==
  /\ Steady /\ made' = made /\ call'[c].step = "idle"
  /\ \A d \in Callers \ {c} : call'[d] = call[d]
  /\ \/ eff' = eff
     \/ \E o \in {"completed", "indeterminate", "wait", "not_admitted"} :
          LET t == call[c].t  k == call[c].k IN
          /\ call[c].step # "idle" /\ (o = "not_admitted" => call[c].step = "refused")
          /\ o = "completed" => call[c].step = "made"
          /\ eff[t][k].state = "claimed" /\ eff[t][k].holder = c
          /\ eff'[t][k].state = o /\ eff'[t][k].sealed = eff[t][k].sealed
          /\ eff'[t][k].res = eff[t][k].res
          /\ \A s \in Turns, j \in Keys : s # t \/ j # k => eff'[s][j] = eff[s][j]

-----------------------------------------------------------------------------
(* What a ledger is copied from is as good as the copy.                    *)
LEMMA MergedStates ==
  ASSUME NEW a \in States, NEW b \in States
  PROVE  /\ Merged({Copied(a), Copied(b)}) \in States \ {"claimed"}
         /\ Merged({Copied(a), Copied(b)}) \in Free0 <=> a \in Free0 /\ b \in Free0
<1> DEFINE S == {Copied(a), Copied(b)}
<1>1. CASE "completed" \in S
  <2>1. Merged(S) = "completed"
    BY <1>1 DEF Merged
  <2> QED BY <1>1, <2>1 DEF Copied, States, Free0
<1>2. CASE "completed" \notin S /\ "indeterminate" \in S
  <2>1. Merged(S) = "indeterminate"
    BY <1>2 DEF Merged
  <2> QED BY <1>2, <2>1 DEF Copied, States, Free0
<1>3. CASE "completed" \notin S /\ "indeterminate" \notin S /\ "wait" \in S
  <2>1. Merged(S) = "wait"
    BY <1>3 DEF Merged
  <2> QED BY <1>3, <2>1 DEF Copied, States, Free0
<1>4. CASE "completed" \notin S /\ "indeterminate" \notin S /\ "wait" \notin S
  <2>1. Merged(S) = IF "not_admitted" \in S THEN "not_admitted" ELSE "none"
    BY <1>4 DEF Merged
  <2>2. a \in {"none", "not_admitted"} /\ b \in {"none", "not_admitted"}
    BY <1>4 DEF Copied, States
  <2> QED BY <2>1, <2>2 DEF States, Free0
<1> QED BY <1>1, <1>2, <1>3, <1>4

(* The ledger a turn starts with.                                          *)
LEMMA Mirrored ==
  ASSUME RowsOK, NEW t \in Turns, NEW s \in Turns, NEW x \in Turns, Mirror(t, s, x)
  PROVE  /\ eff' \in [Turns -> [Keys -> EffectRow]]
         /\ \A u \in Turns \ {t} : eff'[u] = eff[u]
         /\ \A k \in Keys :
              /\ eff'[t][k].state \in Free0 <=> \A u \in {s, x} : eff[u][k].state \in Free0
              /\ eff'[t][k].sealed <=> eff'[t][k].state \notin Free0
<1> DEFINE state(k) == Merged({Copied(eff[s][k].state), Copied(eff[x][k].state)})
           row(k) == [state |-> state(k), holder |-> NoCaller, sealed |-> state(k) # "not_admitted",
                      res |-> Appended(eff[s][k].res, eff[x][k].res)]
<1>1. eff' = [eff EXCEPT ![t] = [k \in Keys |-> IF state(k) = "none" THEN NoEffect ELSE row(k)]]
  BY DEF Mirror
<1>2. ASSUME NEW k \in Keys
      PROVE  /\ state(k) \in States \ {"claimed"}
             /\ state(k) \in Free0 <=> \A u \in {s, x} : eff[u][k].state \in Free0
             /\ Appended(eff[s][k].res, eff[x][k].res) \in Resolutions
  <2>1. eff[s][k] \in EffectRow /\ eff[x][k] \in EffectRow
    BY DEF RowsOK
  <2>2. eff[s][k].state \in States /\ eff[x][k].state \in States
        /\ eff[s][k].res \in Resolutions /\ eff[x][k].res \in Resolutions
    BY <2>1 DEF EffectRow
  <2> QED BY <2>2, MergedStates DEF Appended
<1> HIDE DEF state
<1>3. ASSUME NEW k \in Keys PROVE row(k) \in EffectRow
  BY <1>2 DEF EffectRow
<1>4. NoEffect \in EffectRow
  BY DEF NoEffect, EffectRow, States, Resolutions
<1>5. ASSUME NEW k \in Keys PROVE eff'[t][k] = IF state(k) = "none" THEN NoEffect ELSE row(k)
  BY <1>1 DEF RowsOK
<1>6. eff' \in [Turns -> [Keys -> EffectRow]] /\ \A u \in Turns \ {t} : eff'[u] = eff[u]
  BY <1>1, <1>3, <1>4 DEF RowsOK
<1>7. ASSUME NEW k \in Keys
      PROVE  /\ eff'[t][k].state = state(k)
             /\ eff'[t][k].sealed <=> state(k) \notin Free0
  <2>1. CASE state(k) = "none"
    <3>1. eff'[t][k] = NoEffect
      BY <2>1, <1>5
    <3> QED BY <2>1, <3>1 DEF NoEffect, Free0
  <2>2. CASE state(k) # "none"
    <3>1. eff'[t][k] = row(k)
      BY <2>2, <1>5
    <3>2. row(k).state = state(k) /\ row(k).sealed = (state(k) # "not_admitted")
      OBVIOUS
    <3> QED BY <2>2, <3>1, <3>2 DEF Free0
  <2> QED BY <2>1, <2>2
<1> QED BY <1>2, <1>6, <1>7

(* A turn that seals the active one.                                       *)
LEMMA SealedRows ==
  ASSUME RowsOK
  PROVE  /\ Sealed(active) \in [Turns -> TurnRow]
         /\ \A t \in Turns : /\ Sealed(active)[t].kind = turn[t].kind
                             /\ Sealed(active)[t].receipt = turn[t].receipt
                             /\ Sealed(active)[t].parent = turn[t].parent
                             /\ Sealed(active)[t].resumedBy = turn[t].resumedBy
                             /\ t # active => Sealed(active)[t] = turn[t]
<1>1. CASE active = 0
  BY <1>1 DEF Sealed, RowsOK
<1>2. CASE active # 0
  <2>1. active \in Turns /\ turn[active] \in TurnRow
    BY <1>2, ConstantAssumption DEF RowsOK, Turns
  <2>2. Sealed(active) = [turn EXCEPT ![active] = [turn[active] EXCEPT !.finished = TRUE]]
    BY <1>2, <2>1 DEF Sealed, RowsOK
  <2>3. /\ [turn[active] EXCEPT !.finished = TRUE] \in TurnRow
        /\ [turn[active] EXCEPT !.finished = TRUE].kind = turn[active].kind
        /\ [turn[active] EXCEPT !.finished = TRUE].receipt = turn[active].receipt
        /\ [turn[active] EXCEPT !.finished = TRUE].parent = turn[active].parent
        /\ [turn[active] EXCEPT !.finished = TRUE].resumedBy = turn[active].resumedBy
    BY <2>1 DEF TurnRow
  <2> QED BY <2>1, <2>2, <2>3 DEF RowsOK
<1> QED BY <1>1, <1>2

(* A row of a turn that has just begun.                                    *)
LEMMA NewRow ==
  ASSUME NEW kd \in {"none", "fresh", "resume"}, NEW r \in BOOLEAN, NEW p \in 0..MaxTurns
  PROVE  /\ [NoTurn EXCEPT !.kind = kd, !.receipt = r, !.parent = p] \in TurnRow
         /\ [NoTurn EXCEPT !.kind = kd, !.receipt = r] \in TurnRow
         /\ [NoTurn EXCEPT !.kind = kd, !.parent = p] \in TurnRow
         /\ [NoTurn EXCEPT !.kind = kd] \in TurnRow
<1>1. 0 \in 0..MaxTurns
  BY ConstantAssumption
<1> QED BY <1>1 DEF NoTurn, TurnRow

(* A new input begins.                                                     *)
LEMMA BeginIsBirth ==
  ASSUME IInv, NEW t \in Turns, Begin(t)
  PROVE  Birth(t, {})
<1>1. RowsOK /\ Existing /\ Blank
  BY DEF IInv
<1> DEFINE row == [NoTurn EXCEPT !.kind = "fresh", !.receipt = TRUE]
<1>2. row \in TurnRow /\ row.kind = "fresh" /\ row.receipt
  <2>1. 0 \in 0..MaxTurns
    BY ConstantAssumption
  <2> QED BY <2>1, NewRow DEF NoTurn
<1> HIDE DEF row
<1>3. turn' = [Sealed(active) EXCEPT ![t] = row] /\ active' = t /\ ~Exists(t)
      /\ eff' = eff /\ call' = call /\ made' = made
  BY DEF Begin, Free, row
<1>4. turn' \in [Turns -> TurnRow] /\ turn'[t] = row
      /\ \A s \in Turns \ {t} : turn'[s].kind = turn[s].kind /\ turn'[s].receipt = turn[s].receipt
  BY <1>1, <1>2, <1>3, SealedRows
<1>5. t \in 0..MaxTurns
  BY DEF Turns
<1>6. RowsOK'
  BY <1>1, <1>3, <1>4, <1>5 DEF RowsOK
<1>7. Existing'
  BY <1>1, <1>2, <1>3, <1>4 DEF Existing, Exists
<1>8. ASSUME NEW k \in Keys PROVE eff'[t][k].state \in Free0 /\ ~eff'[t][k].sealed
  BY <1>1, <1>3 DEF Blank, NoEffect, Free0
<1> QED BY <1>2, <1>3, <1>4, <1>6, <1>7, <1>8 DEF Birth, Exists

(* A turn that resumes the active one.                                     *)
LEMMA ResumeIsBirth ==
  ASSUME IInv, NEW t \in Turns, Resume(t)
  PROVE  Birth(t, {active})
<1>1. RowsOK /\ Existing /\ Blank
  BY DEF IInv
<1>2. active \in Turns /\ Exists(active) /\ turn[active].receipt /\ active # t /\ ~Exists(t)
  <2>1. active # 0 /\ active \in 0..MaxTurns /\ turn[active].receipt /\ ~Exists(t)
    BY <1>1 DEF Resume, Admitted, RowsOK, Free
  <2>2. active \in Turns
    BY <2>1, ConstantAssumption DEF Turns
  <2> QED BY <1>1, <2>1, <2>2 DEF Existing
<1> DEFINE row == [NoTurn EXCEPT !.kind = "resume", !.receipt = TRUE, !.parent = active]
<1>3. row \in TurnRow /\ row.kind = "resume" /\ row.receipt
  BY <1>1, NewRow DEF NoTurn, RowsOK
<1> DEFINE old == [turn[active] EXCEPT !.finished = TRUE, !.resumedBy = t]
<1>4. old \in TurnRow /\ old.kind = turn[active].kind /\ old.receipt = turn[active].receipt
  <2>1. turn[active] \in TurnRow /\ t \in 0..MaxTurns
    BY <1>1, <1>2 DEF RowsOK, Turns
  <2> QED BY <2>1 DEF TurnRow
<1> HIDE DEF row
<1>5. turn' = [turn EXCEPT ![t] = row, ![active].finished = TRUE, ![active].resumedBy = t]
  BY DEF Resume, row
<1>6. turn' \in [Turns -> TurnRow] /\ turn'[t] = row
      /\ \A s \in Turns \ {t} : turn'[s].kind = turn[s].kind /\ turn'[s].receipt = turn[s].receipt
  <2>1. turn' = [turn EXCEPT ![t] = row, ![active] = old]
    BY <1>1, <1>2, <1>5 DEF RowsOK
  <2> HIDE DEF old
  <2> QED BY <1>1, <1>2, <1>3, <1>4, <2>1 DEF RowsOK
<1>7. active' = t /\ call' = call /\ made' = made /\ Mirror(t, active, active)
  BY DEF Resume
<1>8. /\ eff' \in [Turns -> [Keys -> EffectRow]]
      /\ \A u \in Turns \ {t} : eff'[u] = eff[u]
      /\ \A k \in Keys :
           /\ eff'[t][k].state \in Free0 <=> \A u \in {active} : eff[u][k].state \in Free0
           /\ eff'[t][k].sealed <=> eff'[t][k].state \notin Free0
  BY <1>1, <1>2, <1>7, Mirrored
<1>9. RowsOK' /\ Existing'
  <2>1. t \in 0..MaxTurns
    BY DEF Turns
  <2> QED BY <1>1, <1>3, <1>6, <1>7, <1>8, <2>1 DEF RowsOK, Existing, Exists
<1> QED BY <1>2, <1>3, <1>6, <1>7, <1>8, <1>9 DEF Birth, Exists

(* The successor a provider reconnect makes.                               *)
LEMMA ReconnectIsBirth ==
  ASSUME IInv, NEW t \in Turns, NEW s \in Turns, Reconnect(t, s)
  PROVE  Birth(t, {s, active})
<1>1. RowsOK /\ Existing /\ Blank
  BY DEF IInv
<1>2. active \in Turns /\ Exists(active) /\ active # t /\ ~Exists(t)
  <2>1. active # 0 /\ active \in 0..MaxTurns /\ turn[active].receipt /\ ~Exists(t)
    BY <1>1 DEF Reconnect, Admitted, RowsOK, Free
  <2>2. active \in Turns
    BY <2>1, ConstantAssumption DEF Turns
  <2> QED BY <1>1, <2>1, <2>2 DEF Existing
<1>3. Exists(s) /\ s # t
  BY <1>1, <1>2 DEF Reconnect, Existing
<1> DEFINE row == [NoTurn EXCEPT !.kind = turn[s].kind, !.parent = active]
<1>4. row \in TurnRow /\ row.kind = turn[s].kind /\ ~row.receipt
  <2>1. turn[s].kind \in {"none", "fresh", "resume"} /\ active \in 0..MaxTurns
    BY <1>1 DEF RowsOK, TurnRow
  <2> QED BY <2>1, NewRow DEF NoTurn
<1> HIDE DEF row
<1>5. turn' = [turn EXCEPT ![t] = row, ![active].finished = TRUE,
                           ![s].finished = TRUE, ![s].superseded = (turn[s].kind = "fresh")]
  BY DEF Reconnect, row
<1>6. turn' \in [Turns -> TurnRow] /\ turn'[t] = row
      /\ \A u \in Turns \ {t} : turn'[u].kind = turn[u].kind /\ turn'[u].receipt = turn[u].receipt
  <2> DEFINE one == [turn EXCEPT ![t] = row]
             two == [one EXCEPT ![active] = [one[active] EXCEPT !.finished = TRUE]]
             last == [two[s] EXCEPT !.finished = TRUE, !.superseded = (turn[s].kind = "fresh")]
  <2>1. turn' = [two EXCEPT ![s] = last]
    BY <1>1, <1>2, <1>3, <1>5 DEF RowsOK
  <2>2. one \in [Turns -> TurnRow] /\ one[t] = row /\ \A u \in Turns \ {t} : one[u] = turn[u]
    BY <1>1, <1>4 DEF RowsOK
  <2> HIDE DEF one
  <2>3. /\ two \in [Turns -> TurnRow] /\ two[t] = row
        /\ \A u \in Turns \ {t} : two[u].kind = turn[u].kind /\ two[u].receipt = turn[u].receipt
    <3>1. one[active] \in TurnRow
      BY <1>2, <2>2
    <3>2. /\ [one[active] EXCEPT !.finished = TRUE] \in TurnRow
          /\ [one[active] EXCEPT !.finished = TRUE].kind = one[active].kind
          /\ [one[active] EXCEPT !.finished = TRUE].receipt = one[active].receipt
      BY <3>1 DEF TurnRow
    <3> QED BY <1>2, <2>2, <3>2
  <2> HIDE DEF two
  <2>4. last \in TurnRow /\ last.kind = two[s].kind /\ last.receipt = two[s].receipt
    <3>1. two[s] \in TurnRow
      BY <2>3
    <3> QED BY <3>1 DEF TurnRow
  <2> HIDE DEF last
  <2> QED BY <1>3, <2>1, <2>3, <2>4
<1>7. active' = t /\ call' = call /\ made' = made /\ Mirror(t, s, active)
  BY DEF Reconnect
<1>8. /\ eff' \in [Turns -> [Keys -> EffectRow]]
      /\ \A u \in Turns \ {t} : eff'[u] = eff[u]
      /\ \A k \in Keys :
           /\ eff'[t][k].state \in Free0 <=> \A u \in {s, active} : eff[u][k].state \in Free0
           /\ eff'[t][k].sealed <=> eff'[t][k].state \notin Free0
  BY <1>1, <1>2, <1>7, Mirrored
<1>9. RowsOK' /\ Existing'
  <2>1. t \in 0..MaxTurns
    BY DEF Turns
  <2> QED BY <1>1, <1>3, <1>4, <1>6, <1>7, <1>8, <2>1 DEF RowsOK, Existing, Exists
<1> QED BY <1>2, <1>3, <1>4, <1>6, <1>7, <1>8, <1>9 DEF Birth, Exists

(* A callback that a resume has passed is rebuilt.                         *)
LEMMA RebuildIsBirth ==
  ASSUME IInv, NEW q \in Turns, NEW t \in Turns, Rebuild(q, t)
  PROVE  \E s \in Turns : Birth(t, {s})
<1>1. RowsOK /\ Existing /\ Blank
  BY DEF IInv
<1>2. active \in Turns /\ Exists(active) /\ Exists(q) /\ q # t /\ ~Exists(t)
  <2>1. active # 0 /\ active \in 0..MaxTurns /\ turn[active].receipt /\ ~Exists(t) /\ turn[q].kind = "fresh"
    BY <1>1 DEF Rebuild, Admitted, RowsOK, Free
  <2>2. active \in Turns
    BY <2>1, ConstantAssumption DEF Turns
  <2> QED BY <1>1, <2>1, <2>2 DEF Existing, Exists
<1> DEFINE row == [NoTurn EXCEPT !.kind = "fresh"]
<1>3. row \in TurnRow /\ row.kind = "fresh" /\ ~row.receipt
  <2>1. 0 \in 0..MaxTurns
    BY ConstantAssumption
  <2> QED BY <2>1, NewRow DEF NoTurn
<1> DEFINE old == [turn[q] EXCEPT !.superseded = TRUE]
<1>4. old \in TurnRow /\ old.kind = turn[q].kind /\ old.receipt = turn[q].receipt
  <2>1. turn[q] \in TurnRow
    BY <1>1 DEF RowsOK
  <2> QED BY <2>1 DEF TurnRow
<1> HIDE DEF row
<1>5. turn' = [turn EXCEPT ![t] = row, ![q].superseded = TRUE]
  BY DEF Rebuild, row
<1>6. turn' \in [Turns -> TurnRow] /\ turn'[t] = row
      /\ \A s \in Turns \ {t} : turn'[s].kind = turn[s].kind /\ turn'[s].receipt = turn[s].receipt
  <2>1. turn' = [turn EXCEPT ![t] = row, ![q] = old]
    BY <1>1, <1>2, <1>5 DEF RowsOK
  <2> HIDE DEF old
  <2> QED BY <1>1, <1>2, <1>3, <1>4, <2>1 DEF RowsOK
<1>7. active' = active /\ call' = call /\ made' = made
  BY DEF Rebuild
<1>8. PICK s \in {q, active} : Mirror(t, s, s)
  BY DEF Rebuild
<1>9. /\ eff' \in [Turns -> [Keys -> EffectRow]]
      /\ \A u \in Turns \ {t} : eff'[u] = eff[u]
      /\ \A k \in Keys :
           /\ eff'[t][k].state \in Free0 <=> \A u \in {s} : eff[u][k].state \in Free0
           /\ eff'[t][k].sealed <=> eff'[t][k].state \notin Free0
  BY <1>1, <1>2, <1>8, Mirrored
<1>10. RowsOK' /\ Existing'
  BY <1>1, <1>2, <1>3, <1>6, <1>7, <1>9 DEF RowsOK, Existing, Exists
<1>11. Birth(t, {s})
  BY <1>2, <1>3, <1>6, <1>7, <1>8, <1>9, <1>10 DEF Birth, Exists
<1> QED BY <1>2, <1>8, <1>11

(* The steps that leave the ledger alone.                                  *)
LEMMA SameLedger ==
  ASSUME RowsOK, RowsOK', Existing', call' = call, made' = made, eff' = eff,
         \A t \in Turns : turn'[t].kind = turn[t].kind
  PROVE  QuietStep
  BY DEF QuietStep, Faded, Exists

(* The successor a reconnect made is admitted; the ledger stays.           *)
LEMMA AdmitIsQuiet ==
  ASSUME IInv, NEW t \in Turns, AdmitSuccessor(t)
  PROVE  QuietStep
<1>1. RowsOK /\ Existing /\ Exists(t) /\ active = t
  BY DEF IInv, AdmitSuccessor
<1>2. eff' = eff /\ call' = call /\ made' = made /\ active' = active
  BY DEF AdmitSuccessor
<1> DEFINE new == [turn[t] EXCEPT !.receipt = TRUE]
<1>3. new \in TurnRow /\ new.kind = turn[t].kind
  BY <1>1 DEF RowsOK, TurnRow
<1>4. turn' \in [Turns -> TurnRow] /\ (\A s \in Turns : turn'[s].kind = turn[s].kind)
      /\ \A s \in Turns \ {t} : turn'[s].receipt = turn[s].receipt
  <2> DEFINE p == turn[t].parent
  <2>1. CASE p = 0
    <3>1. turn' = [turn EXCEPT ![t] = new]
      BY <2>1, <1>1 DEF AdmitSuccessor, RowsOK
    <3> HIDE DEF new
    <3> QED BY <1>1, <1>3, <3>1 DEF RowsOK
  <2>2. CASE p # 0
    <3>1. p \in Turns
      <4>1. p \in 0..MaxTurns
        BY <1>1 DEF RowsOK, TurnRow
      <4> QED BY <2>2, <4>1, ConstantAssumption DEF Turns
    <3> DEFINE one == [turn EXCEPT ![t] = new]
               last == [one[p] EXCEPT !.resumedBy = t]
    <3>2. turn' = [one EXCEPT ![p] = last]
      BY <2>2, <3>1, <1>1 DEF AdmitSuccessor, RowsOK
    <3>3. one \in [Turns -> TurnRow] /\ one[t] = new /\ \A s \in Turns \ {t} : one[s] = turn[s]
      BY <1>1, <1>3 DEF RowsOK
    <3> HIDE DEF new, one
    <3>4. last \in TurnRow /\ last.kind = one[p].kind /\ last.receipt = one[p].receipt
      <4>1. one[p] \in TurnRow /\ t \in 0..MaxTurns
        BY <3>1, <3>3 DEF Turns
      <4> QED BY <4>1 DEF TurnRow
    <3> HIDE DEF last, p
    <3> QED BY <1>1, <1>3, <3>1, <3>2, <3>3, <3>4
  <2> QED BY <2>1, <2>2
<1>5. RowsOK' /\ Existing'
  BY <1>1, <1>2, <1>4 DEF RowsOK, Existing, Exists
<1> QED BY <1>1, <1>2, <1>4, <1>5, SameLedger

(* A turn that was made is activated.                                      *)
LEMMA ActivateIsQuiet ==
  ASSUME IInv, NEW t \in Turns, Activate(t)
  PROVE  QuietStep
<1>1. RowsOK /\ Existing /\ Exists(t)
  BY DEF IInv, Activate
<1>2. turn' = Sealed(active) /\ active' = t /\ eff' = eff /\ call' = call /\ made' = made
  BY DEF Activate
<1>3. RowsOK'
  <2>1. t \in 0..MaxTurns
    BY DEF Turns
  <2> QED BY <1>1, <1>2, <2>1, SealedRows DEF RowsOK
<1>4. \A s \in Turns : turn'[s].kind = turn[s].kind /\ turn'[s].receipt = turn[s].receipt
  BY <1>1, <1>2, SealedRows
<1>5. Existing'
  BY <1>1, <1>2, <1>4 DEF Existing, Exists
<1> QED BY <1>1, <1>2, <1>3, <1>4, <1>5, SameLedger

(* The runtime exits: what was claimed is of unknown outcome.              *)
LEMMA ExitIsQuiet ==
  ASSUME IInv, RuntimeExit
  PROVE  QuietStep
<1>1. RowsOK /\ Existing /\ Blank /\ active \in Turns
  <2>1. RowsOK /\ Existing /\ Blank /\ active # 0
    BY DEF IInv, RuntimeExit
  <2> QED BY <2>1, ConstantAssumption DEF RowsOK, Turns
<1>2. /\ eff' = [eff EXCEPT ![active] = [k \in Keys |-> Sunk(eff[active][k])]]
      /\ turn' = Sealed(active) /\ active' = active /\ call' = call /\ made' = made
  BY DEF RuntimeExit
<1>3. ASSUME NEW k \in Keys
      PROVE  Sunk(eff[active][k]) \in EffectRow /\ Faded(eff[active][k], Sunk(eff[active][k]))
  <2> DEFINE r == eff[active][k]
  <2>1. r \in EffectRow
    BY <1>1 DEF RowsOK
  <2> HIDE DEF r
  <2>2. Sunk(r) = [r EXCEPT !.state = Copied(r.state), !.holder = NoCaller]
    BY <2>1 DEF Sunk, EffectRow
  <2>3. r.state = "claimed" => Copied(r.state) = "indeterminate"
    BY DEF Copied
  <2>4. r.state # "claimed" => Copied(r.state) = r.state
    BY DEF Copied
  <2>5. Copied(r.state) \in States
    BY <2>1 DEF Copied, EffectRow, States
  <2>6. Sunk(r) \in EffectRow
    BY <2>1, <2>2, <2>5 DEF EffectRow
  <2>7. Faded(r, Sunk(r))
    BY <2>1, <2>2, <2>3, <2>4 DEF EffectRow, Faded
  <2> QED BY <2>6, <2>7 DEF r
<1>4. eff' \in [Turns -> [Keys -> EffectRow]]
  BY <1>1, <1>2, <1>3 DEF RowsOK
<1>5. \A t \in Turns, k \in Keys : Faded(eff[t][k], eff'[t][k])
  <2>1. ASSUME NEW k \in Keys PROVE eff'[active][k] = Sunk(eff[active][k])
    BY <1>1, <1>2 DEF RowsOK
  <2>2. ASSUME NEW t \in Turns, t # active PROVE eff'[t] = eff[t]
    BY <2>2, <1>1, <1>2 DEF RowsOK
  <2> QED BY <1>3, <2>1, <2>2 DEF Faded
<1>6. \A s \in Turns : turn'[s].kind = turn[s].kind /\ turn'[s].receipt = turn[s].receipt
  BY <1>1, <1>2, SealedRows
<1>7. RowsOK' /\ Existing'
  BY <1>1, <1>2, <1>4, <1>6, SealedRows DEF RowsOK, Existing, Exists
<1>8. ASSUME NEW t \in Turns, NEW k \in Keys, ~Exists(t) PROVE eff'[t][k] = eff[t][k]
  BY <1>1, <1>2, <1>8 DEF Existing, Turns, RowsOK
<1> QED BY <1>2, <1>5, <1>6, <1>7, <1>8 DEF QuietStep, Exists

(* The reconciler and the operator write outcomes only.                    *)
LEMMA OutcomesAreQuiet ==
  ASSUME IInv, turn' = turn, active' = active, call' = call, made' = made,
         eff' \in [Turns -> [Keys -> EffectRow]],
         \A t \in Turns, k \in Keys :
           \E r \in Resolutions : eff'[t][k] = [eff[t][k] EXCEPT !.res = r],
         \A t \in Turns, k \in Keys : ~Exists(t) => eff'[t][k] = eff[t][k]
  PROVE  QuietStep
<1>1. RowsOK /\ Existing
  BY DEF IInv
<1>2. RowsOK' /\ Existing'
  BY <1>1 DEF RowsOK, Existing, Exists
<1>3. ASSUME NEW t \in Turns, NEW k \in Keys PROVE Faded(eff[t][k], eff'[t][k])
  <2>1. PICK r \in Resolutions : eff'[t][k] = [eff[t][k] EXCEPT !.res = r]
    OBVIOUS
  <2>2. eff[t][k] \in EffectRow
    BY <1>1 DEF RowsOK
  <2> QED BY <2>1, <2>2 DEF EffectRow, Faded
<1> QED BY <1>2, <1>3 DEF QuietStep, Exists

(* Evidence says completed, rejected or nothing.                           *)
LEMMA EvidenceValues ==
  ASSUME NEW t \in Turns, NEW k \in Keys
  PROVE  Evidence(t, k) \in Resolutions
<1>1. CASE ~turn[t].receipt
  BY <1>1 DEF Evidence, Resolutions
<1>2. CASE turn[t].receipt
  <2>1. Evidence(t, k) \in {"none", "completed", "rejected"}
    <3>1. CASE kind[k] = "delegation"
      BY <1>2, <3>1 DEF Evidence
    <3>2. CASE kind[k] = "acknowledgement"
      BY <1>2, <3>2 DEF Evidence
    <3>3. CASE kind[k] = "completion"
      BY <1>2, <3>3 DEF Evidence
    <3>4. CASE kind[k] \notin {"delegation", "acknowledgement", "completion"}
      BY <1>2, <3>4 DEF Evidence
    <3> QED BY <3>1, <3>2, <3>3, <3>4
  <2> QED BY <2>1 DEF Resolutions
<1> QED BY <1>1, <1>2

(* A reconciliation adds outcomes to rows and moves the cursor.            *)
LEMMA ReconcileIsQuiet ==
  ASSUME IInv, ReconcileEffects
  PROVE  QuietStep
<1>1. RowsOK /\ Existing /\ Blank
  BY DEF IInv
<1> DEFINE direct(t, k) == Direct(Page, t, k)
           after(t, k) == Found(Page, t, k)
<1>2. /\ eff' = [t \in Turns |-> [k \in Keys |-> [eff[t][k] EXCEPT !.res = after(t, k)]]]
      /\ turn' = turn /\ active' = active /\ call' = call /\ made' = made
  BY DEF ReconcileEffects
<1>3. ASSUME NEW t \in Turns, NEW k \in Keys PROVE direct(t, k) \in Resolutions
  <2>1. eff[t][k] \in EffectRow
    BY <1>1 DEF RowsOK
  <2> QED BY <2>1, EvidenceValues DEF EffectRow, Direct
<1>4. ASSUME NEW t \in Turns, NEW k \in Keys PROVE after(t, k) \in Resolutions
  BY <1>3 DEF Resolutions, Found
<1>5. ASSUME NEW t \in Turns, NEW k \in Keys, ~Exists(t) PROVE after(t, k) = eff[t][k].res
  <2>1. eff[t][k] = NoEffect
    BY <1>1, <1>5 DEF Blank
  <2>2. ~Unresolved(t, k)
    BY <2>1 DEF Unresolved, NoEffect
  <2>3. <<t, k>> \notin Page
    BY <2>2 DEF Page, After
  <2> QED BY <2>3 DEF Found, Direct
<1> HIDE DEF after
<1>6. ASSUME NEW t \in Turns, NEW k \in Keys PROVE eff'[t][k] = [eff[t][k] EXCEPT !.res = after(t, k)]
  BY <1>2
<1>7. eff' \in [Turns -> [Keys -> EffectRow]]
  <2>1. ASSUME NEW t \in Turns, NEW k \in Keys PROVE [eff[t][k] EXCEPT !.res = after(t, k)] \in EffectRow
    <3>1. eff[t][k] \in EffectRow
      BY <1>1 DEF RowsOK
    <3> QED BY <3>1, <1>4 DEF EffectRow
  <2> QED BY <1>2, <2>1
<1>8. ASSUME NEW t \in Turns, NEW k \in Keys, ~Exists(t) PROVE eff'[t][k] = eff[t][k]
  <2>1. eff[t][k] \in EffectRow
    BY <1>1 DEF RowsOK
  <2> QED BY <1>5, <1>6, <1>8, <2>1 DEF EffectRow
<1> QED BY <1>2, <1>4, <1>6, <1>7, <1>8, OutcomesAreQuiet

(* The operator's retirement of an effect writes its outcome only.         *)
LEMMA RetireIsQuiet ==
  ASSUME IInv, NEW t \in Turns, NEW k \in Keys, Retire(t, k)
  PROVE  QuietStep
<1>1. RowsOK /\ Existing /\ Exists(t)
  BY DEF IInv, Retire, Existing, Turns
<1>2. /\ eff' = [eff EXCEPT ![t][k].res = "unknown_preserved"]
      /\ turn' = turn /\ active' = active /\ call' = call /\ made' = made
  BY DEF Retire
<1>3. ASSUME NEW s \in Turns, NEW j \in Keys
      PROVE  \E r \in Resolutions : /\ eff'[s][j] = [eff[s][j] EXCEPT !.res = r]
                                    /\ [eff[s][j] EXCEPT !.res = r] \in EffectRow
  <2>1. eff[s][j] \in EffectRow /\ eff[s][j].res \in Resolutions /\ "unknown_preserved" \in Resolutions
    BY <1>1 DEF RowsOK, EffectRow, Resolutions
  <2>2. eff[s][j] = [eff[s][j] EXCEPT !.res = eff[s][j].res]
    BY <2>1 DEF EffectRow
  <2>3. \/ eff'[s][j] = eff[s][j]
        \/ eff'[s][j] = [eff[s][j] EXCEPT !.res = "unknown_preserved"]
    BY <1>1, <1>2 DEF RowsOK
  <2>4. [eff[s][j] EXCEPT !.res = "unknown_preserved"] \in EffectRow
    BY <2>1 DEF EffectRow
  <2> QED BY <2>1, <2>2, <2>3, <2>4
<1>4. eff' \in [Turns -> [Keys -> EffectRow]]
  BY <1>1, <1>2, <1>3 DEF RowsOK
<1>5. ASSUME NEW s \in Turns, NEW j \in Keys, ~Exists(s) PROVE eff'[s][j] = eff[s][j]
  BY <1>1, <1>2, <1>5 DEF RowsOK
<1> QED BY <1>2, <1>3, <1>4, <1>5, OutcomesAreQuiet

-----------------------------------------------------------------------------
(* The steps of a call.                                                    *)
LEMMA ClaimIsClaims ==
  ASSUME IInv, NEW c \in Callers, NEW k \in Keys, Claim(c, k)
  PROVE  Claims(c, k)
<1>1. RowsOK /\ Existing /\ active \in Turns /\ Exists(active) /\ call[c].step = "idle"
  <2>1. RowsOK /\ Existing /\ active # 0 /\ call[c].step = "idle"
    BY DEF IInv, Claim, Admitted
  <2> QED BY <2>1, ConstantAssumption DEF RowsOK, Turns, Existing
<1>2. eff[active][k].state \in Free0 /\ turn' = turn /\ active' = active /\ made' = made
  BY DEF Claim, Claimable, Free0
<1> DEFINE row == IF eff[active][k].state = "none"
                  THEN [NoEffect EXCEPT !.state = "claimed", !.holder = c]
                  ELSE [eff[active][k] EXCEPT !.state = "claimed", !.holder = c]
           new == [NoCall EXCEPT !.step = "claimed", !.t = active, !.k = k]
<1>3. eff' = [eff EXCEPT ![active] = [eff[active] EXCEPT ![k] = row]]
  BY <1>1 DEF Claim, RowsOK
<1>4. call' = [call EXCEPT ![c] = new]
  BY DEF Claim
<1>5. /\ row \in EffectRow /\ row.state = "claimed" /\ row.holder = c
      /\ row.sealed = eff[active][k].sealed /\ row.res \in {"none", eff[active][k].res}
  <2>1. eff[active][k] \in EffectRow
    BY <1>1 DEF RowsOK
  <2>2. eff[active][k].state = "none" => eff[active][k].sealed = FALSE
    BY <1>1, <2>1 DEF IInv, Untouched, EffectRow
  <2>3. NoEffect \in EffectRow /\ NoEffect.sealed = FALSE /\ NoEffect.res = "none"
    BY DEF NoEffect, EffectRow, States, Resolutions
  <2>4. CASE eff[active][k].state = "none"
    BY <2>2, <2>3, <2>4 DEF EffectRow, States
  <2>5. CASE eff[active][k].state # "none"
    BY <2>1, <2>5 DEF EffectRow, States
  <2> QED BY <2>4, <2>5
<1>6. new \in CallRow /\ new.t = active /\ new.k = k /\ new.step = "claimed"
  BY <1>1 DEF NoCall, CallRow, RowsOK
<1> HIDE DEF row, new
<1>7. /\ eff' \in [Turns -> [Keys -> EffectRow]] /\ eff'[active][k] = row
      /\ \A t \in Turns, j \in Keys : t # active \/ j # k => eff'[t][j] = eff[t][j]
  BY <1>1, <1>3, <1>5 DEF RowsOK
<1>8. call' \in [Callers -> CallRow] /\ call'[c] = new /\ \A d \in Callers \ {c} : call'[d] = call[d]
  BY <1>1, <1>4, <1>6 DEF RowsOK
<1>9. RowsOK'
  BY <1>1, <1>2, <1>7, <1>8 DEF RowsOK
<1> QED BY <1>1, <1>2, <1>5, <1>6, <1>7, <1>8, <1>9 DEF Claims, Steady

(* A call that takes another step of its tool.                             *)
LEMMA AtStep ==
  ASSUME RowsOK, NEW c \in Callers,
         NEW s \in {"idle", "claimed", "checked", "made", "refused", "unknown"}, At(c, s)
  PROVE  /\ call' \in [Callers -> CallRow]
         /\ call'[c].t = call[c].t /\ call'[c].k = call[c].k /\ call'[c].step = s
         /\ \A d \in Callers \ {c} : call'[d] = call[d]
<1> DEFINE new == [call[c] EXCEPT !.step = s]
<1>1. call' = [call EXCEPT ![c] = new]
  BY DEF At, RowsOK
<1>2. new \in CallRow /\ new.t = call[c].t /\ new.k = call[c].k /\ new.step = s
  <2>1. call[c] \in CallRow
    BY DEF RowsOK
  <2> QED BY <2>1 DEF CallRow
<1> HIDE DEF new
<1> QED BY <1>1, <1>2 DEF RowsOK

(* A call that makes its effect counts it once, for its own turn.          *)
LEMMA MadeStep ==
  ASSUME IInv, NEW c \in Callers, call[c].step \in {"claimed", "checked"}, Made(c),
         turn' = turn, active' = active, eff' = eff
  PROVE  Makes(c)
<1>1. RowsOK /\ call[c].t \in Turns /\ call[c].k \in Keys
  BY DEF IInv, UnderWay
<1> DEFINE t == call[c].t  k == call[c].k
<1>2. made' = [made EXCEPT ![t][k] = made[t][k] + 1]
  BY <1>1 DEF Made, RowsOK
<1>3. made[t][k] + 1 \in Nat
  BY <1>1 DEF RowsOK
<1>4. made' \in [Turns -> [Keys -> Nat]]
  BY <1>1, <1>2, <1>3 DEF RowsOK
<1>5. /\ call' \in [Callers -> CallRow]
      /\ call'[c].t = call[c].t /\ call'[c].k = call[c].k /\ call'[c].step = "made"
      /\ \A d \in Callers \ {c} : call'[d] = call[d]
  BY <1>1, AtStep DEF Made
<1> QED BY <1>1, <1>2, <1>4, <1>5 DEF Makes, Steady, RowsOK

(* A call that goes on without making its effect leaves the ledger.        *)
LEMMA OnStep ==
  ASSUME IInv, NEW c \in Callers, call[c].step \in {"claimed", "checked"},
         NEW s \in {"checked", "refused", "unknown"}, At(c, s),
         turn' = turn, active' = active, eff' = eff, made' = made
  PROVE  GoesOn(c)
<1>1. RowsOK
  BY DEF IInv
<1>2. /\ call' \in [Callers -> CallRow]
      /\ call'[c].t = call[c].t /\ call'[c].k = call[c].k /\ call'[c].step = s
      /\ \A d \in Callers \ {c} : call'[d] = call[d]
  BY <1>1, AtStep
<1> QED BY <1>1, <1>2 DEF GoesOn, Steady, RowsOK

(* Whatever its tool, a call makes its effect or goes on.                  *)
LEMMA ToolIsMakesOrGoesOn ==
  ASSUME IInv, NEW c \in Callers,
         SendMessage(c) \/ Delegate(c) \/ Acknowledge(c) \/ CompleteCheck(c) \/ Complete(c)
  PROVE  Makes(c) \/ GoesOn(c)
<1>1. CASE SendMessage(c)
  BY <1>1, MadeStep, OnStep DEF SendMessage
<1>2. CASE Delegate(c)
  BY <1>2, MadeStep, OnStep DEF Delegate
<1>3. CASE Acknowledge(c)
  BY <1>3, MadeStep, OnStep DEF Acknowledge
<1>4. CASE CompleteCheck(c)
  <2>1. PICK s \in {"checked", "unknown"} : At(c, s)
    BY <1>4 DEF CompleteCheck
  <2> QED BY <1>4, <2>1, OnStep DEF CompleteCheck
<1>5. CASE Complete(c)
  BY <1>5, MadeStep, OnStep DEF Complete
<1> QED BY <1>1, <1>2, <1>3, <1>4, <1>5

(* The place of a call that is over is idle.                               *)
LEMMA IdleStep ==
  ASSUME RowsOK, NEW c \in Callers, call' = [call EXCEPT ![c] = NoCall]
  PROVE  /\ call' \in [Callers -> CallRow] /\ call'[c].step = "idle"
         /\ \A d \in Callers \ {c} : call'[d] = call[d]
<1>1. NoCall \in CallRow
  BY ConstantAssumption DEF NoCall, CallRow
<1> QED BY <1>1 DEF RowsOK, NoCall

(* What finish_workflow_effect writes depends on what the call knows; it   *)
(* finds the row no longer its own when the runtime has exited.            *)
LEMMA FinishIsEnds ==
  ASSUME IInv, NEW c \in Callers, Finish(c)
  PROVE  Ends(c)
<1>1. RowsOK /\ UnderWay(c)
  BY DEF IInv
<1> DEFINE t == call[c].t  k == call[c].k
<1>2. PICK o \in Outcomes(c) :
        eff' = IF eff[t][k].state = "claimed" /\ eff[t][k].holder = c
               THEN [eff EXCEPT ![t][k].state = o, ![t][k].holder = NoCaller] ELSE eff
  BY DEF Finish
<1>3. /\ turn' = turn /\ active' = active /\ made' = made
      /\ call' = [call EXCEPT ![c] = NoCall]
  BY DEF Finish
<1>4. /\ call' \in [Callers -> CallRow] /\ call'[c].step = "idle"
      /\ \A d \in Callers \ {c} : call'[d] = call[d]
  BY <1>1, <1>3, IdleStep
<1>5. /\ o \in {"completed", "indeterminate", "wait", "not_admitted"}
      /\ o = "not_admitted" => call[c].step = "refused"
      /\ o = "completed" => call[c].step = "made"
      /\ call[c].step \in {"made", "refused", "unknown"}
  <2>1. CASE call[c].step = "made"
    BY <1>2, <2>1 DEF Outcomes, Seen
  <2>2. CASE call[c].step = "refused"
    BY <1>2, <2>2 DEF Outcomes
  <2>3. CASE call[c].step = "unknown"
    BY <1>2, <2>3 DEF Outcomes
  <2>4. CASE call[c].step \notin {"made", "refused", "unknown"}
    BY <1>2, <2>4 DEF Outcomes
  <2> QED BY <2>1, <2>2, <2>3, <2>4
<1>6. CASE eff' = eff
  BY <1>1, <1>3, <1>4, <1>6 DEF Ends, Steady, RowsOK
<1>7. CASE eff' # eff
  <2>1. /\ t \in Turns /\ k \in Keys /\ eff[t][k].state = "claimed" /\ eff[t][k].holder = c
        /\ eff' = [eff EXCEPT ![t][k].state = o, ![t][k].holder = NoCaller]
    BY <1>1, <1>2, <1>5, <1>7 DEF UnderWay
  <2> DEFINE row == [eff[t][k] EXCEPT !.state = o, !.holder = NoCaller]
  <2>2. row \in EffectRow /\ row.state = o /\ row.sealed = eff[t][k].sealed /\ row.res = eff[t][k].res
    <3>1. eff[t][k] \in EffectRow
      BY <1>1, <2>1 DEF RowsOK
    <3> QED BY <1>5, <3>1 DEF EffectRow, States
  <2>3. eff' = [eff EXCEPT ![t] = [eff[t] EXCEPT ![k] = row]]
    BY <1>1, <2>1 DEF RowsOK
  <2> HIDE DEF row
  <2> DEFINE inner == [eff[t] EXCEPT ![k] = row]
  <2>a. /\ inner \in [Keys -> EffectRow] /\ inner[k] = row
        /\ \A j \in Keys \ {k} : inner[j] = eff[t][j]
    BY <1>1, <2>1, <2>2 DEF RowsOK
  <2> HIDE DEF inner
  <2>b. /\ eff' \in [Turns -> [Keys -> EffectRow]] /\ eff'[t] = inner
        /\ \A s \in Turns \ {t} : eff'[s] = eff[s]
    <3>1. eff' = [eff EXCEPT ![t] = inner]
      BY <2>3 DEF inner
    <3>2. eff \in [Turns -> [Keys -> EffectRow]] /\ t \in Turns
      BY <1>1, <2>1 DEF RowsOK
    <3> HIDE DEF t
    <3> QED BY <2>a, <3>1, <3>2
  <2>4. /\ eff' \in [Turns -> [Keys -> EffectRow]] /\ eff'[t][k] = row
        /\ \A s \in Turns, j \in Keys : s # t \/ j # k => eff'[s][j] = eff[s][j]
    BY <2>1, <2>a, <2>b
  <2>5. Steady
    BY <1>1, <1>3, <1>4, <2>4 DEF Steady, RowsOK
  <2> QED BY <1>3, <1>4, <1>5, <2>1, <2>2, <2>4, <2>5 DEF Ends
<1> QED BY <1>6, <1>7

(* A call whose process dies leaves its row claimed.                       *)
LEMMA DiesIsEnds ==
  ASSUME IInv, NEW c \in Callers, CallerDies(c)
  PROVE  Ends(c)
<1>1. RowsOK
  BY DEF IInv
<1>2. /\ call' \in [Callers -> CallRow] /\ call'[c].step = "idle"
      /\ \A d \in Callers \ {c} : call'[d] = call[d]
  BY <1>1, IdleStep DEF CallerDies
<1> QED BY <1>1, <1>2 DEF CallerDies, Ends, Steady, RowsOK

(* Every step is of one of these kinds.                                    *)
AnyKind == \/ QuietStep
           \/ \E t \in Turns, S \in SUBSET Turns : Birth(t, S)
           \/ \E c \in Callers : Makes(c) \/ GoesOn(c) \/ Ends(c) \/ \E k \in Keys : Claims(c, k)

(* Every step of the specification is of one of the kinds.                 *)
LEMMA StepKinds == IInv /\ [Next]_vars => AnyKind
<1> SUFFICES ASSUME IInv, [Next]_vars PROVE AnyKind
  OBVIOUS
<1>1. ASSUME NEW t \in Turns, Begin(t) PROVE AnyKind
  BY <1>1, BeginIsBirth DEF AnyKind
<1>2. active \in 0..MaxTurns /\ MaxTurns \in Nat
  BY ConstantAssumption DEF IInv, RowsOK
<1>3. ASSUME NEW t \in Turns, Resume(t) PROVE AnyKind
  <2>1. active \in Turns
    BY <1>2, <1>3 DEF Resume, Admitted, Turns
  <2> QED BY <1>3, <2>1, ResumeIsBirth DEF AnyKind
<1>4. ASSUME NEW t \in Turns, NEW s \in Turns, Reconnect(t, s) PROVE AnyKind
  <2>1. active \in Turns
    BY <1>2, <1>4 DEF Reconnect, Admitted, Turns
  <2> QED BY <1>4, <2>1, ReconnectIsBirth DEF AnyKind
<1>5. ASSUME NEW t \in Turns, NEW s \in Turns, Rebuild(s, t) PROVE AnyKind
  <2>1. PICK u \in Turns : Birth(t, {u})
    BY <1>5, RebuildIsBirth
  <2>2. {u} \in SUBSET Turns
    OBVIOUS
  <2> QED BY <2>1, <2>2 DEF AnyKind
<1>6. ASSUME NEW t \in Turns, AdmitSuccessor(t) \/ Activate(t) PROVE AnyKind
  BY <1>6, AdmitIsQuiet, ActivateIsQuiet DEF AnyKind
<1>7. ASSUME NEW c \in Callers, NEW k \in Keys, Claim(c, k) PROVE AnyKind
  BY <1>7, ClaimIsClaims DEF AnyKind
<1>8. ASSUME NEW c \in Callers,
             SendMessage(c) \/ Delegate(c) \/ Acknowledge(c) \/ CompleteCheck(c) \/ Complete(c)
      PROVE  AnyKind
  BY <1>8, ToolIsMakesOrGoesOn DEF AnyKind
<1>9. ASSUME NEW c \in Callers, Finish(c) \/ CallerDies(c) PROVE AnyKind
  BY <1>9, FinishIsEnds, DiesIsEnds DEF AnyKind
<1>10. ASSUME RuntimeExit \/ ReconcileEffects PROVE AnyKind
  BY <1>10, ExitIsQuiet, ReconcileIsQuiet DEF AnyKind
<1>11. ASSUME NEW t \in Turns, NEW k \in Keys, Retire(t, k) PROVE AnyKind
  BY <1>11, RetireIsQuiet DEF AnyKind
<1>12. ASSUME turn' = turn, active' = active, eff' = eff, call' = call, made' = made PROVE AnyKind
  BY <1>12, SameLedger DEF AnyKind, IInv, RowsOK, Existing, Exists
<1>13. ASSUME NEW t \in Turns, NEW k \in Keys, ChildActs(t, k) PROVE AnyKind
  BY <1>12, <1>13 DEF ChildActs
<1>14. ASSUME Gate PROVE AnyKind
  BY <1>12, <1>14 DEF Gate
<1>15. CASE UNCHANGED vars
  BY <1>12, <1>15 DEF vars
<1> QED BY <1>1, <1>3, <1>4, <1>5, <1>6, <1>7, <1>8, <1>9, <1>10, <1>11, <1>13, <1>14, <1>15
  DEF Next, TurnStep, CallStep

-----------------------------------------------------------------------------
(* Every kind of step keeps the invariant.                                 *)
LEMMA QuietInv ==
  ASSUME IInv, QuietStep PROVE IInv'
<1>1. /\ RowsOK' /\ Existing' /\ call' = call /\ made' = made
      /\ \A t \in Turns : Exists(t)' <=> Exists(t)
      /\ \A t \in Turns, k \in Keys :
           Faded(eff[t][k], eff'[t][k]) /\ (~Exists(t) => eff'[t][k] = eff[t][k])
  BY DEF QuietStep
<1>2. Blank'
  BY <1>1 DEF IInv, Blank
<1>3. Untouched'
  BY <1>1 DEF IInv, Untouched, Faded
<1>4. ASSUME NEW c \in Callers PROVE UnderWay(c)'
  BY <1>1 DEF IInv, UnderWay, Faded
<1>5. ASSUME NEW c \in Callers, NEW d \in Callers PROVE Apart(c, d)'
  BY <1>1 DEF IInv, Apart
<1> QED BY <1>1, <1>2, <1>3, <1>4, <1>5 DEF IInv

(* A turn that begins keeps the invariant: nothing was made in it yet.     *)
LEMMA BirthInv ==
  ASSUME IInv, NEW t \in Turns, NEW S \in SUBSET Turns, Birth(t, S) PROVE IInv'
<1>1. /\ RowsOK' /\ Existing' /\ call' = call /\ made' = made
      /\ ~Exists(t) /\ Exists(t)'
      /\ \A s \in Turns \ {t} : (Exists(s)' <=> Exists(s)) /\ eff'[s] = eff[s]
      /\ \A k \in Keys : eff'[t][k].sealed <=> eff'[t][k].state \notin Free0
  BY DEF Birth
<1>2. Blank'
  BY <1>1 DEF IInv, Blank
<1>3. Untouched'
  <2>1. ASSUME NEW k \in Keys PROVE made[t][k] = 0
    BY <1>1 DEF IInv, Blank
  <2> QED BY <1>1, <2>1 DEF IInv, Untouched, Free0
<1>4. ASSUME NEW c \in Callers PROVE UnderWay(c)'
  BY <1>1 DEF IInv, UnderWay
<1>5. ASSUME NEW c \in Callers, NEW d \in Callers PROVE Apart(c, d)'
  BY <1>1 DEF IInv, Apart
<1> QED BY <1>1, <1>2, <1>3, <1>4, <1>5 DEF IInv

(* A claim keeps the invariant: no call under way has that row, for the    *)
(* row of each is claimed or indeterminate.                                *)
LEMMA ClaimsInv ==
  ASSUME IInv, NEW c \in Callers, NEW k \in Keys, Claims(c, k) PROVE IInv'
<1>1. /\ RowsOK' /\ turn' = turn /\ active' = active /\ made' = made /\ call[c].step = "idle"
      /\ active \in Turns /\ Exists(active) /\ eff[active][k].state \in Free0
      /\ call'[c].t = active /\ call'[c].k = k /\ call'[c].step = "claimed"
      /\ \A d \in Callers \ {c} : call'[d] = call[d]
      /\ eff'[active][k].state = "claimed" /\ eff'[active][k].holder = c
      /\ eff'[active][k].sealed = eff[active][k].sealed
      /\ \A t \in Turns, j \in Keys : t # active \/ j # k => eff'[t][j] = eff[t][j]
  BY DEF Claims, Steady
<1>2. Existing' /\ Blank'
  BY <1>1 DEF IInv, Existing, Blank, Exists
<1>3. Untouched'
  BY <1>1 DEF IInv, Untouched
<1>4. made[active][k] = 0 /\ ~eff[active][k].sealed
  BY <1>1 DEF IInv, Untouched, Free0
<1>5. ASSUME NEW d \in Callers, d # c, call[d].step # "idle"
      PROVE  call[d].t # active \/ call[d].k # k
  BY <1>1, <1>5 DEF IInv, UnderWay, Free0
<1>6. ASSUME NEW d \in Callers PROVE UnderWay(d)'
  <2>1. CASE d = c
    BY <1>1, <1>4, <2>1 DEF UnderWay, Exists
  <2>2. CASE d # c
    BY <1>1, <1>5, <2>2 DEF IInv, UnderWay, Exists
  <2> QED BY <2>1, <2>2
<1>7. ASSUME NEW d \in Callers, NEW e \in Callers PROVE Apart(d, e)'
  BY <1>1, <1>5 DEF IInv, Apart
<1> QED BY <1>1, <1>2, <1>3, <1>6, <1>7 DEF IInv

(* Making an effect keeps the invariant: no other call is about it.        *)
LEMMA MakesInv ==
  ASSUME IInv, NEW c \in Callers, Makes(c) PROVE IInv'
<1>1. /\ RowsOK' /\ turn' = turn /\ active' = active /\ eff' = eff
      /\ call[c].step \in {"claimed", "checked"}
      /\ call'[c].t = call[c].t /\ call'[c].k = call[c].k /\ call'[c].step = "made"
      /\ \A d \in Callers \ {c} : call'[d] = call[d]
      /\ made' = [made EXCEPT ![call[c].t][call[c].k] = made[call[c].t][call[c].k] + 1]
  BY DEF Makes, Steady
<1>2. /\ call[c].t \in Turns /\ call[c].k \in Keys /\ Exists(call[c].t)
      /\ eff[call[c].t][call[c].k].state \in {"claimed", "indeterminate"} /\ RowsOK
  BY <1>1 DEF IInv, UnderWay
<1>3. \A s \in Turns, j \in Keys : s # call[c].t \/ j # call[c].k => made'[s][j] = made[s][j]
  BY <1>1, <1>2 DEF RowsOK
<1>4. Existing' /\ Blank'
  BY <1>1, <1>2, <1>3 DEF IInv, Existing, Blank, Exists
<1>5. Untouched'
  BY <1>1, <1>2, <1>3 DEF IInv, Untouched
<1>6. ASSUME NEW d \in Callers PROVE UnderWay(d)'
  <2>1. CASE d = c
    BY <1>1, <2>1 DEF IInv, UnderWay, Exists
  <2>2. CASE d # c
    <3>1. call[d].step # "idle" => call[d].t # call[c].t \/ call[d].k # call[c].k
      BY <1>1, <2>2 DEF IInv, Apart
    <3> QED BY <1>1, <1>3, <2>2, <3>1 DEF IInv, UnderWay, Exists
  <2> QED BY <2>1, <2>2
<1>7. ASSUME NEW d \in Callers, NEW e \in Callers PROVE Apart(d, e)'
  BY <1>1 DEF IInv, Apart
<1> QED BY <1>1, <1>4, <1>5, <1>6, <1>7 DEF IInv

(* A call that goes on keeps the invariant.                                *)
LEMMA GoesOnInv ==
  ASSUME IInv, NEW c \in Callers, GoesOn(c) PROVE IInv'
<1>1. /\ RowsOK' /\ turn' = turn /\ active' = active /\ eff' = eff /\ made' = made
      /\ call[c].step \in {"claimed", "checked"}
      /\ call'[c].t = call[c].t /\ call'[c].k = call[c].k /\ call'[c].step # "idle"
      /\ \A d \in Callers \ {c} : call'[d] = call[d]
  BY DEF GoesOn, Steady
<1>2. Existing' /\ Blank' /\ Untouched'
  BY <1>1 DEF IInv, Existing, Blank, Exists, Untouched
<1>3. ASSUME NEW d \in Callers PROVE UnderWay(d)'
  BY <1>1 DEF IInv, UnderWay, Exists
<1>4. ASSUME NEW d \in Callers, NEW e \in Callers PROVE Apart(d, e)'
  BY <1>1 DEF IInv, Apart
<1> QED BY <1>1, <1>2, <1>3, <1>4 DEF IInv

(* A call that ends keeps the invariant: only one that was refused gives   *)
(* its row back, and it made nothing.                                      *)
LEMMA EndsInv ==
  ASSUME IInv, NEW c \in Callers, Ends(c) PROVE IInv'
<1>1. /\ RowsOK' /\ turn' = turn /\ active' = active /\ made' = made /\ call'[c].step = "idle"
      /\ \A d \in Callers \ {c} : call'[d] = call[d]
  BY DEF Ends, Steady
<1>2. ASSUME NEW d \in Callers, NEW e \in Callers PROVE Apart(d, e)'
  BY <1>1 DEF IInv, Apart
<1>3. CASE eff' = eff
  <2>1. Existing' /\ Blank' /\ Untouched'
    BY <1>1, <1>3 DEF IInv, Existing, Blank, Exists, Untouched
  <2>2. ASSUME NEW d \in Callers PROVE UnderWay(d)'
    BY <1>1, <1>3 DEF IInv, UnderWay, Exists
  <2> QED BY <1>1, <1>2, <2>1, <2>2 DEF IInv
<1>4. CASE eff' # eff
  <2> DEFINE t == call[c].t  k == call[c].k
  <2>1. PICK o \in {"completed", "indeterminate", "wait", "not_admitted"} :
          /\ call[c].step # "idle" /\ (o = "not_admitted" => call[c].step = "refused")
          /\ eff[t][k].state = "claimed" /\ eff[t][k].holder = c
          /\ eff'[t][k].state = o /\ eff'[t][k].sealed = eff[t][k].sealed
          /\ \A s \in Turns, j \in Keys : s # t \/ j # k => eff'[s][j] = eff[s][j]
    BY <1>4 DEF Ends
  <2>2. t \in Turns /\ k \in Keys /\ Exists(t) /\ ~eff[t][k].sealed
        /\ (call[c].step # "made" => made[t][k] = 0)
    BY <2>1 DEF IInv, UnderWay
  <2>3. Existing' /\ Blank'
    BY <1>1, <2>1, <2>2 DEF IInv, Existing, Blank, Exists
  <2>4. Untouched'
    BY <1>1, <2>1, <2>2 DEF IInv, Untouched
  <2>5. ASSUME NEW d \in Callers PROVE UnderWay(d)'
    <3>1. CASE d = c
      BY <1>1, <3>1 DEF UnderWay
    <3>2. CASE d # c
      <4>1. call[d].step # "idle" => call[d].t # t \/ call[d].k # k
        BY <2>1, <3>2 DEF IInv, Apart
      <4> QED BY <1>1, <2>1, <3>2, <4>1 DEF IInv, UnderWay, Exists
    <3> QED BY <3>1, <3>2
  <2> QED BY <1>1, <1>2, <2>3, <2>4, <2>5 DEF IInv
<1> QED BY <1>3, <1>4

(* The invariant is inductive.                                             *)
LEMMA NextInv == IInv /\ [Next]_vars => IInv'
  BY StepKinds, QuietInv, BirthInv, ClaimsInv, MakesInv, GoesOnInv, EndsInv DEF AnyKind

(* The invariant holds before the first turn.                              *)
LEMMA InitInv == Init => IInv
<1> SUFFICES ASSUME Init PROVE IInv
  OBVIOUS
<1>1. NoTurn \in TurnRow /\ NoEffect \in EffectRow /\ NoCall \in CallRow /\ 0 \in 0..MaxTurns
  BY ConstantAssumption DEF NoTurn, TurnRow, NoEffect, EffectRow, States, Resolutions, NoCall, CallRow
<1>2. RowsOK
  BY <1>1 DEF Init, RowsOK
<1>3. Existing /\ Blank /\ Untouched
  BY DEF Init, Existing, Blank, Untouched, NoTurn, NoEffect, Exists
<1>4. ASSUME NEW c \in Callers PROVE call[c].step = "idle"
  BY DEF Init, NoCall
<1> QED BY <1>2, <1>3, <1>4 DEF IInv, UnderWay, Apart

(* The ledger's rows stay what the claims, copies, exits and outcomes above *)
(* make of them.                                                           *)
THEOREM Invariance == Spec => []IInv
  BY InitInv, NextInv, PTL DEF Spec

-----------------------------------------------------------------------------
(* Every kind of step is one of the promise, or leaves it alone.           *)
running == {t \in Turns : Exists(t)}
promise == [t \in Turns |-> [k \in Keys |-> Status(t, k)]]

(* What the promise of a row depends on.                                   *)
LEMMA StatusKept ==
  ASSUME NEW t \in Turns, NEW k \in Keys,
         eff'[t][k].state \in Free0 <=> eff[t][k].state \in Free0,
         eff'[t][k].sealed = eff[t][k].sealed, made' = made
  PROVE  Status(t, k)' = Status(t, k)
  BY DEF Status, Free0

(* A quiet step is a stutter of the promise.                               *)
LEMMA QuietPromise ==
  ASSUME IInv, QuietStep PROVE UNCHANGED <<running, promise, made>>
<1>1. /\ made' = made /\ \A t \in Turns : Exists(t)' <=> Exists(t)
      /\ \A t \in Turns, k \in Keys : Faded(eff[t][k], eff'[t][k])
  BY DEF QuietStep
<1>2. ASSUME NEW t \in Turns, NEW k \in Keys PROVE Status(t, k)' = Status(t, k)
  BY <1>1, StatusKept DEF Faded, Free0
<1> QED BY <1>1, <1>2 DEF running, promise

(* A turn begins in the promise with the executions it carries on.         *)
LEMMA BirthPromise ==
  ASSUME IInv, NEW t \in Turns, NEW S \in SUBSET Turns, Birth(t, S)
  PROVE  S \in SUBSET running /\ Promise!Begins(t, S)
<1>1. /\ made' = made /\ ~Exists(t) /\ Exists(t)' /\ \A s \in S : Exists(s)
      /\ \A s \in Turns \ {t} : (Exists(s)' <=> Exists(s)) /\ eff'[s] = eff[s]
      /\ \A k \in Keys :
           /\ eff'[t][k].state \in Free0 <=> \A s \in S : eff[s][k].state \in Free0
           /\ eff'[t][k].sealed <=> eff'[t][k].state \notin Free0
  BY DEF Birth
<1>2. t \notin running /\ S \subseteq running /\ running' = running \cup {t}
  BY <1>1 DEF running
<1>3. ASSUME NEW s \in Turns \ {t}, NEW k \in Keys PROVE Status(s, k)' = Status(s, k)
  BY <1>1, StatusKept
<1>4. ASSUME NEW k \in Keys
      PROVE  Status(t, k)' = IF \A s \in S : promise[s][k] = "free" THEN "free" ELSE "sealed"
  <2>1. made'[t][k] = 0
    BY <1>1 DEF IInv, Blank
  <2>2. ASSUME NEW s \in S PROVE promise[s][k] = "free" <=> eff[s][k].state \in Free0
    BY DEF promise, Status, Free0
  <2>3. CASE \A s \in S : eff[s][k].state \in Free0
    <3>1. eff'[t][k].state \in Free0
      BY <1>1, <2>3
    <3> QED BY <2>2, <2>3, <3>1 DEF Status, Free0
  <2>4. CASE ~\A s \in S : eff[s][k].state \in Free0
    <3>1. eff'[t][k].state \notin Free0 /\ eff'[t][k].sealed
      BY <1>1, <2>4
    <3> QED BY <2>1, <2>2, <2>4, <3>1 DEF Status, Free0
  <2> QED BY <2>3, <2>4
<1>5. promise' = [promise EXCEPT ![t] = [k \in Keys |->
                    IF \A s \in S : promise[s][k] = "free" THEN "free" ELSE "sealed"]]
  <2>1. /\ promise' = [s \in Turns |-> [k \in Keys |-> Status(s, k)']]
        /\ promise = [s \in Turns |-> [k \in Keys |-> Status(s, k)]]
    BY DEF promise
  <2> DEFINE row == [k \in Keys |-> IF \A s \in S : promise[s][k] = "free" THEN "free" ELSE "sealed"]
  <2>2. [k \in Keys |-> Status(t, k)'] = row
    BY <1>4
  <2> HIDE DEF row
  <2>3. ASSUME NEW s \in Turns \ {t}
        PROVE  [k \in Keys |-> Status(s, k)'] = [k \in Keys |-> Status(s, k)]
    BY <1>3
  <2>4. promise' = [promise EXCEPT ![t] = row]
    BY <2>1, <2>2, <2>3
  <2> QED BY <2>4 DEF row
<1> QED BY <1>1, <1>2, <1>5 DEF Promise!Begins, running, promise

(* The promise changes where the status of a row does.                     *)
LEMMA PromiseAt ==
  ASSUME NEW t \in Turns, NEW k \in Keys, NEW x,
         \A s \in Turns, j \in Keys : s # t \/ j # k => Status(s, j)' = Status(s, j),
         Status(t, k)' = x
  PROVE  promise' = [promise EXCEPT ![t][k] = x]
<1>1. /\ promise' = [s \in Turns |-> [j \in Keys |-> Status(s, j)']]
      /\ promise = [s \in Turns |-> [j \in Keys |-> Status(s, j)]]
  BY DEF promise
<1> DEFINE old(s) == [j \in Keys |-> Status(s, j)]
           new(s) == [j \in Keys |-> Status(s, j)']
<1>2. new(t) = [old(t) EXCEPT ![k] = x]
  OBVIOUS
<1>3. ASSUME NEW s \in Turns \ {t} PROVE new(s) = old(s)
  OBVIOUS
<1>4. promise' = [s \in Turns |-> new(s)] /\ promise = [s \in Turns |-> old(s)]
  BY <1>1
<1> HIDE DEF old, new
<1>5. promise' = [promise EXCEPT ![t] = [old(t) EXCEPT ![k] = x]]
  BY <1>2, <1>3, <1>4
<1>6. promise[t] = old(t)
  BY <1>4
<1> QED BY <1>5, <1>6

(* A claim enters the effect.                                              *)
LEMMA ClaimsPromise ==
  ASSUME IInv, NEW c \in Callers, NEW k \in Keys, Claims(c, k)
  PROVE  Promise!Enters(active, k)
<1>1. /\ turn' = turn /\ made' = made
      /\ active \in Turns /\ Exists(active) /\ eff[active][k].state \in Free0
      /\ eff'[active][k].state = "claimed" /\ eff'[active][k].sealed = eff[active][k].sealed
      /\ \A t \in Turns, j \in Keys : t # active \/ j # k => eff'[t][j] = eff[t][j]
  BY DEF Claims, Steady
<1>0. PICK a \in Turns : a = active
  BY <1>1
<1>2. made[a][k] = 0 /\ ~eff[a][k].sealed
  BY <1>0, <1>1 DEF IInv, Untouched, Free0
<1>3. a \in running /\ running' = running
  BY <1>0, <1>1 DEF running, Exists
<1>4. promise[a][k] = "free"
  BY <1>0, <1>1 DEF promise, Status, Free0
<1>5. Status(a, k)' = "entered"
  BY <1>0, <1>1, <1>2 DEF Status
<1>6. ASSUME NEW t \in Turns, NEW j \in Keys, t # a \/ j # k
      PROVE  Status(t, j)' = Status(t, j)
  BY <1>0, <1>1, <1>6, StatusKept
<1>7. promise' = [promise EXCEPT ![a][k] = "entered"]
  BY <1>0, <1>1, <1>5, <1>6, PromiseAt
<1> QED BY <1>0, <1>1, <1>3, <1>4, <1>7 DEF Promise!Enters, running, promise

(* The effect is made where it was entered and nowhere else.               *)
LEMMA MakesPromise ==
  ASSUME IInv, NEW c \in Callers, Makes(c)
  PROVE  call[c].t \in Turns /\ call[c].k \in Keys /\ Promise!Makes(call[c].t, call[c].k)
<1>1. /\ turn' = turn /\ eff' = eff /\ call[c].step \in {"claimed", "checked"}
      /\ made' = [made EXCEPT ![call[c].t][call[c].k] = made[call[c].t][call[c].k] + 1]
  BY DEF Makes, Steady
<1>0. PICK t \in Turns, k \in Keys : t = call[c].t /\ k = call[c].k
  BY <1>1 DEF IInv, UnderWay
<1>2. /\ t \in Turns /\ k \in Keys /\ eff[t][k].state \in {"claimed", "indeterminate"}
      /\ ~eff[t][k].sealed /\ made[t][k] = 0 /\ made \in [Turns -> [Keys -> Nat]]
  BY <1>0, <1>1 DEF IInv, UnderWay, RowsOK
<1>3. /\ made'[t][k] = 1
      /\ \A s \in Turns, j \in Keys : s # t \/ j # k => made'[s][j] = made[s][j]
  BY <1>0, <1>1, <1>2
<1>4. promise[t][k] = "entered"
  BY <1>2 DEF promise, Status
<1>5. Status(t, k)' = "made"
  BY <1>1, <1>2, <1>3 DEF Status
<1>6. ASSUME NEW s \in Turns, NEW j \in Keys, s # t \/ j # k
      PROVE  Status(s, j)' = Status(s, j)
  BY <1>1, <1>3, <1>6 DEF Status
<1>7. promise' = [promise EXCEPT ![t][k] = "made"]
  BY <1>2, <1>5, <1>6, PromiseAt
<1>8. running' = running
  BY <1>1 DEF running, Exists
<1> QED BY <1>0, <1>1, <1>2, <1>4, <1>7, <1>8 DEF Promise!Makes, running, promise

(* A call that goes on is a stutter of the promise.                        *)
LEMMA GoesOnPromise ==
  ASSUME IInv, NEW c \in Callers, GoesOn(c) PROVE UNCHANGED <<running, promise, made>>
<1>1. turn' = turn /\ eff' = eff /\ made' = made
  BY DEF GoesOn, Steady
<1> QED BY <1>1 DEF running, promise, Status, Exists

(* A call that ends withdraws its effect if it was refused.                *)
LEMMA EndsPromise ==
  ASSUME IInv, NEW c \in Callers, Ends(c)
  PROVE  \/ UNCHANGED <<running, promise, made>>
         \/ call[c].t \in Turns /\ call[c].k \in Keys /\ Promise!Withdraws(call[c].t, call[c].k)
<1>1. turn' = turn /\ made' = made
  BY DEF Ends, Steady
<1>2. running' = running
  BY <1>1 DEF running, Exists
<1>3. CASE eff' = eff
  BY <1>1, <1>2, <1>3 DEF promise, Status
<1>4. CASE eff' # eff
  <2>0. PICK t \in Turns, k \in Keys : t = call[c].t /\ k = call[c].k
    BY <1>4 DEF Ends, IInv, UnderWay
  <2>1. PICK o \in {"completed", "indeterminate", "wait", "not_admitted"} :
          /\ call[c].step # "idle" /\ (o = "not_admitted" => call[c].step = "refused")
          /\ eff[t][k].state = "claimed" /\ eff'[t][k].state = o /\ eff'[t][k].sealed = eff[t][k].sealed
          /\ \A s \in Turns, j \in Keys : s # t \/ j # k => eff'[s][j] = eff[s][j]
    BY <1>4, <2>0 DEF Ends
  <2>2. t \in Turns /\ k \in Keys /\ ~eff[t][k].sealed
        /\ (call[c].step # "made" => made[t][k] = 0)
    BY <2>0, <2>1 DEF IInv, UnderWay
  <2>3. ASSUME NEW s \in Turns, NEW j \in Keys, s # t \/ j # k
        PROVE  Status(s, j)' = Status(s, j)
    BY <1>1, <2>1, <2>3, StatusKept
  <2>4. CASE o = "not_admitted"
    <3>1. promise[t][k] = "entered"
      BY <2>1, <2>2, <2>4 DEF promise, Status
    <3>2. Status(t, k)' = "free"
      BY <2>1, <2>4 DEF Status
    <3>3. promise' = [promise EXCEPT ![t][k] = "free"]
      BY <2>2, <2>3, <3>2, PromiseAt
    <3> QED BY <1>1, <1>2, <2>0, <2>2, <3>1, <3>3 DEF Promise!Withdraws, running, promise
  <2>5. CASE o # "not_admitted"
    <3>1. Status(t, k)' = Status(t, k)
      BY <1>1, <2>1, <2>2, <2>5, StatusKept DEF Free0
    <3>2. ASSUME NEW s \in Turns, NEW j \in Keys PROVE Status(s, j)' = Status(s, j)
      BY <2>3, <3>1
    <3> QED BY <1>1, <1>2, <3>2 DEF promise
  <2> QED BY <2>4, <2>5
<1> QED BY <1>3, <1>4

(* The specification starts where the promise does.                        *)
LEMMA InitPromise == Init => Promise!PInit
<1> SUFFICES ASSUME Init PROVE Promise!PInit
  OBVIOUS
<1>1. running = {}
  BY DEF Init, running, Exists, NoTurn
<1>2. promise = [t \in Turns |-> [k \in Keys |-> "free"]]
  BY DEF Init, promise, Status, NoEffect
<1> QED BY <1>1, <1>2 DEF Init, Promise!PInit, running, promise

(* Every step of the specification is one of the promise or a stutter.     *)
LEMMA NextPromise == IInv /\ [Next]_vars => [Promise!PNext]_(Promise!pvars)
<1> SUFFICES ASSUME IInv, [Next]_vars PROVE [Promise!PNext]_(Promise!pvars)
  OBVIOUS
<1>1. ASSUME UNCHANGED <<running, promise, made>> PROVE UNCHANGED Promise!pvars
  BY <1>1 DEF Promise!pvars, running, promise
<1>2. CASE QuietStep
  BY <1>1, <1>2, QuietPromise
<1>3. ASSUME NEW t \in Turns, NEW S \in SUBSET Turns, Birth(t, S) PROVE Promise!PNext
  BY <1>3, BirthPromise DEF Promise!PNext, running
<1>4. ASSUME NEW c \in Callers, NEW k \in Keys, Claims(c, k) PROVE Promise!PNext
  <2>1. active \in Turns
    BY <1>4 DEF Claims
  <2> QED BY <1>4, <2>1, ClaimsPromise DEF Promise!PNext
<1>5. ASSUME NEW c \in Callers, Makes(c) PROVE Promise!PNext
  BY <1>5, MakesPromise DEF Promise!PNext
<1>6. ASSUME NEW c \in Callers, GoesOn(c) PROVE UNCHANGED Promise!pvars
  BY <1>1, <1>6, GoesOnPromise
<1>7. ASSUME NEW c \in Callers, Ends(c) PROVE UNCHANGED Promise!pvars \/ Promise!PNext
  BY <1>1, <1>7, EndsPromise DEF Promise!PNext
<1> QED BY <1>2, <1>3, <1>4, <1>5, <1>6, <1>7, StepKinds DEF AnyKind

(* claim_workflow_effect, finish_workflow_effect, the copies a successor's *)
(* ledger starts with, exits and reconciliation implement the promise: no  *)
(* turn makes an effect twice, and none makes what an execution it carries *)
(* on had entered.                                                         *)
THEOREM Kept == Spec => OncePerExecution
  BY Invariance, InitPromise, NextPromise, PTL DEF Spec, OncePerExecution, Promise!PSpec

-----------------------------------------------------------------------------
(* What is recorded as completed was made.  The steps, as they concern the *)
(* lineage of turns and what calls have made.                              *)
Stays(r, q) == /\ q.kind = r.kind /\ q.parent = r.parent
               /\ r.receipt => q.receipt
               /\ r.resumedBy # 0 => q.resumedBy = r.resumedBy
TurnsStay == /\ \A t \in Turns : /\ Stays(turn[t], turn'[t])
                                 /\ ~Exists(t) => turn'[t] = turn[t]
             /\ active' = active \/ (active' \in Turns /\ active' > active)
TurnBorn(t) == /\ Free(t) /\ turn'[t].kind # "none"
               /\ turn'[t].parent # 0 => turn'[t].parent = active
               /\ active' = t \/ (active' = active /\ turn'[t].parent = 0)
               /\ \A s \in Turns \ {t} : /\ Stays(turn[s], turn'[s])
                                         /\ ~Exists(s) => turn'[s] = turn[s]
CallsMove == \A c \in Callers : call'[c].step # "idle" =>
               call'[c].t = active \/ (call[c].step # "idle" /\ call'[c].t = call[c].t)
Counts == \A t \in Turns, k \in Keys :
            /\ made[t][k] > 0 => made'[t][k] > 0
            /\ made'[t][k] > 0 => made[t][k] > 0 \/ \E c \in Callers : call[c].step # "idle" /\ call[c].t = t
Shape == /\ kind' = kind /\ CallsMove /\ Counts
         /\ TurnsStay \/ \E t \in Turns : TurnBorn(t)

(* The turns are begun in their order; one that does not exist has no      *)
(* parent; what carries on another comes after it, and was active.         *)
Rows == /\ \A t \in Turns : \A s \in 1..(t - 1) : Exists(t) => Exists(s)
        /\ \A t \in Turns : ~Exists(t) => turn[t] = NoTurn
Lineage == \A t \in Turns : turn[t].parent # 0 => turn[t].parent < t /\ t <= active

(* Nothing is made beyond the active turn, nor between a turn and the one  *)
(* it carries on.                                                          *)
Behind == /\ \A t \in Turns, k \in Keys : made[t][k] > 0 => t <= active
          /\ \A c \in Callers : call[c].step # "idle" => call[c].t <= active
Between == \A t, s \in Turns : turn[t].parent # 0 /\ turn[t].parent < s /\ s < t =>
             /\ \A k \in Keys : made[s][k] = 0
             /\ \A c \in Callers : call[c].step # "idle" => call[c].t # s

(* The traces that are read as evidence were left by what was made.        *)
Reported == \A c \in Callers : call[c].step = "made" => made[call[c].t][call[c].k] > 0
Traces == /\ \A t \in Turns, k \in Keys : child[t][k] # "none" => made[t][k] > 0
          /\ \A k \in acked : kind[k] = "acknowledgement" /\ \E s \in Turns : made[s][k] > 0
          /\ wf = "terminal" =>
               reason \in Keys /\ \E s \in Turns : s <= active /\ made[s][reason] > 0

(* What the arguments need of the remaining types.                         *)
TracesOK == child \in [Turns -> [Keys -> ChildStates]] /\ acked \in SUBSET Keys

(* What is recorded as completed, and that somebody made it.               *)
Recorded(t, k) == eff[t][k].state = "completed" \/ eff[t][k].res = "completed"
Backed(t, k) == \E s \in Turns : /\ made[s][k] > 0
                                 /\ kind[k] = "acknowledgement" \/ s <= t \/ Descends(s, t)

(* The inductive invariant.                                                *)
MadeInv == /\ IInv /\ TracesOK /\ Rows /\ Lineage /\ Behind /\ Between /\ Reported /\ Traces
           /\ CompletedWasMade

(* What a step records, and the traces it leaves.                          *)
Records == \A t \in Turns, k \in Keys :
             Recorded(t, k)' => \/ Backed(t, k)
                                \/ ~Exists(t) /\ \E s \in Turns : Recorded(s, k)
Reports == \A c \in Callers : call'[c].step = "made" =>
             \/ made'[call'[c].t][call'[c].k] > 0
             \/ call[c].step = "made" /\ call'[c].t = call[c].t /\ call'[c].k = call[c].k
Leaves == /\ TracesOK'
          /\ \A t \in Turns, k \in Keys : child'[t][k] # "none" => child[t][k] # "none" \/ made'[t][k] > 0
          /\ \A k \in acked' : k \in acked \/ (kind[k] = "acknowledgement" /\ \E s \in Turns : made'[s][k] > 0)
          /\ wf' = "terminal" =>
               \/ wf = "terminal" /\ reason' = reason
               \/ reason' \in Keys /\ \E s \in Turns : s <= active /\ made'[s][reason'] > 0

-----------------------------------------------------------------------------
(* The turn that is active lies in the order of the turns.                 *)
LEMMA ActiveRange ==
  ASSUME IInv
  PROVE  /\ RowsOK /\ Existing /\ Blank /\ active \in 0..MaxTurns /\ MaxTurns \in Nat
         /\ active # 0 => active \in Turns /\ Exists(active)
  BY ConstantAssumption DEF IInv, RowsOK, Existing, Turns

(* Nothing about turns changes.                                            *)
LEMMA SameTurns ==
  ASSUME turn' = turn, active' = active
  PROVE  TurnsStay
  BY DEF TurnsStay, Stays

(* A turn that is sealed stays what it was.                                *)
LEMMA SealedStays ==
  ASSUME IInv, NEW t \in Turns
  PROVE  /\ Stays(turn[t], Sealed(active)[t])
         /\ ~Exists(t) => Sealed(active)[t] = turn[t]
<1>1. RowsOK /\ Existing
  BY ActiveRange
<1>2. t # active => Sealed(active)[t] = turn[t]
  BY <1>1, SealedRows
<1>3. ~Exists(t) => t # active
  BY <1>1 DEF Existing, Turns
<1> QED BY <1>1, <1>2, <1>3, SealedRows DEF Stays

(* A new input is born without a parent.                                   *)
LEMMA BeginIsBorn ==
  ASSUME IInv, NEW t \in Turns, Begin(t) PROVE TurnBorn(t)
<1>1. RowsOK /\ Existing
  BY ActiveRange
<1> DEFINE row == [NoTurn EXCEPT !.kind = "fresh", !.receipt = TRUE]
<1>2. row.kind = "fresh" /\ row.parent = 0
  BY DEF NoTurn
<1> HIDE DEF row
<1>3. turn' = [Sealed(active) EXCEPT ![t] = row] /\ active' = t /\ Free(t)
  BY DEF Begin, row
<1>4. turn'[t] = row /\ \A s \in Turns \ {t} : turn'[s] = Sealed(active)[s]
  BY <1>1, <1>3, SealedRows
<1> QED BY <1>2, <1>3, <1>4, SealedStays DEF TurnBorn

(* A resumed turn is born of the active one.                               *)
LEMMA ResumeIsBorn ==
  ASSUME IInv, NEW t \in Turns, Resume(t) PROVE TurnBorn(t)
<1>1. RowsOK /\ Existing /\ active \in Turns /\ active # t /\ Free(t)
      /\ turn[active].resumedBy = 0 /\ Exists(active)
  <2>1. active # 0 /\ Free(t) /\ turn[active].resumedBy = 0
    BY DEF Resume, Admitted
  <2> QED BY <2>1, ActiveRange DEF Free
<1> DEFINE row == [NoTurn EXCEPT !.kind = "resume", !.receipt = TRUE, !.parent = active]
           old == [turn[active] EXCEPT !.finished = TRUE, !.resumedBy = t]
<1>2. row.kind = "resume" /\ row.parent = active
  BY DEF NoTurn
<1>3. Stays(turn[active], old)
  <2>1. turn[active] \in TurnRow
    BY <1>1 DEF RowsOK
  <2> QED BY <1>1, <2>1 DEF TurnRow, Stays
<1> HIDE DEF row
<1>4. turn' = [turn EXCEPT ![t] = row, ![active] = old] /\ active' = t
  BY <1>1 DEF Resume, row, RowsOK
<1> HIDE DEF old
<1>5. turn'[t] = row /\ turn'[active] = old /\ \A s \in Turns \ {t, active} : turn'[s] = turn[s]
  BY <1>1, <1>4 DEF RowsOK
<1>6. \A s \in Turns \ {t} : Stays(turn[s], turn'[s]) /\ (~Exists(s) => turn'[s] = turn[s])
  BY <1>1, <1>3, <1>5 DEF Stays
<1> QED BY <1>1, <1>2, <1>4, <1>5, <1>6 DEF TurnBorn

(* So is the successor a reconnect makes, whatever callback it joins.      *)
LEMMA ReconnectIsBorn ==
  ASSUME IInv, NEW t \in Turns, NEW s \in Turns, Reconnect(t, s) PROVE TurnBorn(t)
<1>1. RowsOK /\ Existing /\ active \in Turns /\ active # t /\ Free(t) /\ Exists(active)
      /\ Exists(s) /\ s # t
  <2>1. active # 0 /\ Free(t) /\ (s = active \/ turn[s].kind = "fresh")
    BY DEF Reconnect, Admitted
  <2> QED BY <2>1, ActiveRange DEF Free, Exists
<1> DEFINE row == [NoTurn EXCEPT !.kind = turn[s].kind, !.parent = active]
           one == [turn EXCEPT ![t] = row]
           mid == [one[active] EXCEPT !.finished = TRUE]
           two == [one EXCEPT ![active] = mid]
           last == [two[s] EXCEPT !.finished = TRUE, !.superseded = (turn[s].kind = "fresh")]
<1>2. row.kind = turn[s].kind /\ row.parent = active
  BY DEF NoTurn
<1>r. row \in TurnRow
  <2>1. turn[s].kind \in {"none", "fresh", "resume"} /\ active \in 0..MaxTurns
    BY <1>1 DEF RowsOK, TurnRow
  <2> QED BY <2>1, NewRow
<1>3. turn' = [two EXCEPT ![s] = last] /\ active' = t
  BY <1>1 DEF Reconnect, RowsOK
<1> HIDE DEF row
<1>4. one \in [Turns -> TurnRow] /\ one[t] = row /\ \A u \in Turns \ {t} : one[u] = turn[u]
  BY <1>1, <1>r DEF RowsOK
<1> HIDE DEF one
<1>5. mid \in TurnRow /\ Stays(one[active], mid)
  <2>1. one[active] \in TurnRow
    BY <1>1, <1>4
  <2> QED BY <2>1 DEF TurnRow, Stays
<1> HIDE DEF mid
<1>6. two \in [Turns -> TurnRow] /\ two[t] = row
      /\ \A u \in Turns \ {t} : Stays(turn[u], two[u]) /\ (~Exists(u) => two[u] = turn[u])
  BY <1>1, <1>4, <1>5 DEF Stays
<1> HIDE DEF two
<1>7. Stays(two[s], last)
  <2>1. two[s] \in TurnRow
    BY <1>6
  <2> QED BY <2>1 DEF TurnRow, Stays
<1> HIDE DEF last
<1>8. turn'[t] = row
      /\ \A u \in Turns \ {t} : Stays(turn[u], turn'[u]) /\ (~Exists(u) => turn'[u] = turn[u])
  BY <1>1, <1>3, <1>6, <1>7 DEF Stays
<1> QED BY <1>1, <1>2, <1>3, <1>8 DEF TurnBorn, Exists

(* A rebuilt callback has no parent and waits.                             *)
LEMMA RebuildIsBorn ==
  ASSUME IInv, NEW q \in Turns, NEW t \in Turns, Rebuild(q, t) PROVE TurnBorn(t)
<1>1. RowsOK /\ Free(t) /\ Exists(q) /\ q # t
  BY ActiveRange DEF Rebuild, Free, Exists
<1> DEFINE row == [NoTurn EXCEPT !.kind = "fresh"]
           old == [turn[q] EXCEPT !.superseded = TRUE]
<1>2. row.kind = "fresh" /\ row.parent = 0
  BY DEF NoTurn
<1>3. Stays(turn[q], old)
  <2>1. turn[q] \in TurnRow
    BY <1>1 DEF RowsOK
  <2> QED BY <2>1 DEF TurnRow, Stays
<1> HIDE DEF row
<1>4. turn' = [turn EXCEPT ![t] = row, ![q] = old] /\ active' = active
  BY <1>1 DEF Rebuild, row, RowsOK
<1> HIDE DEF old
<1>5. turn'[t] = row /\ turn'[q] = old /\ \A s \in Turns \ {t, q} : turn'[s] = turn[s]
  BY <1>1, <1>4 DEF RowsOK
<1>6. \A s \in Turns \ {t} : Stays(turn[s], turn'[s]) /\ (~Exists(s) => turn'[s] = turn[s])
  BY <1>1, <1>3, <1>5 DEF Stays
<1> QED BY <1>1, <1>2, <1>4, <1>5, <1>6 DEF TurnBorn

(* A successor is admitted once: its parent's receipt was not consumed.    *)
LEMMA AdmitStays ==
  ASSUME IInv, Rows, Lineage, NEW t \in Turns, AdmitSuccessor(t) PROVE TurnsStay
<1>1. RowsOK /\ Existing /\ Exists(t) /\ active' = active
  BY ActiveRange DEF AdmitSuccessor
<1> DEFINE new == [turn[t] EXCEPT !.receipt = TRUE]
           p == turn[t].parent
<1>2. new \in TurnRow /\ Stays(turn[t], new)
  <2>1. turn[t] \in TurnRow
    BY <1>1 DEF RowsOK
  <2> QED BY <2>1 DEF TurnRow, Stays
<1>3. CASE p = 0
  <2>1. turn' = [turn EXCEPT ![t] = new]
    BY <1>1, <1>3 DEF AdmitSuccessor, RowsOK
  <2> HIDE DEF new
  <2>2. \A s \in Turns : Stays(turn[s], turn'[s]) /\ (~Exists(s) => turn'[s] = turn[s])
    BY <1>1, <1>2, <2>1 DEF RowsOK, Stays
  <2> QED BY <1>1, <2>2 DEF TurnsStay
<1>4. CASE p # 0
  <2>1. p \in Turns /\ p # t /\ turn[p].finished /\ turn[p].resumedBy = 0
    <3>1. p \in 0..MaxTurns
      BY <1>1 DEF RowsOK, TurnRow
    <3> QED BY <1>4, <3>1, ConstantAssumption DEF Turns, AdmitSuccessor, Lineage
  <2>2. Exists(p)
    BY <2>1 DEF Rows, NoTurn
  <2> DEFINE old == [turn[p] EXCEPT !.resumedBy = t]
  <2>3. Stays(turn[p], old)
    <3>1. turn[p] \in TurnRow
      BY <1>1, <2>1 DEF RowsOK
    <3> QED BY <2>1, <3>1 DEF TurnRow, Stays
  <2>4. turn' = [turn EXCEPT ![t] = new, ![p] = old]
    BY <1>1, <1>4, <2>1 DEF AdmitSuccessor, RowsOK
  <2> HIDE DEF new, old, p
  <2>5. turn'[t] = new /\ turn'[p] = old /\ \A s \in Turns \ {t, p} : turn'[s] = turn[s]
    BY <1>1, <2>1, <2>4 DEF RowsOK
  <2>6. \A s \in Turns : Stays(turn[s], turn'[s]) /\ (~Exists(s) => turn'[s] = turn[s])
    BY <1>1, <1>2, <2>2, <2>3, <2>5 DEF Stays
  <2> QED BY <1>1, <2>6 DEF TurnsStay
<1> QED BY <1>3, <1>4

(* An activated turn comes later; the exit of the runtime seals the turn.  *)
LEMMA ActivateStays ==
  ASSUME IInv, NEW t \in Turns, Activate(t) PROVE TurnsStay
<1>1. turn' = Sealed(active) /\ active' = t /\ t > active
  BY DEF Activate
<1> QED BY <1>1, SealedStays DEF TurnsStay

LEMMA ExitStays ==
  ASSUME IInv, RuntimeExit PROVE TurnsStay
<1>1. turn' = Sealed(active) /\ active' = active
  BY DEF RuntimeExit
<1> QED BY <1>1, SealedStays DEF TurnsStay

-----------------------------------------------------------------------------
(* No call moves and nothing is made.                                      *)
LEMMA Still ==
  ASSUME call' = call, made' = made PROVE CallsMove /\ Counts /\ Reports
  BY DEF CallsMove, Counts, Reports

(* What calls do.                                                          *)
LEMMA ClaimsMoves ==
  ASSUME IInv, NEW c \in Callers, NEW k \in Keys, Claims(c, k)
  PROVE  TurnsStay /\ CallsMove /\ Counts /\ Reports
<1>1. /\ turn' = turn /\ active' = active /\ made' = made
      /\ call'[c].t = active /\ call'[c].step = "claimed" /\ \A d \in Callers \ {c} : call'[d] = call[d]
  BY DEF Claims, Steady
<1> QED BY <1>1, SameTurns DEF CallsMove, Counts, Reports

LEMMA MakesMoves ==
  ASSUME IInv, NEW c \in Callers, Makes(c)
  PROVE  /\ TurnsStay /\ CallsMove /\ Counts /\ Reports
         /\ call[c].t \in Turns /\ call[c].k \in Keys /\ made'[call[c].t][call[c].k] > 0
<1>1. /\ turn' = turn /\ active' = active /\ call[c].step # "idle"
      /\ call'[c].t = call[c].t /\ call'[c].k = call[c].k
      /\ \A d \in Callers \ {c} : call'[d] = call[d]
      /\ made' = [made EXCEPT ![call[c].t][call[c].k] = made[call[c].t][call[c].k] + 1]
  BY DEF Makes, Steady
<1>2. call[c].t \in Turns /\ call[c].k \in Keys /\ made \in [Turns -> [Keys -> Nat]]
  BY <1>1 DEF IInv, UnderWay, RowsOK
<1>3. /\ made'[call[c].t][call[c].k] > 0
      /\ \A s \in Turns, j \in Keys : s # call[c].t \/ j # call[c].k => made'[s][j] = made[s][j]
  BY <1>1, <1>2
<1>4. Counts
  <2> SUFFICES ASSUME NEW s \in Turns, NEW j \in Keys
               PROVE  /\ made[s][j] > 0 => made'[s][j] > 0
                      /\ made'[s][j] > 0 => made[s][j] > 0 \/ \E d \in Callers : call[d].step # "idle" /\ call[d].t = s
    BY DEF Counts
  <2>1. CASE s = call[c].t /\ j = call[c].k
    BY <1>1, <1>3, <2>1
  <2>2. CASE s # call[c].t \/ j # call[c].k
    BY <1>3, <2>2
  <2> QED BY <2>1, <2>2
<1>5. CallsMove /\ Reports
  BY <1>1, <1>3 DEF CallsMove, Reports
<1> QED BY <1>1, <1>2, <1>3, <1>4, <1>5, SameTurns

LEMMA GoesOnMoves ==
  ASSUME IInv, NEW c \in Callers, GoesOn(c)
  PROVE  TurnsStay /\ CallsMove /\ Counts /\ Reports
<1>1. /\ turn' = turn /\ active' = active /\ made' = made /\ call[c].step # "idle"
      /\ call'[c].t = call[c].t /\ call'[c].step # "made" /\ \A d \in Callers \ {c} : call'[d] = call[d]
  BY DEF GoesOn, Steady
<1> QED BY <1>1, SameTurns DEF CallsMove, Counts, Reports

LEMMA EndsMoves ==
  ASSUME IInv, NEW c \in Callers, Ends(c)
  PROVE  TurnsStay /\ CallsMove /\ Counts /\ Reports
<1>1. /\ turn' = turn /\ active' = active /\ made' = made
      /\ call'[c].step = "idle" /\ \A d \in Callers \ {c} : call'[d] = call[d]
  BY DEF Ends, Steady
<1> QED BY <1>1, SameTurns DEF CallsMove, Counts, Reports

-----------------------------------------------------------------------------
(* What was recorded before is backed.                                     *)
LEMMA OldRecords ==
  ASSUME CompletedWasMade, \A t \in Turns, k \in Keys : Recorded(t, k)' => Recorded(t, k)
  PROVE  Records
  BY DEF CompletedWasMade, Records, Recorded, Backed

(* Nothing is recorded.                                                    *)
LEMMA NoRecords ==
  ASSUME CompletedWasMade, eff' = eff PROVE Records
  BY OldRecords DEF Recorded

(* A successor's ledger records what one of those it carries on records.   *)
LEMMA MirrorRecords ==
  ASSUME RowsOK, CompletedWasMade, NEW t \in Turns, NEW s \in Turns, NEW x \in Turns,
         ~Exists(t), Mirror(t, s, x)
  PROVE  Records
<1> DEFINE state(k) == Merged({Copied(eff[s][k].state), Copied(eff[x][k].state)})
           row(k) == [state |-> state(k), holder |-> NoCaller, sealed |-> state(k) # "not_admitted",
                      res |-> Appended(eff[s][k].res, eff[x][k].res)]
<1>1. eff' = [eff EXCEPT ![t] = [k \in Keys |-> IF state(k) = "none" THEN NoEffect ELSE row(k)]]
  BY DEF Mirror
<1>2. ASSUME NEW k \in Keys, state(k) = "completed"
      PROVE  eff[s][k].state = "completed" \/ eff[x][k].state = "completed"
  <2> DEFINE S == {Copied(eff[s][k].state), Copied(eff[x][k].state)}
  <2>1. "completed" \in S
    <3> SUFFICES ASSUME "completed" \notin S PROVE Merged(S) # "completed"
      BY <1>2
    <3> HIDE DEF S
    <3> QED BY DEF Merged
  <2> QED BY <2>1 DEF Copied
<1>3. ASSUME NEW k \in Keys, row(k).res = "completed"
      PROVE  eff[s][k].res = "completed" \/ eff[x][k].res = "completed"
  BY <1>3 DEF Appended
<1>5. ASSUME NEW k \in Keys PROVE row(k).state = state(k)
  OBVIOUS
<1> HIDE DEF state
<1>6. ASSUME NEW k \in Keys PROVE eff'[t][k] = IF state(k) = "none" THEN NoEffect ELSE row(k)
  BY <1>1 DEF RowsOK
<1>7. \A u \in Turns \ {t} : eff'[u] = eff[u]
  BY <1>1 DEF RowsOK
<1>8. ASSUME NEW k \in Keys, Recorded(t, k)' PROVE Recorded(s, k) \/ Recorded(x, k)
  <2>1. CASE state(k) = "none"
    <3>1. eff'[t][k] = NoEffect
      BY <1>6, <2>1
    <3> QED BY <1>8, <3>1 DEF Recorded, NoEffect
  <2>2. CASE state(k) # "none"
    <3>1. eff'[t][k] = row(k)
      BY <1>6, <2>2
    <3>2. row(k).state = "completed" \/ row(k).res = "completed"
      BY <1>8, <3>1 DEF Recorded
    <3> QED BY <1>2, <1>3, <1>5, <3>2 DEF Recorded
  <2> QED BY <2>1, <2>2
<1>9. ASSUME NEW u \in Turns, NEW k \in Keys, u # t, Recorded(u, k)' PROVE Backed(u, k)
  BY <1>7, <1>9 DEF Recorded, CompletedWasMade, Backed
<1> QED BY <1>8, <1>9 DEF Records

(* A claim forgets an outcome and adds none.                               *)
LEMMA ClaimsRecords ==
  ASSUME CompletedWasMade, NEW c \in Callers, NEW k \in Keys, Claims(c, k) PROVE Records
<1>1. /\ active \in Turns /\ eff'[active][k].state = "claimed"
      /\ eff'[active][k].res \in {"none", eff[active][k].res}
      /\ \A t \in Turns, j \in Keys : t # active \/ j # k => eff'[t][j] = eff[t][j]
  BY DEF Claims
<1>2. ASSUME NEW t \in Turns, NEW j \in Keys, Recorded(t, j)' PROVE Recorded(t, j)
  <2>1. CASE t = active /\ j = k
    BY <1>1, <1>2, <2>1 DEF Recorded
  <2>2. CASE t # active \/ j # k
    BY <1>1, <1>2, <2>2 DEF Recorded
  <2> QED BY <2>1, <2>2
<1> QED BY <1>2, OldRecords

(* finish_workflow_effect says completed of what the call has made only.   *)
LEMMA EndsRecords ==
  ASSUME IInv, Reported, CompletedWasMade, NEW c \in Callers, Ends(c) PROVE Records
<1>1. CASE eff' = eff
  BY <1>1, NoRecords
<1>2. CASE eff' # eff
  <2> DEFINE t == call[c].t  k == call[c].k
  <2>1. PICK o \in {"completed", "indeterminate", "wait", "not_admitted"} :
          /\ call[c].step # "idle" /\ (o = "completed" => call[c].step = "made")
          /\ eff'[t][k].state = o /\ eff'[t][k].res = eff[t][k].res
          /\ \A s \in Turns, j \in Keys : s # t \/ j # k => eff'[s][j] = eff[s][j]
    BY <1>2 DEF Ends
  <2>2. t \in Turns /\ k \in Keys
    BY <2>1 DEF IInv, UnderWay
  <2>3. o = "completed" => Backed(t, k)
    <3>1. o = "completed" => made[t][k] > 0
      BY <2>1 DEF Reported
    <3>2. t <= t
      BY <2>2 DEF Turns
    <3> QED BY <2>2, <3>1, <3>2 DEF Backed
  <2>4. ASSUME NEW s \in Turns, NEW j \in Keys, Recorded(s, j)' PROVE Recorded(s, j) \/ Backed(s, j)
    <3>1. CASE s = t /\ j = k
      BY <2>1, <2>3, <2>4, <3>1 DEF Recorded
    <3>2. CASE s # t \/ j # k
      BY <2>1, <2>4, <3>2 DEF Recorded
    <3> QED BY <3>1, <3>2
  <2> QED BY <2>4 DEF Records, CompletedWasMade, Recorded, Backed
<1> QED BY <1>1, <1>2

(* The exit of the runtime makes no row completed.                         *)
LEMMA ExitRecords ==
  ASSUME IInv, CompletedWasMade, RuntimeExit PROVE Records
<1>1. RowsOK /\ active \in Turns
  BY ActiveRange DEF RuntimeExit
<1>2. eff' = [eff EXCEPT ![active] = [k \in Keys |-> Sunk(eff[active][k])]]
  BY DEF RuntimeExit
<1>3. ASSUME NEW t \in Turns, NEW k \in Keys, Recorded(t, k)' PROVE Recorded(t, k)
  <2>1. CASE t = active
    <3> DEFINE r == eff[active][k]
    <3>1. eff'[active][k] = Sunk(r)
      BY <1>1, <1>2 DEF RowsOK
    <3>2. r \in EffectRow
      BY <1>1 DEF RowsOK
    <3> HIDE DEF r
    <3>3. Sunk(r).state = Copied(r.state) /\ Sunk(r).res = r.res
      BY <3>2 DEF Sunk, EffectRow
    <3>4. Copied(r.state) = "completed" => r.state = "completed"
      BY DEF Copied
    <3>5. eff[t][k] = r /\ eff'[t][k] = Sunk(r)
      BY <2>1, <3>1 DEF r
    <3> QED BY <1>3, <3>3, <3>4, <3>5 DEF Recorded
  <2>2. CASE t # active
    BY <1>1, <1>2, <1>3, <2>2 DEF RowsOK, Recorded
  <2> QED BY <2>1, <2>2
<1> QED BY <1>3, OldRecords

(* The operator's retirement preserves the unknown.                        *)
LEMMA RetireRecords ==
  ASSUME IInv, CompletedWasMade, NEW t \in Turns, NEW k \in Keys, Retire(t, k) PROVE Records
<1>1. RowsOK /\ eff' = [eff EXCEPT ![t][k].res = "unknown_preserved"]
  BY ActiveRange DEF Retire
<1> DEFINE r == eff[t][k]
           q == [r EXCEPT !.res = "unknown_preserved"]
<1>2. q.state = r.state /\ q.res = "unknown_preserved"
  <2>1. r \in EffectRow
    BY <1>1 DEF RowsOK
  <2> QED BY <2>1 DEF EffectRow
<1>3. eff' = [eff EXCEPT ![t] = [eff[t] EXCEPT ![k] = q]]
  BY <1>1 DEF RowsOK
<1> HIDE DEF q
<1>4. eff'[t][k] = q /\ \A s \in Turns, j \in Keys : s # t \/ j # k => eff'[s][j] = eff[s][j]
  BY <1>1, <1>3 DEF RowsOK
<1>5. ASSUME NEW s \in Turns, NEW j \in Keys, Recorded(s, j)' PROVE Recorded(s, j)
  <2>1. CASE s = t /\ j = k
    BY <1>2, <1>4, <1>5, <2>1 DEF Recorded
  <2>2. CASE s # t \/ j # k
    BY <1>4, <1>5, <2>2 DEF Recorded
  <2> QED BY <2>1, <2>2
<1> QED BY <1>5, OldRecords

-----------------------------------------------------------------------------
(* What the reconciler says.  Evidence is read of what was made.           *)
LEMMA EvidenceMeans ==
  ASSUME NEW t \in Turns, NEW k \in Keys, Evidence(t, k) = "completed"
  PROVE  \/ child[t][k] = "delivered"
         \/ k \in acked
         \/ wf = "terminal" /\ active = t /\ reason = k
<1>1. turn[t].receipt
  BY DEF Evidence
<1>2. CASE kind[k] = "delegation"
  BY <1>1, <1>2 DEF Evidence
<1>3. CASE kind[k] = "acknowledgement"
  BY <1>1, <1>3 DEF Evidence
<1>4. CASE kind[k] = "completion"
  BY <1>1, <1>4 DEF Evidence
<1>5. CASE kind[k] \notin {"delegation", "acknowledgement", "completion"}
  BY <1>1, <1>5 DEF Evidence
<1> QED BY <1>2, <1>3, <1>4, <1>5

(* Direct evidence is of what was made.                                    *)
LEMMA DirectBacked ==
  ASSUME MadeInv, NEW page, NEW t \in Turns, NEW k \in Keys, Direct(page, t, k) = "completed"
  PROVE  Backed(t, k)
<1>0. t <= t
  BY DEF Turns
<1>1. CASE eff[t][k].res = "completed"
  BY <1>1 DEF MadeInv, CompletedWasMade, Backed
<1>2. CASE Evidence(t, k) = "completed"
  <2>1. CASE child[t][k] = "delivered"
    BY <1>0, <2>1 DEF MadeInv, Traces, Backed
  <2>2. CASE k \in acked
    BY <2>2 DEF MadeInv, Traces, Backed
  <2>3. CASE wf = "terminal" /\ active = t /\ reason = k
    BY <2>3 DEF MadeInv, Traces, Backed
  <2> QED BY <1>2, <2>1, <2>2, <2>3, EvidenceMeans
<1> QED BY <1>1, <1>2 DEF Direct

(* A turn descends from its parent, and descent is transitive.             *)
LEMMA LinkDescends ==
  ASSUME NEW s \in Turns, NEW u \in Turns, Linked(u), s = u \/ Descends(s, u)
  PROVE  turn[u].parent \in Turns /\ turn[u].parent < u /\ Descends(s, turn[u].parent)
<1>1. turn[u].parent \in Turns /\ turn[u].parent < u
  BY ConstantAssumption DEF Linked, Turns
<1>2. ASSUME NEW S \in SUBSET Turns, s \in S, \A t \in S : Linked(t) => turn[t].parent \in S
      PROVE  turn[u].parent \in S
  <2>1. u \in S
    BY <1>2 DEF Descends
  <2> QED BY <1>2, <2>1
<1> QED BY <1>1, <1>2 DEF Descends

(* What a descendant was right to record, its ancestor is, too: nothing    *)
(* was made between a turn and the one it carries on.                      *)
LEMMA Carried ==
  ASSUME MadeInv, NEW s \in Turns, NEW d \in Turns, NEW t \in Turns, NEW k \in Keys,
         made[s][k] > 0, s <= d \/ Descends(s, d), Descends(d, t)
  PROVE  s <= t \/ Descends(s, t)
<1> DEFINE S == {u \in Turns : s <= u \/ Descends(s, u)}
<1>1. ASSUME NEW u \in S, Linked(u) PROVE turn[u].parent \in S
  <2> DEFINE p == turn[u].parent
  <2>1. p \in Turns /\ p < u
    BY <1>1, LinkDescends DEF Linked, Turns
  <2>2. CASE s = u \/ Descends(s, u)
    BY <1>1, <2>2, LinkDescends
  <2>3. CASE s # u /\ s <= u
    <3>1. ~(p < s)
      <4>1. p # 0
        BY <2>1 DEF Turns
      <4>2. s < u
        BY <2>3 DEF Turns
      <4> QED BY <2>1, <4>1, <4>2 DEF MadeInv, Between
    <3>2. s <= p
      BY <2>1, <3>1 DEF Turns
    <3> QED BY <2>1, <3>2
  <2> QED BY <2>2, <2>3
<1>2. d \in S
  OBVIOUS
<1>3. S \in SUBSET Turns
  OBVIOUS
<1> HIDE DEF S
<1>4. t \in S
  BY <1>1, <1>2, <1>3 DEF Descends
<1> QED BY <1>4 DEF S

(* So what a reconciliation finds was made.                                *)
LEMMA ReconcileRecords ==
  ASSUME MadeInv, ReconcileEffects PROVE Records
<1>1. eff' = [t \in Turns |-> [k \in Keys |-> [eff[t][k] EXCEPT !.res = Found(Page, t, k)]]]
  BY DEF ReconcileEffects
<1>2. PICK page : page = Page
  OBVIOUS
<1>3. RowsOK
  BY DEF MadeInv, IInv
<1>4. ASSUME NEW t \in Turns, NEW k \in Keys
      PROVE  eff'[t][k].state = eff[t][k].state /\ eff'[t][k].res = Found(page, t, k)
  <2>1. eff[t][k] \in EffectRow
    BY <1>3 DEF RowsOK
  <2> DEFINE x == Found(page, t, k)
  <2>2. eff'[t][k] = [eff[t][k] EXCEPT !.res = x]
    BY <1>1, <1>2
  <2> HIDE DEF x
  <2>3. eff'[t][k].state = eff[t][k].state /\ eff'[t][k].res = x
    BY <2>1, <2>2 DEF EffectRow
  <2> QED BY <2>3 DEF x
<1>5. ASSUME NEW d \in Turns, NEW k \in Keys,
             eff[d][k].state = "completed" \/ Direct(page, d, k) = "completed"
      PROVE  Backed(d, k)
  BY <1>5, DirectBacked DEF MadeInv, CompletedWasMade, Backed
<1>6. ASSUME NEW t \in Turns, NEW k \in Keys, Replayed(page, t, k) PROVE Backed(t, k)
  <2>1. PICK d \in Turns : /\ eff[d][k].state = "completed" \/ Direct(page, d, k) = "completed"
                           /\ Descends(d, t)
    BY <1>6 DEF Replayed
  <2>2. PICK s \in Turns : made[s][k] > 0 /\ (kind[k] = "acknowledgement" \/ s <= d \/ Descends(s, d))
    BY <1>5, <2>1 DEF Backed
  <2>3. kind[k] = "acknowledgement" \/ s <= t \/ Descends(s, t)
    BY <2>1, <2>2, Carried
  <2> QED BY <2>2, <2>3 DEF Backed
<1>7. ASSUME NEW t \in Turns, NEW k \in Keys, Recorded(t, k)' PROVE Backed(t, k)
  <2>1. CASE eff[t][k].state = "completed"
    BY <1>5, <2>1
  <2>2. CASE Found(page, t, k) = "completed"
    BY <1>5, <1>6, <2>2 DEF Found
  <2> QED BY <1>4, <1>7, <2>1, <2>2 DEF Recorded
<1> QED BY <1>7 DEF Records

-----------------------------------------------------------------------------
(* The traces that steps leave.                                            *)
Good == Shape /\ Records /\ Reports /\ Leaves

(* Most steps leave none.                                                  *)
LEMMA NoTraces ==
  ASSUME TracesOK, UNCHANGED <<child, acked, wf, reason>> \/ (UNCHANGED <<child, acked>> /\ wf' = "gate")
  PROVE  Leaves
  BY DEF TracesOK, Leaves

(* A turn begins.                                                          *)
LEMMA BirthIsGood ==
  ASSUME MadeInv, NEW t \in Turns, NEW s \in Turns,
         Begin(t) \/ Resume(t) \/ Reconnect(t, s) \/ Rebuild(s, t)
  PROVE  Good
<1>1. IInv /\ RowsOK /\ TracesOK /\ CompletedWasMade
  BY DEF MadeInv, IInv
<1>2. TurnBorn(t)
  BY <1>1, BeginIsBorn, ResumeIsBorn, ReconnectIsBorn, RebuildIsBorn
<1>3. ~Exists(t) /\ (active # 0 => active \in Turns)
  BY <1>1, <1>2, ActiveRange DEF TurnBorn, Free
<1>4. UNCHANGED <<kind, call, made, child, acked, wf, reason>>
  BY DEF Begin, Resume, Reconnect, Rebuild
<1>5. Records
  <2>1. CASE Begin(t)
    BY <1>1, <2>1, NoRecords DEF Begin
  <2>2. CASE Resume(t)
    <3>1. active \in Turns /\ Mirror(t, active, active)
      BY <1>3, <2>2 DEF Resume, Admitted
    <3> QED BY <1>1, <1>3, <3>1, MirrorRecords
  <2>3. CASE Reconnect(t, s)
    <3>1. active \in Turns /\ Mirror(t, s, active)
      BY <1>3, <2>3 DEF Reconnect, Admitted
    <3> QED BY <1>1, <1>3, <3>1, MirrorRecords
  <2>4. CASE Rebuild(s, t)
    <3>1. PICK u \in {active, s} : Mirror(t, u, u)
      BY <2>4 DEF Rebuild
    <3>2. u \in Turns
      BY <1>3, <2>4 DEF Rebuild, Admitted
    <3> QED BY <1>1, <1>3, <3>1, <3>2, MirrorRecords
  <2> QED BY <2>1, <2>2, <2>3, <2>4
<1> QED BY <1>1, <1>2, <1>4, <1>5, Still, NoTraces DEF Good, Shape

(* Turns go on, and the runtime exits.                                     *)
LEMMA TurnsAreGood ==
  ASSUME MadeInv, RuntimeExit \/ \E t \in Turns : AdmitSuccessor(t) \/ Activate(t)
  PROVE  Good
<1>1. IInv /\ Rows /\ Lineage /\ TracesOK /\ CompletedWasMade
  BY DEF MadeInv
<1>2. TurnsStay
  BY <1>1, AdmitStays, ActivateStays, ExitStays
<1>3. UNCHANGED <<kind, call, made, child, acked, wf, reason>>
  BY DEF RuntimeExit, AdmitSuccessor, Activate
<1>4. Records
  BY <1>1, ExitRecords, NoRecords DEF AdmitSuccessor, Activate
<1> QED BY <1>1, <1>2, <1>3, <1>4, Still, NoTraces DEF Good, Shape

(* What is made by a tool leaves its trace with it.                        *)
LEMMA ToolIsGood ==
  ASSUME MadeInv, NEW c \in Callers,
         SendMessage(c) \/ Delegate(c) \/ Acknowledge(c) \/ CompleteCheck(c) \/ Complete(c)
  PROVE  Good
<1>1. IInv /\ TracesOK /\ CompletedWasMade /\ active \in 0..MaxTurns
  BY DEF MadeInv, IInv, RowsOK
<1> DEFINE t == call[c].t  k == call[c].k
<1>2. /\ Makes(c) \/ GoesOn(c)
      /\ TurnsStay /\ CallsMove /\ Counts /\ Reports /\ eff' = eff /\ kind' = kind
  BY <1>1, ToolIsMakesOrGoesOn, MakesMoves, GoesOnMoves
     DEF Makes, GoesOn, SendMessage, Delegate, Acknowledge, CompleteCheck, Complete
<1>3. ASSUME Made(c)
      PROVE  t \in Turns /\ t <= active /\ k \in Keys /\ made'[t][k] > 0
  <2>1. call[c].step # "idle"
    BY DEF SendMessage, Delegate, Acknowledge, CompleteCheck, Complete
  <2>2. ~GoesOn(c)
    <3>1. call'[c].step = "made"
      BY <1>1, <1>3, AtStep DEF Made, IInv
    <3> QED BY <3>1 DEF GoesOn
  <2> QED BY <1>1, <1>2, <2>1, <2>2, MakesMoves DEF MadeInv, Behind
<1>4. Leaves
  <2>1. CASE SendMessage(c) \/ CompleteCheck(c)
    BY <1>1, <2>1, NoTraces DEF SendMessage, CompleteCheck
  <2>2. CASE Delegate(c)
    <3>1. CASE child' = child
      BY <1>1, <2>2, <3>1, NoTraces DEF Delegate
    <3>2. CASE child' # child
      <4>1. Made(c) /\ child' = [child EXCEPT ![t][k] = "begun"] /\ UNCHANGED <<acked, wf, reason>>
        BY <2>2, <3>2 DEF Delegate
      <4>2. t \in Turns /\ k \in Keys /\ made'[t][k] > 0
        BY <1>3, <4>1
      <4> HIDE DEF t, k
      <4>3. child' = [child EXCEPT ![t] = [child[t] EXCEPT ![k] = "begun"]]
        BY <1>1, <4>1, <4>2 DEF TracesOK
      <4>4. child' \in [Turns -> [Keys -> ChildStates]]
        BY <1>1, <4>2, <4>3 DEF TracesOK, ChildStates
      <4>5. \A s \in Turns, j \in Keys : s # t \/ j # k => child'[s][j] = child[s][j]
        BY <1>1, <4>2, <4>3 DEF TracesOK
      <4>6. \A s \in Turns, j \in Keys : child'[s][j] # "none" => child[s][j] # "none" \/ made'[s][j] > 0
        BY <4>2, <4>5
      <4> QED BY <1>1, <4>1, <4>4, <4>6 DEF Leaves, TracesOK
    <3> QED BY <3>1, <3>2
  <2>3. CASE Acknowledge(c)
    <3>1. CASE acked' = acked
      BY <1>1, <2>3, <3>1, NoTraces DEF Acknowledge
    <3>2. CASE acked' # acked
      <4>1. Made(c) /\ acked' = acked \cup {k} /\ kind[k] = "acknowledgement" /\ UNCHANGED <<child, wf, reason>>
        BY <2>3, <3>2 DEF Acknowledge
      <4>2. t \in Turns /\ k \in Keys /\ made'[t][k] > 0
        BY <1>3, <4>1
      <4> QED BY <1>1, <4>1, <4>2 DEF Leaves, TracesOK
    <3> QED BY <3>1, <3>2
  <2>4. CASE Complete(c)
    <3>1. CASE UNCHANGED <<wf, reason>>
      BY <1>1, <2>4, <3>1, NoTraces DEF Complete
    <3>2. CASE ~UNCHANGED <<wf, reason>>
      <4>1. Made(c) /\ reason' = k /\ UNCHANGED <<child, acked>>
        BY <2>4, <3>2 DEF Complete
      <4>2. t \in Turns /\ t <= active /\ k \in Keys /\ made'[t][k] > 0
        BY <1>3, <4>1
      <4> QED BY <1>1, <4>1, <4>2 DEF Leaves, TracesOK
    <3> QED BY <3>1, <3>2
  <2> QED BY <2>1, <2>2, <2>3, <2>4
<1> QED BY <1>1, <1>2, <1>4, NoRecords DEF Good, Shape

(* A call begins or is over.                                               *)
LEMMA CallsAreGood ==
  ASSUME MadeInv, NEW c \in Callers, Finish(c) \/ CallerDies(c) \/ \E k \in Keys : Claim(c, k)
  PROVE  Good
<1>1. IInv /\ TracesOK /\ Reported /\ CompletedWasMade
  BY DEF MadeInv
<1>2. UNCHANGED <<kind, child, acked, wf, reason>>
  BY DEF Finish, CallerDies, Claim
<1>3. Ends(c) \/ \E k \in Keys : Claims(c, k)
  BY <1>1, FinishIsEnds, DiesIsEnds, ClaimIsClaims
<1>4. TurnsStay /\ CallsMove /\ Counts /\ Reports /\ Records
  BY <1>1, <1>3, EndsMoves, ClaimsMoves, EndsRecords, ClaimsRecords
<1> QED BY <1>1, <1>2, <1>4, NoTraces DEF Good, Shape

(* The rest: children, the reconciler and the operator.                    *)
LEMMA OthersAreGood ==
  ASSUME MadeInv,
         \/ Gate \/ ReconcileEffects \/ UNCHANGED vars
         \/ \E t \in Turns, k \in Keys : ChildActs(t, k) \/ Retire(t, k)
  PROVE  Good
<1>1. IInv /\ TracesOK /\ CompletedWasMade
  BY DEF MadeInv
<1>2. UNCHANGED <<kind, turn, active, call, made>>
  BY DEF Gate, ReconcileEffects, vars, ChildActs, Retire
<1>3. Shape /\ Reports
  BY <1>2, SameTurns, Still DEF Shape
<1>4. CASE Gate
  BY <1>1, <1>3, <1>4, NoRecords, NoTraces DEF Good, Gate
<1>5. CASE ReconcileEffects
  BY <1>1, <1>3, <1>5, ReconcileRecords, NoTraces DEF Good, ReconcileEffects
<1>6. CASE UNCHANGED vars
  BY <1>1, <1>3, <1>6, NoRecords, NoTraces DEF Good, vars
<1>7. ASSUME NEW t \in Turns, NEW k \in Keys, ChildActs(t, k) PROVE Good
  <2>1. PICK is \in {"delivered", "failed"} : child' = [child EXCEPT ![t][k] = is]
    BY <1>7 DEF ChildActs
  <2>2. child' = [child EXCEPT ![t] = [child[t] EXCEPT ![k] = is]]
    BY <1>1, <2>1 DEF TracesOK
  <2>3. child' \in [Turns -> [Keys -> ChildStates]]
    BY <1>1, <2>2 DEF TracesOK, ChildStates
  <2>4. \A s \in Turns, j \in Keys : child'[s][j] # "none" => child[s][j] # "none"
    BY <1>1, <1>7, <2>2 DEF TracesOK, ChildActs
  <2>5. UNCHANGED <<eff, acked, wf, reason>>
    BY <1>7 DEF ChildActs
  <2>6. Leaves
    BY <1>1, <2>3, <2>4, <2>5 DEF Leaves, TracesOK
  <2> QED BY <1>1, <1>3, <2>5, <2>6, NoRecords DEF Good
<1>8. ASSUME NEW t \in Turns, NEW k \in Keys, Retire(t, k) PROVE Good
  <2>1. child' = [s \in Turns |-> [j \in Keys |-> IF child[s][j] = "begun" THEN "failed" ELSE child[s][j]]]
    BY <1>8 DEF Retire
  <2>2. child' \in [Turns -> [Keys -> ChildStates]]
    BY <1>1, <2>1 DEF TracesOK, ChildStates
  <2>3. \A s \in Turns, j \in Keys : child'[s][j] # "none" => child[s][j] # "none"
    BY <2>1
  <2>4. acked' = acked /\ wf' # "terminal"
    BY <1>8 DEF Retire
  <2>5. Leaves
    BY <1>1, <2>2, <2>3, <2>4 DEF Leaves, TracesOK
  <2> QED BY <1>1, <1>3, <1>8, <2>5, RetireRecords DEF Good
<1> QED BY <1>4, <1>5, <1>6, <1>7, <1>8

(* Every step is of this shape and records what is backed.                 *)
LEMMA StepsAreGood ==
  ASSUME MadeInv, [Next]_vars PROVE Good
<1>1. ASSUME NEW t \in Turns, Begin(t) \/ Resume(t) PROVE Good
  BY <1>1, BirthIsGood
<1> QED BY <1>1, BirthIsGood, TurnsAreGood, ToolIsGood, CallsAreGood, OthersAreGood
  DEF Next, TurnStep, CallStep

-----------------------------------------------------------------------------
(* Such a step keeps the invariant.                                        *)
LEMMA RowsNext ==
  ASSUME Rows, Shape PROVE Rows'
<1>1. CASE TurnsStay
  <2>1. \A s \in Turns : (Exists(s)' <=> Exists(s)) /\ (~Exists(s) => turn'[s] = turn[s])
    BY <1>1 DEF TurnsStay, Stays, Exists
  <2>2. ASSUME NEW u \in Turns, NEW s \in 1..(u - 1) PROVE s \in Turns
    BY ConstantAssumption DEF Turns
  <2> QED BY <2>1, <2>2 DEF Rows
<1>2. ASSUME NEW t \in Turns, TurnBorn(t) PROVE Rows'
  <2>1. \A s \in Turns : (Exists(s)' <=> Exists(s) \/ s = t) /\ (~Exists(s) /\ s # t => turn'[s] = turn[s])
    BY <1>2 DEF TurnBorn, Stays, Exists
  <2>2. \A s \in 1..(t - 1) : Exists(s) /\ s # t /\ s \in Turns
    BY <1>2, ConstantAssumption DEF TurnBorn, Free, Turns
  <2>3. ASSUME NEW u \in Turns, NEW s \in 1..(u - 1), Exists(u)' PROVE Exists(s)'
    <3>1. s \in Turns
      BY ConstantAssumption DEF Turns
    <3> QED BY <2>1, <2>2, <2>3, <3>1 DEF Rows
  <2>4. \A s \in Turns : ~Exists(s)' => turn'[s] = NoTurn
    BY <2>1 DEF Rows
  <2> QED BY <2>3, <2>4 DEF Rows
<1> QED BY <1>1, <1>2 DEF Shape

(* The active turn is never succeeded by an older one.                     *)
LEMMA ActiveGrows ==
  ASSUME IInv, Rows, Shape
  PROVE  /\ active \in Nat /\ active' \in Nat /\ active <= active'
         /\ \A t \in Turns : TurnBorn(t) => active < t
<1>1. active \in 0..MaxTurns /\ MaxTurns \in Nat /\ (active # 0 => active \in Turns /\ Exists(active))
  BY ActiveRange
<1>2. ASSUME NEW t \in Turns, TurnBorn(t) PROVE active < t
  <2>1. ~Exists(t)
    BY <1>2 DEF TurnBorn, Free
  <2>2. CASE active = 0
    BY <2>2 DEF Turns
  <2>3. CASE active # 0
    <3>1. t \notin 1..(active - 1) /\ t # active
      BY <1>1, <2>1, <2>3 DEF Rows
    <3> QED BY <1>1, <3>1 DEF Turns
  <2> QED BY <2>2, <2>3
<1>3. CASE TurnsStay
  BY <1>1, <1>2, <1>3 DEF TurnsStay, Turns
<1>4. ASSUME NEW t \in Turns, TurnBorn(t)
      PROVE  active \in Nat /\ active' \in Nat /\ active <= active'
  BY <1>1, <1>2, <1>4 DEF TurnBorn, Turns
<1> QED BY <1>2, <1>3, <1>4 DEF Shape

(* Parents stay what they are; a new turn carries on the active one.       *)
LEMMA Parents ==
  ASSUME IInv, Rows, Lineage, Shape, NEW t \in Turns, turn'[t].parent # 0
  PROVE  \/ turn[t].parent = turn'[t].parent
         \/ turn'[t].parent = active /\ active < t /\ active' = t
<1>1. CASE TurnsStay
  BY <1>1 DEF TurnsStay, Stays
<1>2. ASSUME NEW u \in Turns, TurnBorn(u)
      PROVE  \/ turn[t].parent = turn'[t].parent
             \/ turn'[t].parent = active /\ active < t /\ active' = t
  <2>1. active < u
    BY <1>2, ActiveGrows
  <2> QED BY <1>2, <2>1 DEF TurnBorn, Stays
<1> QED BY <1>1, <1>2 DEF Shape

LEMMA LineageNext ==
  ASSUME IInv, Rows, Lineage, Shape PROVE Lineage'
<1> SUFFICES ASSUME NEW t \in Turns, turn'[t].parent # 0
             PROVE  turn'[t].parent < t /\ t <= active'
  BY DEF Lineage
<1>1. active \in Nat /\ active' \in Nat /\ active <= active'
  BY ActiveGrows
<1>2. CASE turn[t].parent = turn'[t].parent
  BY <1>1, <1>2 DEF Lineage, Turns
<1>3. CASE turn'[t].parent = active /\ active < t /\ active' = t
  BY <1>1, <1>3 DEF Turns
<1> QED BY <1>2, <1>3, Parents

(* Calls are of the active turn or one before it.                          *)
LEMMA BehindNext ==
  ASSUME IInv, IInv', Rows, Behind, Shape PROVE Behind'
<1>1. active \in Nat /\ active' \in Nat /\ active <= active' /\ CallsMove /\ Counts
  BY ActiveGrows DEF Shape
<1>2. ASSUME NEW t \in Turns, NEW k \in Keys, made'[t][k] > 0 PROVE t <= active'
  <2>1. t <= active
    BY <1>1, <1>2 DEF Counts, Behind
  <2> QED BY <1>1, <2>1 DEF Turns
<1>3. ASSUME NEW c \in Callers, call'[c].step # "idle" PROVE call'[c].t <= active'
  <2>1. call'[c].t \in Turns
    BY <1>3 DEF IInv, UnderWay
  <2>2. call'[c].t <= active
    BY <1>1, <1>3 DEF CallsMove, Behind
  <2> QED BY <1>1, <2>1, <2>2 DEF Turns
<1> QED BY <1>2, <1>3 DEF Behind

(* Between a turn and the one it carries on there is no place for them.    *)
LEMMA BetweenNext ==
  ASSUME IInv, IInv', Rows, Lineage, Behind, Between, Shape PROVE Between'
<1> SUFFICES ASSUME NEW t \in Turns, NEW s \in Turns,
                    turn'[t].parent # 0, turn'[t].parent < s, s < t
             PROVE  /\ \A k \in Keys : made'[s][k] = 0
                    /\ \A c \in Callers : call'[c].step # "idle" => call'[c].t # s
  BY DEF Between
<1>1. active \in Nat /\ CallsMove /\ Counts
  BY ActiveGrows DEF Shape
<1>2. /\ \A k \in Keys : ~(made[s][k] > 0)
      /\ \A c \in Callers : call[c].step # "idle" => call[c].t # s
      /\ s # active
  <2>1. CASE turn[t].parent = turn'[t].parent
    <3>1. t <= active
      BY <2>1 DEF Lineage
    <3>2. s # active
      BY <1>1, <3>1 DEF Turns
    <3> QED BY <2>1, <3>2 DEF Between
  <2>2. CASE turn'[t].parent = active /\ active < t /\ active' = t
    <3>1. ~(s <= active)
      BY <1>1, <2>2 DEF Turns
    <3> QED BY <1>1, <2>2, <3>1 DEF Behind, Turns
  <2> QED BY <2>1, <2>2, Parents
<1>3. ASSUME NEW k \in Keys PROVE made'[s][k] = 0
  <2>1. ~(made'[s][k] > 0)
    BY <1>1, <1>2 DEF Counts
  <2>2. made'[s][k] \in Nat
    BY DEF IInv, RowsOK
  <2> QED BY <2>1, <2>2
<1>4. ASSUME NEW c \in Callers, call'[c].step # "idle" PROVE call'[c].t # s
  BY <1>1, <1>2, <1>4 DEF CallsMove
<1> QED BY <1>3, <1>4

(* A link that has its receipts stays.                                     *)
LEMMA LinksStay ==
  ASSUME IInv, Rows, Shape, NEW u \in Turns, Linked(u)
  PROVE  Linked(u)' /\ turn'[u].parent = turn[u].parent
<1> DEFINE p == turn[u].parent
<1>1. p \in Turns /\ p # 0 /\ p \in 1..(u - 1) /\ turn[p].receipt /\ turn[p].resumedBy = u /\ u # 0
  BY ConstantAssumption DEF Linked, Turns
<1>2. Exists(u) /\ Exists(p)
  BY <1>1, ConstantAssumption DEF Rows, NoTurn
<1>3. Stays(turn[u], turn'[u]) /\ Stays(turn[p], turn'[p])
  <2>1. CASE TurnsStay
    BY <1>1, <2>1 DEF TurnsStay
  <2>2. ASSUME NEW t \in Turns, TurnBorn(t) PROVE Stays(turn[u], turn'[u]) /\ Stays(turn[p], turn'[p])
    BY <1>1, <1>2, <2>2 DEF TurnBorn, Free
  <2> QED BY <2>1, <2>2 DEF Shape
<1>4. turn'[u].parent = p /\ turn'[p].receipt /\ turn'[p].resumedBy = u
  BY <1>1, <1>3 DEF Stays
<1> QED BY <1>1, <1>4 DEF Linked

(* So does descent, and what was backed.                                   *)
LEMMA BackedStays ==
  ASSUME IInv, Rows, Shape, NEW t \in Turns, NEW k \in Keys, Backed(t, k)
  PROVE  Backed(t, k)'
<1>1. PICK s \in Turns : made[s][k] > 0 /\ (kind[k] = "acknowledgement" \/ s <= t \/ Descends(s, t))
  BY DEF Backed
<1>2. Descends(s, t) => Descends(s, t)'
  BY LinksStay DEF Descends
<1>3. kind' = kind /\ made'[s][k] > 0
  BY <1>1 DEF Shape, Counts
<1> QED BY <1>1, <1>2, <1>3 DEF Backed

(* What is recorded was made: a new turn carries on what was made before.  *)
LEMMA CompletedNext ==
  ASSUME MadeInv, Good PROVE CompletedWasMade'
<1> SUFFICES ASSUME NEW t \in Turns, NEW k \in Keys, Recorded(t, k)' PROVE Backed(t, k)'
  BY DEF CompletedWasMade, Recorded, Backed
<1>0. IInv /\ Rows /\ Shape /\ Records /\ Behind
  BY DEF MadeInv, Good
<1>1. CASE Backed(t, k)
  BY <1>0, <1>1, BackedStays
<1>2. CASE ~Exists(t) /\ \E s \in Turns : Recorded(s, k)
  <2>1. PICK s \in Turns : made[s][k] > 0
    BY <1>2 DEF MadeInv, CompletedWasMade, Recorded
  <2>2. Exists(s) /\ s # t
    BY <1>0, <1>2, <2>1 DEF IInv, Blank
  <2>3. s <= t
    <3>1. t \notin 1..(s - 1)
      BY <1>0, <1>2, <2>2 DEF Rows
    <3> QED BY <3>1 DEF Turns
  <2>4. made'[s][k] > 0
    BY <1>0, <2>1 DEF Shape, Counts
  <2> QED BY <2>3, <2>4 DEF Backed
<1> QED BY <1>0, <1>1, <1>2 DEF Records

(* The traces are of what was made.                                        *)
LEMMA TracesNext ==
  ASSUME MadeInv, IInv', Good PROVE TracesOK' /\ Reported' /\ Traces'
<1>1. IInv /\ Rows /\ Shape /\ Counts /\ kind' = kind /\ Reports /\ Leaves /\ Reported /\ Traces /\ TracesOK
  BY DEF MadeInv, Good, Shape
<1>2. active \in Nat /\ active' \in Nat /\ active <= active'
  BY <1>1, ActiveGrows
<1>3. Reported'
  <2> SUFFICES ASSUME NEW c \in Callers, call'[c].step = "made"
               PROVE  made'[call'[c].t][call'[c].k] > 0
    BY DEF Reported
  <2>1. CASE call[c].step = "made" /\ call'[c].t = call[c].t /\ call'[c].k = call[c].k
    <3>1. call[c].t \in Turns /\ call[c].k \in Keys /\ made[call[c].t][call[c].k] > 0
      BY <1>1, <2>1 DEF IInv, UnderWay, Reported
    <3> QED BY <1>1, <2>1, <3>1 DEF Counts
  <2> QED BY <1>1, <2>1 DEF Reports
<1>4. \A t \in Turns, k \in Keys : child'[t][k] # "none" => made'[t][k] > 0
  BY <1>1 DEF Leaves, Traces, Counts
<1>5. \A k \in acked' : kind'[k] = "acknowledgement" /\ \E s \in Turns : made'[s][k] > 0
  <2> SUFFICES ASSUME NEW k \in acked'
               PROVE  kind[k] = "acknowledgement" /\ \E s \in Turns : made'[s][k] > 0
    BY <1>1
  <2>1. k \in Keys
    BY <1>1 DEF Leaves, TracesOK
  <2> QED BY <1>1, <2>1 DEF Leaves, Traces, Counts
<1>6. ASSUME wf' = "terminal"
      PROVE  reason' \in Keys /\ \E s \in Turns : s <= active' /\ made'[s][reason'] > 0
  <2>1. reason' \in Keys /\ \E s \in Turns : s <= active /\ made'[s][reason'] > 0
    BY <1>1, <1>6 DEF Leaves, Traces, Counts
  <2> QED BY <1>2, <2>1 DEF Turns
<1> QED BY <1>1, <1>3, <1>4, <1>5, <1>6 DEF Leaves, Traces

(* The invariant is inductive.                                             *)
LEMMA MadeNext == MadeInv /\ [Next]_vars => MadeInv'
<1> SUFFICES ASSUME MadeInv, [Next]_vars PROVE MadeInv'
  OBVIOUS
<1>1. Good /\ IInv'
  BY StepsAreGood, NextInv DEF MadeInv
<1>2. IInv /\ Rows /\ Lineage /\ Behind /\ Between /\ Shape
  BY <1>1 DEF MadeInv, Good
<1>3. Rows' /\ Lineage' /\ Behind' /\ Between'
  BY <1>1, <1>2, RowsNext, LineageNext, BehindNext, BetweenNext
<1> QED BY <1>1, <1>3, TracesNext, CompletedNext DEF MadeInv

(* The invariant holds before the first turn.                              *)
LEMMA InitMade == Init => MadeInv
<1> SUFFICES ASSUME Init PROVE MadeInv
  OBVIOUS
<1>1. IInv
  BY InitInv
<1>2. /\ \A t \in Turns : turn[t] = NoTurn /\ ~Exists(t)
      /\ \A t \in Turns, k \in Keys : eff[t][k] = NoEffect /\ made[t][k] = 0 /\ child[t][k] = "none"
      /\ \A c \in Callers : call[c].step = "idle"
      /\ acked = {} /\ wf = "open"
  BY DEF Init, Exists, NoTurn, NoCall
<1>3. TracesOK
  BY DEF Init, TracesOK, ChildStates
<1>4. ASSUME NEW u \in Turns, NEW s \in 1..(u - 1) PROVE ~Exists(u)
  BY <1>2
<1>5. Rows /\ Lineage /\ Behind /\ Between
  BY <1>2, <1>4 DEF Rows, Lineage, Behind, Between, NoTurn
<1>6. Reported /\ Traces /\ CompletedWasMade
  BY <1>2 DEF Reported, Traces, CompletedWasMade, NoEffect
<1> QED BY <1>1, <1>3, <1>5, <1>6 DEF MadeInv

(* What the ledger or the reconciler says is completed was made: by this   *)
(* turn, by one it carries on or by one that carries it on.                *)
THEOREM WasMade == Spec => []CompletedWasMade
<1>1. MadeInv => CompletedWasMade
  BY DEF MadeInv
<1> QED BY <1>1, InitMade, MadeNext, PTL DEF Spec

=============================================================================
