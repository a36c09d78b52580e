----------------------- MODULE ProviderReconnectProofs -----------------------
(***************************************************************************)
(* What ProviderReconnect keeps, for any numbers of attempts, turns,       *)
(* faults and ticks: a launch is paid for once, what acts on the pane      *)
(* knows what is in it, and interrupted work goes on first.                *)
(***************************************************************************)
EXTENDS ProviderReconnect, FiniteSetTheorems, WellFoundedInduction, TLAPS

(* What the argument needs of the types: tokens and the rows of attempts     *)
(* are natural numbers, their bounds play no part.                           *)
TurnR == [kind : {"none", "input", "result", "resume", "final"},
         st : {"none", "queued", "sent", "finished", "cancelled"},
         got : BOOLEAN, resumed : BOOLEAN, parent : 0..MaxTurns, req : BOOLEAN, tok : Nat]
DriverR == [step : {"idle", "verify", "exit", "mark", "send", "wait", "edge", "complete", "fail"},
           turn : 0..MaxTurns, tok : Nat, att : Nat, ok : BOOLEAN]
Typed ==
    /\ wf \in {"open", "gate", "over"} /\ active \in TurnIds
    /\ turns \in [TurnIds -> TurnR] /\ res \in 0..MaxTurns
    /\ notice \in BOOLEAN /\ exec \in 0..MaxTurns
    /\ atts \in Seq(Attempt)
    /\ op \in [kind : {"none", "reconnect", "retire"}, tok : Nat, live : BOOLEAN]
    /\ life \in {"running", "exit_pending", "ended"} /\ compat \in BOOLEAN
    /\ pane \in [what : {"old", "shell", "fresh"}, att : Nat]
    /\ drv \in [Drivers -> DriverR] /\ reap \in {"none", "dead"} /\ tokens \in Nat
(* A tick that drives, and one whose claim the terminal still carries.       *)
Busy(d) == drv[d].step # "idle"
Holds(d) == Busy(d) /\ op.kind = "reconnect" /\ op.tok = drv[d].tok
(* Turns are taken in a row, and the active one is among them.               *)
InRow ==
    /\ turns[active].st # "none"
    /\ \A t, u \in TurnIds : turns[t].st = "none" /\ turns[u].st # "none" => u < t
(* Only turns that were reached carry a request.                             *)
Requests == \A t \in TurnIds : turns[t].req => t <= active
(* A requested reconnect finds a free turn for the successor.                *)
Room == turns[active].req => Free # {}
(* The turn that executes is the active one; a marked turn that was sent     *)
(* has its receipt, and nothing beyond the active turn was sent.             *)
Executes == exec # 0 => exec = active /\ turns[exec].st = "sent"
Authorized == wf = "open" /\ turns[active].req /\ turns[active].st = "sent" => turns[active].got
Ahead == \A t \in TurnIds : t > active => turns[t].st # "sent"
(* Work is continued by one turn, which is active after it.                  *)
Lineage ==
    /\ \A u \in TurnIds : turns[u].kind \in {"resume", "result"} => turns[u].parent < active
    /\ \A u, v \in TurnIds :
          turns[u].kind \in {"resume", "result"} /\ turns[v].kind \in {"resume", "result"}
            /\ turns[u].parent = turns[v].parent /\ turns[u].parent # 0 => u = v
(* The called back result is of a turn that was reached; while it waits to   *)
(* be called back again its turn is the active one.                          *)
Callback ==
    res # 0 => /\ res <= active /\ turns[res].kind = "result"
               /\ wf = "open" /\ turns[res].st = "queued" => res = active
(* An attempt is launched at most once, and not before it is marked.         *)
Paid == \A k \in DOMAIN atts : /\ atts[k].launches <= 1
                               /\ atts[k].st = "reserved" => atts[k].launches = 0
(* The attempts of a turn: one open, no more than the budget, none of a      *)
(* turn not yet reached, and one is open only while the request stands.      *)
OneOpen ==
    \A j, k \in DOMAIN atts :
       atts[j].turn = atts[k].turn /\ atts[j].st \in Open /\ atts[k].st \in Open => j = k
Budget == \A t \in TurnIds : Cardinality(Mine(t)) <= MaxAttempts
Past == \A k \in DOMAIN atts : atts[k].turn <= active
Asked ==
    \A k \in DOMAIN atts :
       wf = "open" /\ atts[k].turn = active /\ atts[k].st \in Open => turns[active].req
(* Tokens are never given twice, so that one tick at most holds the claim.   *)
Tokens ==
    /\ op.tok <= tokens
    /\ \A d \in Drivers : Busy(d) => drv[d].tok <= tokens
    /\ \A d, e \in Drivers : Busy(d) /\ Busy(e) /\ drv[d].tok = drv[e].tok => d = e
(* A tick drives an attempt of its turn; the one about to send the launch    *)
(* command holds a live claim, and its attempt was never launched.           *)
Drives ==
    \A d \in Drivers : Busy(d) =>
      /\ drv[d].att \in DOMAIN atts /\ atts[drv[d].att].turn = drv[d].turn
      /\ drv[d].step \in {"send", "wait", "edge", "complete"} => atts[drv[d].att].st # "reserved"
      /\ Holds(d) => /\ drv[d].step \in {"verify", "exit", "mark"} =>
                          atts[drv[d].att].st = "reserved"
                     /\ \A k \in DOMAIN atts : atts[k].turn <= drv[d].turn
      /\ drv[d].step = "send" =>
            /\ life = "running" /\ Holds(d) /\ op.live
            /\ atts[drv[d].att].st = "launched" /\ atts[drv[d].att].launches = 0
(* A fresh process was launched by an attempt; a runtime seen dead is a      *)
(* shell that no claim is about to use.                                      *)
Launched == pane.what = "fresh" => pane.att \in DOMAIN atts /\ atts[pane.att].launches > 0
Dead == reap = "dead" /\ life = "running" =>
    /\ pane.what = "shell"
    /\ \A d \in Drivers : drv[d].step \in {"exit", "mark", "send"} => ~Holds(d)
(* The ready attempt of the active turn is in the pane, and behind a         *)
(* current runtime stands the attempt that succeeded.                        *)
Ready == \A k \in DOMAIN atts :
    atts[k].st = "ready" /\ atts[k].current /\ atts[k].turn = active /\ wf = "open"
      /\ life = "running" => pane = [what |-> "fresh", att |-> k]
Current == compat /\ life = "running" =>
    /\ ~(wf = "open" /\ turns[active].req) /\ pane.what = "fresh" /\ atts[pane.att].st = "succeeded"
    /\ \A d \in Drivers : drv[d].step # "send"

TurnsInv == InRow /\ Requests /\ Room /\ Executes /\ Authorized /\ Ahead /\ Lineage /\ Callback
AttInv == /\ Paid /\ OneOpen /\ Budget /\ Past /\ Asked /\ Tokens /\ Drives /\ Launched /\ Dead
          /\ Ready /\ Current
Inv == Typed /\ TurnsInv /\ AttInv

-----------------------------------------------------------------------------
(* The least turn of a set.                                                  *)
LEMMA FirstOf ==
  ASSUME NEW S \in SUBSET TurnIds, S # {}
  PROVE  First(S) \in S /\ \A u \in S : First(S) <= u
<1>1. MaxTurns \in Nat
  BY ConstantAssumption
<1>s. S \subseteq Nat
  BY <1>1 DEF TurnIds
<1>2. PICK x \in S : \A y \in S : ~(<<y, x>> \in OpToRel(<, Nat))
  BY <1>s, NatLessThanWellFounded, WFMin
<1>3. \A y \in S : x <= y
  <2> TAKE y \in S
  <2>1. x \in Nat /\ y \in Nat
    BY <1>s
  <2>2. ~(y < x)
    BY <1>2, <2>1 DEF OpToRel
  <2> QED BY <2>1, <2>2
<1> QED BY <1>3 DEF First

(* The next free turn.                                                       *)
LEMMA FreshOf ==
  ASSUME Free # {}
  PROVE  /\ Fresh \in TurnIds /\ turns[Fresh].st = "none"
         /\ \A t \in TurnIds : t < Fresh => turns[t].st # "none"
<1>1. Free \in SUBSET TurnIds
  BY DEF Free
<1>2. Fresh \in Free /\ \A u \in Free : Fresh <= u
  BY <1>1, FirstOf DEF First, Fresh
<1>3. MaxTurns \in Nat
  BY ConstantAssumption
<1> QED BY <1>1, <1>2, <1>3 DEF Free, TurnIds

(* The fields of the turns.                                                  *)
LEMMA Fields ==
  ASSUME Typed
  PROVE  /\ MaxTurns \in Nat /\ active \in Nat /\ active \in TurnIds /\ TurnIds \subseteq Nat
         /\ 0 \notin TurnIds
         /\ \A t \in TurnIds :
              /\ turns[t].st \in {"none", "queued", "sent", "finished", "cancelled"}
              /\ turns[t].kind \in {"none", "input", "result", "resume", "final"}
              /\ turns[t].parent \in Nat /\ turns[t].req \in BOOLEAN /\ turns[t].got \in BOOLEAN
<1>1. MaxTurns \in Nat
  BY ConstantAssumption
<1> QED BY <1>1 DEF Typed, TurnR, TurnIds

(* No turn is added: turns are cancelled, their marks change.                *)
LEMMA KeptTurns ==
  ASSUME Typed, Typed', TurnsInv, active' = active, res' = res, exec' \in {exec, 0},
         wf' = "open" => wf = "open",
         \A t \in TurnIds :
            /\ turns'[t].kind = turns[t].kind /\ turns'[t].parent = turns[t].parent
            /\ \/ turns'[t].st = turns[t].st
               \/ turns[t].st = "queued" /\ turns'[t].st = "cancelled"
            /\ turns'[t].req => turns[t].req \/ t = active
            /\ turns[t].got => turns'[t].got,
         turns'[active].req => \/ turns[active].req
                               \/ Free # {} /\ (turns[active].st = "sent" => turns[active].got)
  PROVE  TurnsInv'
<1> USE Fields
<1> DEFINE f == turns'
           g == turns
<1>f. /\ \A t \in TurnIds : f[t].st \in {"none", "queued", "sent", "finished", "cancelled"}
      /\ \A t \in TurnIds : f[t].req \in BOOLEAN /\ f[t].got \in BOOLEAN
  BY DEF Typed, TurnR
<1>1. InRow'
  BY DEF TurnsInv, InRow
<1>2. Requests'
  BY DEF TurnsInv, Requests
<1>3. Free' = Free
  BY DEF Free
<1>4. Room'
  BY <1>3 DEF TurnsInv, Room
<1>5. Executes'
  BY DEF TurnsInv, Executes
<1>6. Authorized'
  BY DEF TurnsInv, Authorized
<1>7. Ahead'
  BY DEF TurnsInv, Ahead
<1>8. Lineage'
  BY DEF TurnsInv, Lineage
<1>9. Callback'
  <2>1. CASE res # 0
    <3>1. res \in TurnIds /\ res <= active /\ turns[res].kind = "result"
      BY <2>1 DEF TurnsInv, Callback, Typed, TurnIds
    <3> QED BY <3>1, <2>1 DEF TurnsInv, Callback
  <2>2. CASE res = 0
    BY <2>2 DEF Callback
  <2> QED BY <2>1, <2>2
<1> QED BY <1>1, <1>2, <1>4, <1>5, <1>6, <1>7, <1>8, <1>9 DEF TurnsInv

(* A turn is added behind the others; it may become the active one.          *)
LEMMA AddedTurn ==
  ASSUME Typed, Typed', TurnsInv, wf' = wf, Free # {},
         NEW n, n = Fresh, active' \in {active, n},
         turns'[n].st \in {"queued", "sent"},
         turns'[n].st = "sent" => active' = n /\ turns'[n].got,
         turns'[n].kind \in {"resume", "result"} => active' = n /\ turns'[n].parent = active,
         turns'[n].req => active' = n,
         \A t \in TurnIds \ {n} :
            /\ turns'[t].kind = turns[t].kind /\ turns'[t].parent = turns[t].parent
            /\ turns'[t].st = "none" <=> turns[t].st = "none"
            /\ turns'[t].st \in {"queued", "sent"} => turns'[t].st = turns[t].st
            /\ turns'[t].req => turns[t].req
            /\ turns[t].got => turns'[t].got,
         turns'[active'].req => Free' # {},
         active' = n => turns'[active].st # "queued",
         \/ exec' = 0
         \/ exec' = exec /\ active' = active /\ turns'[exec].st = turns[exec].st
         \/ exec' = n /\ active' = n /\ turns'[n].st = "sent",
         res' = res \/ (res' = n /\ active' = n /\ turns'[n].kind = "result")
  PROVE  TurnsInv'
<1> USE Fields
<1>f. /\ \A t \in TurnIds : turns'[t].st \in {"none", "queued", "sent", "finished", "cancelled"}
      /\ \A t \in TurnIds : turns'[t].req \in BOOLEAN /\ turns'[t].got \in BOOLEAN
  BY DEF Typed, TurnR
<1>n. n \in TurnIds /\ turns[n].st = "none" /\ \A t \in TurnIds : t < n => turns[t].st # "none"
  BY FreshOf
<1>a. active < n /\ \A t \in TurnIds : turns[t].st # "none" => t < n
  BY <1>n DEF TurnsInv, InRow
<1>1. InRow'
  <2>1. turns'[active'].st # "none"
    BY <1>n, <1>a DEF TurnsInv, InRow
  <2>2. ASSUME NEW t \in TurnIds, NEW u \in TurnIds, turns'[t].st = "none", turns'[u].st # "none"
        PROVE  u < t
    <3>1. t # n /\ turns[t].st = "none" /\ t > n
      BY <1>n, <2>2
    <3>2. CASE u = n
      BY <3>1, <3>2
    <3>3. CASE u # n
      BY <3>1, <3>3, <2>2 DEF TurnsInv, InRow
    <3> QED BY <3>2, <3>3
  <2> QED BY <2>1, <2>2 DEF InRow
<1>2. Requests'
  BY <1>n, <1>a DEF TurnsInv, Requests
<1>4. Room'
  BY DEF Room
<1>5. Executes'
  BY DEF TurnsInv, Executes
<1>6. Authorized'
  BY <1>n, <1>a, <1>f DEF TurnsInv, Authorized
<1>7. Ahead'
  BY <1>n, <1>a DEF TurnsInv, Ahead
<1>8. Lineage'
  <2>1. \A u \in TurnIds : turns'[u].kind \in {"resume", "result"} => turns'[u].parent < active'
    BY <1>n, <1>a DEF TurnsInv, Lineage
  <2>2. ASSUME NEW u \in TurnIds, NEW v \in TurnIds,
               turns'[u].kind \in {"resume", "result"}, turns'[v].kind \in {"resume", "result"},
               turns'[u].parent = turns'[v].parent, turns'[u].parent # 0
        PROVE  u = v
    <3>1. CASE u # n /\ v # n
      BY <2>2, <3>1 DEF TurnsInv, Lineage
    <3>2. CASE u = n /\ v # n
      <4>1. turns[v].parent < active
        BY <2>2, <3>2 DEF TurnsInv, Lineage
      <4> QED BY <4>1, <2>2, <3>2
    <3>3. CASE u # n /\ v = n
      <4>1. turns[u].parent < active
        BY <2>2, <3>3 DEF TurnsInv, Lineage
      <4> QED BY <4>1, <2>2, <3>3
    <3> QED BY <3>1, <3>2, <3>3
  <2> QED BY <2>1, <2>2 DEF Lineage
<1>9. Callback'
  <2>1. CASE res' = n
    <3>1. res # n
      BY <2>1, <1>n, <1>a DEF TurnsInv, Callback
    <3>2. active' = n /\ turns'[n].kind = "result"
      BY <2>1, <3>1
    <3> QED BY <2>1, <3>2, <1>n DEF Callback
  <2>2. CASE res' = res /\ res # 0 /\ res' # n
    <3>1. res \in TurnIds /\ res <= active /\ turns[res].kind = "result"
      BY <2>2 DEF TurnsInv, Callback, Typed, TurnIds
    <3> QED BY <2>2, <3>1, <1>a, <1>n DEF TurnsInv, Callback
  <2>3. CASE res' = 0
    BY <2>3 DEF Callback
  <2> QED BY <2>1, <2>2, <2>3
<1> QED BY <1>1, <1>2, <1>4, <1>5, <1>6, <1>7, <1>8, <1>9 DEF TurnsInv

(* A queued turn becomes the active one, or the active one is sent.          *)
LEMMA NextTurn ==
  ASSUME Typed, Typed', TurnsInv, wf' = wf, res' = res,
         NEW n \in TurnIds, active' = n, active <= n, turns[n].st = "queued",
         turns'[n].st \in {"queued", "sent"},
         \A t \in TurnIds :
            /\ turns'[t].kind = turns[t].kind /\ turns'[t].parent = turns[t].parent
            /\ turns'[t].st = "none" <=> turns[t].st = "none"
            /\ t # n /\ turns'[t].st \in {"queued", "sent"} => turns'[t].st = turns[t].st
            /\ turns'[t].req => turns[t].req
            /\ turns[t].got => turns'[t].got,
         ~turns'[n].req,
         exec' = 0 \/ (exec' = n /\ turns'[n].st = "sent"),
         wf = "open" /\ res = active /\ turns'[active].st = "queued" => n = active
  PROVE  TurnsInv'
<1> USE Fields
<1>1. InRow'
  BY DEF TurnsInv, InRow
<1>2. Requests'
  BY DEF TurnsInv, Requests
<1>4. Room'
  BY DEF Room
<1>5. Executes'
  BY DEF TurnsInv, Executes
<1>6. Authorized'
  BY DEF Authorized
<1>7. Ahead'
  BY DEF TurnsInv, Ahead
<1>8. Lineage'
  BY DEF TurnsInv, Lineage
<1>9. Callback'
  <2>1. CASE res # 0
    <3>1. res \in TurnIds /\ res <= active /\ turns[res].kind = "result"
      BY <2>1 DEF TurnsInv, Callback, Typed, TurnIds
    <3>2. wf = "open" /\ turns'[res].st = "queued" => res = n
      BY <2>1, <3>1 DEF TurnsInv, Callback
    <3> QED BY <3>1, <3>2 DEF Callback
  <2>2. CASE res = 0
    BY <2>2 DEF Callback
  <2> QED BY <2>1, <2>2
<1> QED BY <1>1, <1>2, <1>4, <1>5, <1>6, <1>7, <1>8, <1>9 DEF TurnsInv

Steps == {"idle", "verify", "exit", "mark", "send", "wait", "edge", "complete", "fail"}
SameRest(r, q) == q.turn = r.turn /\ q.tok = r.tok /\ q.att = r.att /\ q.ok = r.ok

(* A tick takes a step, or rests.                                            *)
LEMMA StepOf ==
  ASSUME Typed, NEW d \in Drivers, NEW s \in Steps, Step(d, s)
  PROVE  /\ drv' \in [Drivers -> DriverR]
         /\ drv'[d].step = s /\ SameRest(drv[d], drv'[d])
         /\ \A e \in Drivers \ {d} : drv'[e] = drv[e]
BY DEF Typed, Step, Steps, SameRest, DriverR

LEMMA RestOf ==
  ASSUME Typed, NEW d \in Drivers, drv' = [drv EXCEPT ![d] = Resting]
  PROVE  /\ drv' \in [Drivers -> DriverR]
         /\ drv'[d].step = "idle"
         /\ \A e \in Drivers \ {d} : drv'[e] = drv[e]
<1>1. MaxTurns \in Nat
  BY ConstantAssumption
<1> QED BY <1>1 DEF Typed, DriverR, Resting

(* One attempt changes.                                                      *)
LEMMA AttemptOf ==
  ASSUME Typed, NEW k \in DOMAIN atts, NEW r \in Attempt, atts' = [atts EXCEPT ![k] = r]
  PROVE  /\ atts' \in Seq(Attempt) /\ DOMAIN atts' = DOMAIN atts /\ Len(atts') = Len(atts)
         /\ \A j \in DOMAIN atts : atts'[j] = IF j = k THEN r ELSE atts[j]
<1>1. atts \in Seq(Attempt)
  BY DEF Typed
<1>2. DOMAIN atts = 1..Len(atts) /\ Len(atts) \in Nat
  BY <1>1
<1> QED BY <1>1, <1>2

LEMMA AttemptSt ==
  ASSUME Typed, NEW k \in DOMAIN atts, NEW s \in Open \cup {"succeeded", "failed"},
         atts' = [atts EXCEPT ![k].st = s]
  PROVE  /\ atts' \in Seq(Attempt) /\ DOMAIN atts' = DOMAIN atts /\ Len(atts') = Len(atts)
         /\ \A j \in DOMAIN atts :
              /\ atts'[j].turn = atts[j].turn /\ atts'[j].launches = atts[j].launches
              /\ atts'[j].current = atts[j].current
              /\ atts'[j].st = IF j = k THEN s ELSE atts[j].st
<1> DEFINE r == [atts[k] EXCEPT !.st = s]
<1>1. \A j \in DOMAIN atts : atts[j] \in Attempt
  BY DEF Typed
<1>2. r \in Attempt /\ r.st = s /\ r.turn = atts[k].turn /\ r.launches = atts[k].launches
      /\ r.current = atts[k].current
  BY <1>1 DEF Attempt, Open
<1>3. atts' = [atts EXCEPT ![k] = r]
  OBVIOUS
<1> HIDE DEF r
<1>4. /\ atts' \in Seq(Attempt) /\ DOMAIN atts' = DOMAIN atts /\ Len(atts') = Len(atts)
      /\ \A j \in DOMAIN atts : atts'[j] = IF j = k THEN r ELSE atts[j]
  BY <1>2, <1>3, AttemptOf
<1> QED BY <1>2, <1>4

LEMMA AttemptLaunch ==
  ASSUME Typed, NEW k \in DOMAIN atts, atts' = [atts EXCEPT ![k].launches = @ + 1]
  PROVE  /\ atts' \in Seq(Attempt) /\ DOMAIN atts' = DOMAIN atts /\ Len(atts') = Len(atts)
         /\ \A j \in DOMAIN atts :
              /\ atts'[j].turn = atts[j].turn /\ atts'[j].st = atts[j].st
              /\ atts'[j].current = atts[j].current
              /\ atts'[j].launches = IF j = k THEN atts[j].launches + 1 ELSE atts[j].launches
<1> DEFINE r == [atts[k] EXCEPT !.launches = @ + 1]
<1>1. \A j \in DOMAIN atts : atts[j] \in Attempt
  BY DEF Typed
<1>2. r \in Attempt /\ r.st = atts[k].st /\ r.turn = atts[k].turn
      /\ r.launches = atts[k].launches + 1 /\ r.current = atts[k].current
  BY <1>1 DEF Attempt
<1>3. atts' = [atts EXCEPT ![k] = r]
  OBVIOUS
<1> HIDE DEF r
<1>4. /\ atts' \in Seq(Attempt) /\ DOMAIN atts' = DOMAIN atts /\ Len(atts') = Len(atts)
      /\ \A j \in DOMAIN atts : atts'[j] = IF j = k THEN r ELSE atts[j]
  BY <1>2, <1>3, AttemptOf
<1> QED BY <1>2, <1>4

LEMMA AttemptEdge ==
  ASSUME Typed, NEW k \in DOMAIN atts, atts' = [atts EXCEPT ![k].edge = TRUE]
  PROVE  /\ atts' \in Seq(Attempt) /\ DOMAIN atts' = DOMAIN atts /\ Len(atts') = Len(atts)
         /\ \A j \in DOMAIN atts :
              /\ atts'[j].turn = atts[j].turn /\ atts'[j].st = atts[j].st
              /\ atts'[j].current = atts[j].current /\ atts'[j].launches = atts[j].launches
<1> DEFINE r == [atts[k] EXCEPT !.edge = TRUE]
<1>1. \A j \in DOMAIN atts : atts[j] \in Attempt
  BY DEF Typed
<1>2. r \in Attempt /\ r.st = atts[k].st /\ r.turn = atts[k].turn
      /\ r.launches = atts[k].launches /\ r.current = atts[k].current
  BY <1>1 DEF Attempt
<1>3. atts' = [atts EXCEPT ![k] = r]
  OBVIOUS
<1> HIDE DEF r
<1>4. /\ atts' \in Seq(Attempt) /\ DOMAIN atts' = DOMAIN atts /\ Len(atts') = Len(atts)
      /\ \A j \in DOMAIN atts : atts'[j] = IF j = k THEN r ELSE atts[j]
  BY <1>2, <1>3, AttemptOf
<1> QED BY <1>2, <1>4

LEMMA AttemptReady ==
  ASSUME Typed, NEW k \in DOMAIN atts,
         atts' = [atts EXCEPT ![k].st = "ready", ![k].current = TRUE]
  PROVE  /\ atts' \in Seq(Attempt) /\ DOMAIN atts' = DOMAIN atts /\ Len(atts') = Len(atts)
         /\ \A j \in DOMAIN atts :
              /\ atts'[j].turn = atts[j].turn /\ atts'[j].launches = atts[j].launches
              /\ atts'[j].st = IF j = k THEN "ready" ELSE atts[j].st
              /\ j # k => atts'[j].current = atts[j].current
<1> DEFINE r == [atts[k] EXCEPT !.st = "ready", !.current = TRUE]
<1>1. \A j \in DOMAIN atts : atts[j] \in Attempt
  BY DEF Typed
<1>2. r \in Attempt /\ r.st = "ready" /\ r.turn = atts[k].turn
      /\ r.launches = atts[k].launches
  BY <1>1 DEF Attempt
<1>3. atts' = [atts EXCEPT ![k] = r]
  OBVIOUS
<1> HIDE DEF r
<1>4. /\ atts' \in Seq(Attempt) /\ DOMAIN atts' = DOMAIN atts /\ Len(atts') = Len(atts)
      /\ \A j \in DOMAIN atts : atts'[j] = IF j = k THEN r ELSE atts[j]
  BY <1>2, <1>3, AttemptOf
<1> QED BY <1>2, <1>4

(* Rows of turns.                                                            *)
LEMMA NewRow ==
  ASSUME NEW k \in {"input", "result", "resume", "final"}, NEW s \in {"queued", "sent"},
         NEW g \in BOOLEAN, NEW p \in 0..MaxTurns
  PROVE  LET q == T(k, s, g, p) IN
         /\ q \in TurnR /\ q.kind = k /\ q.st = s /\ q.got = g /\ q.parent = p /\ q.req = FALSE
BY DEF T, NoTurn, TurnR

LEMMA CancelledTurns ==
  ASSUME Typed
  PROVE  /\ Cancelled \in [TurnIds -> TurnR]
         /\ \A t \in TurnIds :
              /\ Cancelled[t].kind = turns[t].kind /\ Cancelled[t].parent = turns[t].parent
              /\ Cancelled[t].req = turns[t].req /\ Cancelled[t].got = turns[t].got
              /\ Cancelled[t].st = IF turns[t].st = "queued" THEN "cancelled" ELSE turns[t].st
<1> DEFINE row(t) == [turns[t] EXCEPT !.st = "cancelled"]
<1>1. \A t \in TurnIds : turns[t] \in TurnR
  BY DEF Typed
<1>2. \A t \in TurnIds :
         /\ row(t) \in TurnR /\ row(t).kind = turns[t].kind /\ row(t).parent = turns[t].parent
         /\ row(t).req = turns[t].req /\ row(t).got = turns[t].got /\ row(t).st = "cancelled"
  BY <1>1 DEF TurnR
<1>3. Cancelled = [t \in TurnIds |-> IF turns[t].st = "queued" THEN row(t) ELSE turns[t]]
  BY DEF Cancelled
<1> HIDE DEF row
<1> QED BY <1>1, <1>2, <1>3

(* The marks of the active turn are taken away.                              *)
Idle == [turns EXCEPT ![active].req = FALSE, ![active].tok = 0]
LEMMA IdleTurns ==
  ASSUME Typed
  PROVE  /\ Idle \in [TurnIds -> TurnR]
         /\ Idle[active].req = FALSE
         /\ \A t \in TurnIds :
              /\ Idle[t].kind = turns[t].kind /\ Idle[t].parent = turns[t].parent
              /\ Idle[t].st = turns[t].st /\ Idle[t].got = turns[t].got
              /\ Idle[t].req => turns[t].req
<1> DEFINE r == [turns[active] EXCEPT !.req = FALSE, !.tok = 0]
<1>1. turns \in [TurnIds -> TurnR] /\ active \in TurnIds /\ turns[active] \in TurnR
  BY DEF Typed
<1>2. /\ r \in TurnR /\ r.req = FALSE /\ r.kind = turns[active].kind
      /\ r.parent = turns[active].parent /\ r.st = turns[active].st /\ r.got = turns[active].got
  BY <1>1 DEF TurnR
<1>3. Idle = [turns EXCEPT ![active] = r]
  BY DEF Idle
<1> HIDE DEF r
<1> QED BY <1>1, <1>2, <1>3

LEMMA GatedTurns ==
  ASSUME Typed
  PROVE  /\ Gated \in [TurnIds -> TurnR]
         /\ Gated[active].req = FALSE
         /\ \A t \in TurnIds :
              /\ Gated[t].kind = turns[t].kind /\ Gated[t].parent = turns[t].parent
              /\ (Gated[t].req => turns[t].req) /\ Gated[t].got = turns[t].got
              /\ Gated[t].st = IF turns[t].st = "queued" THEN "cancelled" ELSE turns[t].st
<1> DEFINE base == Cancelled
<1>1. base \in [TurnIds -> TurnR] /\ \A t \in TurnIds :
              /\ base[t].kind = turns[t].kind /\ base[t].parent = turns[t].parent
              /\ base[t].req = turns[t].req /\ base[t].got = turns[t].got
              /\ base[t].st = IF turns[t].st = "queued" THEN "cancelled" ELSE turns[t].st
  BY CancelledTurns
<1>2. Gated = [base EXCEPT ![active].req = FALSE, ![active].tok = 0]
  BY DEF Gated
<1> HIDE DEF base
<1> DEFINE r == [base[active] EXCEPT !.req = FALSE, !.tok = 0]
<1>3. base[active] \in TurnR /\ active \in TurnIds
  BY <1>1 DEF Typed
<1>4. /\ r \in TurnR /\ r.req = FALSE /\ r.kind = base[active].kind
      /\ r.parent = base[active].parent /\ r.st = base[active].st /\ r.got = base[active].got
  BY <1>3 DEF TurnR
<1>5. Gated = [base EXCEPT ![active] = r]
  BY <1>2
<1> HIDE DEF r
<1> QED BY <1>1, <1>3, <1>4, <1>5

-----------------------------------------------------------------------------
(* Nothing happens to the turns.                                             *)
LEMMA SameTurns ==
  ASSUME TurnsInv, UNCHANGED <<wf, active, turns, res, exec>>
  PROVE  TurnsInv'
BY DEF TurnsInv, InRow, Requests, Room, Executes, Authorized, Ahead, Lineage, Callback, Free

(* The fields of the attempts.                                               *)
LEMMA Attempts ==
  ASSUME Typed
  PROVE  /\ DOMAIN atts = 1..Len(atts) /\ Len(atts) \in Nat
         /\ \A k \in DOMAIN atts : /\ atts[k] \in Attempt /\ atts[k].turn \in TurnIds
                                    /\ atts[k].launches \in Nat
<1>1. atts \in Seq(Attempt)
  BY DEF Typed
<1>2. DOMAIN atts = 1..Len(atts) /\ Len(atts) \in Nat
      /\ \A k \in DOMAIN atts : atts[k] \in Attempt
  BY <1>1
<1>3. \A r \in Attempt : r.turn \in TurnIds /\ r.launches \in Nat
  BY DEF Attempt
<1> QED BY <1>2, <1>3

LEMMA DriverAttempt ==
  ASSUME Inv, NEW d \in Drivers, drv[d].step # "idle"
  PROVE  drv[d].att \in DOMAIN atts
BY DEF Inv, AttInv, Drives, Busy

LEMMA RenewedTyped ==
  ASSUME Typed, NEW d \in Drivers
  PROVE  /\ Renewed(d) \in [kind : {"none", "reconnect", "retire"}, tok : Nat, live : BOOLEAN]
         /\ Renewed(d).kind = op.kind /\ Renewed(d).tok = op.tok
         /\ Renewed(d).live = (op.live \/ Guard(d))
BY DEF Typed, Renewed

(* The greatest of some attempts.                                            *)
LEMMA LastOf ==
  ASSUME NEW n \in Nat, NEW S \in SUBSET (1..n), S # {}
  PROVE  \E i \in S : \A j \in S : j <= i
<1> DEFINE R == {n - i : i \in S}
<1>1. R \subseteq Nat /\ R # {}
  <2>1. PICK s \in S : TRUE
    OBVIOUS
  <2>2. n - s \in R
    OBVIOUS
  <2> QED BY <2>2
<1>2. PICK x \in R : \A y \in R : ~(<<y, x>> \in OpToRel(<, Nat))
  BY <1>1, NatLessThanWellFounded, WFMin
<1>3. \A y \in R : x <= y
  <2> TAKE y \in R
  <2>1. x \in Nat /\ y \in Nat
    BY <1>1
  <2>2. ~(y < x)
    BY <1>2, <2>1 DEF OpToRel
  <2> QED BY <2>1, <2>2
<1>4. PICK i \in S : x = n - i
  OBVIOUS
<1>5. \A j \in S : j <= i
  BY <1>3, <1>4
<1> QED BY <1>5

(* The attempt a claim drives.                                               *)
LEMMA TakenOf ==
  ASSUME Typed
  PROVE  /\ Taken \in Nat
         /\ Reusable(active) = {} => Taken = Len(atts) + 1
         /\ Reusable(active) # {} => Taken \in Reusable(active) /\ Taken <= Len(atts)
         /\ Taken > Len(atts) => Reusable(active) = {} /\ Taken = Len(atts) + 1
<1>1. Len(atts) \in Nat /\ Reusable(active) \in SUBSET (1..Len(atts))
  BY DEF Typed, Reusable, Mine
<1>2. CASE Reusable(active) = {}
  BY <1>1, <1>2 DEF Taken
<1>3. CASE Reusable(active) # {}
  <2>1. \E i \in Reusable(active) : \A j \in Reusable(active) : j <= i
    BY <1>1, <1>3, LastOf
  <2>2. Taken \in Reusable(active)
    BY <1>3, <2>1 DEF Taken
  <2> QED BY <1>1, <1>3, <2>2
<1> QED BY <1>2, <1>3

(* The owners of a claim that ran out know it.                               *)
LEMMA LostDrivers ==
  ASSUME Typed, NEW f, f = [d \in Drivers |-> IF d \in Owners THEN [drv[d] EXCEPT !.ok = FALSE]
                                              ELSE drv[d]]
  PROVE  /\ f \in [Drivers -> DriverR]
         /\ \A d \in Drivers : /\ f[d].step = drv[d].step /\ f[d].turn = drv[d].turn
                               /\ f[d].tok = drv[d].tok /\ f[d].att = drv[d].att
<1> DEFINE row(d) == [drv[d] EXCEPT !.ok = FALSE]
<1>1. \A d \in Drivers : drv[d] \in DriverR
  BY DEF Typed
<1>2. \A d \in Drivers :
         /\ row(d) \in DriverR /\ row(d).step = drv[d].step /\ row(d).turn = drv[d].turn
         /\ row(d).tok = drv[d].tok /\ row(d).att = drv[d].att
  BY <1>1 DEF DriverR
<1>3. f = [d \in Drivers |-> IF d \in Owners THEN row(d) ELSE drv[d]]
  OBVIOUS
<1> HIDE DEF row
<1> QED BY <1>1, <1>2, <1>3

LEMMA RestingTyped == Resting \in DriverR
<1>1. MaxTurns \in Nat
  BY ConstantAssumption
<1> QED BY <1>1 DEF Resting, DriverR

(* The next release knows none of the runtimes.                              *)
LEMMA Outdated ==
  ASSUME Typed, NEW f, f = [k \in DOMAIN atts |-> [atts[k] EXCEPT !.current = FALSE]]
  PROVE  /\ f \in Seq(Attempt) /\ DOMAIN f = DOMAIN atts /\ Len(f) = Len(atts)
         /\ \A k \in DOMAIN atts : /\ f[k].turn = atts[k].turn /\ f[k].st = atts[k].st
                                   /\ f[k].launches = atts[k].launches /\ ~f[k].current
<1> DEFINE row(k) == [atts[k] EXCEPT !.current = FALSE]
<1>1. \A k \in DOMAIN atts : atts[k] \in Attempt
  BY Attempts
<1>2. \A k \in DOMAIN atts :
         /\ row(k) \in Attempt /\ row(k).turn = atts[k].turn /\ row(k).st = atts[k].st
         /\ row(k).launches = atts[k].launches /\ ~row(k).current
  BY <1>1 DEF Attempt
<1>3. f = [k \in DOMAIN atts |-> row(k)]
  OBVIOUS
<1>4. DOMAIN atts = 1..Len(atts) /\ Len(atts) \in Nat
  BY Attempts
<1> HIDE DEF row
<1>5. f \in [1..Len(atts) -> Attempt]
  BY <1>2, <1>3, <1>4
<1>6. f \in Seq(Attempt) /\ Len(f) = Len(atts)
  BY <1>4, <1>5
<1> QED BY <1>2, <1>3, <1>6

(* The active turn only moves on, and a current runtime is asked for no      *)
(* reconnect.                                                                *)
Moves ==
    /\ active' = active \/ active' > active
    /\ active' = active => (turns[active].req => turns'[active].req)
    /\ compat /\ life = "running" => ~(wf' = "open" /\ turns'[active'].req)

(* What each action leaves of the types and the turns.                       *)
LEMMA RequestTurns ==
  ASSUME Inv, Request
  PROVE  Typed' /\ TurnsInv' /\ Moves
<1>1. Typed /\ TurnsInv /\ active \in TurnIds /\ turns \in [TurnIds -> TurnR]
  BY DEF Inv, Typed
<1> DEFINE r == [turns[active] EXCEPT !.req = TRUE, !.tok = 0]
<1>2. /\ r \in TurnR /\ r.kind = turns[active].kind
      /\ r.parent = turns[active].parent /\ r.st = turns[active].st /\ r.got = turns[active].got
      /\ r.req = TRUE
  BY <1>1 DEF TurnR
<1>3. turns' = [turns EXCEPT ![active] = r]
  BY DEF Request
<1> HIDE DEF r
<1>4. turns' \in [TurnIds -> TurnR] /\ turns'[active] = r
      /\ \A t \in TurnIds : t # active => turns'[t] = turns[t]
  BY <1>1, <1>2, <1>3
<1>5. Typed'
  BY <1>1, <1>4 DEF Typed, Request
<1>6. turns[active].st = "sent" => turns[active].got
  BY DEF Request, Requestable, Authority, QueuedCallback
<1>7. TurnsInv'
  BY <1>1, <1>2, <1>4, <1>5, <1>6, KeptTurns DEF Request
<1>8. Moves
  BY <1>1, <1>2, <1>4 DEF Moves, Request, Requestable
<1> QED BY <1>5, <1>7, <1>8

LEMMA ClaimTurns ==
  ASSUME Inv, NEW d \in Drivers, Claim(d)
  PROVE  Typed' /\ TurnsInv'
<1>1. Typed /\ TurnsInv /\ active \in TurnIds /\ turns \in [TurnIds -> TurnR] /\ tokens \in Nat
  BY DEF Inv, Typed
<1>2. CASE GiveUp
  <2>1. Typed'
    BY <1>1, <1>2, GatedTurns DEF Typed, Claim, GiveUp, NoOp
  <2>2. \A t \in TurnIds :
           /\ turns'[t].kind = turns[t].kind /\ turns'[t].parent = turns[t].parent
           /\ \/ turns'[t].st = turns[t].st
              \/ turns[t].st = "queued" /\ turns'[t].st = "cancelled"
           /\ turns'[t].req => turns[t].req \/ t = active
           /\ turns[t].got => turns'[t].got
    <3>1. turns' = Gated
      BY <1>2 DEF GiveUp
    <3>2. \A t \in TurnIds :
           /\ Gated[t].kind = turns[t].kind /\ Gated[t].parent = turns[t].parent
           /\ Gated[t].req => turns[t].req
           /\ Gated[t].got = turns[t].got
           /\ Gated[t].st = IF turns[t].st = "queued" THEN "cancelled" ELSE turns[t].st
      <4>1. Typed
        BY <1>1
      <4> QED BY ONLY <4>1, GatedTurns
    <3> QED BY <3>1, <3>2, <1>1, Fields
  <2>3. ~turns'[active].req
    BY <1>1, <1>2, GatedTurns DEF GiveUp
  <2>4. active' = active /\ res' = res /\ exec' = exec /\ wf' # "open"
    BY <1>2 DEF Claim, GiveUp
  <2> QED BY <1>1, <2>1, <2>2, <2>3, <2>4, KeptTurns
<1>3. CASE TakeOver(d)
  <2> DEFINE r == [turns[active] EXCEPT !.tok = tokens + 1]
  <2>2. /\ r \in TurnR /\ r.kind = turns[active].kind /\ r.req = turns[active].req
        /\ r.parent = turns[active].parent /\ r.st = turns[active].st /\ r.got = turns[active].got
    BY <1>1 DEF TurnR
  <2>3. turns' = [turns EXCEPT ![active] = r]
    BY <1>3 DEF TakeOver
  <2> HIDE DEF r
  <2>4. turns' \in [TurnIds -> TurnR] /\ turns'[active] = r
        /\ \A t \in TurnIds : t # active => turns'[t] = turns[t]
    BY <1>1, <2>2, <2>3
  <2>5. Taken \in Nat /\ (Taken > Len(atts) => Reusable(active) = {} /\ Taken = Len(atts) + 1)
        /\ (Reusable(active) # {} => Taken \in Reusable(active))
    BY <1>1, TakenOf
  <2>6. Reserved \in Attempt
    BY <1>1 DEF Reserved, Attempt
  <2>7. atts' \in Seq(Attempt)
    BY <1>1, <1>3, <2>6 DEF TakeOver, Typed
  <2>8. drv' \in [Drivers -> DriverR]
    <3> DEFINE q == [step |-> IF ~bound THEN "fail"
                              ELSE IF atts'[Taken].st = "reserved" THEN "verify" ELSE "wait",
                     turn |-> active, tok |-> tokens + 1, att |-> Taken, ok |-> TRUE]
    <3>1. q \in DriverR
      BY <1>1, <2>5, Fields DEF DriverR, TurnIds
    <3>2. drv' = [drv EXCEPT ![d] = q]
      BY <1>3 DEF TakeOver
    <3> HIDE DEF q
    <3> QED BY <1>1, <3>1, <3>2 DEF Typed
  <2>9. op' \in [kind : {"none", "reconnect", "retire"}, tok : Nat, live : BOOLEAN]
        /\ tokens' \in Nat
    BY <1>1, <1>3 DEF TakeOver
  <2>10. UNCHANGED <<active, res, notice, exec, life, compat, pane, reap, wf>>
    BY <1>3 DEF Claim, TakeOver
  <2>11. Typed'
    BY <1>1, <2>4, <2>7, <2>8, <2>9, <2>10 DEF Typed
  <2>12. \A t \in TurnIds :
           /\ turns'[t].kind = turns[t].kind /\ turns'[t].parent = turns[t].parent
           /\ turns'[t].st = turns[t].st /\ turns'[t].req = turns[t].req
           /\ turns'[t].got = turns[t].got
    BY <2>2, <2>4
  <2>13. \A t \in TurnIds :
           /\ turns'[t].kind = turns[t].kind /\ turns'[t].parent = turns[t].parent
           /\ \/ turns'[t].st = turns[t].st
              \/ turns[t].st = "queued" /\ turns'[t].st = "cancelled"
           /\ turns'[t].req => turns[t].req \/ t = active
           /\ turns[t].got => turns'[t].got
    BY <2>12, <1>1, Fields
  <2>14. turns'[active].req => turns[active].req
    BY <2>12, <1>1
  <2>15. active' = active /\ res' = res /\ exec' \in {exec, 0}
    BY <2>10
  <2>19. wf' = "open" => wf = "open"
    BY <2>10
  <2>16. Typed /\ TurnsInv
    BY <1>1
  <2>17. turns'[active].req => \/ turns[active].req
                               \/ Free # {} /\ (turns[active].st = "sent" => turns[active].got)
    BY <2>14
  <2>18. TurnsInv'
    BY <2>11, <2>13, <2>15, <2>16, <2>17, <2>19, KeptTurns
  <2> QED BY <2>11, <2>18
<1> QED BY <1>2, <1>3 DEF Claim

(* Turns and the rest of the flow stay; drivers, attempts and pane move.     *)
LEMMA DriveTurns ==
  ASSUME Inv, NEW d \in Drivers,
         Verify(d) \/ Exit(d) \/ Mark(d) \/ Send(d) \/ Wait(d) \/ Edge(d)
  PROVE  Typed' /\ TurnsInv'
<1>1. Typed /\ TurnsInv
  BY DEF Inv
<1>2. UNCHANGED <<wf, active, turns, res, exec, notice, life, compat, reap, tokens>>
  BY DEF Verify, Exit, Mark, Send, Wait, Edge, flow
<1>3. TurnsInv'
  BY <1>1, <1>2, SameTurns
<1>4. drv[d].att \in DOMAIN atts /\ drv[d].att \in Nat
  <2>1. drv[d].step # "idle"
    BY DEF Verify, Exit, Mark, Send, Wait, Edge
  <2>2. drv[d].att \in DOMAIN atts
    BY <2>1, DriverAttempt
  <2> QED BY <1>1, <2>2, Attempts
<1>5. \A s : Step(d, s) /\ s \in Steps => drv' \in [Drivers -> DriverR]
  BY <1>1, StepOf
<1>6. drv' \in [Drivers -> DriverR]
  <2>1. \E s \in Steps : Step(d, s)
    BY DEF Verify, Exit, Mark, Send, Wait, Edge, Steps
  <2> QED BY <1>5, <2>1
<1>7. op' \in [kind : {"none", "reconnect", "retire"}, tok : Nat, live : BOOLEAN]
  <2>1. op' = op \/ op' = Renewed(d)
    BY DEF Verify, Exit, Mark, Send, Wait, Edge
  <2> QED BY <1>1, <2>1, RenewedTyped DEF Typed
<1>8. atts' \in Seq(Attempt)
  <2>1. CASE atts' = atts
    BY <1>1, <2>1 DEF Typed
  <2>2. CASE atts' = [atts EXCEPT ![drv[d].att].st = "launched"]
    BY <1>1, <1>4, <2>2, AttemptSt DEF Open
  <2>3. CASE atts' = [atts EXCEPT ![drv[d].att].launches = @ + 1]
    BY <1>1, <1>4, <2>3, AttemptLaunch
  <2>4. CASE atts' = [atts EXCEPT ![drv[d].att].edge = TRUE]
    BY <1>1, <1>4, <2>4, AttemptEdge
  <2> QED BY <2>1, <2>2, <2>3, <2>4 DEF Verify, Exit, Mark, Send, Wait, Edge
<1>9. pane' \in [what : {"old", "shell", "fresh"}, att : Nat]
  <2>1. pane' \in {pane, Shell, [what |-> "fresh", att |-> drv[d].att]}
    BY DEF Verify, Exit, Mark, Send, Wait, Edge
  <2>2. pane \in [what : {"old", "shell", "fresh"}, att : Nat]
    BY <1>1 DEF Typed
  <2>3. Shell \in [what : {"old", "shell", "fresh"}, att : Nat]
    BY DEF Shell
  <2>4. [what |-> "fresh", att |-> drv[d].att] \in [what : {"old", "shell", "fresh"}, att : Nat]
    BY <1>4
  <2> QED BY <2>1, <2>2, <2>3, <2>4
<1>10. Typed'
  BY <1>1, <1>2, <1>6, <1>7, <1>8, <1>9 DEF Typed
<1> QED BY <1>3, <1>10

LEMMA OtherTurns ==
  ASSUME Inv, Register \/ Acknowledge \/ ExitClaim \/ Observe \/ Expire \/ Crash
  PROVE  Typed' /\ TurnsInv'
<1>1. Typed /\ TurnsInv
  BY DEF Inv
<1>2. UNCHANGED <<wf, active, turns, res, exec, tokens>>
  BY DEF Register, Acknowledge, ExitClaim, Observe, Expire, Crash, flow
<1>3. TurnsInv'
  BY <1>1, <1>2, SameTurns
<1>4. CASE Register
  <2>1. pane.att \in DOMAIN atts
    BY <1>4 DEF Inv, AttInv, Launched, Register
  <2>2. atts' \in Seq(Attempt)
    BY <1>1, <1>4, <2>1, AttemptReady DEF Register
  <2>3. Typed'
    BY <1>1, <1>2, <1>4, <2>2 DEF Typed, Register, flow
  <2> QED BY <1>3, <2>3
<1>5. CASE Acknowledge
  BY <1>1, <1>2, <1>3, <1>5 DEF Typed, Acknowledge
<1>6. CASE ExitClaim
  BY <1>1, <1>2, <1>3, <1>6 DEF Typed, ExitClaim, flow
<1>7. CASE Observe
  BY <1>1, <1>2, <1>3, <1>7 DEF Typed, Observe, flow
<1>8. CASE Expire
  <2>1. op' \in [kind : {"none", "reconnect", "retire"}, tok : Nat, live : BOOLEAN]
    BY <1>1, <1>8 DEF Typed, Expire
  <2>2. drv' \in [Drivers -> DriverR]
    BY <1>1, <1>8, LostDrivers DEF Expire, Typed
  <2>3. Typed'
    BY <1>1, <1>2, <1>8, <2>1, <2>2 DEF Typed, Expire, flow
  <2> QED BY <1>3, <2>3
<1>9. CASE Crash
  <2>1. drv' \in [Drivers -> DriverR]
    BY <1>9, RestingTyped DEF Crash
  <2>2. atts' \in Seq(Attempt) /\ compat' \in BOOLEAN
    BY <1>1, <1>9, Outdated DEF Crash, Typed
  <2>3. pane' \in [what : {"old", "shell", "fresh"}, att : Nat]
    BY <1>1, <1>9 DEF Crash, Typed
  <2>4. Typed'
    BY <1>1, <1>2, <1>9, <2>1, <2>2, <2>3 DEF Typed, Crash, flow
  <2> QED BY <1>3, <2>4
<1> QED BY <1>4, <1>5, <1>6, <1>7, <1>8, <1>9

LEMMA FailTurns ==
  ASSUME Inv, NEW d \in Drivers, Fail(d)
  PROVE  Typed' /\ TurnsInv'
<1>1. Typed /\ TurnsInv /\ active \in TurnIds /\ turns \in [TurnIds -> TurnR]
  BY DEF Inv, Typed
<1>2. drv' \in [Drivers -> DriverR]
  BY <1>1, RestOf DEF Fail
<1>3. UNCHANGED <<active, res, notice, life, compat, pane, reap, tokens>>
  BY DEF Fail
<1>4. CASE ~Failable(d)
  <2>1. UNCHANGED <<wf, turns, exec, atts, op>>
    BY <1>4 DEF Fail
  <2>2. Typed'
    BY <1>1, <1>2, <1>3, <2>1 DEF Typed
  <2> QED BY <1>1, <1>3, <2>1, <2>2, SameTurns
<1>5. CASE Failable(d)
  <2>1. drv[d].att \in DOMAIN atts
    BY DriverAttempt DEF Fail
  <2>2. atts' \in Seq(Attempt)
    <3>1. atts' = [atts EXCEPT ![drv[d].att].st = "failed"]
      BY <1>5 DEF Fail
    <3> QED BY <1>1, <2>1, <3>1, AttemptSt
  <2>3. op' \in [kind : {"none", "reconnect", "retire"}, tok : Nat, live : BOOLEAN]
    <3>1. op' = NoOp
      BY <1>5 DEF Fail
    <3> QED BY <3>1 DEF NoOp
  <2>4. CASE wf' = "gate" /\ turns' = Gated /\ exec' = 0
    <3>1. Typed'
      <4>1. turns' \in [TurnIds -> TurnR]
          /\ exec' \in 0..MaxTurns /\ wf' \in {"open", "gate", "over"}
        BY <1>1, <2>4, GatedTurns, Fields
      <4> QED BY <1>1, <1>2, <1>3, <2>2, <2>3, <4>1 DEF Typed
    <3>2. \A t \in TurnIds :
             /\ turns'[t].kind = turns[t].kind /\ turns'[t].parent = turns[t].parent
             /\ \/ turns'[t].st = turns[t].st
                \/ turns[t].st = "queued" /\ turns'[t].st = "cancelled"
             /\ turns'[t].req => turns[t].req \/ t = active
             /\ turns[t].got => turns'[t].got
      BY <1>1, <2>4, GatedTurns, Fields
    <3>3. ~turns'[active].req
      BY <1>1, <2>4, GatedTurns
    <3> QED BY <1>1, <1>3, <2>4, <3>1, <3>2, <3>3, KeptTurns
  <2>5. CASE turns' = [turns EXCEPT ![active].tok = 0] /\ UNCHANGED <<wf, exec>>
    <3> DEFINE r == [turns[active] EXCEPT !.tok = 0]
    <3>1. /\ r \in TurnR /\ r.kind = turns[active].kind /\ r.req = turns[active].req
          /\ r.parent = turns[active].parent /\ r.st = turns[active].st /\ r.got = turns[active].got
      
      BY <1>1 DEF TurnR
    <3>2. turns' = [turns EXCEPT ![active] = r]
      BY <2>5
    <3> HIDE DEF r
    <3>3. turns' \in [TurnIds -> TurnR] /\ turns'[active] = r
          /\ \A t \in TurnIds : t # active => turns'[t] = turns[t]
      BY <1>1, <3>1, <3>2
    <3>4. Typed'
      BY <1>1, <1>2, <1>3, <2>2, <2>3, <2>5, <3>3 DEF Typed
    <3>5. \A t \in TurnIds :
             /\ turns'[t].kind = turns[t].kind /\ turns'[t].parent = turns[t].parent
             /\ turns'[t].st = turns[t].st /\ turns'[t].req = turns[t].req
             /\ turns'[t].got = turns[t].got
      BY <3>1, <3>3
    <3> QED BY <1>1, <1>3, <2>5, <3>4, <3>5, KeptTurns
  <2> QED BY <1>5, <2>4, <2>5 DEF Fail
<1> QED BY <1>4, <1>5

LEMMA EndTurns ==
  ASSUME Inv, ExitDone \/ Reap
  PROVE  Typed' /\ TurnsInv'
<1>1. Typed /\ TurnsInv
  BY DEF Inv
<1>2. UNCHANGED <<active, res, notice, compat, drv, tokens, atts>>
  BY DEF ExitDone, Reap
<1>3. CASE turns' = Cancelled /\ exec' = 0 /\ life' = "ended" /\ op' = NoOp
           /\ wf' = IF wf = "open" THEN "over" ELSE wf
  <2>1. pane' \in [what : {"old", "shell", "fresh"}, att : Nat] /\ reap' \in {"none", "dead"}
    BY <1>1 DEF ExitDone, Reap, Shell, Typed
  <2>2. wf' \in {"open", "gate", "over"} /\ wf' # "open"
    BY <1>1, <1>3 DEF Typed
  <2>3. op' \in [kind : {"none", "reconnect", "retire"}, tok : Nat, live : BOOLEAN]
    BY <1>3 DEF NoOp
  <2>4. Typed'
    BY <1>1, <1>2, <1>3, <2>1, <2>2, <2>3, CancelledTurns, Fields DEF Typed
  <2>5. \A t \in TurnIds :
           /\ turns'[t].kind = turns[t].kind /\ turns'[t].parent = turns[t].parent
           /\ turns'[t].st = IF turns[t].st = "queued" THEN "cancelled" ELSE turns[t].st
           /\ turns'[t].req = turns[t].req /\ turns'[t].got = turns[t].got
    BY <1>1, <1>3, CancelledTurns
  <2>6. turns'[active].req => turns[active].req
    BY <1>1, <2>5, Fields
  <2> QED BY <1>1, <1>2, <1>3, <2>2, <2>4, <2>5, <2>6, KeptTurns
<1>4. CASE UNCHANGED <<life, op, exec, wf, turns>> /\ Reap
  <2>1. Typed'
    BY <1>1, <1>2, <1>4 DEF Typed, Reap
  <2> QED BY <1>1, <1>2, <1>4, <2>1, SameTurns
<1> QED BY <1>3, <1>4 DEF ExitDone, Reap

LEMMA SettleTurns ==
  ASSUME Inv, Settle
  PROVE  Typed' /\ TurnsInv' /\ Moves
<1>1. Typed /\ TurnsInv
  BY DEF Inv
<1>2. Typed'
  BY <1>1, Fields DEF Typed, Settle
<1>3. UNCHANGED <<wf, active, turns, res>> /\ exec' = 0
  BY DEF Settle
<1>4. \A t \in TurnIds : turns'[t] = turns[t]
  BY <1>3
<1>80. TurnsInv'
  BY <1>1, <1>2, <1>3, <1>4, KeptTurns
<1>81. Moves
  BY <1>3 DEF Moves, Inv, AttInv, Current
<1> QED BY <1>2, <1>80, <1>81

LEMMA ReceiveTurns ==
  ASSUME Inv, Receive
  PROVE  Typed' /\ TurnsInv' /\ Moves
<1>1. Typed /\ TurnsInv /\ exec = active /\ active \in TurnIds /\ turns \in [TurnIds -> TurnR]
  BY DEF Inv, Typed, TurnsInv, Executes, Receive
<1> DEFINE r == [turns[active] EXCEPT !.got = TRUE]
<1>2. /\ r \in TurnR /\ r.kind = turns[active].kind /\ r.req = turns[active].req
      /\ r.parent = turns[active].parent /\ r.st = turns[active].st /\ r.got
  BY <1>1 DEF TurnR
<1>3. turns' = [turns EXCEPT ![active] = r]
  BY <1>1 DEF Receive
<1> HIDE DEF r
<1>4. turns' \in [TurnIds -> TurnR] /\ turns'[active] = r
      /\ \A t \in TurnIds : t # active => turns'[t] = turns[t]
  BY <1>1, <1>2, <1>3
<1>5. UNCHANGED <<wf, active, res, notice, exec, atts, op, life, compat, pane, drv, reap, tokens>>
  BY DEF Receive
<1>6. Typed'
  BY <1>1, <1>4, <1>5 DEF Typed
<1>7. \A t \in TurnIds :
         /\ turns'[t].kind = turns[t].kind /\ turns'[t].parent = turns[t].parent
         /\ turns'[t].st = turns[t].st /\ turns'[t].req = turns[t].req
         /\ turns[t].got => turns'[t].got
  BY <1>2, <1>4
<1>80. TurnsInv'
  BY <1>1, <1>5, <1>6, <1>7, KeptTurns
<1>81. Moves
  BY <1>1, <1>2, <1>4, <1>5 DEF Moves, Inv, AttInv, Current
<1> QED BY <1>6, <1>80, <1>81

(* Of two free turns one is left.                                            *)
LEMMA TwoFree ==
  ASSUME Typed, Cardinality(Free) > 1
  PROVE  Free # {} /\ \E t \in Free : t # Fresh
<1>1. MaxTurns \in Nat
  BY ConstantAssumption
<1>2. IsFiniteSet(Free)
  BY <1>1, FS_Interval, FS_Subset DEF Free, TurnIds
<1>3. Free # {}
  BY FS_EmptySet
<1>4. CASE \A t \in Free : t = Fresh
  <2>1. Free = {Fresh}
    BY <1>3, <1>4
  <2>2. Cardinality({Fresh}) = 1
    BY FS_Singleton
  <2> QED BY <2>1, <2>2
<1> QED BY <1>3, <1>4

LEMMA ContinuedTurns ==
  ASSUME Typed, NEW kind \in {"result", "resume"}, Free # {}
  PROVE  LET from == IF kind = "result" /\ turns[active].kind # "result" THEN res ELSE active IN
         /\ Continued(kind) \in [TurnIds -> TurnR]
         /\ Continued(kind)[Fresh] = T(kind, "queued", FALSE, active)
         /\ \A t \in TurnIds \ {Fresh} :
              /\ Continued(kind)[t].kind = turns[t].kind
              /\ Continued(kind)[t].parent = turns[t].parent
              /\ Continued(kind)[t].got = turns[t].got
              /\ (Continued(kind)[t].req => turns[t].req)
              /\ Continued(kind)[t].st = IF t = active \/ t = from THEN "finished" ELSE turns[t].st
<1> DEFINE origin == IF kind = "result" /\ turns[active].kind # "result" THEN res ELSE active
           first == [Idle EXCEPT ![active].st = "finished"]
           done == [Idle EXCEPT ![active].st = "finished", ![origin].st = "finished"]
           row(t) == [Idle[t] EXCEPT !.st = "finished"]
<1>1. /\ Idle \in [TurnIds -> TurnR]
      /\ \A t \in TurnIds :
           /\ Idle[t].kind = turns[t].kind /\ Idle[t].parent = turns[t].parent
           /\ Idle[t].st = turns[t].st /\ Idle[t].got = turns[t].got
           /\ Idle[t].req => turns[t].req
  BY IdleTurns
<1>2. active \in TurnIds /\ active \in 0..MaxTurns
  BY Fields DEF TurnIds
<1>3. Fresh \in TurnIds
  BY FreshOf
<1>4. \A t \in TurnIds :
        /\ row(t) \in TurnR /\ row(t).st = "finished" /\ row(t).kind = Idle[t].kind
        /\ row(t).parent = Idle[t].parent /\ row(t).got = Idle[t].got /\ row(t).req = Idle[t].req
  BY <1>1 DEF TurnR
<1>5. done = [t \in TurnIds |-> IF t = active \/ t = origin THEN row(t) ELSE Idle[t]]
  BY <1>1, <1>2
<1>6. Continued(kind) = [done EXCEPT ![Fresh] = T(kind, "queued", FALSE, active)]
  BY DEF Continued, Idle
<1>7. T(kind, "queued", FALSE, active) \in TurnR
  BY <1>2, NewRow
<1> HIDE DEF done, row
<1>8. done \in [TurnIds -> TurnR]
  BY <1>1, <1>4, <1>5
<1>9. Continued(kind) \in [TurnIds -> TurnR]
      /\ Continued(kind)[Fresh] = T(kind, "queued", FALSE, active)
      /\ \A t \in TurnIds \ {Fresh} : Continued(kind)[t] = done[t]
  BY <1>3, <1>6, <1>7, <1>8
<1>10. \A t \in TurnIds :
         /\ done[t].kind = turns[t].kind /\ done[t].parent = turns[t].parent
         /\ done[t].got = turns[t].got /\ (done[t].req => turns[t].req)
         /\ done[t].st = IF t = active \/ t = origin THEN "finished" ELSE turns[t].st
  BY <1>1, <1>4, <1>5
<1> QED BY <1>9, <1>10

LEMMA ActivatedTurns ==
  ASSUME Typed
  PROVE  /\ Activated \in [TurnIds -> TurnR]
         /\ \A t \in TurnIds :
              /\ Activated[t].kind = turns[t].kind /\ Activated[t].parent = turns[t].parent
              /\ Activated[t].got = turns[t].got /\ (Activated[t].req => turns[t].req)
              /\ (t # active => Activated[t].st = turns[t].st)
              /\ Activated[t].st = turns[t].st
                 \/ (turns[t].kind = "final" /\ Activated[t].st = "cancelled")
<1> DEFINE row == [Idle[active] EXCEPT !.st = "cancelled"]
<1>1. /\ Idle \in [TurnIds -> TurnR]
      /\ \A t \in TurnIds :
           /\ Idle[t].kind = turns[t].kind /\ Idle[t].parent = turns[t].parent
           /\ Idle[t].st = turns[t].st /\ Idle[t].got = turns[t].got
           /\ Idle[t].req => turns[t].req
  BY IdleTurns
<1>2. active \in TurnIds
  BY Fields
<1>4. /\ row \in TurnR /\ row.st = "cancelled" /\ row.kind = Idle[active].kind
      /\ row.parent = Idle[active].parent /\ row.got = Idle[active].got
      /\ row.req = Idle[active].req
  BY <1>1, <1>2 DEF TurnR
<1>5. Activated = IF turns[active].kind = "final" THEN [Idle EXCEPT ![active] = row] ELSE Idle
  BY DEF Activated, Idle
<1> HIDE DEF row
<1>6. CASE turns[active].kind = "final"
  <2>1. Activated = [Idle EXCEPT ![active] = row]
    BY <1>5, <1>6
  <2> QED BY <1>1, <1>2, <1>4, <1>6, <2>1
<1>7. CASE turns[active].kind # "final"
  <2>1. Activated = Idle
    BY <1>5, <1>7
  <2> QED BY <1>1, <2>1
<1> QED BY <1>6, <1>7

LEMMA CompleteTurns ==
  ASSUME Inv, NEW d \in Drivers, Complete(d)
  PROVE  /\ Typed' /\ TurnsInv'
         /\ Completable(d) => /\ active' = active \/ active' > active
                              /\ ~turns'[active'].req /\ (wf' = "open" => wf = "open")
<1>1. Typed /\ TurnsInv /\ active \in TurnIds /\ turns \in [TurnIds -> TurnR]
  BY DEF Inv, Typed
<1>2. UNCHANGED <<life, pane, reap, tokens>>
  BY DEF Complete
<1>3. CASE ~Completable(d)
  <2>1. Step(d, "fail") /\ UNCHANGED <<flow, atts, op, compat>>
    BY <1>3 DEF Complete
  <2>2. drv' \in [Drivers -> DriverR]
    BY <1>1, <2>1, StepOf DEF Steps
  <2>3. Typed'
    BY <1>1, <1>2, <2>1, <2>2 DEF Typed, flow
  <2> QED BY <1>1, <1>3, <2>1, <2>3, SameTurns DEF flow
<1>4. CASE Completable(d)
  <2>0. /\ atts' = [atts EXCEPT ![drv[d].att].st = "succeeded"]
        /\ drv' = [drv EXCEPT ![d] = Resting]
        /\ op' = NoOp /\ compat' = TRUE
        /\ exec' = IF Admitted THEN 0 ELSE exec
    BY <1>4 DEF Complete
  <2>1. drv' \in [Drivers -> DriverR]
    BY <1>1, <2>0, RestOf
  <2>2. atts' \in Seq(Attempt)
    <3>1. drv[d].att \in DOMAIN atts
      BY DriverAttempt DEF Complete
    <3> QED BY <1>1, <2>0, <3>1, AttemptSt
  <2>3. op' \in [kind : {"none", "reconnect", "retire"}, tok : Nat, live : BOOLEAN]
    BY <2>0 DEF NoOp
  <2>4. exec' \in 0..MaxTurns /\ compat' \in BOOLEAN
    BY <1>1, <2>0, Fields DEF Typed
  <2>5. wf = "open" /\ turns[active].req
    BY <1>4 DEF Completable
  <2>6. Free # {}
    BY <1>1, <2>5 DEF TurnsInv, Room
  <2>7. Successor \in {"same", "input", "resume", "gate", "result"}
    BY DEF Successor
  <2>8. CASE Successor \in {"result", "resume"}
    <3>1. /\ turns' = Continued(Successor) /\ active' = Fresh /\ wf' = wf
          /\ IF Successor = "result" THEN res' = Fresh /\ notice' = TRUE
                                     ELSE UNCHANGED <<res, notice>>
      BY <1>4, <2>8 DEF Complete
    <3>2. Admitted
      BY <2>8 DEF Successor
    <3>3. Successor = "result" /\ turns[active].kind # "result" => turns[res].st = "finished"
      BY <3>2 DEF Successor, Requeued
    <3> DEFINE from == IF Successor = "result" /\ turns[active].kind # "result" THEN res ELSE active
    <3>4. /\ turns' \in [TurnIds -> TurnR]
          /\ turns'[Fresh] = T(Successor, "queued", FALSE, active)
          /\ \A t \in TurnIds \ {Fresh} :
               /\ turns'[t].kind = turns[t].kind
               /\ turns'[t].parent = turns[t].parent
               /\ turns'[t].got = turns[t].got
               /\ (turns'[t].req => turns[t].req)
               /\ turns'[t].st = IF t = active \/ t = from THEN "finished" ELSE turns[t].st
      BY <1>1, <2>6, <2>8, <3>1, ContinuedTurns
    <3>5. Fresh \in TurnIds /\ turns[Fresh].st = "none" /\ turns[active].st # "none"
          /\ Fresh # active
      BY <1>1, <2>6, FreshOf DEF TurnsInv, InRow
    <3>6. turns'[Fresh].kind = Successor /\ turns'[Fresh].st = "queued" /\ turns'[Fresh].got = FALSE
          /\ turns'[Fresh].parent = active /\ turns'[Fresh].req = FALSE
      BY <1>1, <2>8, <3>4 DEF T, NoTurn
    <3>7. res' \in 0..MaxTurns /\ notice' \in BOOLEAN
      <4>1. res \in 0..MaxTurns /\ notice \in BOOLEAN /\ Fresh \in 0..MaxTurns
        BY <1>1, <3>5 DEF Typed, TurnIds
      <4> QED BY <3>1, <4>1
    <3>8. Typed'
      BY <1>1, <1>2, <2>1, <2>2, <2>3, <2>4, <3>1, <3>4, <3>5, <3>7 DEF Typed
    <3>9. \A t \in TurnIds \ {Fresh} :
            /\ turns'[t].kind = turns[t].kind /\ turns'[t].parent = turns[t].parent
            /\ turns'[t].st = "none" <=> turns[t].st = "none"
            /\ turns'[t].st \in {"queued", "sent"} => turns'[t].st = turns[t].st
            /\ turns'[t].req => turns[t].req
            /\ turns[t].got => turns'[t].got
      BY <3>3, <3>4, <3>5
    <3>10. turns'[active].st = "finished"
      BY <1>1, <3>4, <3>5
    <3>11. exec' = 0
      BY <2>0, <3>2
    <3>12. res' = res \/ (res' = Fresh /\ turns'[Fresh].kind = "result")
      BY <3>1, <3>6
    <3>13. TurnsInv'
      BY <1>1, <2>6, <3>1, <3>5, <3>6, <3>8, <3>9, <3>10, <3>11, <3>12, AddedTurn
    <3>14. Fresh > active
      BY <1>1, <3>5, Fields DEF TurnsInv, InRow
    <3> QED BY <3>1, <3>6, <3>8, <3>13, <3>14
  <2>9. CASE Successor = "input"
    <3>1. turns' = Activated /\ active' = First(Later) /\ UNCHANGED <<res, notice, wf>>
      BY <1>4, <2>9 DEF Complete
    <3>2. ~Admitted /\ turns[active].kind # "result" /\ Later # {}
      BY <2>9 DEF Successor
    <3>3. Later \in SUBSET TurnIds
      BY DEF Later
    <3> DEFINE n == First(Later)
    <3>4. n \in Later
      BY <3>2, <3>3, FirstOf
    <3>5. n \in TurnIds /\ n > active /\ turns[n].st = "queued"
      BY <3>4 DEF Later
    <3>6. /\ turns' \in [TurnIds -> TurnR]
          /\ \A t \in TurnIds :
               /\ turns'[t].kind = turns[t].kind /\ turns'[t].parent = turns[t].parent
               /\ turns'[t].got = turns[t].got /\ (turns'[t].req => turns[t].req)
               /\ (t # active => turns'[t].st = turns[t].st)
               /\ turns'[t].st = turns[t].st
                  \/ (turns[t].kind = "final" /\ turns'[t].st = "cancelled")
      BY <1>1, <3>1, ActivatedTurns
    <3>7. Typed'
      BY <1>1, <1>2, <2>1, <2>2, <2>3, <2>4, <3>1, <3>5, <3>6 DEF Typed
    <3>8. exec' = 0
      <4>1. exec # 0 => turns[active].st = "sent" /\ turns[active].got
        BY <1>1, <2>5 DEF TurnsInv, Executes, Authorized
      <4> QED BY <2>0, <3>2, <4>1 DEF Admitted
    <3>9. res # active
      BY <1>1, <3>2, Fields DEF TurnsInv, Callback
    <3>10. ~turns'[n].req
      BY <1>1, <3>5, <3>6, Fields DEF TurnsInv, Requests
    <3>11. turns'[n].st = "queued" /\ active < n
      BY <3>5, <3>6, <1>1, Fields
    <3>12. turns[active].st # "none"
      BY <1>1 DEF TurnsInv, InRow
    <3>13. \A t \in TurnIds :
            /\ turns'[t].kind = turns[t].kind /\ turns'[t].parent = turns[t].parent
            /\ turns'[t].st = "none" <=> turns[t].st = "none"
            /\ t # n /\ turns'[t].st \in {"queued", "sent"} => turns'[t].st = turns[t].st
            /\ turns'[t].req => turns[t].req
            /\ turns[t].got => turns'[t].got
      BY <1>1, <3>6, <3>12
    <3> HIDE DEF n
    <3>14. active' = n /\ wf' = wf /\ res' = res
      BY <3>1 DEF n
    <3>15. active <= n
      BY <1>1, <3>11, <3>5, Fields
    <3>16. TurnsInv'
      BY <1>1, <3>5, <3>7, <3>8, <3>9, <3>10, <3>11, <3>13, <3>14, <3>15, NextTurn
    <3>17. active' > active
      BY <1>1, <3>11, <3>14, <3>5, Fields
    <3> QED BY <3>7, <3>10, <3>14, <3>16, <3>17
  <2>10. CASE Successor \in {"same", "gate"}
    <3>1. turns' = Idle /\ UNCHANGED <<active, res, notice>>
          /\ wf' = IF Successor = "gate" THEN "gate" ELSE wf
      BY <1>4, <2>10 DEF Complete, Idle
    <3>2. /\ turns' \in [TurnIds -> TurnR]
          /\ ~turns'[active].req
          /\ \A t \in TurnIds :
              /\ turns'[t].kind = turns[t].kind /\ turns'[t].parent = turns[t].parent
              /\ turns'[t].st = turns[t].st /\ turns'[t].got = turns[t].got
              /\ turns'[t].req => turns[t].req
      BY <1>1, <3>1, IdleTurns
    <3>3. Typed'
      BY <1>1, <1>2, <2>1, <2>2, <2>3, <2>4, <3>1, <3>2 DEF Typed
    <3>4. exec' \in {exec, 0} /\ (wf' = "open" => wf = "open")
      BY <2>0, <3>1, <2>5
    <3>5. TurnsInv'
      BY <1>1, <3>1, <3>2, <3>3, <3>4, KeptTurns
    <3> QED BY <3>1, <3>2, <3>3, <3>4, <3>5
  <2> QED BY <2>7, <2>8, <2>9, <2>10
<1> QED BY <1>3, <1>4

LEMMA FinalTurns ==
  ASSUME Inv, Final
  PROVE  Typed' /\ TurnsInv' /\ Moves
<1>1. Typed /\ TurnsInv /\ active \in TurnIds /\ turns \in [TurnIds -> TurnR]
  BY DEF Inv, Typed
<1>2. Free # {}
  BY <1>1, TwoFree DEF Final
<1>3. Fresh \in TurnIds /\ turns[Fresh].st = "none" /\ turns[active].st = "sent" /\ Fresh # active
      /\ active \in 0..MaxTurns
  BY <1>1, <1>2, FreshOf, Fields DEF Final, TurnIds
<1> DEFINE r == [turns[active] EXCEPT !.st = "finished"]
           q == T("final", "queued", FALSE, active)
<1>4. /\ r \in TurnR /\ r.kind = turns[active].kind /\ r.parent = turns[active].parent
      /\ r.st = "finished" /\ r.got = turns[active].got /\ r.req = turns[active].req
  BY <1>1 DEF TurnR
<1>5. q \in TurnR /\ q.kind = "final" /\ q.st = "queued" /\ q.req = FALSE
  BY <1>3 DEF T, NoTurn, TurnR
<1>6. turns' = [t \in TurnIds |-> IF t = Fresh THEN q ELSE IF t = active THEN r ELSE turns[t]]
  BY <1>1, <1>3 DEF Final
<1> HIDE DEF r, q
<1>7. UNCHANGED <<wf, res, notice, exec, atts, op, life, compat, pane, drv, reap, tokens>>
      /\ active' = Fresh /\ exec' = 0
  BY DEF Final
<1>8. turns' \in [TurnIds -> TurnR] /\ turns'[Fresh] = q /\ turns'[active] = r
      /\ \A t \in TurnIds : t # Fresh /\ t # active => turns'[t] = turns[t]
  BY <1>1, <1>3, <1>4, <1>5, <1>6
<1>9. Typed'
  BY <1>1, <1>3, <1>7, <1>8 DEF Typed
<1>10. \A t \in TurnIds \ {Fresh} :
         /\ turns'[t].kind = turns[t].kind /\ turns'[t].parent = turns[t].parent
         /\ turns'[t].st = "none" <=> turns[t].st = "none"
         /\ turns'[t].st \in {"queued", "sent"} => turns'[t].st = turns[t].st
         /\ turns'[t].req => turns[t].req
         /\ turns[t].got => turns'[t].got
  BY <1>3, <1>4, <1>8
<1>80. TurnsInv'
  BY <1>1, <1>2, <1>3, <1>4, <1>5, <1>7, <1>8, <1>9, <1>10, AddedTurn
<1>81. Moves
  <2>1. Fresh > active
    BY <1>1, <1>3, Fields DEF TurnsInv, InRow
  <2> QED BY <1>3, <1>5, <1>7, <1>8, <2>1 DEF Moves
<1> QED BY <1>9, <1>80, <1>81

LEMMA ResumeTurns ==
  ASSUME Inv, Resume
  PROVE  Typed' /\ TurnsInv' /\ Moves
<1>1. Typed /\ TurnsInv /\ active \in TurnIds /\ turns \in [TurnIds -> TurnR]
      /\ exec = active /\ turns[active].st = "sent"
  BY DEF Inv, Typed, Resume, TurnsInv, Executes
<1>2. Free # {}
  BY <1>1, TwoFree DEF Resume
<1>3. Fresh \in TurnIds /\ turns[Fresh].st = "none" /\ Fresh # active
      /\ active \in 0..MaxTurns /\ Fresh \in 0..MaxTurns
  BY <1>1, <1>2, FreshOf, Fields DEF TurnIds
<1> DEFINE r == [turns[active] EXCEPT !.resumed = TRUE, !.st = "finished"]
           q == T("resume", "sent", TRUE, active)
<1>4. /\ r \in TurnR /\ r.kind = turns[active].kind /\ r.parent = turns[active].parent
      /\ r.st = "finished" /\ r.got = turns[active].got /\ r.req = turns[active].req
  BY <1>1 DEF TurnR
<1>5. q \in TurnR /\ q.kind = "resume" /\ q.st = "sent" /\ q.req = FALSE /\ q.got = TRUE
      /\ q.parent = active
  BY <1>3 DEF T, NoTurn, TurnR
<1>6. turns' = [t \in TurnIds |-> IF t = Fresh THEN q ELSE IF t = active THEN r ELSE turns[t]]
  BY <1>1, <1>3 DEF Resume
<1> HIDE DEF r, q
<1>7. UNCHANGED <<wf, res, notice, atts, op, life, compat, pane, drv, reap, tokens>>
      /\ active' = Fresh /\ exec' = Fresh
  BY DEF Resume
<1>8. turns' \in [TurnIds -> TurnR] /\ turns'[Fresh] = q /\ turns'[active] = r
      /\ \A t \in TurnIds : t # Fresh /\ t # active => turns'[t] = turns[t]
  BY <1>1, <1>3, <1>4, <1>5, <1>6
<1>9. Typed'
  BY <1>1, <1>3, <1>7, <1>8 DEF Typed
<1>10. \A t \in TurnIds \ {Fresh} :
         /\ turns'[t].kind = turns[t].kind /\ turns'[t].parent = turns[t].parent
         /\ turns'[t].st = "none" <=> turns[t].st = "none"
         /\ turns'[t].st \in {"queued", "sent"} => turns'[t].st = turns[t].st
         /\ turns'[t].req => turns[t].req
         /\ turns[t].got => turns'[t].got
  BY <1>1, <1>3, <1>4, <1>8
<1>80. TurnsInv'
  BY <1>1, <1>2, <1>3, <1>4, <1>5, <1>7, <1>8, <1>9, <1>10, AddedTurn
<1>81. Moves
  <2>1. Fresh > active
    BY <1>1, <1>3, Fields DEF TurnsInv, InRow
  <2> QED BY <1>3, <1>5, <1>7, <1>8, <2>1 DEF Moves
<1> QED BY <1>9, <1>80, <1>81

LEMMA InputRow ==
  LET q == [T("input", "queued", FALSE, 0) EXCEPT !.req = ~Predecessor] IN
  q \in TurnR /\ q.kind = "input" /\ q.st = "queued" /\ q.req = ~Predecessor
<1>1. MaxTurns \in Nat /\ 0 \in 0..MaxTurns
  BY ConstantAssumption
<1> DEFINE p == T("input", "queued", FALSE, 0)
<1>2. p \in TurnR /\ p.kind = "input" /\ p.st = "queued"
  BY <1>1 DEF T, NoTurn, TurnR
<1> HIDE DEF p
<1> DEFINE b == ~Predecessor
<1>3. b \in BOOLEAN
  OBVIOUS
<1> HIDE DEF b
<1> DEFINE q == [p EXCEPT !.req = b]
<1>4. q \in TurnR /\ q.kind = "input" /\ q.st = "queued" /\ q.req = b
  BY <1>2, <1>3 DEF TurnR
<1> QED BY <1>4 DEF b, p

LEMMA InputTurns ==
  ASSUME Inv, Input
  PROVE  Typed' /\ TurnsInv' /\ Moves
<1>1. Typed /\ TurnsInv /\ active \in TurnIds /\ turns \in [TurnIds -> TurnR]
  BY DEF Inv, Typed
<1>2. Free # {} /\ \E t \in Free : t # Fresh
  BY <1>1, TwoFree DEF Input
<1>3. Fresh \in TurnIds /\ turns[Fresh].st = "none" /\ turns[active].st # "none" /\ Fresh # active
      /\ active \in 0..MaxTurns
  BY <1>1, <1>2, FreshOf, Fields DEF TurnIds, TurnsInv, InRow
<1> DEFINE q == [T("input", "queued", FALSE, 0) EXCEPT !.req = ~Predecessor]
           row(t) == [turns[t] EXCEPT !.st = "cancelled"]
<1>4. \A t \in TurnIds :
      /\ row(t) \in TurnR /\ row(t).kind = turns[t].kind /\ row(t).parent = turns[t].parent
      /\ row(t).st = "cancelled" /\ row(t).got = turns[t].got /\ row(t).req = turns[t].req
  BY <1>1 DEF TurnR
<1>5. q \in TurnR /\ q.kind = "input" /\ q.st = "queued" /\ q.req = ~Predecessor
  BY InputRow
<1>6. turns' = [t \in TurnIds |-> IF t = Fresh THEN q ELSE IF Superseded(t) THEN row(t) ELSE turns[t]]
  BY DEF Input
<1> HIDE DEF row, q
<1>7. UNCHANGED <<wf, res, notice, exec, atts, op, life, compat, pane, drv, reap, tokens>>
      /\ active' = IF Predecessor THEN active ELSE Fresh
  BY DEF Input
<1>8. turns' \in [TurnIds -> TurnR] /\ turns'[Fresh] = q
      /\ \A t \in TurnIds : t # Fresh => turns'[t] = IF Superseded(t) THEN row(t) ELSE turns[t]
  BY <1>1, <1>3, <1>4, <1>5, <1>6
<1>9. Typed'
  BY <1>1, <1>3, <1>7, <1>8 DEF Typed
<1>10. \A t \in TurnIds \ {Fresh} :
         /\ turns'[t].kind = turns[t].kind /\ turns'[t].parent = turns[t].parent
         /\ turns'[t].st = "none" <=> turns[t].st = "none"
         /\ turns'[t].st \in {"queued", "sent"} => turns'[t].st = turns[t].st
         /\ turns'[t].req => turns[t].req
         /\ turns[t].got => turns'[t].got
         /\ turns[t].st = "sent" => turns'[t].st = "sent"
  BY <1>3, <1>4, <1>8, Fields, <1>1 DEF Superseded
<1>11. Free' # {}
  <2>1. PICK t \in Free : t # Fresh
    BY <1>2
  <2>2. t \in TurnIds /\ turns'[t].st = "none"
    BY <2>1, <1>10 DEF Free
  <2> QED BY <2>2 DEF Free
<1>12. Predecessor => TurnsInv'
  <2> HAVE Predecessor
  <2>1. exec' = 0 \/ (exec' = exec /\ active' = active /\ turns'[exec].st = turns[exec].st)
    BY <1>1, <1>3, <1>7, <1>10 DEF TurnsInv, Executes
  <2>2. active' = active /\ ~turns'[Fresh].req
    BY <1>5, <1>7, <1>8
  <2> QED BY <1>1, <1>2, <1>3, <1>5, <1>7, <1>8, <1>9, <1>10, <1>11, <2>1, <2>2, AddedTurn
<1>13. ~Predecessor => TurnsInv'
  <2> HAVE ~Predecessor
  <2>1. exec' = 0 /\ active' = Fresh /\ turns[active].st # "queued"
    BY <1>1, <1>7 DEF Predecessor
  <2>2. turns'[active].st # "queued"
    BY <1>1, <1>3, <1>10, <2>1
  <2> QED BY <1>1, <1>2, <1>3, <1>5, <1>7, <1>8, <1>9, <1>10, <1>11, <2>1, <2>2, AddedTurn
<1>80. TurnsInv'
  BY <1>12, <1>13
<1>81. Moves
  <2>1. Fresh > active
    BY <1>1, <1>3, Fields DEF TurnsInv, InRow
  <2>2. turns'[active].req = turns[active].req
    BY <1>1, <1>3, <1>4, <1>8
  <2>3. ~compat
    BY DEF Input
  <2> QED BY <1>7, <2>1, <2>2, <2>3 DEF Moves
<1> QED BY <1>9, <1>80, <1>81

LEMMA TransportTurns ==
  ASSUME Inv, Transport
  PROVE  Typed' /\ TurnsInv' /\ Moves
<1>1. Typed /\ TurnsInv /\ active \in TurnIds /\ turns \in [TurnIds -> TurnR]
  BY DEF Inv, Typed
<1>2. Queue \in SUBSET TurnIds /\ Queue # {}
  BY DEF Queue, Transport
<1> DEFINE n == First(Queue)
<1>3. n \in Queue /\ \A u \in Queue : n <= u
  BY <1>2, FirstOf
<1>4. n \in TurnIds /\ n >= active /\ turns[n].st = "queued" /\ active <= n /\ n \in 0..MaxTurns
  BY <1>1, <1>3, Fields DEF Queue, TurnIds
<1>5. /\ turns' = [turns EXCEPT ![n].st = "sent"]
      /\ active' = n /\ exec' = n /\ notice' = (notice /\ n # res)
      /\ wf = "open" /\ ~Pending
      /\ UNCHANGED <<wf, res, atts, op, life, compat, pane, drv, reap, tokens>>
  BY DEF Transport, Transportable
<1>6. turns[active].st = "queued" => n = active
  <2>1. turns[active].st = "queued" => active \in Queue
    BY <1>1, Fields DEF Queue
  <2> QED BY <1>1, <1>3, <1>4, <2>1, Fields
<1> HIDE DEF n
<1> DEFINE r == [turns[n] EXCEPT !.st = "sent"]
<1>7. /\ r \in TurnR /\ r.kind = turns[n].kind /\ r.parent = turns[n].parent
      /\ r.st = "sent" /\ r.got = turns[n].got /\ r.req = turns[n].req
  BY <1>1, <1>4 DEF TurnR
<1>8. turns' = [turns EXCEPT ![n] = r]
  BY <1>5
<1> HIDE DEF r
<1>9. turns' \in [TurnIds -> TurnR] /\ turns'[n] = r
      /\ \A t \in TurnIds : t # n => turns'[t] = turns[t]
  BY <1>1, <1>4, <1>7, <1>8
<1>10. Typed'
  BY <1>1, <1>4, <1>5, <1>9 DEF Typed
<1>11. \A t \in TurnIds :
         /\ turns'[t].kind = turns[t].kind /\ turns'[t].parent = turns[t].parent
         /\ turns'[t].st = "none" <=> turns[t].st = "none"
         /\ t # n /\ turns'[t].st \in {"queued", "sent"} => turns'[t].st = turns[t].st
         /\ turns'[t].req => turns[t].req
         /\ turns[t].got => turns'[t].got
  BY <1>4, <1>7, <1>9
<1>12. ~turns'[n].req
  <2>1. CASE n = active
    BY <1>5, <1>7, <1>9, <2>1 DEF Pending
  <2>2. CASE n # active
    <3>1. n > active
      BY <1>1, <1>4, <2>2, Fields
    <3> QED BY <1>1, <1>4, <1>7, <1>9, <3>1, Fields DEF TurnsInv, Requests
  <2> QED BY <2>1, <2>2
<1>13. turns'[active].st = "queued" => n = active
  BY <1>1, <1>6, <1>9
<1>80. TurnsInv'
  BY <1>1, <1>4, <1>5, <1>7, <1>9, <1>10, <1>11, <1>12, <1>13, NextTurn
<1>81. Moves
  <2>1. active' = active \/ active' > active
    BY <1>1, <1>4, <1>5, Fields
  <2>2. turns'[active].req = turns[active].req
    BY <1>1, <1>7, <1>9
  <2> QED BY <1>5, <1>12, <2>1, <2>2 DEF Moves
<1> QED BY <1>10, <1>80, <1>81

-----------------------------------------------------------------------------
(* The fields of the ticks.                                                  *)
LEMMA DriverFields ==
  ASSUME Typed
  PROVE  /\ tokens \in Nat /\ op.tok \in Nat /\ op.live \in BOOLEAN
         /\ \A d \in Drivers : drv[d].tok \in Nat /\ drv[d].att \in Nat
BY DEF Typed, DriverR

(* The workflow moves around the drivers.                                    *)
LEMMA FlowStep ==
  ASSUME Inv, Moves, wf' = "open" => wf = "open",
         UNCHANGED <<atts, drv, op, pane, tokens, life, compat, reap>>, active' \in TurnIds
  PROVE  AttInv'
<1>1. AttInv /\ Typed
  BY DEF Inv
<1>2. UNCHANGED <<Paid, OneOpen, Budget, Tokens, Drives, Launched, Dead>>
  BY DEF Paid, OneOpen, Budget, Mine, Tokens, Drives, Launched, Dead, Holds, Busy
<1>3. Paid' /\ OneOpen' /\ Budget' /\ Tokens' /\ Drives' /\ Launched' /\ Dead'
  BY <1>1, <1>2 DEF AttInv
<1>4. \A k \in DOMAIN atts : atts[k].turn \in Nat /\ atts[k].turn <= active
  BY <1>1, Attempts, Fields DEF AttInv, Past
<1>5. active \in Nat /\ active' \in Nat
  BY <1>1, Fields
<1>6. Past'
  BY <1>4, <1>5 DEF Past, Moves
<1>7. Asked'
  BY <1>1, <1>4, <1>5 DEF AttInv, Asked, Moves
<1>8. Ready'
  BY <1>1, <1>4, <1>5 DEF AttInv, Ready, Moves
<1>9. Current'
  BY <1>1 DEF AttInv, Current, Moves
<1> QED BY <1>3, <1>6, <1>7, <1>8, <1>9 DEF AttInv

LEMMA FlowAttempts ==
  ASSUME Inv, Request \/ Settle \/ Final \/ Acknowledge \/ Resume \/ Input \/ Transport \/ Receive
  PROVE  Inv'
<1>1. Typed' /\ TurnsInv' /\ Moves
  <2>1. CASE Acknowledge
    <3>1. Typed' /\ TurnsInv'
      BY <2>1, OtherTurns
    <3> QED BY <2>1, <3>1 DEF Moves, Acknowledge, Inv, AttInv, Current
  <2> QED BY <2>1, RequestTurns, SettleTurns, FinalTurns, ResumeTurns, InputTurns, TransportTurns,
             ReceiveTurns
<1>2. UNCHANGED <<wf, atts, drv, op, pane, tokens, life, compat, reap>>
  BY DEF Request, Settle, Final, Acknowledge, Resume, Input, Transport, Receive
<1>3. active' \in TurnIds
  BY <1>1 DEF Typed
<1>4. AttInv'
  BY <1>1, <1>2, <1>3, FlowStep
<1> QED BY <1>1, <1>4 DEF Inv

(* Every attempt keeps its turn, state, launches and release.                *)
SameAttempts ==
    /\ DOMAIN atts' = DOMAIN atts /\ Len(atts') = Len(atts)
    /\ \A k \in DOMAIN atts :
         /\ atts'[k].turn = atts[k].turn /\ atts'[k].st = atts[k].st
         /\ atts'[k].launches = atts[k].launches /\ atts'[k].current = atts[k].current

LEMMA MineKept ==
  ASSUME Typed, AttInv, Len(atts') = Len(atts), \A k \in DOMAIN atts : atts'[k].turn = atts[k].turn
  PROVE  Budget'
<1>1. DOMAIN atts = 1..Len(atts)
  BY Attempts
<1>2. \A t \in TurnIds : Mine(t)' = Mine(t)
  BY <1>1 DEF Mine
<1> QED BY <1>2 DEF AttInv, Budget

(* One driver goes on to a step that launches nothing.                       *)
LEMMA DriverStep ==
  ASSUME Inv, NEW d \in Drivers, NEW s \in {"exit", "mark", "edge", "complete", "fail"}, Step(d, s),
         Busy(d), drv[d].step # "send", SameAttempts,
         op' = op \/ op' = Renewed(d),
         UNCHANGED <<wf, active, turns, pane, tokens, life, compat, reap>>,
         s \in {"exit", "mark"} => /\ drv[d].step \in {"verify", "exit"}
                                   /\ reap = "dead" /\ life = "running" => ~Holds(d),
         s \in {"edge", "complete"} => drv[d].step \in {"wait", "edge"}
  PROVE  AttInv'
<1>1. AttInv /\ Typed
  BY DEF Inv
<1>2. /\ drv'[d].step = s /\ drv'[d].tok = drv[d].tok /\ drv'[d].att = drv[d].att
      /\ drv'[d].turn = drv[d].turn
      /\ \A e \in Drivers \ {d} : drv'[e] = drv[e]
  BY <1>1, StepOf DEF Steps, SameRest
<1>3. op'.kind = op.kind /\ op'.tok = op.tok /\ (op.live => op'.live)
  BY <1>1, RenewedTyped
<1>4. \A e \in Drivers : Busy(e)' = Busy(e) /\ Holds(e)' = Holds(e)
  BY <1>2, <1>3 DEF Busy, Holds
<1>5. Paid' /\ OneOpen'
  BY <1>1 DEF AttInv, Paid, OneOpen, SameAttempts
<1>6. Budget'
  BY <1>1, MineKept DEF SameAttempts
<1>7. Past' /\ Asked'
  BY <1>1 DEF AttInv, Past, Asked, SameAttempts
<1>8. Tokens'
  <2>1. \A e \in Drivers : drv'[e].tok = drv[e].tok
    BY <1>2
  <2> QED BY <1>1, <1>3, <1>4, <2>1 DEF AttInv, Tokens
<1>9. Drives'
  <2>1. ASSUME NEW e \in Drivers, Busy(e)', e # d
        PROVE  /\ drv'[e].att \in DOMAIN atts' /\ atts'[drv'[e].att].turn = drv'[e].turn
               /\ drv'[e].step \in {"send", "wait", "edge", "complete"} =>
                    atts'[drv'[e].att].st # "reserved"
               /\ Holds(e)' => /\ drv'[e].step \in {"verify", "exit", "mark"} =>
                                    atts'[drv'[e].att].st = "reserved"
                               /\ \A k \in DOMAIN atts' : atts'[k].turn <= drv'[e].turn
               /\ drv'[e].step = "send" =>
                    /\ life' = "running" /\ Holds(e)' /\ op'.live
                    /\ atts'[drv'[e].att].st = "launched" /\ atts'[drv'[e].att].launches = 0
    BY <1>1, <1>2, <1>3, <1>4, <2>1 DEF AttInv, Drives, SameAttempts
  <2>2. /\ drv'[d].att \in DOMAIN atts' /\ atts'[drv'[d].att].turn = drv'[d].turn
        /\ drv'[d].step \in {"send", "wait", "edge", "complete"} =>
             atts'[drv'[d].att].st # "reserved"
        /\ Holds(d)' => /\ drv'[d].step \in {"verify", "exit", "mark"} =>
                             atts'[drv'[d].att].st = "reserved"
                        /\ \A k \in DOMAIN atts' : atts'[k].turn <= drv'[d].turn
        /\ drv'[d].step # "send"
    BY <1>1, <1>2, <1>3, <1>4 DEF AttInv, Drives, SameAttempts
  <2> QED BY <2>1, <2>2 DEF Drives
<1>10. Launched'
  BY <1>1 DEF AttInv, Launched, SameAttempts
<1>11. Dead'
  <2>1. \A e \in Drivers : e # d => drv'[e].step = drv[e].step
    BY <1>2
  <2> QED BY <1>1, <1>2, <1>4, <2>1 DEF AttInv, Dead
<1>12. Ready'
  BY <1>1 DEF AttInv, Ready, SameAttempts
<1>13. Current'
  <2>1. compat /\ life = "running" => pane.att \in DOMAIN atts
    BY <1>1 DEF AttInv, Current, Launched
  <2> QED BY <1>1, <1>2, <2>1 DEF AttInv, Current, SameAttempts
<1> QED BY <1>5, <1>6, <1>7, <1>8, <1>9, <1>10, <1>11, <1>12, <1>13 DEF AttInv

(* What each step of a tick leaves of attempts, claims and pane.             *)
LEMMA WaitingSteps ==
  ASSUME Inv, NEW d \in Drivers, Verify(d) \/ Wait(d) \/ Edge(d)
  PROVE  AttInv'
<1>1. AttInv /\ Typed
  BY DEF Inv
<1>2. CASE Verify(d)
  <2>1. UNCHANGED <<atts, op, wf, active, turns, pane, tokens, life, compat, reap>>
        /\ Busy(d) /\ drv[d].step = "verify"
    BY <1>2 DEF Verify, flow, Busy
  <2>2. SameAttempts
    BY <2>1 DEF SameAttempts
  <2>3. CASE pane.what # "shell" /\ Step(d, "exit")
    <3>1. ~(reap = "dead" /\ life = "running")
      BY <1>1, <2>3 DEF AttInv, Dead
    <3> QED BY <2>1, <2>2, <2>3, <3>1, DriverStep
  <2>4. CASE Step(d, "fail")
    BY <2>1, <2>2, <2>4, DriverStep
  <2> QED BY <1>2, <2>3, <2>4 DEF Verify
<1>3. CASE Wait(d)
  <2>1. UNCHANGED <<atts, wf, active, turns, pane, tokens, life, compat, reap>>
        /\ Busy(d) /\ drv[d].step = "wait" /\ (op' = op \/ op' = Renewed(d))
    BY <1>3 DEF Wait, flow, Busy
  <2>2. SameAttempts
    BY <2>1 DEF SameAttempts
  <2>3. Step(d, "edge") \/ Step(d, "fail")
    BY <1>3 DEF Wait
  <2> QED BY <2>1, <2>2, <2>3, DriverStep
<1>4. CASE Edge(d)
  <2>1. UNCHANGED <<op, wf, active, turns, pane, tokens, life, compat, reap>>
        /\ Busy(d) /\ drv[d].step = "edge"
    BY <1>4 DEF Edge, flow, Busy
  <2>2. SameAttempts
    <3>1. drv[d].att \in DOMAIN atts
      BY <1>4, DriverAttempt DEF Edge
    <3>2. CASE atts' = atts
      BY <3>2 DEF SameAttempts
    <3>3. CASE atts' = [atts EXCEPT ![drv[d].att].edge = TRUE]
      BY <1>1, <3>1, <3>3, AttemptEdge DEF SameAttempts
    <3> QED BY <1>4, <3>2, <3>3 DEF Edge
  <2>3. Step(d, "complete") \/ Step(d, "fail")
    BY <1>4 DEF Edge
  <2> QED BY <2>1, <2>2, <2>3, DriverStep
<1> QED BY <1>2, <1>3, <1>4

(* A guarded step is one of the driver that holds the claim, of a runtime    *)
(* that is not current and not declared dead.                                *)
LEMMA Guarded ==
  ASSUME Inv, NEW d \in Drivers, Guard(d), Busy(d)
  PROVE  /\ Holds(d) /\ life = "running" /\ wf = "open" /\ active = drv[d].turn /\ ~compat
         /\ turns[active].req
         /\ \A e \in Drivers : Holds(e) => e = d
         /\ \A e \in Drivers : drv[e].step = "send" => e = d
         /\ drv[d].step \in {"exit", "mark", "send"} => reap # "dead"
<1>1. AttInv /\ Typed
  BY DEF Inv
<1>2. /\ life = "running" /\ op.kind = "reconnect" /\ op.tok = drv[d].tok
      /\ wf = "open" /\ active = drv[d].turn /\ turns[active].req
  BY DEF Guard, Owned
<1>3. Holds(d)
  BY <1>2 DEF Holds
<1>4. ~compat
  BY <1>1, <1>2 DEF AttInv, Current
<1>5. \A e \in Drivers : Holds(e) => e = d
  BY <1>1, <1>3 DEF AttInv, Tokens, Holds
<1>6. \A e \in Drivers : drv[e].step = "send" => e = d
  BY <1>1, <1>5 DEF AttInv, Drives, Busy
<1>7. drv[d].step \in {"exit", "mark", "send"} => reap # "dead"
  BY <1>1, <1>2, <1>3 DEF AttInv, Dead
<1> QED BY <1>2, <1>3, <1>4, <1>5, <1>6, <1>7

LEMMA ExitSteps ==
  ASSUME Inv, NEW d \in Drivers, Exit(d)
  PROVE  AttInv'
<1>1. AttInv /\ Typed
  BY DEF Inv
<1>2. UNCHANGED <<atts, wf, active, turns, tokens, life, compat, reap>>
      /\ Busy(d) /\ drv[d].step = "exit" /\ (op' = op \/ op' = Renewed(d))
  BY DEF Exit, flow, Busy
<1>3. SameAttempts
  BY <1>2 DEF SameAttempts
<1>4. CASE pane.what = "shell" /\ Step(d, "mark") /\ UNCHANGED <<op, pane>>
  <2>1. reap = "dead" /\ life = "running" => ~Holds(d)
    BY <1>1, <1>2 DEF AttInv, Dead
  <2> QED BY <1>2, <1>3, <1>4, <2>1, DriverStep
<1>5. CASE Step(d, "fail") /\ pane' = pane
  BY <1>2, <1>3, <1>5, DriverStep
<1>6. CASE Guard(d) /\ pane.what # "shell" /\ pane' = Shell /\ Step(d, "mark")
  <2>1. /\ Holds(d) /\ life = "running" /\ wf = "open" /\ active = drv[d].turn /\ ~compat
        /\ \A e \in Drivers : Holds(e) => e = d
        /\ reap # "dead"
    BY <1>2, <1>6, Guarded
  <2>2. /\ drv'[d].step = "mark" /\ drv'[d].tok = drv[d].tok /\ drv'[d].att = drv[d].att
        /\ drv'[d].turn = drv[d].turn
        /\ \A e \in Drivers \ {d} : drv'[e] = drv[e]
    BY <1>1, <1>6, StepOf DEF Steps, SameRest
  <2>3. op'.kind = op.kind /\ op'.tok = op.tok /\ (op.live => op'.live)
    BY <1>1, <1>2, RenewedTyped
  <2>4. \A e \in Drivers : Busy(e)' = Busy(e) /\ Holds(e)' = Holds(e)
    BY <1>2, <2>2, <2>3 DEF Busy, Holds
  <2>5. Paid' /\ OneOpen' /\ Past' /\ Asked'
    BY <1>1, <1>2 DEF AttInv, Paid, OneOpen, Past, Asked
  <2>6. Budget'
    BY <1>1, <1>3, MineKept DEF SameAttempts
  <2>7. Tokens'
    <3>1. \A e \in Drivers : drv'[e].tok = drv[e].tok
      BY <2>2
    <3> QED BY <1>1, <1>2, <2>3, <2>4, <3>1 DEF AttInv, Tokens
  <2>8. Drives'
    <3>1. \A e \in Drivers : e # d => drv'[e].step # "send" \/ drv'[e] = drv[e]
      BY <2>2
    <3>2. /\ drv[d].att \in DOMAIN atts /\ atts[drv[d].att].turn = drv[d].turn
          /\ atts[drv[d].att].st = "reserved" /\ \A k \in DOMAIN atts : atts[k].turn <= drv[d].turn
      BY <1>1, <1>2, <2>1 DEF AttInv, Drives
    <3>3. \A e \in Drivers : drv[e].step = "send" => e = d
      BY <1>1, <2>1 DEF AttInv, Drives, Busy
    <3>4. \A e \in Drivers : drv'[e].step # "send"
      BY <1>2, <2>2, <3>3
    <3> QED BY <1>1, <1>2, <2>2, <2>4, <3>2, <3>4 DEF AttInv, Drives
  <2>9. Launched'
    BY <1>6 DEF Launched, Shell
  <2>10. Dead'
    BY <1>2, <2>1 DEF Dead
  <2>11. Ready'
    <3>1. ASSUME NEW k \in DOMAIN atts, atts[k].st = "ready", atts[k].turn = active
          PROVE  FALSE
      <4>1. /\ drv[d].att \in DOMAIN atts /\ atts[drv[d].att].turn = active
            /\ atts[drv[d].att].st = "reserved"
        BY <1>1, <1>2, <2>1 DEF AttInv, Drives
      <4> QED BY <1>1, <3>1, <4>1 DEF AttInv, OneOpen, Open
    <3> QED BY <1>2, <3>1 DEF Ready
  <2>12. Current'
    BY <1>2, <2>1 DEF Current
  <2> QED BY <2>5, <2>6, <2>7, <2>8, <2>9, <2>10, <2>11, <2>12 DEF AttInv
<1> QED BY <1>4, <1>5, <1>6 DEF Exit

LEMMA MarkSteps ==
  ASSUME Inv, NEW d \in Drivers, Mark(d)
  PROVE  AttInv'
<1>1. AttInv /\ Typed
  BY DEF Inv
<1>2. UNCHANGED <<wf, active, turns, pane, tokens, life, compat, reap>>
      /\ Busy(d) /\ drv[d].step = "mark" /\ op' = Renewed(d)
  BY DEF Mark, flow, Busy
<1>3. CASE atts' = atts /\ Step(d, "fail")
  <2>1. SameAttempts
    BY <1>3 DEF SameAttempts
  <2> QED BY <1>2, <1>3, <2>1, DriverStep
<1>4. CASE /\ Guard(d) /\ Markable(drv[d].att)
           /\ atts' = [atts EXCEPT ![drv[d].att].st = "launched"] /\ Step(d, "send")
  <2> DEFINE k == drv[d].att
  <2>1. /\ Holds(d) /\ life = "running" /\ wf = "open" /\ active = drv[d].turn /\ ~compat
        /\ \A e \in Drivers : Holds(e) => e = d
        /\ \A e \in Drivers : drv[e].step = "send" => e = d
        /\ reap # "dead"
    BY <1>2, <1>4, Guarded
  <2>2. /\ drv'[d].step = "send" /\ drv'[d].tok = drv[d].tok /\ drv'[d].att = k
        /\ drv'[d].turn = drv[d].turn
        /\ \A e \in Drivers \ {d} : drv'[e] = drv[e]
    BY <1>1, <1>4, StepOf DEF Steps, SameRest
  <2>3. op'.kind = op.kind /\ op'.tok = op.tok /\ op'.live
    BY <1>1, <1>2, <1>4, RenewedTyped
  <2>4. \A e \in Drivers : Busy(e)' = Busy(e) /\ Holds(e)' = Holds(e)
    BY <1>2, <2>2, <2>3 DEF Busy, Holds
  <2>5. k \in DOMAIN atts /\ atts[k].turn = drv[d].turn /\ atts[k].st = "reserved"
        /\ atts[k].launches = 0 /\ \A j \in DOMAIN atts : atts[j].turn <= drv[d].turn
    BY <1>1, <1>2, <1>4, <2>1 DEF AttInv, Drives, Markable, Paid
  <2>6. /\ DOMAIN atts' = DOMAIN atts /\ Len(atts') = Len(atts)
        /\ \A j \in DOMAIN atts :
             /\ atts'[j].turn = atts[j].turn /\ atts'[j].launches = atts[j].launches
             /\ atts'[j].current = atts[j].current
             /\ atts'[j].st = IF j = k THEN "launched" ELSE atts[j].st
    BY <1>1, <1>4, <2>5, AttemptSt DEF Open
  <2> HIDE DEF k
  <2>7. Paid' /\ Past'
    BY <1>1, <1>2, <2>6 DEF AttInv, Paid, Past
  <2>8. OneOpen' /\ Asked'
    <3>1. \A j \in DOMAIN atts : atts'[j].st \in Open <=> atts[j].st \in Open
      BY <2>5, <2>6 DEF Open
    <3> QED BY <1>1, <1>2, <2>6, <3>1 DEF AttInv, OneOpen, Asked
  <2>9. Budget'
    BY <1>1, <2>6, MineKept
  <2>10. Tokens'
    <3>1. \A e \in Drivers : drv'[e].tok = drv[e].tok
      BY <2>2
    <3> QED BY <1>1, <1>2, <2>3, <2>4, <3>1 DEF AttInv, Tokens
  <2>11. Drives'
    <3>1. ASSUME NEW e \in Drivers, Busy(e)', e # d
          PROVE  /\ drv'[e].att \in DOMAIN atts' /\ atts'[drv'[e].att].turn = drv'[e].turn
                 /\ drv'[e].step \in {"wait", "edge", "complete"} =>
                      atts'[drv'[e].att].st # "reserved"
                 /\ ~Holds(e)'
                 /\ drv'[e].step # "send"
      BY <1>1, <2>1, <2>2, <2>4, <2>6, <3>1 DEF AttInv, Drives
    <3>2. /\ drv'[d].att \in DOMAIN atts' /\ atts'[drv'[d].att].turn = drv'[d].turn
          /\ drv'[d].step = "send"
          /\ \A j \in DOMAIN atts' : atts'[j].turn <= drv'[d].turn
          /\ life' = "running" /\ Holds(d)' /\ op'.live
          /\ atts'[drv'[d].att].st = "launched" /\ atts'[drv'[d].att].launches = 0
      BY <1>2, <2>1, <2>2, <2>3, <2>4, <2>5, <2>6
    <3> QED BY <3>1, <3>2 DEF Drives
  <2>12. Launched'
    BY <1>1, <1>2, <2>6 DEF AttInv, Launched
  <2>13. Dead'
    BY <1>2, <2>1 DEF Dead
  <2>14. Ready'
    BY <1>1, <1>2, <2>6 DEF AttInv, Ready
  <2>15. Current'
    BY <1>2, <2>1 DEF Current
  <2> QED BY <2>7, <2>8, <2>9, <2>10, <2>11, <2>12, <2>13, <2>14, <2>15 DEF AttInv
<1> QED BY <1>3, <1>4 DEF Mark

LEMMA SendSteps ==
  ASSUME Inv, NEW d \in Drivers, Send(d)
  PROVE  AttInv'
<1>1. AttInv /\ Typed
  BY DEF Inv
<1>2. UNCHANGED <<wf, active, turns, op, tokens, life, compat, reap>>
      /\ Busy(d) /\ drv[d].step = "send"
  BY DEF Send, flow, Busy
<1> DEFINE k == drv[d].att
<1>3. /\ k \in DOMAIN atts /\ atts[k].turn = drv[d].turn
      /\ life = "running" /\ Holds(d) /\ atts[k].st = "launched" /\ atts[k].launches = 0
      /\ \A j \in DOMAIN atts : atts[j].turn <= drv[d].turn
  BY <1>1, <1>2 DEF AttInv, Drives
<1>4. \A e \in Drivers : Holds(e) => e = d
  BY <1>1, <1>3 DEF AttInv, Tokens, Holds
<1>5. /\ drv'[d].step = "wait" /\ drv'[d].tok = drv[d].tok /\ drv'[d].att = k
      /\ drv'[d].turn = drv[d].turn
      /\ \A e \in Drivers \ {d} : drv'[e] = drv[e]
  BY <1>1, StepOf DEF Steps, SameRest, Send
<1>6. \A e \in Drivers : Busy(e)' = Busy(e) /\ Holds(e)' = Holds(e)
  BY <1>2, <1>5 DEF Busy, Holds
<1>7. /\ DOMAIN atts' = DOMAIN atts /\ Len(atts') = Len(atts)
      /\ \A j \in DOMAIN atts :
           /\ atts'[j].turn = atts[j].turn /\ atts'[j].st = atts[j].st
           /\ atts'[j].current = atts[j].current
           /\ atts'[j].launches = IF j = k THEN atts[j].launches + 1 ELSE atts[j].launches
  BY <1>1, <1>3, AttemptLaunch DEF Send
<1>8. pane' \in {Shell, [what |-> "fresh", att |-> k]}
  BY DEF Send
<1> HIDE DEF k
<1>9. Paid' /\ OneOpen' /\ Past' /\ Asked'
  BY <1>1, <1>2, <1>3, <1>7 DEF AttInv, Paid, OneOpen, Past, Asked
<1>10. Budget'
  BY <1>1, <1>7, MineKept
<1>11. Tokens'
  <2>1. \A e \in Drivers : drv'[e].tok = drv[e].tok
    BY <1>5
  <2> QED BY <1>1, <1>2, <1>6, <2>1 DEF AttInv, Tokens
<1>12. Drives'
  <2>1. ASSUME NEW e \in Drivers, Busy(e)', e # d
        PROVE  /\ drv'[e].att \in DOMAIN atts' /\ atts'[drv'[e].att].turn = drv'[e].turn
               /\ drv'[e].step \in {"wait", "edge", "complete"} =>
                    atts'[drv'[e].att].st # "reserved"
               /\ ~Holds(e)'
               /\ drv'[e].step # "send"
    BY <1>1, <1>4, <1>5, <1>6, <1>7, <2>1 DEF AttInv, Drives
  <2>2. /\ drv'[d].att \in DOMAIN atts' /\ atts'[drv'[d].att].turn = drv'[d].turn
        /\ drv'[d].step = "wait" /\ atts'[drv'[d].att].st # "reserved"
        /\ \A j \in DOMAIN atts' : atts'[j].turn <= drv'[d].turn
    BY <1>3, <1>5, <1>7
  <2> QED BY <2>1, <2>2 DEF Drives
<1>13. Launched'
  BY <1>3, <1>7, <1>8 DEF Launched, Shell
<1>14. reap # "dead" /\ ~compat
  BY <1>1, <1>2, <1>3 DEF AttInv, Dead, Current
<1>15. Dead' /\ Current'
  BY <1>2, <1>14 DEF Dead, Current
<1>16. Ready'
  <2>1. ASSUME NEW j \in DOMAIN atts, atts[j].st = "ready", atts[j].turn = active
        PROVE  FALSE
    <3>1. atts[k].turn <= active /\ atts[j].turn <= atts[k].turn
          /\ atts[k].turn \in Nat /\ active \in Nat
      BY <1>1, <1>3, Attempts, Fields DEF AttInv, Past
    <3>2. atts[k].turn = active
      BY <2>1, <3>1
    <3> QED BY <1>1, <1>3, <2>1, <3>2 DEF AttInv, OneOpen, Open
  <2> QED BY <1>2, <1>7, <2>1 DEF Ready
<1> QED BY <1>9, <1>10, <1>11, <1>12, <1>13, <1>15, <1>16 DEF AttInv

LEMMA RegisterAttempts ==
  ASSUME Inv, Register
  PROVE  AttInv'
<1>1. AttInv /\ Typed
  BY DEF Inv
<1>2. UNCHANGED <<wf, active, turns, op, drv, pane, tokens, life, compat, reap>>
  BY DEF Register, flow
<1> DEFINE k == pane.att
<1>3. k \in DOMAIN atts /\ atts[k].launches > 0 /\ atts[k].st = "launched" /\ pane.what = "fresh"
      /\ atts[k].turn = active /\ turns[active].req /\ life = "running"
  BY <1>1 DEF AttInv, Launched, Register, Registrable
<1>4. /\ DOMAIN atts' = DOMAIN atts /\ Len(atts') = Len(atts)
      /\ \A j \in DOMAIN atts :
           /\ atts'[j].turn = atts[j].turn /\ atts'[j].launches = atts[j].launches
           /\ atts'[j].st = IF j = k THEN "ready" ELSE atts[j].st
           /\ j # k => atts'[j].current = atts[j].current
  BY <1>1, <1>3, AttemptReady DEF Register
<1>5. pane = [what |-> "fresh", att |-> k]
  BY <1>1, <1>3 DEF Typed
<1> HIDE DEF k
<1>6. Paid' /\ Past'
  BY <1>1, <1>2, <1>4 DEF AttInv, Paid, Past
<1>7. OneOpen' /\ Asked'
  <2>1. \A j \in DOMAIN atts : atts'[j].st \in Open <=> atts[j].st \in Open
    BY <1>3, <1>4 DEF Open
  <2> QED BY <1>1, <1>2, <1>4, <2>1 DEF AttInv, OneOpen, Asked
<1>8. Budget'
  BY <1>1, <1>4, MineKept
<1>9. \A e \in Drivers : Busy(e)' = Busy(e) /\ Holds(e)' = Holds(e)
  BY <1>2 DEF Busy, Holds
<1>10. Tokens'
  BY <1>1, <1>2, <1>9 DEF AttInv, Tokens
<1>11. Drives'
  <2>1. \A e \in Drivers : Busy(e) => drv[e].att \in DOMAIN atts
    BY <1>1 DEF AttInv, Drives
  <2>2. \A e \in Drivers : Busy(e) /\ drv[e].att = k => drv[e].step # "send"
    BY <1>1, <1>3, Attempts DEF AttInv, Drives
  <2>3. \A e \in Drivers : Busy(e) /\ drv[e].att = k /\ Holds(e)
          => drv[e].step \notin {"verify", "exit", "mark"}
    BY <1>1, <1>3 DEF AttInv, Drives
  <2> QED BY <1>1, <1>2, <1>4, <1>9, <2>1, <2>2, <2>3 DEF AttInv, Drives
<1>12. Launched'
  BY <1>1, <1>2, <1>4 DEF AttInv, Launched
<1>13. Dead'
  BY <1>1, <1>2, <1>9 DEF AttInv, Dead
<1>14. Ready'
  BY <1>1, <1>2, <1>4, <1>5 DEF AttInv, Ready
<1>15. Current'
  <2>1. ~compat
    BY <1>1, <1>3, <1>5 DEF AttInv, Current
  <2> QED BY <1>2, <2>1 DEF Current
<1> QED BY <1>6, <1>7, <1>8, <1>10, <1>11, <1>12, <1>13, <1>14, <1>15 DEF AttInv

(* A driver rests; its attempt may have ended, and the operation with it.    *)
LEMMA Rested ==
  ASSUME Inv, NEW d \in Drivers, Busy(d), drv[d].step # "send",
         drv' = [drv EXCEPT ![d] = Resting],
         UNCHANGED <<tokens, life>>,
         op' = op \/ (op' = NoOp /\ Holds(d)),
         DOMAIN atts' = DOMAIN atts, Len(atts') = Len(atts),
         \A j \in DOMAIN atts :
           /\ atts'[j].turn = atts[j].turn /\ atts'[j].launches = atts[j].launches
           /\ \/ atts'[j].st = atts[j].st
              \/ /\ j = drv[d].att /\ op' = NoOp /\ atts'[j].st \in {"failed", "succeeded"}
  PROVE  Paid' /\ OneOpen' /\ Budget' /\ Tokens' /\ Drives'
         /\ \A e \in Drivers : /\ Holds(e)' => Holds(e) /\ op' = op
                               /\ drv'[e].step = "send" => drv[e].step = "send"
                               /\ e # d => drv'[e] = drv[e]
                               /\ drv'[d].step = "idle"
<1>1. AttInv /\ Typed
  BY DEF Inv
<1>2. drv'[d].step = "idle" /\ \A e \in Drivers \ {d} : drv'[e] = drv[e]
  BY <1>1, RestOf
<1>3. \A e \in Drivers : Busy(e)' => e # d /\ Busy(e)
  BY <1>2 DEF Busy
<1>4. \A e \in Drivers : Holds(e)' => Holds(e) /\ e # d /\ op' = op
  BY <1>2, <1>3 DEF Holds, NoOp
<1>5. Paid' /\ OneOpen'
  BY <1>1 DEF AttInv, Paid, OneOpen, Open
<1>6. Budget'
  BY <1>1, MineKept
<1>7. Tokens'
  <2>1. op'.tok <= tokens
    BY <1>1, DriverFields DEF AttInv, Tokens, NoOp
  <2> QED BY <1>1, <1>2, <1>3, <2>1 DEF AttInv, Tokens
<1>8. op' = NoOp => \A e \in Drivers : drv[e].step # "send"
  <2>1. CASE op = NoOp
    BY <1>1, <2>1 DEF AttInv, Drives, Busy, Holds, NoOp
  <2>2. CASE Holds(d)
    <3>1. \A e \in Drivers : Holds(e) => e = d
      BY <1>1, <2>2 DEF AttInv, Tokens, Holds
    <3> QED BY <1>1, <3>1 DEF AttInv, Drives, Busy
  <2> QED BY <2>1, <2>2
<1>9. Drives'
  <2> SUFFICES ASSUME NEW e \in Drivers, Busy(e)'
               PROVE  /\ drv'[e].att \in DOMAIN atts' /\ atts'[drv'[e].att].turn = drv'[e].turn
                      /\ drv'[e].step \in {"send", "wait", "edge", "complete"} =>
                           atts'[drv'[e].att].st # "reserved"
                      /\ Holds(e)' => /\ drv'[e].step \in {"verify", "exit", "mark"} =>
                                           atts'[drv'[e].att].st = "reserved"
                                      /\ \A k \in DOMAIN atts' : atts'[k].turn <= drv'[e].turn
                      /\ drv'[e].step = "send" =>
                            /\ life' = "running" /\ Holds(e)' /\ op'.live
                            /\ atts'[drv'[e].att].st = "launched" /\ atts'[drv'[e].att].launches = 0
    BY DEF Drives
  <2>1. e # d /\ Busy(e) /\ drv'[e] = drv[e] /\ drv[e].att \in DOMAIN atts
    BY <1>1, <1>2, <1>3 DEF AttInv, Drives
  <2>2. CASE op' = op
    <3>1. Holds(e)' = Holds(e)
      BY <2>1, <2>2 DEF Holds, Busy
    <3>2. op' = NoOp => ~Holds(e)
      BY <2>2 DEF Holds, NoOp
    <3> QED BY <1>1, <1>8, <2>1, <2>2, <3>1, <3>2 DEF AttInv, Drives
  <2>3. CASE op' = NoOp
    <3>1. ~Holds(e)' /\ drv[e].step # "send"
      BY <1>8, <2>3 DEF Holds, NoOp
    <3> QED BY <1>1, <2>1, <2>3, <3>1 DEF AttInv, Drives
  <2> QED BY <2>2, <2>3
<1> QED BY <1>2, <1>4, <1>5, <1>6, <1>7, <1>9

LEMMA FailSteps ==
  ASSUME Inv, NEW d \in Drivers, Fail(d)
  PROVE  AttInv'
<1>1. AttInv /\ Typed
  BY DEF Inv
<1>2. UNCHANGED <<active, pane, tokens, life, compat, reap>> /\ drv' = [drv EXCEPT ![d] = Resting]
      /\ Busy(d) /\ drv[d].step = "fail"
  BY DEF Fail, Busy
<1> DEFINE k == drv[d].att
<1>3. k \in DOMAIN atts
  BY <1>1, <1>2 DEF AttInv, Drives
<1>4. CASE ~Failable(d)
  <2>1. UNCHANGED <<wf, turns, exec, atts, op>>
    BY <1>4 DEF Fail
  <2>2. /\ Paid' /\ OneOpen' /\ Budget' /\ Tokens' /\ Drives'
        /\ \A e \in Drivers : /\ Holds(e)' => Holds(e) /\ op' = op
                              /\ drv'[e].step = "send" => drv[e].step = "send"
                              /\ e # d => drv'[e] = drv[e]
                              /\ drv'[d].step = "idle"
    BY <1>2, <2>1, Rested
  <2>3. Past' /\ Asked' /\ Launched' /\ Ready'
    BY <1>1, <1>2, <2>1 DEF AttInv, Past, Asked, Launched, Ready
  <2>4. Dead' /\ Current'
    BY <1>1, <1>2, <2>1, <2>2 DEF AttInv, Dead, Current
  <2> QED BY <2>2, <2>3, <2>4 DEF AttInv
<1>5. CASE Failable(d)
  <2>1. /\ atts' = [atts EXCEPT ![k].st = "failed"] /\ op' = NoOp
        /\ \/ wf' = "gate" /\ turns' = Gated
           \/ wf' = wf /\ turns' = [turns EXCEPT ![active].tok = 0]
    BY <1>5 DEF Fail
  <2>2. Holds(d) /\ atts[k].st \in Open
    BY <1>2, <1>5 DEF Failable, Holds
  <2>3. /\ DOMAIN atts' = DOMAIN atts /\ Len(atts') = Len(atts)
        /\ \A j \in DOMAIN atts :
             /\ atts'[j].turn = atts[j].turn /\ atts'[j].launches = atts[j].launches
             /\ atts'[j].current = atts[j].current
             /\ atts'[j].st = IF j = k THEN "failed" ELSE atts[j].st
    BY <1>1, <1>3, <2>1, AttemptSt
  <2>4. (wf' = "open" => wf = "open") /\ (wf' = "open" => turns'[active].req = turns[active].req)
    <3>1. CASE wf' = "gate"
      BY <3>1
    <3>2. CASE wf' = wf /\ turns' = [turns EXCEPT ![active].tok = 0]
      <4>1. turns \in [TurnIds -> TurnR] /\ active \in TurnIds
        BY <1>1 DEF Typed
      <4> QED BY <3>2, <4>1 DEF TurnR
    <3> QED BY <2>1, <3>1, <3>2
  <2> HIDE DEF k
  <2>5. /\ Paid' /\ OneOpen' /\ Budget' /\ Tokens' /\ Drives'
        /\ \A e \in Drivers : /\ Holds(e)' => Holds(e) /\ op' = op
                              /\ drv'[e].step = "send" => drv[e].step = "send"
                              /\ e # d => drv'[e] = drv[e]
                              /\ drv'[d].step = "idle"
    <3>1. op' = NoOp /\ Holds(d) /\ drv[d].step # "send"
      BY <1>2, <2>1, <2>2
    <3>2. \A j \in DOMAIN atts :
            /\ atts'[j].turn = atts[j].turn /\ atts'[j].launches = atts[j].launches
            /\ \/ atts'[j].st = atts[j].st
               \/ /\ j = drv[d].att /\ op' = NoOp /\ atts'[j].st \in {"failed", "succeeded"}
      BY <2>1, <2>3 DEF k
    <3> QED BY <1>2, <2>3, <3>1, <3>2, Rested
  <2>6. Past' /\ Launched'
    BY <1>1, <1>2, <2>3 DEF AttInv, Past, Launched
  <2>7. Asked' /\ Ready'
    BY <1>1, <1>2, <2>3, <2>4 DEF AttInv, Asked, Ready, Open
  <2>8. Dead'
    BY <1>1, <1>2, <2>5 DEF AttInv, Dead
  <2>9. Current'
    <3>1. compat /\ life = "running" => pane.att \in DOMAIN atts /\ pane.att # k
      BY <1>1, <2>2 DEF AttInv, Current, Launched, Open
    <3> QED BY <1>1, <1>2, <2>3, <2>4, <2>5, <3>1 DEF AttInv, Current
  <2> QED BY <2>5, <2>6, <2>7, <2>8, <2>9 DEF AttInv
<1> QED BY <1>4, <1>5

LEMMA CompleteSteps ==
  ASSUME Inv, NEW d \in Drivers, Complete(d)
  PROVE  AttInv'
<1>1. AttInv /\ Typed
  BY DEF Inv
<1>2. UNCHANGED <<pane, tokens, life, reap>> /\ Busy(d) /\ drv[d].step = "complete"
  BY DEF Complete, Busy
<1> DEFINE k == drv[d].att
<1>3. k \in DOMAIN atts /\ atts[k].turn = drv[d].turn
  BY <1>1, <1>2 DEF AttInv, Drives
<1>4. CASE ~Completable(d)
  <2>1. Step(d, "fail") /\ UNCHANGED <<wf, active, turns, atts, op, compat>>
    BY <1>4 DEF Complete, flow
  <2>2. SameAttempts
    BY <2>1 DEF SameAttempts
  <2> QED BY <1>2, <2>1, <2>2, DriverStep
<1>5. CASE Completable(d)
  <2>1. /\ atts' = [atts EXCEPT ![k].st = "succeeded"] /\ op' = NoOp /\ compat' = TRUE
        /\ drv' = [drv EXCEPT ![d] = Resting]
    BY <1>5 DEF Complete
  <2>2. Holds(d) /\ atts[k].st = "ready" /\ atts[k].current /\ atts[k].turn = active
        /\ wf = "open" /\ life = "running"
    BY <1>2, <1>3, <1>5 DEF Completable, Holds
  <2>3. /\ DOMAIN atts' = DOMAIN atts /\ Len(atts') = Len(atts)
        /\ \A j \in DOMAIN atts :
             /\ atts'[j].turn = atts[j].turn /\ atts'[j].launches = atts[j].launches
             /\ atts'[j].current = atts[j].current
             /\ atts'[j].st = IF j = k THEN "succeeded" ELSE atts[j].st
    BY <1>1, <1>3, <2>1, AttemptSt
  <2>4. /\ active' = active \/ active' > active
        /\ ~turns'[active'].req /\ active' \in Nat
    <3>1. Typed' /\ (active' = active \/ active' > active) /\ ~turns'[active'].req
      BY <1>5, CompleteTurns
    <3>2. TurnIds \subseteq Nat
      BY <1>1, Fields
    <3> QED BY <3>1, <3>2 DEF Typed
  <2>5. pane = [what |-> "fresh", att |-> k]
    BY <1>1, <1>3, <2>2 DEF AttInv, Ready
  <2> HIDE DEF k
  <2>6. /\ Paid' /\ OneOpen' /\ Budget' /\ Tokens' /\ Drives'
        /\ \A e \in Drivers : /\ Holds(e)' => Holds(e) /\ op' = op
                              /\ drv'[e].step = "send" => drv[e].step = "send"
                              /\ e # d => drv'[e] = drv[e]
                              /\ drv'[d].step = "idle"
    <3>1. op' = NoOp /\ Holds(d) /\ drv[d].step # "send"
      BY <1>2, <2>1, <2>2
    <3>2. \A j \in DOMAIN atts :
            /\ atts'[j].turn = atts[j].turn /\ atts'[j].launches = atts[j].launches
            /\ \/ atts'[j].st = atts[j].st
               \/ /\ j = drv[d].att /\ op' = NoOp /\ atts'[j].st \in {"failed", "succeeded"}
      BY <2>1, <2>3 DEF k
    <3> QED BY <1>2, <2>1, <2>3, <3>1, <3>2, Rested
  <2>7. \A j \in DOMAIN atts : atts[j].turn \in Nat /\ atts[j].turn <= active /\ active \in Nat
    BY <1>1, Attempts, Fields DEF AttInv, Past
  <2>8. Past'
    BY <2>3, <2>4, <2>7 DEF Past
  <2>9. \A j \in DOMAIN atts : atts[j].turn = active' /\ atts[j].st \in Open => j = k
    <3>1. \A j \in DOMAIN atts : atts[j].turn = active' => active' = active
      BY <2>4, <2>7
    <3> QED BY <1>1, <1>3, <2>2, <3>1 DEF AttInv, OneOpen, Open
  <2>10. Asked' /\ Ready'
    BY <2>3, <2>9 DEF Asked, Ready, Open
  <2>11. Launched'
    BY <1>1, <1>2, <2>3 DEF AttInv, Launched
  <2>12. Dead'
    BY <1>1, <1>2, <2>6 DEF AttInv, Dead
  <2>13. Current'
    <3>1. \A e \in Drivers : Holds(e) => e = d
      BY <1>1, <2>2 DEF AttInv, Tokens, Holds
    <3>2. \A e \in Drivers : drv[e].step # "send"
      BY <1>1, <1>2, <3>1 DEF AttInv, Drives, Busy
    <3> QED BY <1>2, <1>3, <2>3, <2>4, <2>5, <2>6, <3>2 DEF Current
  <2> QED BY <2>6, <2>8, <2>10, <2>11, <2>12, <2>13 DEF AttInv
<1> QED BY <1>4, <1>5

(* Nobody can be about to launch.                                            *)
LEMMA NoSender ==
  ASSUME Inv, \/ op.kind # "reconnect" \/ ~op.live \/ life # "running"
              \/ \A d \in Owners : drv[d].step # "send"
  PROVE  \A d \in Drivers : drv[d].step # "send"
BY DEF Inv, AttInv, Drives, Busy, Holds, Owners

(* What the end of the runtime leaves of them.                               *)
LEMMA EndSteps ==
  ASSUME Inv, ExitClaim \/ ExitDone \/ Observe \/ Reap
  PROVE  AttInv'
<1>1. AttInv /\ Typed
  BY DEF Inv
<1>2. UNCHANGED <<active, atts, drv, tokens, compat>>
  BY DEF ExitClaim, ExitDone, Observe, Reap, flow
<1>3. UNCHANGED <<Paid, OneOpen, Budget, Past>>
  BY <1>2 DEF Paid, OneOpen, Budget, Mine, Past
<1>4. \A e \in Drivers : Busy(e)' = Busy(e)
  BY <1>2 DEF Busy
<1>5. CASE UNCHANGED <<wf, turns, op, life, pane>> /\ reap' = "none"
  BY <1>1, <1>2, <1>3, <1>5
     DEF AttInv, Asked, Tokens, Drives, Launched, Dead, Ready, Current, Holds, Busy
<1>6. CASE Observe
  <2>1. UNCHANGED <<wf, turns, op, life, pane>> /\ op.kind # "reconnect" /\ pane.what = "shell"
    BY <1>6 DEF Observe, flow, Spared
  <2>2. \A e \in Drivers : Holds(e)' = Holds(e) /\ ~Holds(e)
    BY <1>2, <2>1 DEF Holds, Busy
  <2>3. \A e \in Drivers : drv[e].step # "send"
    BY <2>1, NoSender
  <2>4. Asked' /\ Tokens' /\ Launched' /\ Ready' /\ Current'
    BY <1>1, <1>2, <1>4, <2>1 DEF AttInv, Asked, Tokens, Launched, Ready, Current
  <2>5. Drives'
    BY <1>1, <1>2, <1>4, <2>1, <2>2 DEF AttInv, Drives
  <2>6. Dead'
    BY <1>2, <2>1, <2>2 DEF Dead
  <2> QED BY <1>1, <1>3, <2>4, <2>5, <2>6 DEF AttInv
<1>7. CASE /\ life' # "running" /\ op'.kind # "reconnect" /\ op'.tok = 0
           /\ wf' = "open" => wf = "open" /\ turns' = turns
           /\ pane' \in {pane, Shell}
           /\ \/ op.kind # "reconnect" \/ ~op.live \/ life # "running"
  <2>1. \A e \in Drivers : drv[e].step # "send"
    BY <1>7, NoSender
  <2>2. \A e \in Drivers : ~Holds(e)'
    BY <1>7 DEF Holds
  <2>3. Asked' /\ Ready' /\ Current' /\ Dead'
    BY <1>1, <1>2, <1>7 DEF AttInv, Asked, Ready, Current, Dead
  <2>4. Tokens'
    BY <1>1, <1>2, <1>4, <1>7, DriverFields DEF AttInv, Tokens
  <2>5. Launched'
    BY <1>1, <1>2, <1>7 DEF AttInv, Launched, Shell
  <2>6. Drives'
    BY <1>1, <1>2, <1>4, <2>1, <2>2 DEF AttInv, Drives
  <2> QED BY <1>1, <1>3, <2>3, <2>4, <2>5, <2>6 DEF AttInv
<1>8. CASE ExitClaim
  BY <1>7, <1>8 DEF ExitClaim, flow
<1>9. CASE ExitDone
  <2>1. /\ life = "exit_pending" /\ life' = "ended" /\ op' = NoOp /\ pane' = Shell
        /\ wf' = IF wf = "open" THEN "over" ELSE wf
    BY <1>9 DEF ExitDone
  <2> QED BY <1>7, <2>1 DEF NoOp
<1>10. CASE Reap
  <2>1. CASE life = "running" /\ ~Spared
    <3>1. /\ life' = "ended" /\ op' = NoOp /\ pane' = pane
          /\ wf' = IF wf = "open" THEN "over" ELSE wf
      BY <1>10, <2>1 DEF Reap
    <3> QED BY <1>7, <2>1, <3>1 DEF NoOp, Spared
  <2>2. CASE ~(life = "running" /\ ~Spared)
    BY <1>5, <1>10, <2>2 DEF Reap
  <2> QED BY <2>1, <2>2
<1> QED BY <1>6, <1>8, <1>9, <1>10

(* A lease that runs out takes no tick about to send.                        *)
LEMMA ExpireSteps ==
  ASSUME Inv, Expire
  PROVE  AttInv'
<1>1. AttInv /\ Typed
  BY DEF Inv
<1>2. UNCHANGED <<wf, active, turns, atts, life, compat, pane, reap, tokens>>
      /\ op' = [op EXCEPT !.live = FALSE]
  BY DEF Expire, flow
<1>3. op'.kind = op.kind /\ op'.tok = op.tok
  BY <1>1, <1>2 DEF Typed
<1>4. \A e \in Drivers : drv[e].step # "send"
  BY NoSender DEF Expire
<1>5. \A e \in Drivers : /\ drv'[e].step = drv[e].step /\ drv'[e].turn = drv[e].turn
                         /\ drv'[e].tok = drv[e].tok /\ drv'[e].att = drv[e].att
  <2>1. CASE drv' = drv
    BY <2>1
  <2>2. CASE drv' = [d \in Drivers |-> IF d \in Owners THEN [drv[d] EXCEPT !.ok = FALSE]
                                                      ELSE drv[d]]
    BY <1>1, <2>2, LostDrivers
  <2> QED BY <2>1, <2>2 DEF Expire
<1>6. \A e \in Drivers : Busy(e)' = Busy(e) /\ Holds(e)' = Holds(e)
  BY <1>3, <1>5 DEF Busy, Holds
<1>7. Paid' /\ OneOpen' /\ Budget' /\ Past' /\ Asked' /\ Launched' /\ Ready'
  BY <1>1, <1>2 DEF AttInv, Paid, OneOpen, Budget, Mine, Past, Asked, Launched, Ready
<1>8. Tokens'
  BY <1>1, <1>2, <1>3, <1>5, <1>6 DEF AttInv, Tokens
<1>9. Drives'
  BY <1>1, <1>2, <1>4, <1>5, <1>6 DEF AttInv, Drives
<1>10. Dead' /\ Current'
  BY <1>1, <1>2, <1>5, <1>6 DEF AttInv, Dead, Current
<1> QED BY <1>7, <1>8, <1>9, <1>10 DEF AttInv

(* A crash forgets the ticks; the next release knows no runtime.             *)
LEMMA CrashSteps ==
  ASSUME Inv, Crash
  PROVE  AttInv'
<1>1. AttInv /\ Typed
  BY DEF Inv
<1>2. UNCHANGED <<wf, active, turns, op, life, tokens>> /\ reap' = "none"
  BY DEF Crash, flow
<1>3. \A e \in Drivers : drv'[e].step = "idle"
  BY DEF Crash, Resting
<1>4. \A e \in Drivers : ~Busy(e)'
  BY <1>3 DEF Busy
<1>5. Tokens' /\ Drives' /\ Dead'
  BY <1>1, <1>2, <1>4 DEF AttInv, Tokens, Drives, Dead
<1>6. CASE UNCHANGED <<compat, atts, pane>>
  BY <1>1, <1>2, <1>3, <1>5, <1>6
     DEF AttInv, Paid, OneOpen, Budget, Mine, Past, Asked, Launched, Ready, Current
<1>7. CASE /\ compat' = FALSE
           /\ atts' = [k \in DOMAIN atts |-> [atts[k] EXCEPT !.current = FALSE]]
           /\ pane' = IF pane.what = "fresh" THEN [what |-> "old", att |-> 0] ELSE pane
  <2>1. /\ DOMAIN atts' = DOMAIN atts /\ Len(atts') = Len(atts)
        /\ \A k \in DOMAIN atts : /\ atts'[k].turn = atts[k].turn /\ atts'[k].st = atts[k].st
                                  /\ atts'[k].launches = atts[k].launches /\ ~atts'[k].current
    BY <1>1, <1>7, Outdated
  <2>2. Budget'
    BY <1>1, <2>1, MineKept
  <2>3. Paid' /\ OneOpen' /\ Past' /\ Asked' /\ Ready'
    BY <1>1, <1>2, <2>1 DEF AttInv, Paid, OneOpen, Past, Asked, Ready
  <2>4. Launched' /\ Current'
    BY <1>1, <1>7 DEF Launched, Current
  <2> QED BY <1>5, <2>2, <2>3, <2>4 DEF AttInv
<1> QED BY <1>6, <1>7 DEF Crash

(* A claim adds an attempt to a turn that has none open and may have more,   *)
(* or takes over the one that is open.                                       *)
LEMMA TakeOverAttempts ==
  ASSUME Inv, NEW d \in Drivers, Claim(d), ~Exhausted, TakeOver(d)
  PROVE  /\ Taken \in DOMAIN atts' /\ atts'[Taken].turn = active /\ DOMAIN atts \subseteq DOMAIN atts'
         /\ \A j \in DOMAIN atts : atts'[j] = atts[j]
         /\ \A j \in DOMAIN atts' : j \in DOMAIN atts \/
              /\ j = Taken /\ atts'[j].turn = active /\ atts'[j].st = "reserved"
              /\ atts'[j].launches = 0 /\ \A i \in DOMAIN atts : atts[i].turn = active => atts[i].st \notin Open
         /\ Budget'
<1>1. AttInv /\ Typed
  BY DEF Inv
<1>2. DOMAIN atts = 1..Len(atts) /\ Len(atts) \in Nat /\ atts \in Seq(Attempt)
  BY <1>1, Attempts DEF Typed
<1>0. atts' = IF Taken > Len(atts) THEN Append(atts, Reserved) ELSE atts
  BY DEF TakeOver
<1>3. CASE Reusable(active) # {}
  <2>1. Taken \in Reusable(active) /\ Taken <= Len(atts) /\ Taken \in Nat
    BY <1>1, <1>3, TakenOf
  <2>2. atts' = atts
    <3>1. ~(Taken > Len(atts))
      BY <1>2, <2>1
    <3> QED BY <1>0, <3>1
  <2>3. Budget'
    BY <1>1, <2>2, MineKept
  <2> QED BY <1>2, <2>1, <2>2, <2>3 DEF Reusable, Mine
<1>4. CASE Reusable(active) = {}
  <2>1. Taken = Len(atts) + 1
    BY <1>1, <1>4, TakenOf
  <2>2. atts' = Append(atts, Reserved)
    <3>1. Taken > Len(atts)
      BY <1>2, <2>1
    <3> QED BY <1>0, <3>1
  <2>3. /\ DOMAIN atts' = 1..(Len(atts) + 1) /\ Len(atts') = Len(atts) + 1
        /\ atts'[Len(atts) + 1] = Reserved
        /\ \A j \in 1..Len(atts) : atts'[j] = atts[j]
    <3>1. Reserved \in Attempt
      BY <1>1 DEF Reserved, Attempt, Typed
    <3> QED BY <1>2, <2>2, <3>1
  <2>4. Reserved.turn = active /\ Reserved.st = "reserved" /\ Reserved.launches = 0
    BY DEF Reserved
  <2>5. \A i \in DOMAIN atts : atts[i].turn = active => atts[i].st \notin Open
    BY <1>2, <1>4 DEF Reusable, Mine
  <2>6. Budget'
    <3> SUFFICES ASSUME NEW t \in TurnIds
                 PROVE  Cardinality(Mine(t)') <= MaxAttempts
      BY DEF Budget
    <3>1. IsFiniteSet(Mine(t)) /\ Cardinality(Mine(t)) \in Nat /\ Cardinality(Mine(t)) <= MaxAttempts
          /\ MaxAttempts \in Nat
      <4>1. Mine(t) \in SUBSET (1..Len(atts))
        BY DEF Mine
      <4>2. IsFiniteSet(1..Len(atts))
        BY <1>2, FS_Interval
      <4> QED BY <1>1, <4>1, <4>2, FS_Subset, FS_CardinalityType, ConstantAssumption
         DEF AttInv, Budget
    <3>2. CASE t # active
      <4>1. Mine(t)' = Mine(t)
        BY <1>2, <2>3, <2>4, <3>2 DEF Mine
      <4> QED BY <3>1, <4>1
    <3>3. CASE t = active
      <4>1. Mine(t)' = Mine(t) \cup {Len(atts) + 1}
        <5>1. \A j : j \in 1..(Len(atts) + 1) <=> j \in 1..Len(atts) \/ j = Len(atts) + 1
          BY <1>2
        <5>2. Mine(t)' = {j \in 1..(Len(atts) + 1) : atts'[j].turn = t}
          BY <2>3 DEF Mine
        <5> QED BY <1>2, <2>3, <2>4, <3>3, <5>1, <5>2 DEF Mine
      <4>2. Len(atts) + 1 \notin Mine(t)
        BY <1>2 DEF Mine
      <4>3. Cardinality(Mine(t) \cup {Len(atts) + 1}) = Cardinality(Mine(t)) + 1
        BY <3>1, <4>2, FS_AddElement
      <4>4. Cardinality(Mine(t)) < MaxAttempts
        BY <1>4, <3>1, <3>3 DEF Exhausted
      <4> QED BY <3>1, <4>1, <4>3, <4>4
    <3> QED BY <3>2, <3>3
  <2> QED BY <1>2, <2>1, <2>3, <2>4, <2>5, <2>6
<1> QED BY <1>3, <1>4

(* A claim ends the budget, or is the only live one.                         *)
LEMMA ClaimSteps ==
  ASSUME Inv, NEW d \in Drivers, Claim(d)
  PROVE  AttInv'
<1>1. AttInv /\ Typed
  BY DEF Inv
<1>2. UNCHANGED <<active, life, compat, pane, reap>> /\ drv[d].step = "idle"
      /\ wf = "open" /\ turns[active].req /\ life = "running" /\ ~op.live
  BY DEF Claim, Claimable, Pending
<1>3. \A e \in Drivers : drv[e].step # "send"
  BY <1>2, NoSender
<1>4. ~compat
  BY <1>1, <1>2 DEF AttInv, Current
<1>5. CASE GiveUp
  <2>1. UNCHANGED <<atts, drv, tokens>> /\ wf' = "gate" /\ op' = NoOp
    BY <1>5 DEF GiveUp
  <2>2. \A e \in Drivers : Busy(e)' = Busy(e) /\ ~Holds(e)'
    BY <2>1 DEF Busy, Holds, NoOp
  <2>3. Paid' /\ OneOpen' /\ Budget' /\ Past' /\ Launched' /\ Asked' /\ Ready'
    BY <1>1, <1>2, <2>1 DEF AttInv, Paid, OneOpen, Budget, Mine, Past, Launched, Asked, Ready
  <2>4. Tokens'
    BY <1>1, <2>1, <2>2, DriverFields DEF AttInv, Tokens, NoOp
  <2>5. Drives'
    BY <1>1, <1>3, <2>1, <2>2 DEF AttInv, Drives
  <2>6. Dead' /\ Current'
    BY <1>1, <1>2, <1>4, <2>1, <2>2 DEF AttInv, Dead, Current
  <2> QED BY <2>3, <2>4, <2>5, <2>6 DEF AttInv
<1>6. CASE ~Exhausted /\ TakeOver(d)
  <2>1. /\ Taken \in DOMAIN atts' /\ atts'[Taken].turn = active /\ DOMAIN atts \subseteq DOMAIN atts'
        /\ \A j \in DOMAIN atts : atts'[j] = atts[j]
        /\ \A j \in DOMAIN atts' : j \in DOMAIN atts \/
             /\ j = Taken /\ atts'[j].turn = active /\ atts'[j].st = "reserved"
             /\ atts'[j].launches = 0 /\ \A i \in DOMAIN atts : atts[i].turn = active => atts[i].st \notin Open
        /\ Budget'
    BY <1>6, TakeOverAttempts
  <2>2. /\ tokens' = tokens + 1 /\ wf' = wf
        /\ op' = [kind |-> "reconnect", tok |-> tokens + 1, live |-> TRUE]
        /\ turns' = [turns EXCEPT ![active].tok = tokens + 1]
    BY <1>6 DEF TakeOver
  <2>3. turns'[active].req
    <3>1. turns \in [TurnIds -> TurnR] /\ active \in TurnIds /\ turns[active] \in TurnR
      BY <1>1 DEF Typed
    <3> QED BY <1>2, <2>2, <3>1 DEF TurnR
  <2>4. /\ drv'[d].turn = active /\ drv'[d].tok = tokens + 1 /\ drv'[d].att = Taken
        /\ drv'[d].step \in {"fail", "verify", "wait"}
        /\ drv'[d].step = "verify" => atts'[Taken].st = "reserved"
        /\ drv'[d].step = "wait" => atts'[Taken].st # "reserved"
        /\ \A e \in Drivers \ {d} : drv'[e] = drv[e]
    <3> DEFINE q == [step |-> IF ~bound THEN "fail"
                              ELSE IF atts'[Taken].st = "reserved" THEN "verify" ELSE "wait",
                     turn |-> active, tok |-> tokens + 1, att |-> Taken, ok |-> TRUE]
    <3>1. /\ q.turn = active /\ q.tok = tokens + 1 /\ q.att = Taken
          /\ q.step \in {"fail", "verify", "wait"}
          /\ q.step = "verify" => atts'[Taken].st = "reserved"
          /\ q.step = "wait" => atts'[Taken].st # "reserved"
      OBVIOUS
    <3>2. drv' = [drv EXCEPT ![d] = q]
      BY <1>6 DEF TakeOver
    <3> HIDE DEF q
    <3>3. drv'[d] = q /\ \A e \in Drivers \ {d} : drv'[e] = drv[e]
      BY <1>1, <3>2 DEF Typed
    <3> QED BY <3>1, <3>3
  <2>5. \A e \in Drivers : e # d => Busy(e)' = Busy(e)
    BY <2>4 DEF Busy
  <2>6. \A e \in Drivers : e # d => ~Holds(e)'
    <3>1. \A e \in Drivers : Busy(e) => drv[e].tok # tokens + 1
      BY <1>1, DriverFields DEF AttInv, Tokens
    <3> QED BY <2>2, <2>4, <2>5, <3>1 DEF Holds
  <2>7. Paid'
    BY <1>1, <2>1 DEF AttInv, Paid
  <2>8. OneOpen'
    BY <1>1, <2>1 DEF AttInv, OneOpen
  <2>9. Past' /\ Asked'
    <3>1. active \in Nat /\ \A j \in DOMAIN atts : atts[j].turn <= active
      BY <1>1, Fields DEF AttInv, Past
    <3>2. \A j \in DOMAIN atts' : atts'[j].turn <= active
      BY <2>1, <3>1
    <3> QED BY <1>2, <2>3, <3>2 DEF Past, Asked
  <2>10. Tokens'
    BY <1>1, <2>2, <2>4, <2>5, DriverFields DEF AttInv, Tokens
  <2>11. Drives'
    <3>1. ASSUME NEW e \in Drivers, Busy(e)', e # d
          PROVE  /\ drv'[e].att \in DOMAIN atts' /\ atts'[drv'[e].att].turn = drv'[e].turn
                 /\ drv'[e].step \in {"wait", "edge", "complete"} =>
                      atts'[drv'[e].att].st # "reserved"
                 /\ ~Holds(e)' /\ drv'[e].step # "send"
      <4>1. Busy(e) /\ drv'[e] = drv[e] /\ drv[e].att \in DOMAIN atts
        BY <1>1, <2>4, <2>5, <3>1 DEF AttInv, Drives
      <4>2. drv'[e].att \in DOMAIN atts' /\ atts'[drv'[e].att] = atts[drv[e].att]
        BY <2>1, <4>1
      <4> QED BY <1>1, <1>3, <2>6, <3>1, <4>1, <4>2 DEF AttInv, Drives
    <3>2. \A j \in DOMAIN atts' : atts'[j].turn <= active
      BY <1>2, <2>9 DEF Past
    <3> QED BY <2>1, <2>4, <3>1, <3>2 DEF Drives
  <2>12. Launched'
    BY <1>1, <1>2, <2>1 DEF AttInv, Launched
  <2>13. Dead'
    <3>1. \A e \in Drivers : e # d => ~Holds(e)'
      BY <2>6
    <3> QED BY <1>1, <1>2, <2>4, <3>1 DEF AttInv, Dead
  <2>14. Ready'
    BY <1>1, <1>2, <2>1, <2>2 DEF AttInv, Ready
  <2>15. Current'
    BY <1>2, <1>4 DEF Current
  <2> QED BY <2>1, <2>7, <2>8, <2>9, <2>10, <2>11, <2>12, <2>13, <2>14, <2>15 DEF AttInv
<1> QED BY <1>5, <1>6 DEF Claim

-----------------------------------------------------------------------------
(* The initial states.                                                       *)
LEMMA TurnCases == \A t \in TurnIds : t = 1 \/ t = 2 \/ t > 2
<1>1. MaxTurns \in Nat
  BY ConstantAssumption
<1>2. SUFFICES ASSUME NEW t \in 1..MaxTurns PROVE t = 1 \/ t = 2 \/ t > 2
  BY DEF TurnIds
<1> QED BY <1>1

(* The turns when the release changes.                                       *)
LEMMA StartTurns ==
  ASSUME active = 1 \/ active = 2, res = 0 \/ res = 1, notice \in BOOLEAN,
         turns \in [TurnIds -> TurnR], \A t \in TurnIds : t # 1 /\ t # 2 => turns[t] = NoTurn,
         exec = IF turns[active].st = "sent" THEN active ELSE 0,
         turns[1].req = FALSE, turns[2].req = FALSE, turns[1].st # "none", turns[1].parent = 0,
         res = 1 => turns[1].kind = "result", turns[1].st = "queued" => active = 1,
         active = 1 <=> turns[2].st = "none", turns[2].kind \notin {"resume", "result"}
  PROVE  TurnsInv /\ active \in TurnIds /\ res \in 0..MaxTurns /\ exec \in 0..MaxTurns
<1>1. MaxTurns \in Nat /\ MaxTurns >= 2 /\ 1 \in TurnIds /\ 2 \in TurnIds
      /\ TurnIds \subseteq Nat \ {0}
  BY ConstantAssumption DEF TurnIds
<1>2. NoTurn.st = "none" /\ NoTurn.kind = "none" /\ NoTurn.req = FALSE /\ NoTurn.parent = 0
  BY DEF NoTurn
<1>3. active \in TurnIds
  BY <1>1
<1>4. \A t \in TurnIds : turns[t].req = FALSE
  BY <1>2, <1>3
<1>5. \A t \in TurnIds : turns[t].st = "none" <=> t > active
  <2>1. \A t \in TurnIds : t = 1 \/ t = 2 \/ t > 2
    BY TurnCases
  <2>2. active = 1 \/ active = 2
    OBVIOUS
  <2> QED BY <1>1, <1>2, <1>3, <2>1, <2>2
<1>6. InRow
  <2>1. \A t, u \in TurnIds : t > active /\ ~(u > active) => u < t
    BY <1>1
  <2>2. ~(active > active) /\ active \in TurnIds
    BY <1>1
  <2> QED BY <1>5, <2>1, <2>2 DEF InRow
<1>7. Requests /\ Room /\ Authorized
  BY <1>3, <1>4 DEF Requests, Room, Authorized
<1>8. Executes
  BY <1>1, <1>3 DEF Executes
<1>9. Ahead
  BY <1>5 DEF Ahead
<1>10. Lineage
  <2>1. \A u \in TurnIds : turns[u].kind \in {"resume", "result"} => u = 1
    BY <1>2, <1>3
  <2>2. turns[1].parent = 0 /\ 0 < active
    BY <1>1, <1>3
  <2> QED BY <2>1, <2>2 DEF Lineage
<1>11. Callback
  BY <1>1, <1>3 DEF Callback
<1>12. res \in 0..MaxTurns /\ exec \in 0..MaxTurns
  BY <1>1, <1>3
<1> QED BY <1>3, <1>6, <1>7, <1>8, <1>9, <1>10, <1>11, <1>12 DEF TurnsInv

(* The invariant holds at first.                                             *)
LEMMA InitInv == Init => Inv
<1> SUFFICES ASSUME Init PROVE Inv
  OBVIOUS
<1>0. 0 \in 0..MaxTurns /\ 1 \in 0..MaxTurns
  BY ConstantAssumption
<1>n. NoTurn \in TurnR /\ NoTurn.req = FALSE /\ NoTurn.st = "none" /\ NoTurn.kind = "none"
  BY <1>0 DEF NoTurn, TurnR
<1>t. 1 \in TurnIds /\ 2 \in TurnIds
  BY ConstantAssumption DEF TurnIds
<1>1. TurnsInv /\ active \in TurnIds /\ turns \in [TurnIds -> TurnR]
      /\ res \in 0..MaxTurns /\ exec \in 0..MaxTurns /\ notice \in BOOLEAN
  <2>1. CASE Start(1, T("input", "sent", TRUE, 0), NoTurn, 0)
    <3> DEFINE x == T("input", "sent", TRUE, 0)
    <3>1. x \in TurnR /\ x.kind = "input" /\ x.st = "sent" /\ x.parent = 0 /\ x.req = FALSE
      BY <1>0 DEF T, NoTurn, TurnR
    <3>3. /\ active = 1 /\ res = 0 /\ notice \in BOOLEAN
          /\ turns = [t \in TurnIds |-> IF t = 1 THEN x ELSE IF t = 2 THEN NoTurn ELSE NoTurn]
          /\ exec = IF turns[active].st = "sent" THEN active ELSE 0
      BY <2>1 DEF Start
    <3> HIDE DEF x
    <3>4. /\ turns \in [TurnIds -> TurnR] /\ turns[1] = x /\ turns[2] = NoTurn
          /\ \A t \in TurnIds : t # 1 /\ t # 2 => turns[t] = NoTurn
      BY <3>1, <3>3, <1>n, <1>t
    <3> QED BY <3>1, <3>3, <3>4, <1>n, StartTurns
  <2>2. CASE Start(1, T("result", "sent", TRUE, 0), NoTurn, 1)
    <3> DEFINE x == T("result", "sent", TRUE, 0)
    <3>1. x \in TurnR /\ x.kind = "result" /\ x.st = "sent" /\ x.parent = 0 /\ x.req = FALSE
      BY <1>0 DEF T, NoTurn, TurnR
    <3>3. /\ active = 1 /\ res = 1 /\ notice \in BOOLEAN
          /\ turns = [t \in TurnIds |-> IF t = 1 THEN x ELSE IF t = 2 THEN NoTurn ELSE NoTurn]
          /\ exec = IF turns[active].st = "sent" THEN active ELSE 0
      BY <2>2 DEF Start
    <3> HIDE DEF x
    <3>4. /\ turns \in [TurnIds -> TurnR] /\ turns[1] = x /\ turns[2] = NoTurn
          /\ \A t \in TurnIds : t # 1 /\ t # 2 => turns[t] = NoTurn
      BY <3>1, <3>3, <1>n, <1>t
    <3> QED BY <3>1, <3>3, <3>4, <1>n, StartTurns
  <2>3. CASE Start(2, T("result", "finished", TRUE, 0), T("input", "sent", TRUE, 0), 1)
    <3> DEFINE x == T("result", "finished", TRUE, 0)
               y == T("input", "sent", TRUE, 0)
    <3>1. x \in TurnR /\ x.kind = "result" /\ x.st = "finished" /\ x.parent = 0 /\ x.req = FALSE
      BY <1>0 DEF T, NoTurn, TurnR
    <3>2. y \in TurnR /\ y.kind = "input" /\ y.st = "sent" /\ y.req = FALSE
      BY <1>0 DEF T, NoTurn, TurnR
    <3>3. /\ active = 2 /\ res = 1 /\ notice \in BOOLEAN
          /\ turns = [t \in TurnIds |-> IF t = 1 THEN x ELSE IF t = 2 THEN y ELSE NoTurn]
          /\ exec = IF turns[active].st = "sent" THEN active ELSE 0
      BY <2>3 DEF Start
    <3> HIDE DEF x, y
    <3>4. /\ turns \in [TurnIds -> TurnR] /\ turns[1] = x /\ turns[2] = y
          /\ \A t \in TurnIds : t # 1 /\ t # 2 => turns[t] = NoTurn
      BY <3>1, <3>2, <3>3, <1>n, <1>t
    <3> QED BY <3>1, <3>2, <3>3, <3>4, <1>n, StartTurns
  <2>4. CASE Start(1, T("result", "queued", FALSE, 0), NoTurn, 1)
    <3> DEFINE x == T("result", "queued", FALSE, 0)
    <3>1. x \in TurnR /\ x.kind = "result" /\ x.st = "queued" /\ x.parent = 0 /\ x.req = FALSE
      BY <1>0 DEF T, NoTurn, TurnR
    <3>3. /\ active = 1 /\ res = 1 /\ notice \in BOOLEAN
          /\ turns = [t \in TurnIds |-> IF t = 1 THEN x ELSE IF t = 2 THEN NoTurn ELSE NoTurn]
          /\ exec = IF turns[active].st = "sent" THEN active ELSE 0
      BY <2>4 DEF Start
    <3> HIDE DEF x
    <3>4. /\ turns \in [TurnIds -> TurnR] /\ turns[1] = x /\ turns[2] = NoTurn
          /\ \A t \in TurnIds : t # 1 /\ t # 2 => turns[t] = NoTurn
      BY <3>1, <3>3, <1>n, <1>t
    <3> QED BY <3>1, <3>3, <3>4, <1>n, StartTurns
  <2>5. CASE Start(1, T("input", "queued", FALSE, 0), NoTurn, 0)
    <3> DEFINE x == T("input", "queued", FALSE, 0)
    <3>1. x \in TurnR /\ x.kind = "input" /\ x.st = "queued" /\ x.parent = 0 /\ x.req = FALSE
      BY <1>0 DEF T, NoTurn, TurnR
    <3>3. /\ active = 1 /\ res = 0 /\ notice \in BOOLEAN
          /\ turns = [t \in TurnIds |-> IF t = 1 THEN x ELSE IF t = 2 THEN NoTurn ELSE NoTurn]
          /\ exec = IF turns[active].st = "sent" THEN active ELSE 0
      BY <2>5 DEF Start
    <3> HIDE DEF x
    <3>4. /\ turns \in [TurnIds -> TurnR] /\ turns[1] = x /\ turns[2] = NoTurn
          /\ \A t \in TurnIds : t # 1 /\ t # 2 => turns[t] = NoTurn
      BY <3>1, <3>3, <1>n, <1>t
    <3> QED BY <3>1, <3>3, <3>4, <1>n, StartTurns
  <2>6. CASE Start(2, T("input", "finished", TRUE, 0), T("final", "queued", FALSE, 1), 0)
    <3> DEFINE x == T("input", "finished", TRUE, 0)
               y == T("final", "queued", FALSE, 1)
    <3>1. x \in TurnR /\ x.kind = "input" /\ x.st = "finished" /\ x.parent = 0 /\ x.req = FALSE
      BY <1>0 DEF T, NoTurn, TurnR
    <3>2. y \in TurnR /\ y.kind = "final" /\ y.st = "queued" /\ y.req = FALSE
      BY <1>0 DEF T, NoTurn, TurnR
    <3>3. /\ active = 2 /\ res = 0 /\ notice \in BOOLEAN
          /\ turns = [t \in TurnIds |-> IF t = 1 THEN x ELSE IF t = 2 THEN y ELSE NoTurn]
          /\ exec = IF turns[active].st = "sent" THEN active ELSE 0
      BY <2>6 DEF Start
    <3> HIDE DEF x, y
    <3>4. /\ turns \in [TurnIds -> TurnR] /\ turns[1] = x /\ turns[2] = y
          /\ \A t \in TurnIds : t # 1 /\ t # 2 => turns[t] = NoTurn
      BY <3>1, <3>2, <3>3, <1>n, <1>t
    <3> QED BY <3>1, <3>2, <3>3, <3>4, <1>n, StartTurns
  <2> QED BY <2>1, <2>2, <2>3, <2>4, <2>5, <2>6 DEF Init
<1>2. /\ wf = "open" /\ atts = <<>> /\ op = NoOp /\ life = "running" /\ compat = FALSE
      /\ pane = [what |-> "old", att |-> 0] /\ drv = [d \in Drivers |-> Resting]
      /\ reap = "none" /\ tokens = 0
  BY DEF Init
<1>3. Typed
  <2>1. drv \in [Drivers -> DriverR]
    BY <1>2, RestingTyped
  <2>2. op \in [kind : {"none", "reconnect", "retire"}, tok : Nat, live : BOOLEAN]
    BY <1>2 DEF NoOp
  <2>3. atts \in Seq(Attempt) /\ tokens \in Nat /\ pane \in [what : {"old", "shell", "fresh"}, att : Nat]
    BY <1>2
  <2> QED BY <1>1, <1>2, <2>1, <2>2, <2>3 DEF Typed
<1>4. \A d \in Drivers : drv[d].step = "idle"
  BY <1>2 DEF Resting
<1>5. DOMAIN atts = {} /\ Len(atts) = 0
  BY <1>2
<1>6. Budget
  <2>1. \A t \in TurnIds : Mine(t) = {}
    BY <1>5 DEF Mine
  <2> QED BY <2>1, FS_EmptySet, ConstantAssumption DEF Budget
<1>7. AttInv
  <2>1. Paid /\ OneOpen /\ Past /\ Asked /\ Ready
    BY <1>5 DEF Paid, OneOpen, Past, Asked, Ready
  <2>2. Tokens /\ Drives
    BY <1>2, <1>4 DEF Tokens, Drives, Busy, NoOp
  <2>3. Launched /\ Dead /\ Current
    BY <1>2 DEF Launched, Dead, Current
  <2> QED BY <1>6, <2>1, <2>2, <2>3 DEF AttInv
<1> QED BY <1>1, <1>3, <1>7 DEF Inv

(* Every step keeps it.                                                      *)
LEMMA NextInv == Inv /\ [Next]_vars => Inv'
<1> SUFFICES ASSUME Inv, [Next]_vars PROVE Inv'
  OBVIOUS
<1>1. CASE Request \/ Settle \/ Final \/ Acknowledge \/ Resume \/ Input \/ Transport \/ Receive
  BY <1>1, FlowAttempts
<1>2. ASSUME NEW d \in Drivers, Claim(d)
      PROVE  Inv'
  BY <1>2, ClaimTurns, ClaimSteps DEF Inv
<1>3. ASSUME NEW d \in Drivers, Drive(d)
      PROVE  Inv'
  <2>1. CASE Verify(d) \/ Exit(d) \/ Mark(d) \/ Send(d) \/ Wait(d) \/ Edge(d)
    <3>1. Typed' /\ TurnsInv'
      BY <2>1, DriveTurns
    <3>2. AttInv'
      BY <2>1, WaitingSteps, ExitSteps, MarkSteps, SendSteps
    <3> QED BY <3>1, <3>2 DEF Inv
  <2>2. CASE Complete(d)
    <3>1. Typed' /\ TurnsInv'
      BY <2>2, CompleteTurns
    <3> QED BY <2>2, <3>1, CompleteSteps DEF Inv
  <2>3. CASE Fail(d)
    BY <2>3, FailTurns, FailSteps DEF Inv
  <2> QED BY <1>3, <2>1, <2>2, <2>3 DEF Drive
<1>4. CASE Register \/ ExitClaim \/ Observe \/ Expire \/ Crash
  <2>1. Typed' /\ TurnsInv'
    BY <1>4, OtherTurns
  <2>2. AttInv'
    BY <1>4, RegisterAttempts, EndSteps, ExpireSteps, CrashSteps
  <2> QED BY <2>1, <2>2 DEF Inv
<1>5. CASE ExitDone \/ Reap
  BY <1>5, EndTurns, EndSteps DEF Inv
<1>6. CASE UNCHANGED vars
  <2>1. UNCHANGED <<Typed, TurnsInv, AttInv>>
    BY <1>6 DEF vars, Typed, TurnsInv, InRow, Requests, Room, Executes, Authorized, Ahead,
       Lineage,
       Callback, Free, AttInv, Paid, OneOpen, Budget, Mine, Past, Asked, Tokens, Drives, Launched,
       Dead, Ready, Current, Holds, Busy
  <2> QED BY <2>1 DEF Inv
<1> QED BY <1>1, <1>2, <1>3, <1>4, <1>5, <1>6 DEF Next, Tick

(* The invariant of the reconnect: claims, attempts, turns and pane agree    *)
(* after every step of the transactions of clients/database.py, the ticks    *)
(* and the reconciliation of the runtime.                                    *)
THEOREM ReconnectInv == Spec => []Inv
BY InitInv, NextInv, PTL DEF Spec

(* mark_workflow_provider_reconnect_launch_dispatched pays for a launch: no  *)
(* attempt is launched twice however often its drivers are replaced, and the *)
(* budget of a turn with one open attempt holds.                             *)
THEOREM LaunchPaid == Spec => []LaunchedOnce
<1>1. ASSUME Inv PROVE LaunchedOnce
  <2>1. Typed /\ AttInv
    BY <1>1 DEF Inv
  <2>2. \A k \in DOMAIN atts : atts[k].launches <= 1
    BY <2>1 DEF AttInv, Paid
  <2>3. ASSUME NEW t \in TurnIds
        PROVE  Cardinality({k \in Mine(t) : atts[k].st \in Open}) <= 1
    <3> DEFINE S == {k \in Mine(t) : atts[k].st \in Open}
    <3>1. \A i, j \in S : i = j
      <4>1. DOMAIN atts = 1..Len(atts)
        BY <2>1, Attempts
      <4> QED BY <2>1, <4>1 DEF AttInv, OneOpen, Mine
    <3>2. CASE S = {}
      <4> HIDE DEF S
      <4>1. Cardinality(S) = 0
        BY <3>2, FS_EmptySet
      <4> QED BY <4>1 DEF S
    <3>3. CASE S # {}
      <4>1. PICK x \in S : TRUE
        BY <3>3
      <4>2. S = {x}
        BY <3>1, <4>1
      <4> HIDE DEF S
      <4>3. Cardinality(S) = 1
        BY <4>2, FS_Singleton
      <4> QED BY <4>3 DEF S
    <3> QED BY <3>2, <3>3
  <2> QED BY <2>1, <2>2, <2>3 DEF LaunchedOnce, AttInv, Budget
<1> QED BY <1>1, ReconnectInv, PTL

(* complete_workflow_provider_reconnect puts the interrupted work first: one *)
(* successor for a turn, and no later input is sent while an unacknowledged  *)
(* callback waits to be delivered again.                                     *)
THEOREM WorkGoesOn == Spec => []InterruptedFirst
<1>1. ASSUME Inv PROVE InterruptedFirst
  <2>1. Typed /\ TurnsInv
    BY <1>1 DEF Inv
  <2>2. ASSUME NEW t \in TurnIds
        PROVE  Cardinality({u \in TurnIds : /\ turns[u].parent = t
                                            /\ turns[u].kind \in {"resume", "result"}}) <= 1
    <3> DEFINE S == {u \in TurnIds : /\ turns[u].parent = t
                                     /\ turns[u].kind \in {"resume", "result"}}
    <3>1. \A i, j \in S : i = j
      <4>1. t # 0
        BY <2>1, Fields
      <4> QED BY <2>1, <4>1 DEF TurnsInv, Lineage
    <3>2. CASE S = {}
      <4> HIDE DEF S
      <4>1. Cardinality(S) = 0
        BY <3>2, FS_EmptySet
      <4> QED BY <4>1 DEF S
    <3>3. CASE S # {}
      <4>1. PICK x \in S : TRUE
        BY <3>3
      <4>2. S = {x}
        BY <3>1, <4>1
      <4> HIDE DEF S
      <4>3. Cardinality(S) = 1
        BY <4>2, FS_Singleton
      <4> QED BY <4>3 DEF S
    <3> QED BY <3>2, <3>3
  <2>3. ASSUME wf = "open", res # 0, turns[res].st = "queued", NEW u \in TurnIds, u > res
        PROVE  turns[u].st # "sent"
    BY <2>1, <2>3, Fields DEF TurnsInv, Callback, Ahead
  <2> QED BY <2>2, <2>3 DEF InterruptedFirst
<1> QED BY <1>1, ReconnectInv, PTL

-----------------------------------------------------------------------------
(* No step but the transport sends a turn that was queued.                   *)
Sends == \E t \in TurnIds : turns[t].st = "queued" /\ turns'[t].st = "sent"

(* A row changes elsewhere than in its state.                                *)
LEMMA RowKept ==
  ASSUME Typed, NEW r, turns' = [turns EXCEPT ![active] = r], r.st = turns[active].st
  PROVE  ~Sends
<1>1. turns \in [TurnIds -> TurnR] /\ active \in TurnIds
  BY DEF Typed
<1>2. \A t \in TurnIds : turns'[t].st = turns[t].st
  BY <1>1
<1> QED BY <1>2 DEF Sends

(* A turn is added, the others are not sent.                                 *)
LEMMA AddedQuiet ==
  ASSUME Typed, Free # {}, \A t \in TurnIds \ {Fresh} : turns'[t].st = "sent" => turns[t].st = "sent"
  PROVE  ~Sends
<1>1. turns[Fresh].st = "none"
  BY FreshOf
<1> QED BY <1>1 DEF Sends

(* The workflow around the reconnect sends nothing else.                     *)
LEMMA FlowSends ==
  ASSUME Inv, Request \/ Settle \/ Final \/ Acknowledge \/ Resume \/ Input \/ Receive
  PROVE  ~Sends
<1>1. Typed /\ TurnsInv /\ active \in TurnIds /\ turns \in [TurnIds -> TurnR]
  BY DEF Inv, Typed
<1>2. CASE Settle \/ Acknowledge
  <2>1. turns' = turns
    BY <1>2 DEF Settle, Acknowledge
  <2> QED BY <2>1 DEF Sends
<1>3. CASE Request
  <2> DEFINE r == [turns[active] EXCEPT !.req = TRUE, !.tok = 0]
  <2>1. r.st = turns[active].st /\ turns' = [turns EXCEPT ![active] = r]
    BY <1>1, <1>3 DEF TurnR, Request
  <2> HIDE DEF r
  <2> QED BY <1>1, <2>1, RowKept
<1>4. CASE Receive
  <2> DEFINE r == [turns[active] EXCEPT !.got = TRUE]
  <2>1. r.st = turns[active].st
    BY <1>1 DEF TurnR
  <2>2. exec = active
    BY <1>1, <1>4 DEF TurnsInv, Executes, Receive
  <2>3. turns' = [turns EXCEPT ![active] = r]
    BY <1>4, <2>2 DEF Receive
  <2> HIDE DEF r
  <2> QED BY <1>1, <2>1, <2>3, RowKept
<1>5. CASE Final
  <2> DEFINE r == [turns[active] EXCEPT !.st = "finished"]
             q == T("final", "queued", FALSE, active)
  <2>1. r.st = "finished"
    BY <1>1 DEF TurnR
  <2>2. turns' = [turns EXCEPT ![active] = r, ![Fresh] = q]
    BY <1>5 DEF Final
  <2>3. Free # {}
    BY <1>1, <1>5, TwoFree DEF Final
  <2> HIDE DEF r, q
  <2>4. \A t \in TurnIds \ {Fresh} : turns'[t].st = "sent" => turns[t].st = "sent"
    BY <1>1, <2>1, <2>2
  <2> QED BY <1>1, <2>3, <2>4, AddedQuiet
<1>6. CASE Resume
  <2> DEFINE r == [turns[active] EXCEPT !.resumed = TRUE, !.st = "finished"]
             q == T("resume", "sent", TRUE, active)
  <2>1. r.st = "finished" /\ exec = active
    BY <1>1, <1>6 DEF TurnR, TurnsInv, Executes, Resume
  <2>2. turns' = [turns EXCEPT ![active] = r, ![Fresh] = q]
    BY <1>6, <2>1 DEF Resume
  <2>3. Free # {}
    BY <1>1, <1>6, TwoFree DEF Resume
  <2> HIDE DEF r, q
  <2>4. \A t \in TurnIds \ {Fresh} : turns'[t].st = "sent" => turns[t].st = "sent"
    BY <1>1, <2>1, <2>2
  <2> QED BY <1>1, <2>3, <2>4, AddedQuiet
<1>7. CASE Input
  <2> DEFINE q == [T("input", "queued", FALSE, 0) EXCEPT !.req = ~Predecessor]
             row(t) == [turns[t] EXCEPT !.st = "cancelled"]
  <2>1. \A t \in TurnIds : row(t).st = "cancelled"
    BY <1>1 DEF TurnR
  <2>2. turns' = [t \in TurnIds |-> IF t = Fresh THEN q ELSE IF Superseded(t) THEN row(t) ELSE turns[t]]
    BY <1>7 DEF Input
  <2>3. Free # {}
    BY <1>1, <1>7, TwoFree DEF Input
  <2> HIDE DEF row, q
  <2>4. \A t \in TurnIds \ {Fresh} : turns'[t].st = "sent" => turns[t].st = "sent"
    BY <1>1, <2>1, <2>2
  <2> QED BY <1>1, <2>3, <2>4, AddedQuiet
<1> QED BY <1>2, <1>3, <1>4, <1>5, <1>6, <1>7

(* No tick sends a turn.                                                     *)
LEMMA DriverSends ==
  ASSUME Inv, NEW d \in Drivers, Claim(d) \/ Drive(d)
  PROVE  ~Sends
<1>1. Typed /\ TurnsInv /\ active \in TurnIds /\ turns \in [TurnIds -> TurnR]
  BY DEF Inv, Typed
<1>2. CASE turns' = turns
  BY <1>2 DEF Sends
<1>3. CASE turns' = Gated
  <2>1. \A t \in TurnIds : Gated[t].st = IF turns[t].st = "queued" THEN "cancelled" ELSE turns[t].st
    BY <1>1, GatedTurns
  <2> QED BY <1>3, <2>1 DEF Sends
<1>4. ASSUME NEW n, turns' = [turns EXCEPT ![active].tok = n]
      PROVE  ~Sends
  <2> DEFINE r == [turns[active] EXCEPT !.tok = n]
  <2>1. r.st = turns[active].st /\ turns' = [turns EXCEPT ![active] = r]
    BY <1>1, <1>4 DEF TurnR
  <2> HIDE DEF r
  <2> QED BY <1>1, <2>1, RowKept
<1>5. CASE Claim(d)
  <2>1. turns' = Gated \/ turns' = [turns EXCEPT ![active].tok = tokens + 1]
    BY <1>5 DEF Claim, GiveUp, TakeOver
  <2> QED BY <1>3, <1>4, <2>1
<1>6. CASE Fail(d)
  <2>1. turns' = turns \/ turns' = Gated \/ turns' = [turns EXCEPT ![active].tok = 0]
    BY <1>6 DEF Fail
  <2> QED BY <1>2, <1>3, <1>4, <2>1
<1>7. CASE Complete(d)
  <2>1. CASE ~Completable(d)
    BY <1>2, <1>7, <2>1 DEF Complete, flow
  <2>2. CASE Completable(d)
    <3>1. Free # {}
      <4>1. turns[active].req
        BY <2>2 DEF Completable
      <4> QED BY <1>1, <4>1 DEF TurnsInv, Room
    <3>2. CASE Successor \in {"result", "resume"}
      <4>1. turns' = Continued(Successor)
        BY <1>7, <2>2, <3>2 DEF Complete
      <4>2. ASSUME NEW kind \in {"result", "resume"}, turns' = Continued(kind)
            PROVE  \A t \in TurnIds \ {Fresh} : turns'[t].st = "sent" => turns[t].st = "sent"
        BY <1>1, <3>1, <4>2, ContinuedTurns
      <4>3. \A t \in TurnIds \ {Fresh} : turns'[t].st = "sent" => turns[t].st = "sent"
        BY <3>2, <4>1, <4>2
      <4> QED BY <1>1, <3>1, <4>3, AddedQuiet
    <3>3. CASE Successor = "input"
      <4>1. turns' = Activated
        BY <1>7, <2>2, <3>3 DEF Complete
      <4> QED BY <1>1, <4>1, ActivatedTurns DEF Sends
    <3>4. CASE Successor \in {"same", "gate"}
      <4>1. turns' = Idle
        BY <1>7, <2>2, <3>4 DEF Complete, Idle
      <4> QED BY <1>1, <4>1, IdleTurns DEF Sends
    <3>5. Successor \in {"same", "input", "resume", "gate", "result"}
      BY DEF Successor
    <3> QED BY <3>2, <3>3, <3>4, <3>5
  <2> QED BY <2>1, <2>2
<1>8. CASE Verify(d) \/ Exit(d) \/ Mark(d) \/ Send(d) \/ Wait(d) \/ Edge(d)
  <2>1. turns' = turns
    BY <1>8 DEF Verify, Exit, Mark, Send, Wait, Edge, flow
  <2> QED BY <1>2, <2>1
<1> QED BY <1>5, <1>6, <1>7, <1>8 DEF Drive

(* Neither does the end of the runtime.                                      *)
LEMMA OtherSends ==
  ASSUME Inv, Register \/ ExitClaim \/ ExitDone \/ Observe \/ Reap \/ Expire \/ Crash
  PROVE  ~Sends
<1>1. turns' = turns \/ turns' = Cancelled
  BY DEF Register, ExitClaim, ExitDone, Observe, Reap, Expire, Crash, flow
<1>2. \A t \in TurnIds : Cancelled[t].st = IF turns[t].st = "queued" THEN "cancelled" ELSE turns[t].st
  BY CancelledTurns DEF Inv
<1> QED BY <1>1, <1>2 DEF Sends

(* A running terminal is declared dead by the reconciliation alone.          *)
LEMMA Ends ==
  ASSUME Next, life = "running", life' = "ended"
  PROVE  Reap
<1>1. \A d \in Drivers : Claim(d) \/ Drive(d) => life' = life
  BY DEF Claim, Drive, Verify, Exit, Mark, Send, Wait, Edge, Complete, Fail
<1>2. Request \/ Settle \/ Final \/ Acknowledge \/ Resume \/ Input \/ Transport \/ Receive => life' = life
  BY DEF Request, Settle, Final, Acknowledge, Resume, Input, Transport, Receive
<1>3. Register \/ Observe \/ Expire \/ Crash => life' = life
  BY DEF Register, Observe, Expire, Crash
<1>4. ~ExitClaim /\ ~ExitDone
  BY DEF ExitClaim, ExitDone
<1> QED BY <1>1, <1>2, <1>3, <1>4 DEF Next, Tick

(* reconcile_terminal_runtime declares no terminal dead whose pane runs a    *)
(* provider, and the transport sends a queued turn to a fresh process only,  *)
(* whose attempt has succeeded.                                              *)
THEOREM PaneKnown == Spec => PaneIsKnown
<1> DEFINE Known ==
       /\ life = "running" /\ life' = "ended" => pane.what = "shell"
       /\ \A t \in TurnIds : turns[t].st = "queued" /\ turns'[t].st = "sent"
            => pane.what = "fresh" /\ atts[pane.att].st = "succeeded"
<1>1. Inv /\ [Next]_vars => [Known]_vars
  <2> SUFFICES ASSUME Inv, Next PROVE Known
    OBVIOUS
  <2>1. AttInv
    BY DEF Inv
  <2>2. ASSUME life = "running", life' = "ended"
        PROVE  pane.what = "shell"
    <3>1. Reap
      BY <2>2, Ends
    <3>2. reap = "dead"
      BY <3>1 DEF Reap
    <3> QED BY <2>1, <2>2, <3>2 DEF AttInv, Dead
  <2>3. ASSUME NEW t \in TurnIds, turns[t].st = "queued", turns'[t].st = "sent"
        PROVE  pane.what = "fresh" /\ atts[pane.att].st = "succeeded"
    <3>1. Sends
      BY <2>3 DEF Sends
    <3>2. \A d \in Drivers : ~Claim(d) /\ ~Drive(d)
      BY <3>1, DriverSends
    <3>3. Transport
      BY <3>1, <3>2, FlowSends, OtherSends DEF Next, Tick
    <3>4. compat /\ life = "running"
      BY <3>3 DEF Transport, Transportable
    <3> QED BY <2>1, <3>4 DEF AttInv, Current
  <2> QED BY <2>2, <2>3
<1> QED BY <1>1, ReconnectInv, PTL DEF Spec, PaneIsKnown
==============================================================================
