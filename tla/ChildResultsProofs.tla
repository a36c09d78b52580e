------------------------- MODULE ChildResultsProofs -------------------------
(***************************************************************************)
(* Every attempt queues one notice, a result that ended keeps its outcome, *)
(* a parent that completed has consumed what it was promised, what is      *)
(* delivered to it was in its pane, and no notice that waits is orphaned,  *)
(* for any number of children, notices, turns, crashes and lapsed claims.  *)
(*                                                                         *)
(* The first part types the rows and gives them their numbers (Base), the  *)
(* second relates notices to assignments (NoticeInv), the third relates    *)
(* assignments to results (OutcomeInv), the fourth relates the             *)
(* dispatcher's batch, the turns and the pane (DeliverInv), and the fifth  *)
(* says where a turn without a receipt stands (OrphanInv), the last three  *)
(* while no handler was overtaken.                                         *)
(***************************************************************************)
EXTENDS ChildResults, FiniteSetTheorems, SequenceTheorems, WellFoundedInduction, TLAPS

(* The least and the greatest of a set of naturals.                         *)
LEMMA MinOf ==
  ASSUME NEW S \in SUBSET Nat, S # {}
  PROVE  Min(S) \in S /\ \A y \in S : Min(S) <= y
<1>1. PICK x \in S : \A y \in S : ~(<<y, x>> \in OpToRel(<, Nat))
  BY NatLessThanWellFounded, WFMin
<1>2. \A y \in S : x <= y
  <2> TAKE y \in S
  <2>1. ~(y < x)
    BY <1>1 DEF OpToRel
  <2> QED BY <2>1
<1> QED BY <1>1, <1>2 DEF Min

(* The least of a set of positive numbers, 0 when there is none.            *)
LEMMA LeastOf ==
  ASSUME NEW S \in SUBSET (Nat \ {0})
  PROVE  /\ Least(S) = 0 <=> S = {}
         /\ Least(S) # 0 => Least(S) \in S
         /\ Least(S) \in Nat
<1>1. S # {} => Min(S) \in S
  BY MinOf
<1> QED BY <1>1 DEF Least

(* A finite set of naturals is counted by the ranks of its elements.        *)
LEMMA Ranks ==
  ASSUME NEW S \in SUBSET Nat, IsFiniteSet(S)
  PROVE  /\ Cardinality(S) \in Nat
         /\ \A x \in S : Rank(S, x) \in 1..Cardinality(S) /\ Nth(S, Rank(S, x)) = x
         /\ \A i \in 1..Cardinality(S) : Nth(S, i) \in S /\ Rank(S, Nth(S, i)) = i
<1> DEFINE k == Cardinality(S)
           below(x) == {m \in S : m <= x}
           rank == [x \in S |-> Rank(S, x)]
<1>1. k \in Nat
  BY FS_CardinalityType
<1>2. ASSUME NEW x \in S
      PROVE  IsFiniteSet(below(x)) /\ Rank(S, x) \in 1..k
  <2>1. below(x) \in SUBSET S /\ x \in below(x)
    OBVIOUS
  <2>2. IsFiniteSet(below(x)) /\ Cardinality(below(x)) <= k
    BY <2>1, FS_Subset
  <2>3. Cardinality(below(x)) \in Nat
    BY <2>2, FS_CardinalityType
  <2>4. Cardinality(below(x)) # 0
    BY <2>1, <2>2, FS_EmptySet
  <2> QED BY <1>1, <2>2, <2>3, <2>4 DEF Rank
<1>3. ASSUME NEW x \in S, NEW y \in S, Rank(S, x) = Rank(S, y)
      PROVE  ~(x < y)
  <2> SUFFICES ASSUME x < y PROVE FALSE
    OBVIOUS
  <2>1. \A m \in S : m <= x => m <= y
    OBVIOUS
  <2>2. y <= y /\ ~(y <= x)
    OBVIOUS
  <2>3. below(x) \in SUBSET below(y) /\ y \in below(y) /\ y \notin below(x)
    BY <2>1, <2>2
  <2>4. below(x) = below(y)
    BY <1>2, <1>3, <2>3, FS_Subset DEF Rank
  <2> QED BY <2>3, <2>4
<1>4. \A x, y \in S : Rank(S, x) = Rank(S, y) => x = y
  BY <1>3
<1>5. rank \in Injection(S, 1..k)
  BY <1>2, <1>4 DEF Injection, IsInjective
<1>6. IsFiniteSet(1..k) /\ Cardinality(1..k) = k
  BY <1>1, FS_Interval
<1>7. rank \in Surjection(S, 1..k)
  BY <1>5, <1>6, FS_Injection
<1>8. \A i \in 1..k : \E x \in S : Rank(S, x) = i
  BY <1>7 DEF Surjection
<1>9. ASSUME NEW i \in 1..k
      PROVE  Nth(S, i) \in S /\ Rank(S, Nth(S, i)) = i
  BY <1>8 DEF Nth
<1>10. \A x \in S : Nth(S, Rank(S, x)) = x
  BY <1>2, <1>4, <1>9
<1> QED BY <1>1, <1>2, <1>9, <1>10

-----------------------------------------------------------------------------
(* The writes a tick has left.                                              *)
Item == ({"inbox", "read"} \X Notices) \cup ({"mark"} \X Child)

(* Sets of notices are finite sets of positive numbers.                    *)
LEMMA NoticeSets ==
  ASSUME NEW S \in SUBSET Notices
  PROVE  IsFiniteSet(S) /\ S \in SUBSET Nat /\ S \in SUBSET (Nat \ {0})
<1>1. IsFiniteSet(Notices) /\ Notices \in SUBSET (Nat \ {0})
  BY BoundAssumption, FS_Interval DEF Notices
<1> QED BY <1>1, FS_Subset

(* They are made of the notices of a batch.                                 *)
LEMMA InOrderType ==
  ASSUME NEW S \in SUBSET Notices
  PROVE  /\ Cardinality(S) \in Nat
         /\ InOrder(S) \in [1..Cardinality(S) -> S] /\ Len(InOrder(S)) = Cardinality(S)
<1>1. /\ Cardinality(S) \in Nat
      /\ \A i \in 1..Cardinality(S) : Nth(S, i) \in S
  BY NoticeSets, Ranks
<1>2. InOrder(S) \in [1..Cardinality(S) -> S]
  BY <1>1 DEF InOrder
<1>3. InOrder(S) \in Seq(S)
  BY <1>1, <1>2, SeqDef
<1>4. Len(InOrder(S)) = Cardinality(S)
  BY <1>1, <1>2, <1>3, LenProperties
<1> QED BY <1>1, <1>2, <1>4

(* The writes of a batch are of its notices, and none is a mark yet.       *)
LEMMA WritesType ==
  ASSUME NEW S \in SUBSET Notices
  PROVE  /\ Writes(S) \in Seq(Item) /\ WritesEach(S) \in Seq(Item)
         /\ \A i \in 1..Len(Writes(S)) : Writes(S)[i][2] \in S /\ Writes(S)[i][1] # "mark"
<1> DEFINE k == Cardinality(S)
           q == InOrder(S)
           w1 == [i \in 1..k |-> <<"inbox", q[i]>>]
           w2 == [i \in 1..k |-> <<"read", q[i]>>]
<1>1. k \in Nat /\ q \in [1..k -> S] /\ Len(q) = k
  BY InOrderType
<1>2. Writes(S) = w1 \o w2
  BY <1>1 DEF Writes
<1>3. WritesEach(S) = [i \in 1..2 * k |->
                         <<IF i % 2 = 1 THEN "inbox" ELSE "read", q[(i + 1) \div 2]>>]
  BY <1>1 DEF WritesEach
<1> HIDE DEF q
<1>4. w1 \in [1..k -> Item] /\ w2 \in [1..k -> Item]
  BY <1>1 DEF Item
<1>5. w1 \in Seq(Item) /\ w2 \in Seq(Item)
  BY <1>1, <1>4, SeqDef
<1>6. Len(w1) = k /\ Len(w2) = k
  BY <1>1, <1>4, <1>5, LenProperties
<1> HIDE DEF w1, w2
<1>7. /\ w1 \o w2 \in Seq(Item) /\ Len(w1 \o w2) = k + k
      /\ \A i \in 1..k + k : (w1 \o w2)[i] = IF i <= k THEN w1[i] ELSE w2[i - k]
  <2>1. /\ w1 \o w2 \in Seq(Item) /\ Len(w1 \o w2) = Len(w1) + Len(w2)
        /\ \A i \in 1..Len(w1) + Len(w2) : (w1 \o w2)[i] = IF i <= Len(w1) THEN w1[i]
                                                          ELSE w2[i - Len(w1)]
    BY <1>5, ConcatProperties
  <2> QED BY <1>6, <2>1
<1>8. \A i \in 1..k + k : (w1 \o w2)[i][2] \in S /\ (w1 \o w2)[i][1] # "mark"
  <2> SUFFICES ASSUME NEW i \in 1..k + k
               PROVE  (w1 \o w2)[i][2] \in S /\ (w1 \o w2)[i][1] # "mark"
    OBVIOUS
  <2>1. CASE i <= k
    <3>1. i \in 1..k
      BY <1>1, <2>1
    <3>2. (w1 \o w2)[i] = <<"inbox", q[i]>>
      BY <1>7, <2>1, <3>1 DEF w1
    <3> QED BY <1>1, <3>1, <3>2
  <2>2. CASE ~(i <= k)
    <3>1. i - k \in 1..k
      BY <1>1, <2>2
    <3>2. (w1 \o w2)[i] = <<"read", q[i - k]>>
      BY <1>7, <2>2, <3>1 DEF w2
    <3> QED BY <1>1, <3>1, <3>2
  <2> QED BY <2>1, <2>2
<1>9. WritesEach(S) \in Seq(Item)
  <2>1. ASSUME NEW i \in 1..2 * k
        PROVE  (i + 1) \div 2 \in 1..k
    BY <1>1
  <2>2. ASSUME NEW i \in 1..2 * k
        PROVE  <<IF i % 2 = 1 THEN "inbox" ELSE "read", q[(i + 1) \div 2]>> \in Item
    <3>1. q[(i + 1) \div 2] \in Notices
      BY <1>1, <2>1
    <3> QED BY <3>1 DEF Item
  <2>3. 2 * k \in Nat /\ WritesEach(S) \in [1..2 * k -> Item]
    BY <1>1, <1>3, <2>2
  <2> QED BY <2>3, SeqDef
<1> QED BY <1>2, <1>7, <1>8, <1>9

-----------------------------------------------------------------------------
(* Rows of workflow_turns: a row that is claimed has a token, and counts    *)
(* its attempt; a row keeps its kind and its key.                           *)
RowOK(r) == /\ r \in TurnRow
            /\ r.claim = "none" <=> r.state # "claimed"
            /\ r.state = "claimed" => r.attempts >= 1
Kin(p, q) == q.kind = p.kind /\ q.key = p.key
Edit(p, q) == RowOK(q) /\ Kin(p, q)
Fresh == \A t \in Turns : t > nt => turn[t].kind = "none"
TypeInv == TypeOK /\ Fresh /\ \A t \in Turns : RowOK(turn[t])

(* What a step may do to the turns: it edits rows and adds others.          *)
TurnsKept == /\ nt' \in Turns /\ nt' >= nt
             /\ turn' \in [Turns -> TurnRow]
             /\ \A t \in Turns : RowOK(turn'[t])
             /\ \A t \in Turns : t \notin nt + 1..nt' => Kin(turn[t], turn'[t])

(* The edits of a row.                                                      *)
LEMMA Edits ==
  ASSUME NEW r, RowOK(r)
  PROVE  /\ Edit(r, r)
         /\ Edit(r, [r EXCEPT !.state = "claimed", !.claim = "live", !.attempts = @ + 1])
         /\ Edit(r, [r EXCEPT !.state = "cancelled", !.claim = "none"])
         /\ Edit(r, [r EXCEPT !.state = "cancelled", !.claim = "none", !.settled = FALSE])
         /\ Edit(r, [r EXCEPT !.state = "queued", !.claim = "none"])
         /\ Edit(r, [r EXCEPT !.state = "queued", !.claim = "none", !.settled = TRUE])
         /\ Edit(r, [r EXCEPT !.state = "queued", !.claim = "none", !.settled = FALSE])
         /\ Edit(r, [r EXCEPT !.state = "sent", !.claim = "none", !.settled = FALSE])
         /\ Edit(r, [r EXCEPT !.receipt = "consumed", !.state = "sent", !.claim = "none",
                              !.settled = FALSE])
         /\ Edit(r, [r EXCEPT !.receipt = "consumed"])
         /\ Edit(r, [r EXCEPT !.settled = FALSE])
<1>1. r \in TurnRow /\ r.attempts \in Nat
  BY DEF RowOK, TurnRow
<1>2. Edit(r, [r EXCEPT !.state = "claimed", !.claim = "live", !.attempts = @ + 1])
  <2> DEFINE a == r.attempts + 1
  <2>1. a \in Nat /\ a >= 1
    BY <1>1
  <2>2. [r EXCEPT !.state = "claimed", !.claim = "live", !.attempts = @ + 1]
        = [r EXCEPT !.state = "claimed", !.claim = "live", !.attempts = a]
    BY <1>1 DEF TurnRow
  <2> HIDE DEF a
  <2>3. Edit(r, [r EXCEPT !.state = "claimed", !.claim = "live", !.attempts = a])
    BY <1>1, <2>1 DEF RowOK, Edit, Kin, TurnRow
  <2> QED BY <2>2, <2>3
<1>3. /\ Edit(r, r)
      /\ Edit(r, [r EXCEPT !.state = "cancelled", !.claim = "none"])
      /\ Edit(r, [r EXCEPT !.state = "cancelled", !.claim = "none", !.settled = FALSE])
  BY <1>1 DEF RowOK, Edit, Kin, TurnRow
<1>4. /\ Edit(r, [r EXCEPT !.state = "queued", !.claim = "none"])
      /\ Edit(r, [r EXCEPT !.state = "queued", !.claim = "none", !.settled = TRUE])
      /\ Edit(r, [r EXCEPT !.state = "queued", !.claim = "none", !.settled = FALSE])
  BY <1>1 DEF RowOK, Edit, Kin, TurnRow
<1>5. /\ Edit(r, [r EXCEPT !.state = "sent", !.claim = "none", !.settled = FALSE])
      /\ Edit(r, [r EXCEPT !.receipt = "consumed", !.state = "sent", !.claim = "none",
                            !.settled = FALSE])
  BY <1>1 DEF RowOK, Edit, Kin, TurnRow
<1>6. /\ Edit(r, [r EXCEPT !.receipt = "consumed"])
      /\ Edit(r, [r EXCEPT !.settled = FALSE])
  BY <1>1 DEF RowOK, Edit, Kin, TurnRow
<1> QED BY <1>2, <1>3, <1>4, <1>5, <1>6

(* The edits that need to know the row.                                     *)
LEMMA MoreEdits ==
  ASSUME NEW r, RowOK(r)
  PROVE  /\ r.state = "claimed" =>
              Edit(r, [r EXCEPT !.state = "queued", !.claim = "none", !.settled = FALSE,
                                !.attempts = @ - 1])
         /\ r.claim = "live" => Edit(r, [r EXCEPT !.claim = "expired"])
         /\ r.state = "sent" => Edit(r, [r EXCEPT !.state = "queued"])
         /\ r.state = "sent" => Edit(r, [r EXCEPT !.state = "finished", !.receipt = "resumed"])
<1>1. r \in TurnRow /\ r.attempts \in Nat
  BY DEF RowOK, TurnRow
<1>2. ASSUME r.state = "claimed"
      PROVE  Edit(r, [r EXCEPT !.state = "queued", !.claim = "none", !.settled = FALSE,
                               !.attempts = @ - 1])
  <2> DEFINE a == r.attempts - 1
  <2>1. a \in Nat
    BY <1>1, <1>2 DEF RowOK
  <2>2. [r EXCEPT !.state = "queued", !.claim = "none", !.settled = FALSE, !.attempts = @ - 1]
        = [r EXCEPT !.state = "queued", !.claim = "none", !.settled = FALSE, !.attempts = a]
    BY <1>1 DEF TurnRow
  <2> HIDE DEF a
  <2>3. Edit(r, [r EXCEPT !.state = "queued", !.claim = "none", !.settled = FALSE,
                          !.attempts = a])
    BY <1>1, <2>1 DEF RowOK, Edit, Kin, TurnRow
  <2> QED BY <2>2, <2>3
<1> QED BY <1>1, <1>2 DEF RowOK, Edit, Kin, TurnRow

(* A new row.                                                               *)
LEMMA NewRow ==
  ASSUME NEW k \in {"none", "external_input", "assigned_result", "handoff_result",
                    "execution_resume"},
         NEW n \in 0..MaxNotices, NEW key \in Child \cup (0..MaxTurns), NEW a \in Nat
  PROVE  /\ RowOK(NewTurn(k, n, key, a))
         /\ NewTurn(k, n, key, a).kind = k /\ NewTurn(k, n, key, a).key = key
BY DEF RowOK, TurnRow, NewTurn

(* The row of an admitted input or resume.                                 *)
LEMMA AdmittedRow ==
  ASSUME NEW k \in {"external_input", "execution_resume"}
  PROVE  RowOK(Admitted(k))
<1>1. 0 \in 0..MaxNotices /\ 0 \in 0..MaxTurns
  BY BoundAssumption
<1> QED BY <1>1 DEF RowOK, TurnRow, NewTurn, Admitted

(* Numbers, for what follows.                                               *)
LEMMA Numbers ==
  ASSUME TypeOK
  PROVE  /\ nt \in Turns /\ Turns \subseteq Nat \ {0} /\ MaxTurns \in Nat \ {0}
         /\ nn \in 0..MaxNotices /\ Notices \subseteq Nat \ {0} /\ MaxNotices \in Nat
         /\ turn \in [Turns -> TurnRow] /\ inbox \in [Notices -> InboxRow]
         /\ asg \in [Child -> AsgRow] /\ result \in [Child -> ResultRow]
BY BoundAssumption DEF TypeOK, Turns, Notices

(* One row is edited, or every one.                                         *)
LEMMA EditAll ==
  ASSUME TypeInv, nt' = nt, turn' = [t \in Turns |-> turn'[t]],
         \A t \in Turns : Edit(turn[t], turn'[t])
  PROVE  TurnsKept
BY Numbers DEF TypeInv, TurnsKept, Edit, RowOK

(* A step that edits one row.                                              *)
LEMMA EditOne ==
  ASSUME TypeInv, nt' = nt, NEW t, NEW r, turn' = [turn EXCEPT ![t] = r],
         t \in Turns => Edit(turn[t], r)
  PROVE  TurnsKept
<1>1. turn \in [Turns -> TurnRow] /\ \A u \in Turns : Edit(turn[u], turn[u])
  BY Edits, Numbers DEF TypeInv
<1>2. /\ turn' = [u \in Turns |-> turn'[u]]
      /\ \A u \in Turns : turn'[u] = turn[u] \/ (u = t /\ turn'[u] = r)
  BY <1>1
<1>3. \A u \in Turns : Edit(turn[u], turn'[u])
  BY <1>1, <1>2
<1> QED BY <1>2, <1>3, EditAll

(* A step that leaves the rows alone.                                      *)
LEMMA EditNone ==
  ASSUME TypeInv, UNCHANGED turnVars
  PROVE  TurnsKept
<1>1. turn \in [Turns -> TurnRow] /\ \A u \in Turns : Edit(turn[u], turn[u])
  BY Edits, Numbers DEF TypeInv
<1> QED BY <1>1, EditAll DEF turnVars

(* One row is added.                                                        *)
LEMMA AddOne ==
  ASSUME TypeInv, nt + 1 \in Turns, nt' = nt + 1, NEW r, RowOK(r),
         NEW f \in [Turns -> TurnRow], \A t \in Turns : Edit(turn[t], f[t]),
         turn' = [f EXCEPT ![nt + 1] = r]
  PROVE  TurnsKept
<1>1. nt \in Nat
  BY Numbers DEF TypeInv
<1>2. /\ turn' = [u \in Turns |-> turn'[u]]
      /\ \A u \in Turns : u # nt + 1 => turn'[u] = f[u]
      /\ turn'[nt + 1] = r
  OBVIOUS
<1>3. \A u \in Turns : RowOK(turn'[u]) /\ (u # nt + 1 => Kin(turn[u], turn'[u]))
  BY <1>2 DEF Edit
<1>4. turn' \in [Turns -> TurnRow]
  BY <1>2, <1>3 DEF RowOK
<1>5. nt + 1 \in nt + 1..nt'
  BY <1>1
<1> QED BY <1>1, <1>3, <1>4, <1>5 DEF TurnsKept

(* A notice joins a boundary turn or gets a turn of its own.                *)
LEMMA AttachTurns ==
  ASSUME TypeInv, NEW c \in Child, NEW n \in 0..MaxNotices, Attach(c, n)
  PROVE  /\ TurnsKept /\ nt' \in Nat
         /\ nt' = nt => turn' = turn /\ Least(Joinable(c)) \in Joinable(c)
         /\ nt' # nt => /\ nt' = nt + 1 /\ Joinable(c) = {}
                        /\ turn' = [turn EXCEPT ![nt + 1] =
                                      NewTurn(BoundaryKind(c), n, BoundaryKey(c), 0)]
<1>1. Joinable(c) \in SUBSET (Nat \ {0})
  BY Numbers DEF TypeInv, Joinable, OnBoundary
<1> DEFINE r == NewTurn(BoundaryKind(c), n, BoundaryKey(c), 0)
<1>2. RowOK(r)
  <2>1. BoundaryKey(c) \in Child \cup (0..MaxTurns)
    BY BoundAssumption DEF BoundaryKey, TypeInv, TypeOK, Turns
  <2>2. BoundaryKind(c) \in {"none", "external_input", "assigned_result", "handoff_result",
                                "execution_resume"}
    BY DEF BoundaryKind
  <2> QED BY <2>1, <2>2, NewRow
<1>3. CASE Joinable(c) # {}
  <2>1. Least(Joinable(c)) \in Joinable(c) /\ Least(Joinable(c)) \in Turns
    BY <1>1, <1>3, LeastOf DEF Joinable, OnBoundary
  <2>2. Least(Joinable(c)) # nt + 1
    <3>1. nt + 1 \in Turns => turn[nt + 1].kind = "none"
      BY Numbers DEF TypeInv, Fresh
    <3> QED BY <2>1, <3>1 DEF Joinable, OnBoundary, BoundaryKind
  <2>3. nt' = nt /\ turn' = turn
    BY <1>3, <2>2 DEF Attach
  <2>4. TurnsKept
    BY <2>3, EditNone DEF turnVars
  <2> QED BY <2>1, <2>3, <2>4, Numbers DEF TypeInv
<1>4. CASE Joinable(c) = {}
  <2>1. nt' = nt + 1 /\ nt + 1 \in Turns /\ turn' = [turn EXCEPT ![nt + 1] = r]
    BY <1>4 DEF Attach
  <2>2. turn \in [Turns -> TurnRow] /\ \A t \in Turns : Edit(turn[t], turn[t])
    BY Edits, Numbers DEF TypeInv
  <2> HIDE DEF r
  <2>3. TurnsKept
    BY <1>2, <2>1, <2>2, AddOne
  <2>4. nt' # nt /\ nt' \in Nat
    BY <2>1, Numbers DEF TypeInv
  <2> QED BY <1>4, <2>1, <2>3, <2>4 DEF r
<1> QED BY <1>3, <1>4

(* Which actions change which variable.                                    *)
LEMMA Steps ==
  ASSUME [Next]_vars
  PROVE
    /\ \/ UNCHANGED wf
       \/ LookReady \/ Requeue \/ Settle
       \/ \E t \in Turns : Resume(t)
       \/ \E status \in {"completed", "cancelled"} : Close(status)
    /\ \/ UNCHANGED nt
       \/ \E c \in Child : Submit(c)
       \/ ExitWrite \/ StartTick \/ PickOldest \/ BootTerminated
       \/ \E t \in Turns : Resume(t)
    /\ \/ UNCHANGED turn
       \/ \E c \in Child : Submit(c)
       \/ ExitWrite \/ StartTick \/ PickOldest \/ LookReady \/ ClaimTurn
       \/ Requeue \/ EndTick \/ RequeueExpired \/ Settle
       \/ BootTerminated \/ (BootUnadmitted /\ UNCHANGED nt)
       \/ \E t \in Turns : ClaimExpires(t) \/ Admit(t) \/ Resume(t)
       \/ \E status \in {"completed", "cancelled"} : Close(status)
    /\ \/ UNCHANGED nn
       \/ \E c \in Child : Submit(c)
       \/ ExitWrite \/ BootTerminated
    /\ \/ UNCHANGED inbox
       \/ \E c \in Child : Submit(c)
       \/ ExitWrite \/ StartTick \/ CloseScan \/ FailOldest \/ Requeue
       \/ WriteStatus \/ Settle \/ BootTerminated \/ BootResults
       \/ \E t \in Turns : Admit(t)
       \/ \E status \in {"completed", "cancelled"} : Close(status)
    /\ \/ UNCHANGED asg
       \/ \E c \in Child : Submit(c)
       \/ ExitWrite \/ StartTick \/ Mark \/ Settle \/ AckWrite
       \/ BootTerminated \/ BootArm \/ BootResults
       \/ \E t \in Turns : Admit(t)
       \/ \E status \in {"completed", "cancelled"} : Close(status)
    /\ \/ UNCHANGED result
       \/ \E c \in Child : Submit(c)
       \/ ExitWrite \/ StartTick \/ PickOldest \/ BootTerminated
       \/ \E status \in {"completed", "cancelled"} : Close(status)
    /\ \/ UNCHANGED childWf
       \/ \E c \in Child : Submit(c)
       \/ ExitWrite \/ BootTerminated
    /\ \/ UNCHANGED cycles
       \/ ExitWrite
    /\ \/ UNCHANGED exited
       \/ \E c \in Child, how \in {"exit", "destroy"} : ExitRead(c, how)
    /\ \/ UNCHANGED lease
       \/ Slot \/ PasteFailed \/ Settle
       \/ \E t \in Turns : Admit(t) \/ Resume(t)
    /\ \/ UNCHANGED pasted
       \/ PasteAccepted \/ PasteFailed
    /\ \/ UNCHANGED shown
       \/ PasteAccepted \/ PasteFailed
    /\ \/ UNCHANGED dpc
       \/ StartTick \/ CloseScan \/ PickOldest \/ LookBusy \/ LookDead
       \/ LookReady \/ ClaimTurn \/ Slot \/ PasteAccepted \/ PasteFailed
       \/ Requeue \/ EndTick \/ Crash
    /\ \/ UNCHANGED <<dpc, dturn, batch, todo>>
       \/ StartTick \/ CloseScan \/ PickOldest \/ LookBusy \/ LookDead
       \/ LookReady \/ ClaimTurn \/ Slot \/ PasteAccepted \/ PasteFailed
       \/ Requeue \/ WriteStatus \/ ReadMark \/ Mark \/ EndTick \/ Crash
    /\ \/ UNCHANGED leaving
       \/ \E c \in Child, how \in {"exit", "destroy"} : ExitRead(c, how)
       \/ ExitWrite \/ Crash
    /\ \/ UNCHANGED acking
       \/ \E c \in Child : AckRead(c)
       \/ AckWrite
    /\ \/ UNCHANGED boot
       \/ Crash \/ Restart \/ BootTerminated \/ BootArm
       \/ BootUnadmitted \/ BootResults
    /\ \/ UNCHANGED stale
       \/ Crash \/ BootArm \/ BootResults
    /\ \/ UNCHANGED faults
       \/ \E t \in Turns : ClaimExpires(t)
       \/ Crash
    /\ \/ UNCHANGED overtaken
       \/ ExitWrite \/ Mark \/ AckWrite \/ BootArm \/ BootResults
<1>1. CASE UNCHANGED vars
  BY <1>1 DEF vars, turnVars, noticeVars, childVars, paneVars, tickVars, threadVars
<1>2. CASE \E c \in Child : Submit(c)
  <2>1. UNCHANGED <<wf, cycles, exited, lease, pasted, shown, dpc, dturn, batch, todo,
                    leaving, acking, boot, stale, faults, overtaken>>
    BY <1>2 DEF Submit, Notify, Attach, turnVars, noticeVars, childVars, paneVars, tickVars,
       threadVars
  <2> QED BY <1>2, <2>1
<1>3. CASE \E c \in Child, how \in {"exit", "destroy"} : ExitRead(c, how)
  <2>1. UNCHANGED <<wf, nt, turn, nn, inbox, asg, result, childWf, cycles, lease, pasted,
                    shown, dpc, dturn, batch, todo, acking, boot, stale, faults, overtaken>>
    BY <1>3 DEF ExitRead, turnVars, noticeVars, childVars, paneVars, tickVars, threadVars
  <2> QED BY <1>3, <2>1
<1>4. CASE ExitWrite
  <2>1. UNCHANGED <<wf, exited, lease, pasted, shown, dpc, dturn, batch, todo, acking, boot,
                    stale, faults>>
    BY <1>4 DEF ExitWrite, Notify, Attach, LoseAssigned, Recover, Exhaust, Destroy, turnVars,
       noticeVars, childVars, paneVars, tickVars, threadVars
  <2> QED BY <1>4, <2>1
<1>5. CASE StartTick
  <2>1. UNCHANGED <<wf, nn, childWf, cycles, exited, lease, pasted, shown, leaving, acking,
                    boot, stale, faults, overtaken>>
    BY <1>5 DEF StartTick, Rebuild, turnVars, noticeVars, childVars, paneVars, tickVars,
       threadVars
  <2> QED BY <1>5, <2>1
<1>6. CASE CloseScan
  <2>1. UNCHANGED <<wf, nt, turn, nn, asg, result, childWf, cycles, exited, lease, pasted,
                    shown, leaving, acking, boot, stale, faults, overtaken>>
    BY <1>6 DEF CloseScan, turnVars, noticeVars, childVars, paneVars, tickVars, threadVars
  <2> QED BY <1>6, <2>1
<1>7. CASE FailOldest
  <2>1. UNCHANGED <<wf, nt, turn, nn, asg, result, childWf, cycles, exited, lease, pasted,
                    shown, dpc, dturn, batch, todo, leaving, acking, boot, stale, faults,
                    overtaken>>
    BY <1>7 DEF FailOldest, turnVars, noticeVars, childVars, paneVars, tickVars, threadVars
  <2> QED BY <1>7, <2>1
<1>8. CASE PickOldest
  <2>1. UNCHANGED <<wf, nn, inbox, asg, childWf, cycles, exited, lease, pasted, shown,
                    leaving, acking, boot, stale, faults, overtaken>>
    BY <1>8 DEF PickOldest, Attach, Idle, turnVars, noticeVars, childVars, paneVars,
       tickVars, threadVars
  <2> QED BY <1>8, <2>1
<1>9. CASE LookBusy
  <2>1. UNCHANGED <<wf, nt, turn, nn, inbox, asg, result, childWf, cycles, exited, lease,
                    pasted, shown, leaving, acking, boot, stale, faults, overtaken>>
    BY <1>9 DEF LookBusy, Idle, turnVars, noticeVars, childVars, paneVars, tickVars,
       threadVars
  <2> QED BY <1>9, <2>1
<1>10. CASE LookDead
  <2>1. UNCHANGED <<wf, nt, turn, nn, inbox, asg, result, childWf, cycles, exited, lease,
                    pasted, shown, leaving, acking, boot, stale, faults, overtaken>>
    BY <1>10 DEF LookDead, turnVars, noticeVars, childVars, paneVars, tickVars, threadVars
  <2> QED BY <1>10, <2>1
<1>11. CASE LookReady
  <2>1. UNCHANGED <<nt, nn, inbox, asg, result, childWf, cycles, exited, lease, pasted,
                    shown, leaving, acking, boot, stale, faults, overtaken>>
    BY <1>11 DEF LookReady, Idle, turnVars, noticeVars, childVars, paneVars, tickVars,
       threadVars
  <2> QED BY <1>11, <2>1
<1>12. CASE ClaimTurn
  <2>1. UNCHANGED <<wf, nt, nn, inbox, asg, result, childWf, cycles, exited, lease, pasted,
                    shown, leaving, acking, boot, stale, faults, overtaken>>
    BY <1>12 DEF ClaimTurn, Idle, turnVars, noticeVars, childVars, paneVars, tickVars,
       threadVars
  <2> QED BY <1>12, <2>1
<1>13. CASE Slot
  <2>1. UNCHANGED <<wf, nt, turn, nn, inbox, asg, result, childWf, cycles, exited, pasted,
                    shown, leaving, acking, boot, stale, faults, overtaken>>
    BY <1>13 DEF Slot, SlotGranted, SlotRefused, turnVars, noticeVars, childVars, paneVars,
       tickVars, threadVars
  <2> QED BY <1>13, <2>1
<1>14. CASE PasteAccepted
  <2>1. UNCHANGED <<wf, nt, turn, nn, inbox, asg, result, childWf, cycles, exited, lease,
                    leaving, acking, boot, stale, faults, overtaken>>
    BY <1>14 DEF PasteAccepted, Shown, turnVars, noticeVars, childVars, paneVars, tickVars,
       threadVars
  <2> QED BY <1>14, <2>1
<1>15. CASE PasteFailed
  <2>1. UNCHANGED <<wf, nt, turn, nn, inbox, asg, result, childWf, cycles, exited, leaving,
                    acking, boot, stale, faults, overtaken>>
    BY <1>15 DEF PasteFailed, Shown, turnVars, noticeVars, childVars, paneVars, tickVars,
       threadVars
  <2> QED BY <1>15, <2>1
<1>16. CASE Requeue
  <2>1. UNCHANGED <<nt, nn, asg, result, childWf, cycles, exited, lease, pasted, shown,
                    leaving, acking, boot, stale, faults, overtaken>>
    BY <1>16 DEF Requeue, Idle, turnVars, noticeVars, childVars, paneVars, tickVars,
       threadVars
  <2> QED BY <1>16, <2>1
<1>17. CASE WriteStatus
  <2>1. UNCHANGED <<wf, nt, turn, nn, asg, result, childWf, cycles, exited, lease, pasted,
                    shown, dpc, leaving, acking, boot, stale, faults, overtaken>>
    BY <1>17 DEF WriteStatus, turnVars, noticeVars, childVars, paneVars, tickVars, threadVars
  <2> QED BY <1>17, <2>1
<1>18. CASE ReadMark
  <2>1. UNCHANGED <<wf, nt, turn, nn, inbox, asg, result, childWf, cycles, exited, lease,
                    pasted, shown, dpc, leaving, acking, boot, stale, faults, overtaken>>
    BY <1>18 DEF ReadMark, turnVars, noticeVars, childVars, paneVars, tickVars, threadVars
  <2> QED BY <1>18, <2>1
<1>19. CASE Mark
  <2>1. UNCHANGED <<wf, nt, turn, nn, inbox, result, childWf, cycles, exited, lease, pasted,
                    shown, dpc, leaving, acking, boot, stale, faults>>
    BY <1>19 DEF Mark, turnVars, noticeVars, childVars, paneVars, tickVars, threadVars
  <2> QED BY <1>19, <2>1
<1>20. CASE EndTick
  <2>1. UNCHANGED <<wf, nt, nn, inbox, asg, result, childWf, cycles, exited, lease, pasted,
                    shown, leaving, acking, boot, stale, faults, overtaken>>
    BY <1>20 DEF EndTick, Idle, turnVars, noticeVars, childVars, paneVars, tickVars,
       threadVars
  <2> QED BY <1>20, <2>1
<1>21. CASE RequeueExpired
  <2>1. UNCHANGED <<wf, nt, nn, inbox, asg, result, childWf, cycles, exited, lease, pasted,
                    shown, dpc, dturn, batch, todo, leaving, acking, boot, stale, faults,
                    overtaken>>
    BY <1>21 DEF RequeueExpired, turnVars, noticeVars, childVars, paneVars, tickVars,
       threadVars
  <2> QED BY <1>21, <2>1
<1>22. CASE \E t \in Turns : ClaimExpires(t)
  <2>1. UNCHANGED <<wf, nt, nn, inbox, asg, result, childWf, cycles, exited, lease, pasted,
                    shown, dpc, dturn, batch, todo, leaving, acking, boot, stale, overtaken>>
    BY <1>22 DEF ClaimExpires, turnVars, noticeVars, childVars, paneVars, tickVars, threadVars
  <2> QED BY <1>22, <2>1
<1>23. CASE Settle
  <2>1. UNCHANGED <<nt, nn, result, childWf, cycles, exited, pasted, shown, dpc, dturn,
                    batch, todo, leaving, acking, boot, stale, faults, overtaken>>
    BY <1>23 DEF Settle, WithMembers, turnVars, noticeVars, childVars, paneVars, tickVars,
       threadVars
  <2> QED BY <1>23, <2>1
<1>24. CASE \E t \in Turns : Admit(t)
  <2>1. UNCHANGED <<wf, nt, nn, result, childWf, cycles, exited, pasted, shown, dpc, dturn,
                    batch, todo, leaving, acking, boot, stale, faults, overtaken>>
    BY <1>24 DEF Admit, WithMembers, turnVars, noticeVars, childVars, paneVars, tickVars,
       threadVars
  <2> QED BY <1>24, <2>1
<1>25. CASE \E t \in Turns : Resume(t)
  <2>1. UNCHANGED <<nn, inbox, asg, result, childWf, cycles, exited, pasted, shown, dpc,
                    dturn, batch, todo, leaving, acking, boot, stale, faults, overtaken>>
    BY <1>25 DEF Resume, turnVars, noticeVars, childVars, paneVars, tickVars, threadVars
  <2> QED BY <1>25, <2>1
<1>26. CASE \E c \in Child : AckRead(c)
  <2>1. UNCHANGED <<wf, nt, turn, nn, inbox, asg, result, childWf, cycles, exited, lease,
                    pasted, shown, dpc, dturn, batch, todo, leaving, boot, stale, faults,
                    overtaken>>
    BY <1>26 DEF AckRead, turnVars, noticeVars, childVars, paneVars, tickVars, threadVars
  <2> QED BY <1>26, <2>1
<1>27. CASE AckWrite
  <2>1. UNCHANGED <<wf, nt, turn, nn, inbox, result, childWf, cycles, exited, lease, pasted,
                    shown, dpc, dturn, batch, todo, leaving, boot, stale, faults>>
    BY <1>27 DEF AckWrite, turnVars, noticeVars, childVars, paneVars, tickVars, threadVars
  <2> QED BY <1>27, <2>1
<1>28. CASE \E status \in {"completed", "cancelled"} : Close(status)
  <2>1. UNCHANGED <<nt, nn, childWf, cycles, exited, lease, pasted, shown, dpc, dturn, batch,
                    todo, leaving, acking, boot, stale, faults, overtaken>>
    BY <1>28 DEF Close, turnVars, noticeVars, childVars, paneVars, tickVars, threadVars
  <2> QED BY <1>28, <2>1
<1>29. CASE Crash
  <2>1. UNCHANGED <<wf, nt, turn, nn, inbox, asg, result, childWf, cycles, exited, lease,
                    pasted, shown, acking, overtaken>>
    BY <1>29 DEF Crash, Idle, turnVars, noticeVars, childVars, paneVars, tickVars, threadVars
  <2> QED BY <1>29, <2>1
<1>30. CASE Restart
  <2>1. UNCHANGED <<wf, nt, turn, nn, inbox, asg, result, childWf, cycles, exited, lease,
                    pasted, shown, dpc, dturn, batch, todo, leaving, acking, stale, faults,
                    overtaken>>
    BY <1>30 DEF Restart, turnVars, noticeVars, childVars, paneVars, tickVars, threadVars
  <2> QED BY <1>30, <2>1
<1>31. CASE BootTerminated
  <2>1. UNCHANGED <<wf, cycles, exited, lease, pasted, shown, dpc, dturn, batch, todo,
                    leaving, acking, stale, faults, overtaken>>
    BY <1>31 DEF BootTerminated, turnVars, noticeVars, childVars, paneVars, tickVars,
       threadVars
  <2> QED BY <1>31, <2>1
<1>32. CASE /\ BootArm /\ UNCHANGED <<turn, inbox>>
           /\ UNCHANGED <<wf, nt, nn, result, childVars, lease, paneVars, tickVars, leaving,
                          acking, faults>>
  <2>1. UNCHANGED <<wf, nt, turn, nn, inbox, result, childWf, cycles, exited, lease, pasted,
                    shown, dpc, dturn, batch, todo, leaving, acking, faults>>
    BY <1>32 DEF BootArm, turnVars, noticeVars, childVars, paneVars, tickVars, threadVars
  <2> QED BY <1>32, <2>1
<1>33. CASE /\ BootUnadmitted /\ UNCHANGED <<asg, inbox, stale, overtaken>>
           /\ UNCHANGED <<wf, nt, nn, result, childVars, lease, paneVars, tickVars, leaving,
                          acking, faults>>
  <2>1. UNCHANGED <<wf, nt, nn, inbox, asg, result, childWf, cycles, exited, lease, pasted,
                    shown, dpc, dturn, batch, todo, leaving, acking, stale, faults,
                    overtaken>>
    BY <1>33 DEF BootUnadmitted, turnVars, noticeVars, childVars, paneVars, tickVars,
       threadVars
  <2> QED BY <1>33, <2>1
<1>34. CASE /\ BootResults /\ UNCHANGED turn
           /\ UNCHANGED <<wf, nt, nn, result, childVars, lease, paneVars, tickVars, leaving,
                          acking, faults>>
  <2>1. UNCHANGED <<wf, nt, turn, nn, result, childWf, cycles, exited, lease, pasted, shown,
                    dpc, dturn, batch, todo, leaving, acking, faults>>
    BY <1>34 DEF BootResults, turnVars, noticeVars, childVars, paneVars, tickVars, threadVars
  <2> QED BY <1>34, <2>1
<1> QED BY <1>1, <1>2, <1>3, <1>4, <1>5, <1>6, <1>7, <1>8, <1>9, <1>10, <1>11, <1>12, <1>13,
           <1>14, <1>15, <1>16, <1>17, <1>18, <1>19, <1>20, <1>21, <1>22, <1>23, <1>24,
           <1>25, <1>26, <1>27, <1>28, <1>29, <1>30, <1>31, <1>32, <1>33, <1>34
       DEF Next, ChildNext, TickNext, ParentNext, BootStep

(* Ending an attempt adds a turn at most.                                  *)
LEMMA NotifyTurns ==
  ASSUME TypeInv, NEW c \in Child, NEW seen, NEW res, NEW refused,
         Notify(c, seen, res, refused)
  PROVE  TurnsKept
<1>1. CASE seen # 0 \/ ~Open
  BY <1>1, EditNone DEF Notify
<1>2. CASE ~(seen # 0 \/ ~Open)
  <2>1. nn + 1 \in 0..MaxNotices
    BY <1>2, Numbers DEF Notify, TypeInv
  <2>2. CASE Defers(c)
    BY <1>2, <2>2, EditNone DEF Notify
  <2>3. CASE ~Defers(c)
    <3>1. Attach(c, nn + 1)
      BY <1>2, <2>3 DEF Notify
    <3> QED BY <2>1, <3>1, AttachTurns
  <2> QED BY <2>2, <2>3
<1> QED BY <1>1, <1>2

(* The handler of an exit ends an attempt through Notify or not at all.     *)
LEMMA ExitTurns ==
  ASSUME TypeInv, ExitWrite
  PROVE  TurnsKept
<1> DEFINE c == leaving.child
<1>1. c \in Child
  BY DEF ExitWrite, TypeInv, TypeOK
<1> HIDE DEF c
<1>2. \/ UNCHANGED turnVars
      \/ \E seen, res, refused : Notify(c, seen, res, refused)
  BY DEF c, ExitWrite, LoseAssigned, Recover, Exhaust, Destroy
<1> QED BY <1>1, <1>2, NotifyTurns, EditNone

(* A child's own report ends its attempt through Notify.                   *)
LEMMA SubmitTurns ==
  ASSUME TypeInv, NEW c \in Child, Submit(c)
  PROVE  TurnsKept
BY NotifyTurns DEF Submit

(* The oldest pending notice.                                               *)
LEMMA OldestType ==
  /\ Oldest = 0 <=> PendingNotices = {}
  /\ Oldest # 0 => Oldest \in PendingNotices /\ Oldest \in Notices
<1>1. PendingNotices \in SUBSET (Nat \ {0})
  BY BoundAssumption DEF PendingNotices, Notices
<1> QED BY <1>1, LeastOf DEF Oldest, PendingNotices

(* The dispatcher's steps.                                                  *)
LEMMA TickTurns ==
  ASSUME TypeInv,
         \/ PickOldest \/ LookReady \/ ClaimTurn \/ Requeue \/ EndTick \/ RequeueExpired
  PROVE  TurnsKept
<1>0. /\ \A t \in Turns : RowOK(turn[t]) /\ turn[t] \in TurnRow
      /\ turn \in [Turns -> TurnRow]
  BY Numbers DEF TypeInv, RowOK
<1>1. CASE PickOldest
  <2>1. CASE UNCHANGED turnVars
    BY <2>1, EditNone
  <2>2. CASE ~UNCHANGED turnVars
    <3>1. PICK n : n = Oldest /\ n # 0 /\ Materializes(n) /\ Attach(inbox[n].of, n)
      BY <1>1, <2>2 DEF PickOldest
    <3>2. inbox[n].of \in Child /\ n \in 0..MaxNotices
      BY <3>1, OldestType, Numbers DEF Materializes, Child, TypeInv, PendingNotices, Notices
    <3> QED BY <3>1, <3>2, AttachTurns
  <2> QED BY <2>1, <2>2
<1>2. CASE LookReady
  <2> DEFINE t == TurnOf(Min(batch))
             r == [turn[t] EXCEPT !.state = "claimed", !.claim = "live", !.attempts = @ + 1]
  <2>1. nt' = nt /\ (turn' = turn \/ turn' = Claimed(t))
    BY <1>2 DEF LookReady
  <2>2. t \in Turns => Edit(turn[t], r)
    BY <1>0, Edits
  <2> HIDE DEF t
  <2>3. CASE turn' = Claimed(t)
    <3>1. turn' = [turn EXCEPT ![t] = r]
      BY <1>0, <2>3 DEF Claimed, TurnRow
    <3> HIDE DEF r
    <3> QED BY <2>1, <2>2, <3>1, EditOne
  <2> QED BY <2>1, <2>3, EditNone DEF turnVars
<1>3. CASE ClaimTurn
  <2> DEFINE r == [turn[dturn] EXCEPT !.state = "claimed", !.claim = "live", !.attempts = @ + 1]
  <2>1. nt' = nt /\ (turn' = turn \/ turn' = Claimed(dturn))
    BY <1>3 DEF ClaimTurn
  <2>2. dturn \in Turns => Edit(turn[dturn], r)
    BY <1>0, Edits
  <2>3. CASE turn' = Claimed(dturn)
    <3>1. turn' = [turn EXCEPT ![dturn] = r]
      BY <1>0, <2>3 DEF Claimed, TurnRow
    <3> HIDE DEF r
    <3> QED BY <2>1, <2>2, <3>1, EditOne
  <2> QED BY <2>1, <2>3, EditNone DEF turnVars
<1>4. CASE Requeue
  <2> DEFINE t == dturn
             back == [turn[t] EXCEPT !.state = "queued", !.claim = "none", !.settled = FALSE]
             undone == [turn[t] EXCEPT !.state = "queued", !.claim = "none", !.settled = FALSE,
                                       !.attempts = @ - 1]
             done == [turn[t] EXCEPT !.state = "cancelled", !.claim = "none", !.settled = FALSE]
  <2>1. /\ nt' = nt
        /\ \/ turn' = turn
           \/ turn[t].state = "claimed" /\ turn' = [turn EXCEPT ![t] = undone]
           \/ turn' = [turn EXCEPT ![t] = back]
           \/ turn' = [turn EXCEPT ![t] = done]
    BY <1>0, <1>4 DEF Requeue, ClaimMatches, Exhausted, TurnRow
  <2>2. t \in Turns => /\ Edit(turn[t], back) /\ Edit(turn[t], done)
                       /\ turn[t].state = "claimed" => Edit(turn[t], undone)
    BY <1>0, Edits, MoreEdits
  <2> HIDE DEF back, undone, done
  <2> QED BY <2>1, <2>2, EditOne, EditNone DEF turnVars
<1>5. CASE EndTick
  <2> DEFINE r == [turn[dturn] EXCEPT !.state = "sent", !.claim = "none", !.settled = FALSE]
  <2>1. nt' = nt /\ (turn' = turn \/ turn' = [turn EXCEPT ![dturn] = r])
    BY <1>0, <1>5 DEF EndTick, TurnRow
  <2>2. dturn \in Turns => Edit(turn[dturn], r)
    BY <1>0, Edits
  <2> HIDE DEF r
  <2> QED BY <2>1, <2>2, EditOne, EditNone DEF turnVars
<1>6. CASE RequeueExpired
  <2>1. nt' = nt /\ turn' = [t \in Turns |-> IF turn[t].claim = "expired"
                                THEN [turn[t] EXCEPT !.state = "queued", !.claim = "none"]
                                ELSE turn[t]]
    BY <1>6 DEF RequeueExpired
  <2>2. \A t \in Turns : Edit(turn[t], turn'[t])
    BY <1>0, <2>1, Edits
  <2>3. turn' = [t \in Turns |-> turn'[t]]
    BY <2>1
  <2> QED BY <2>1, <2>2, <2>3, EditAll
<1> QED BY <1>1, <1>2, <1>3, <1>4, <1>5, <1>6

(* Polls, admissions, resumes, closes and restarts.                         *)
LEMMA ParentTurns ==
  ASSUME TypeInv,
         \/ Settle \/ (BootUnadmitted /\ nt' = nt)
         \/ \E t \in Turns : Admit(t) \/ Resume(t) \/ ClaimExpires(t)
         \/ \E status \in {"completed", "cancelled"} : Close(status)
  PROVE  TurnsKept
<1>0. /\ \A t \in Turns : RowOK(turn[t]) /\ turn[t] \in TurnRow
      /\ turn \in [Turns -> TurnRow]
  BY Numbers DEF TypeInv, RowOK
<1>1. CASE Settle
  <2> DEFINE t == lease
             done == [turn[t] EXCEPT !.state = "cancelled", !.claim = "none", !.settled = FALSE]
             gated == [turn[t] EXCEPT !.settled = FALSE]
             back == [turn[t] EXCEPT !.state = "queued", !.claim = "none", !.settled = TRUE]
  <2>1. /\ nt' = nt
        /\ \/ turn' = turn
           \/ turn' = [turn EXCEPT ![t] = done]
           \/ turn' = [turn EXCEPT ![t] = gated]
           \/ turn' = [turn EXCEPT ![t] = back]
    <3>1. \/ turn' = turn
          \/ turn' = Exhausted(t)
          \/ turn' = [turn EXCEPT ![t].settled = FALSE]
          \/ turn' = [turn EXCEPT ![t].state = "queued", ![t].claim = "none", ![t].settled = TRUE]
      BY <1>1 DEF Settle
    <3>2. nt' = nt
      BY <1>1 DEF Settle
    <3> QED BY <1>0, <3>1, <3>2 DEF Exhausted, TurnRow
  <2>2. t \in Turns => Edit(turn[t], back) /\ Edit(turn[t], done) /\ Edit(turn[t], gated)
    BY <1>0, Edits
  <2> HIDE DEF back, done, gated
  <2> QED BY <2>1, <2>2, EditOne, EditNone DEF turnVars
<1>2. CASE BootUnadmitted /\ nt' = nt
  <2> DEFINE a == wf.active
             r == [turn[a] EXCEPT !.state = "queued"]
  <2>1. turn' = turn \/ (turn[a].state = "sent" /\ turn' = [turn EXCEPT ![a] = r])
    BY <1>0, <1>2 DEF BootUnadmitted, TurnRow
  <2>2. nt' = nt
    BY <1>2
  <2>3. a \in Turns /\ turn[a].state = "sent" => Edit(turn[a], r)
    BY <1>0, MoreEdits
  <2> HIDE DEF r
  <2> QED BY <2>1, <2>2, <2>3, EditOne, EditNone DEF turnVars
<1>3. ASSUME NEW t \in Turns, Admit(t)
      PROVE  TurnsKept
  <2> DEFINE again == [turn[t] EXCEPT !.receipt = "consumed", !.state = "sent", !.claim = "none",
                                      !.settled = FALSE]
             first == [turn[t] EXCEPT !.receipt = "consumed"]
  <2>1. /\ nt' = nt
        /\ \/ turn' = [turn EXCEPT ![t] = again]
           \/ turn' = [turn EXCEPT ![t] = first]
    BY <1>0, <1>3 DEF Admit, TurnRow
  <2>2. Edit(turn[t], again) /\ Edit(turn[t], first)
    BY <1>0, Edits
  <2> HIDE DEF again, first
  <2> QED BY <2>1, <2>2, EditOne
<1>4. ASSUME NEW t \in Turns, Resume(t)
      PROVE  TurnsKept
  <2> DEFINE r == [turn[t] EXCEPT !.state = "finished", !.receipt = "resumed"]
             f == [turn EXCEPT ![t] = r]
             new == Admitted("execution_resume")
  <2>1. nt' = nt + 1 /\ turn' = [f EXCEPT ![nt + 1] = new] /\ turn[t].state = "sent"
    BY <1>0, <1>4 DEF Resume, TurnRow
  <2>2. RowOK(new)
    BY AdmittedRow
  <2>3. Edit(turn[t], r) /\ r \in TurnRow
    BY <1>0, <2>1, MoreEdits DEF Edit, RowOK
  <2>4. nt + 1 \in Turns
    BY <1>4, Numbers DEF Resume, TypeInv, Turns
  <2> HIDE DEF r, new
  <2>5. f \in [Turns -> TurnRow] /\ \A u \in Turns : Edit(turn[u], f[u])
    BY <1>0, <2>3, Edits
  <2> HIDE DEF f
  <2> QED BY <2>1, <2>2, <2>4, <2>5, AddOne
<1>5. ASSUME NEW t \in Turns, ClaimExpires(t)
      PROVE  TurnsKept
  <2> DEFINE r == [turn[t] EXCEPT !.claim = "expired"]
  <2>1. nt' = nt /\ turn' = [turn EXCEPT ![t] = r] /\ turn[t].claim = "live"
    BY <1>0, <1>5 DEF ClaimExpires, TurnRow
  <2>2. Edit(turn[t], r)
    BY <1>0, <2>1, MoreEdits
  <2> HIDE DEF r
  <2> QED BY <2>1, <2>2, EditOne
<1>6. ASSUME NEW status \in {"completed", "cancelled"}, Close(status)
      PROVE  TurnsKept
  <2>1. nt' = nt /\ turn' = [t \in Turns |-> IF turn[t].state \in Pending
                                THEN [turn[t] EXCEPT !.state = "cancelled", !.claim = "none"]
                                ELSE turn[t]]
    BY <1>6 DEF Close
  <2>2. \A t \in Turns : Edit(turn[t], turn'[t])
    BY <1>0, <2>1, Edits
  <2>3. turn' = [t \in Turns |-> turn'[t]]
    BY <2>1
  <2> QED BY <2>1, <2>2, <2>3, EditAll
<1> QED BY <1>1, <1>2, <1>3, <1>4, <1>5, <1>6

(* The rebuild of the results that a resume superseded: the old turns are   *)
(* retired, and every heir carries what of its turn is still deliverable.   *)
LEMMA CarriedType ==
  ASSUME NEW t
  PROVE  CarriedBy(t) \in SUBSET PendingNotices /\ Kept(t) \in SUBSET PendingNotices
         /\ PendingNotices \in SUBSET Notices
BY DEF CarriedBy, Kept, SealedNotices, PendingNotices

(* A rebuild retires the old turns, whose kinds and keys stay, and adds    *)
(* the heirs.                                                              *)
LEMMA RebuildTurns ==
  ASSUME TypeInv, NEW r, Rebuild(r)
  PROVE  TurnsKept
<1> DEFINE old == Superseded(r)
           heirs == {t \in old : Kept(t) # {}}
           k == Cardinality(heirs)
           Heir(t) == nt + Rank(heirs, t)
           retired(t) == [turn[t] EXCEPT !.state = IF @ = "finished" THEN @ ELSE "cancelled",
                                         !.claim = "none", !.retired = TRUE,
                                         !.anchor = IF t \in heirs THEN 0 ELSE @]
           heir(u) == NewTurn(turn[u].kind, Min(Kept(u)), 0, turn[u].attempts)
<1>1. /\ nt + k \in Turns /\ nt' = nt + k
      /\ turn' = [t \in Turns |-> IF t \in old THEN retired(t)
                                  ELSE IF \E u \in heirs : Heir(u) = t
                                  THEN heir(CHOOSE u \in heirs : Heir(u) = t) ELSE turn[t]]
  BY DEF Rebuild, Rank
<1>2. old \in SUBSET Turns /\ heirs \in SUBSET Turns
  BY DEF Superseded
<1>3. heirs \in SUBSET Nat /\ IsFiniteSet(heirs)
  <2>1. IsFiniteSet(Turns) /\ Turns \in SUBSET Nat
    BY BoundAssumption, FS_Interval DEF Turns
  <2> QED BY <1>2, <2>1, FS_Subset
<1>4. k \in Nat /\ \A u \in heirs : Rank(heirs, u) \in 1..k
  BY <1>3, Ranks
<1>5. /\ \A t \in Turns : RowOK(turn[t]) /\ turn[t] \in TurnRow
      /\ turn \in [Turns -> TurnRow] /\ nt \in Nat
  BY Numbers DEF TypeInv, RowOK
<1>6. ASSUME NEW t \in Turns
      PROVE  Edit(turn[t], turn[t]) /\ Edit(turn[t], retired(t))
  <2> HIDE DEF heirs
  <2>1. turn[t] \in TurnRow /\ RowOK(turn[t]) /\ 0 \in 0..MaxNotices
    BY <1>5, BoundAssumption
  <2> QED BY <2>1 DEF Edit, RowOK, Kin, TurnRow
<1>7. ASSUME NEW u \in heirs
      PROVE  RowOK(heir(u))
  <2>1. u \in Turns /\ Kept(u) # {} /\ Kept(u) \in SUBSET Notices
    BY <1>2, CarriedType
  <2>2. Min(Kept(u)) \in Notices
    BY <2>1, NoticeSets, MinOf
  <2>3. Min(Kept(u)) \in 0..MaxNotices /\ 0 \in 0..MaxTurns
    BY <2>2, BoundAssumption DEF Notices
  <2>4. turn[u] \in TurnRow
    BY <1>5, <2>1
  <2> QED BY <2>3, <2>4, NewRow DEF TurnRow
<1> HIDE DEF heirs, old, retired, heir, k
<1>8. ASSUME NEW t \in Turns
      PROVE  RowOK(turn'[t]) /\ (t \notin nt + 1..nt' => Kin(turn[t], turn'[t]))
  <2>1. CASE t \in old
    BY <1>1, <1>6, <2>1 DEF Edit
  <2>2. CASE t \notin old /\ \E u \in heirs : Heir(u) = t
    <3>1. PICK u \in heirs : Heir(u) = t /\ turn'[t] = heir(u)
      BY <1>1, <2>2
    <3>2. t \in nt + 1..nt'
      BY <1>1, <1>4, <1>5, <3>1
    <3> QED BY <1>7, <3>1, <3>2
  <2>3. CASE t \notin old /\ ~\E u \in heirs : Heir(u) = t
    BY <1>1, <1>6, <2>3 DEF Edit
  <2> QED BY <2>1, <2>2, <2>3
<1>9. nt' \in Turns /\ nt' >= nt
  BY <1>1, <1>4, <1>5
<1>10. turn' \in [Turns -> TurnRow]
  BY <1>1, <1>8 DEF RowOK
<1> QED BY <1>8, <1>9, <1>10 DEF TurnsKept

(* Whom a restart finds terminated.                                         *)
LEMMA TerminatedType ==
  Terminated \in SUBSET Nat /\ IsFiniteSet(Terminated) /\ Terminated \subseteq Child
<1>1. Terminated \in SUBSET Assigned
  BY DEF Terminated
<1> QED BY <1>1, ChildAssumption, FS_Subset DEF Child

(* The notices of a restart.                                                *)
LEMMA BootTurns ==
  ASSUME TypeInv, BootTerminated
  PROVE  TurnsKept
<1> DEFINE k == IF Open THEN Cardinality(Terminated) ELSE 0
           new(t) == NewTurn("assigned_result", nn + t - nt, Nth(Terminated, t - nt), 0)
<1>1. /\ nn + k <= MaxNotices /\ nt + k <= MaxTurns /\ nt' = nt + k
      /\ turn' = [t \in Turns |-> IF t \in nt + 1..nt + k THEN new(t) ELSE turn[t]]
  BY DEF BootTerminated
<1>2. /\ Cardinality(Terminated) \in Nat /\ Terminated \subseteq Child
      /\ \A i \in 1..Cardinality(Terminated) : Nth(Terminated, i) \in Terminated
  BY TerminatedType, Ranks
<1>3. k \in Nat /\ nt \in Nat /\ nn \in Nat
  BY <1>2, Numbers DEF TypeInv
<1>4. ASSUME NEW t \in Turns, t \in nt + 1..nt + k
      PROVE  RowOK(new(t))
  <2>1. t - nt \in 1..Cardinality(Terminated)
    BY <1>2, <1>3, <1>4
  <2>2. Nth(Terminated, t - nt) \in Child \cup (0..MaxTurns)
    BY <1>2, <2>1
  <2>3. nn + t - nt \in 0..MaxNotices
    BY <1>1, <1>3, <1>4, BoundAssumption
  <2> QED BY <2>2, <2>3, NewRow
<1> HIDE DEF k, new
<1>5. \A t \in Turns : Edit(turn[t], turn[t])
  BY Edits DEF TypeInv
<1>6. \A t \in Turns : RowOK(turn'[t]) /\ (t \notin nt + 1..nt' => Kin(turn[t], turn'[t]))
  BY <1>1, <1>4, <1>5 DEF Edit
<1>7. nt' \in Turns /\ nt' >= nt
  BY <1>1, <1>3, Numbers DEF TypeInv, Turns
<1>8. turn' \in [Turns -> TurnRow]
  BY <1>1, <1>6 DEF RowOK
<1> QED BY <1>6, <1>7, <1>8 DEF TurnsKept

(* Whatever the step, the turns keep their types, kinds and keys.           *)
LEMMA TurnsStep ==
  ASSUME TypeInv, [Next]_vars
  PROVE  TurnsKept
<1>1. CASE UNCHANGED turnVars
  BY <1>1, EditNone
<1>2. CASE \E c \in Child : Submit(c)
  BY <1>2, SubmitTurns
<1>3. CASE StartTick
  <2>1. CASE MustRebuild(LatestResume)
    BY <1>3, <2>1, RebuildTurns DEF StartTick
  <2>2. CASE ~MustRebuild(LatestResume)
    BY <1>1, <1>3, <2>2 DEF StartTick
  <2> QED BY <2>1, <2>2
<1>4. CASE BootUnadmitted /\ UNCHANGED nt
  BY <1>4, ParentTurns
<1>5. \/ UNCHANGED turnVars
      \/ \E c \in Child : Submit(c)
      \/ ExitWrite \/ StartTick \/ BootTerminated
      \/ BootUnadmitted /\ UNCHANGED nt
      \/ PickOldest \/ LookReady \/ ClaimTurn \/ Requeue \/ EndTick \/ RequeueExpired
      \/ Settle
      \/ \E t \in Turns : Admit(t) \/ Resume(t) \/ ClaimExpires(t)
      \/ \E status \in {"completed", "cancelled"} : Close(status)
  BY Steps DEF turnVars
<1> QED BY <1>1, <1>2, <1>3, <1>4, <1>5, ExitTurns, BootTurns, TickTurns, ParentTurns

-----------------------------------------------------------------------------
(* Rows of inbox and of child_assignments.                                  *)
Numbered == /\ \A n \in Notices : inbox[n].of \in Child <=> n <= nn
            /\ \A n \in Notices : inbox[n].status = "pending" => inbox[n].of \in Child
            /\ \A c \in Child : asg[c].notice <= nn
            /\ stale.notices \subseteq 1..nn
Ticking == /\ dpc \in {"activated", "slot", "paste"} => dturn \in Turns
           /\ batch \subseteq 1..nn
Stalled == boot = "armed" => stale.asgs \subseteq Handoffs
Waiting == /\ \A c \in Child : asg[c].status = "awaiting" => asg[c].notice = 0
           /\ \A c \in Assigned : asg[c].status # "recovering"
Base == TypeInv /\ Numbered /\ Ticking /\ Stalled /\ Waiting

(* An edit of a row of inbox keeps its child.                               *)
InboxEdit(p, q) == /\ q \in InboxRow /\ q.of = p.of
                   /\ q.status = "pending" => p.status = "pending" \/ p.of \in Child
SameInbox == inbox' \in [Notices -> InboxRow] /\ \A n \in Notices : InboxEdit(inbox[n], inbox'[n])
(* An edit of a row of child_assignments keeps its notice.                  *)
AsgEdit(c, p, q) == /\ q \in AsgRow /\ q.notice = p.notice
                    /\ q.status = "awaiting" => p.status = "awaiting"
                    /\ c \in Assigned /\ q.status = "recovering" => p.status = "recovering"
SameAsg == asg' \in [Child -> AsgRow] /\ \A c \in Child : AsgEdit(c, asg[c], asg'[c])

(* 0 is NULL and never a child.                                            *)
LEMMA ZeroNoChild ==
  0 \notin Child
BY ChildAssumption DEF Child

(* Writing the status of a notice is an edit.                              *)
LEMMA InboxStatus ==
  ASSUME NEW p \in InboxRow,
         NEW s \in {"pending", "delivered", "failed", "superseded"},
         s = "pending" => p.of \in Child
  PROVE  InboxEdit(p, p) /\ InboxEdit(p, [p EXCEPT !.status = s])
BY DEF InboxEdit, InboxRow

(* A step that writes the status of some notices.                          *)
LEMMA InboxAll ==
  ASSUME TypeOK, NEW S, NEW f,
         \A n \in Notices : n \in S =>
              /\ f[n] \in {"pending", "delivered", "failed", "superseded"}
              /\ f[n] = "pending" => inbox[n].of \in Child,
         inbox' = [n \in Notices |-> IF n \in S THEN [inbox[n] EXCEPT !.status = f[n]]
                                     ELSE inbox[n]]
  PROVE  SameInbox
<1>1. ASSUME NEW n \in Notices
      PROVE  InboxEdit(inbox[n], inbox'[n]) /\ inbox'[n] \in InboxRow
  <2>1. inbox[n] \in InboxRow /\ InboxEdit(inbox[n], inbox[n])
    BY Numbers DEF InboxEdit
  <2>2. CASE n \in S
    BY <2>1, <2>2, InboxStatus DEF InboxEdit
  <2> QED BY <2>1, <2>2
<1> QED BY <1>1 DEF SameInbox

(* A step that writes the status of one notice.                            *)
LEMMA InboxOne ==
  ASSUME TypeOK, NEW n, NEW s \in {"delivered", "failed"},
         inbox' = [inbox EXCEPT ![n].status = s]
  PROVE  SameInbox
<1>1. inbox \in [Notices -> InboxRow]
  BY Numbers
<1>2. \A m \in Notices : /\ InboxEdit(inbox[m], inbox[m])
                         /\ InboxEdit(inbox[m], [inbox[m] EXCEPT !.status = s])
  BY <1>1, InboxStatus
<1>3. inbox' = [m \in Notices |-> IF m = n THEN [inbox[m] EXCEPT !.status = s] ELSE inbox[m]]
  BY <1>1
<1>4. \A m \in Notices : inbox'[m] \in InboxRow /\ InboxEdit(inbox[m], inbox'[m])
  BY <1>2, <1>3 DEF InboxEdit
<1> QED BY <1>3, <1>4 DEF SameInbox

(* A step that leaves the Inbox alone.                                     *)
LEMMA InboxNone ==
  ASSUME TypeOK, inbox' = inbox
  PROVE  SameInbox
BY Numbers DEF SameInbox, InboxEdit

(* Failing the anchored notices edits them.                                *)
LEMMA FailAnchoredInbox ==
  ASSUME TypeOK, inbox' = FailAnchored
  PROVE  SameInbox
<1> DEFINE S == {n \in PendingNotices : TurnOf(n) # 0}
<1>1. inbox' = [n \in Notices |-> IF n \in S THEN [inbox[n] EXCEPT !.status = "failed"]
                                  ELSE inbox[n]]
  BY DEF FailAnchored
<1> DEFINE f == [n \in Notices |-> "failed"]
<1>2. inbox' = [n \in Notices |-> IF n \in S THEN [inbox[n] EXCEPT !.status = f[n]]
                                  ELSE inbox[n]]
  BY <1>1
<1> HIDE DEF S
<1>3. \A n \in Notices : n \in S =>
              /\ f[n] \in {"pending", "delivered", "failed", "superseded"}
              /\ f[n] = "pending" => inbox[n].of \in Child
  OBVIOUS
<1> HIDE DEF f
<1> QED BY <1>2, <1>3, InboxAll

(* A replay or a late receipt edits the notices of the members.            *)
LEMMA MembersInbox ==
  ASSUME TypeOK, NEW t, NEW i \in {"pending", "delivered"}, NEW a, WithMembers(t, i, a)
  PROVE  SameInbox
<1> DEFINE S == {n \in Notices : inbox[n].of \in Members(t)}
           f == [n \in Notices |-> i]
<1>1. inbox' = [n \in Notices |-> IF n \in S THEN [inbox[n] EXCEPT !.status = f[n]]
                                  ELSE inbox[n]]
  BY DEF WithMembers
<1>2. \A n \in Notices : n \in S =>
              /\ f[n] \in {"pending", "delivered", "failed", "superseded"}
              /\ f[n] = "pending" => inbox[n].of \in Child
  BY DEF Members
<1> HIDE DEF S, f
<1> QED BY <1>1, <1>2, InboxAll

(* Every step but the end of an attempt edits the notices there are.        *)
LEMMA InboxStep ==
  ASSUME Base,
         \/ StartTick \/ CloseScan \/ FailOldest \/ Requeue \/ WriteStatus \/ Settle
         \/ BootResults
         \/ \E t \in Turns : Admit(t)
         \/ \E status \in {"completed", "cancelled"} : Close(status)
  PROVE  SameInbox
<1> USE DEF Base, TypeInv
<1>1. CASE StartTick
  <2>1. CASE UNCHANGED inbox
    BY <2>1, InboxNone
  <2>2. CASE ~UNCHANGED inbox
    <3> DEFINE old == Superseded(LatestResume)
               kept == UNION {Kept(t) : t \in {u \in old : Kept(u) # {}}}
               S == (UNION {CarriedBy(t) : t \in old}) \ kept
    <3>1. inbox' = [n \in Notices |-> IF n \in S
                        THEN [inbox[n] EXCEPT !.status = Dropped(n)] ELSE inbox[n]]
      BY <1>1, <2>2 DEF StartTick, Rebuild, noticeVars
    <3> HIDE DEF S
    <3> DEFINE f == [n \in Notices |-> Dropped(n)]
    <3>2. inbox' = [n \in Notices |-> IF n \in S THEN [inbox[n] EXCEPT !.status = f[n]]
                                      ELSE inbox[n]]
      BY <3>1
    <3>3. \A n \in Notices : f[n] \in {"superseded", "failed"}
      BY DEF Dropped
    <3> HIDE DEF f
    <3> QED BY <3>2, <3>3, InboxAll
  <2> QED BY <2>1, <2>2
<1>2. CASE CloseScan
  BY <1>2, InboxNone, FailAnchoredInbox DEF CloseScan
<1>3. CASE FailOldest
  BY <1>3, InboxOne DEF FailOldest
<1>4. CASE Requeue
  BY <1>4, InboxNone, FailAnchoredInbox DEF Requeue
<1>5. CASE WriteStatus
  <2>1. dpc \in {"delivered", "failed"} /\ inbox' = [inbox EXCEPT ![Head(todo)[2]].status = dpc]
    BY <1>5 DEF WriteStatus
  <2> QED BY <2>1, InboxOne
<1>6. CASE Settle
  <2>1. \/ inbox' = inbox \/ inbox' = FailAnchored
        \/ \E t : WithMembers(t, "pending", "queued")
    BY <1>6 DEF Settle
  <2> QED BY <2>1, InboxNone, FailAnchoredInbox, MembersInbox
<1>7. CASE BootResults
  <2>1. CASE inbox' = inbox
    BY <2>1, InboxNone
  <2>2. CASE ~(inbox' = inbox)
    <3> DEFINE f == [n \in Notices |-> "pending"]
    <3>1. inbox' = [n \in Notices |-> IF n \in stale.notices
                                      THEN [inbox[n] EXCEPT !.status = f[n]] ELSE inbox[n]]
      BY <1>7, <2>2 DEF BootResults
    <3>2. \A n \in Notices : n \in stale.notices => inbox[n].of \in Child
      BY Numbers DEF Numbered
    <3>3. \A n \in Notices : n \in stale.notices =>
                 /\ f[n] \in {"pending", "delivered", "failed", "superseded"}
                 /\ f[n] = "pending" => inbox[n].of \in Child
      BY <3>2
    <3> HIDE DEF f
    <3> QED BY <3>1, <3>3, InboxAll
  <2> QED BY <2>1, <2>2
<1>8. ASSUME NEW t \in Turns, Admit(t)
      PROVE  SameInbox
  <2>1. inbox' = inbox \/ WithMembers(t, "delivered", "delivered")
    BY <1>8 DEF Admit
  <2> QED BY <2>1, InboxNone, MembersInbox
<1>9. ASSUME NEW status \in {"completed", "cancelled"}, Close(status)
      PROVE  SameInbox
  BY <1>9, FailAnchoredInbox DEF Close
<1> QED BY <1>1, <1>2, <1>3, <1>4, <1>5, <1>6, <1>7, <1>8, <1>9

(* Writing a status other than awaiting and recovering is an edit of the   *)
(* assignment.                                                             *)
LEMMA AsgStatusEdit ==
  ASSUME NEW c, NEW p \in AsgRow,
         NEW s \in {"queued", "delivered", "failed", "acknowledged", "cancelled"}
  PROVE  AsgEdit(c, p, p) /\ AsgEdit(c, p, [p EXCEPT !.status = s])
BY DEF AsgEdit, AsgRow, AsgStatus

(* A step that writes the status of some assignments.                      *)
LEMMA AsgAll ==
  ASSUME TypeOK, NEW S,
         NEW s \in {"queued", "delivered", "failed", "acknowledged", "cancelled"},
         asg' = [c \in Child |-> IF c \in S THEN [asg[c] EXCEPT !.status = s] ELSE asg[c]]
  PROVE  SameAsg
<1>1. ASSUME NEW c \in Child
      PROVE  AsgEdit(c, asg[c], asg'[c]) /\ asg'[c] \in AsgRow
  <2>1. asg[c] \in AsgRow
    BY Numbers
  <2>2. asg'[c] = asg[c] \/ asg'[c] = [asg[c] EXCEPT !.status = s]
    OBVIOUS
  <2>3. AsgEdit(c, asg[c], asg[c]) /\ AsgEdit(c, asg[c], [asg[c] EXCEPT !.status = s])
    BY <2>1, AsgStatusEdit
  <2> QED BY <2>2, <2>3 DEF AsgEdit
<1> QED BY <1>1 DEF SameAsg

(* A step that writes the status of one assignment.                        *)
LEMMA AsgOne ==
  ASSUME TypeOK, NEW c,
         NEW s \in {"queued", "delivered", "failed", "acknowledged", "cancelled"},
         asg' = [asg EXCEPT ![c].status = s]
  PROVE  SameAsg
<1>1. asg \in [Child -> AsgRow]
  BY Numbers
<1>2. asg' = [d \in Child |-> IF d \in {c} THEN [asg[d] EXCEPT !.status = s] ELSE asg[d]]
  BY <1>1
<1> QED BY <1>2, AsgAll

(* A step that sends some handoffs into recovery.                          *)
LEMMA AsgRecover ==
  ASSUME TypeOK, NEW S, S \cap Assigned = {},
         asg' = [c \in Child |-> IF c \in S THEN [asg[c] EXCEPT !.status = "recovering"]
                                 ELSE asg[c]]
  PROVE  SameAsg
<1>1. ASSUME NEW c \in Child
      PROVE  AsgEdit(c, asg[c], asg'[c]) /\ asg'[c] \in AsgRow
  <2>1. asg[c] \in AsgRow
    BY Numbers
  <2> QED BY <2>1 DEF AsgEdit, AsgRow, AsgStatus
<1> QED BY <1>1 DEF SameAsg

(* A step that leaves the assignments alone.                               *)
LEMMA AsgNone ==
  ASSUME TypeOK, asg' = asg
  PROVE  SameAsg
BY Numbers DEF SameAsg, AsgEdit

(* Every step but the end of an attempt edits the assignments.              *)
LEMMA AsgStep ==
  ASSUME Base,
         \/ StartTick \/ Mark \/ Settle \/ AckWrite \/ BootArm \/ BootResults
         \/ \E t \in Turns : Admit(t)
         \/ \E status \in {"completed", "cancelled"} : Close(status)
  PROVE  SameAsg
<1> USE DEF Base, TypeInv
<1>1. CASE StartTick
  <2>1. CASE UNCHANGED asg
    BY <2>1, AsgNone
  <2>2. CASE ~UNCHANGED asg
    <3> DEFINE kept == UNION {Kept(t) : t \in {u \in Superseded(LatestResume) : Kept(u) # {}}}
               S == {c \in Child : Least(NoticesOf(c) \cap kept) # 0}
    <3>1. asg' = [c \in Child |-> IF c \in S THEN [asg[c] EXCEPT !.status = "queued"] ELSE asg[c]]
      BY <1>1, <2>2 DEF StartTick, Rebuild
    <3> HIDE DEF S
    <3> QED BY <3>1, AsgAll
  <2> QED BY <2>1, <2>2
<1>2. CASE Mark
  <2>1. dpc \in {"delivered", "failed"} /\ asg' = [asg EXCEPT ![Head(todo)[2]].status = dpc]
    BY <1>2 DEF Mark
  <2> QED BY <2>1, AsgOne
<1>3. ASSUME NEW t, NEW i, NEW a \in {"queued", "delivered"}, WithMembers(t, i, a)
      PROVE  SameAsg
  BY <1>3, AsgAll DEF WithMembers
<1>4. CASE Settle
  <2>1. asg' = asg \/ \E t : WithMembers(t, "pending", "queued")
    BY <1>4 DEF Settle
  <2> QED BY <1>3, <2>1, AsgNone
<1>5. CASE AckWrite
  BY <1>5, AsgOne DEF AckWrite
<1>6. CASE BootArm
  <2>1. CASE UNCHANGED asg
    BY <2>1, AsgNone
  <2>2. CASE ~UNCHANGED asg
    <3>1. /\ boot = "armed"
          /\ asg' = [c \in Child |-> IF c \in stale.asgs
                                     THEN [asg[c] EXCEPT !.status = "recovering"] ELSE asg[c]]
      BY <1>6, <2>2 DEF BootArm
    <3>2. stale.asgs \cap Assigned = {}
      BY <3>1, ChildAssumption DEF Stalled
    <3> QED BY <3>1, <3>2, AsgRecover
  <2> QED BY <2>1, <2>2
<1>7. CASE BootResults
  BY <1>7, AsgNone, AsgAll DEF BootResults
<1>8. ASSUME NEW t \in Turns, Admit(t)
      PROVE  SameAsg
  BY <1>3, <1>8, AsgNone DEF Admit
<1>9. ASSUME NEW status \in {"completed", "cancelled"}, Close(status)
      PROVE  SameAsg
  <2> DEFINE S == {c \in Child : asg[c].status \in Active}
  <2>1. asg' = [c \in Child |-> IF c \in S THEN [asg[c] EXCEPT !.status = "cancelled"] ELSE asg[c]]
    BY <1>9 DEF Close
  <2> HIDE DEF S
  <2> QED BY <2>1, AsgAll
<1> QED BY <1>1, <1>2, <1>4, <1>5, <1>6, <1>7, <1>8, <1>9

(* The end of an attempt adds its notice, or finds the parent closed.       *)
AddNote(c) == /\ nn + 1 \in Notices /\ nn' = nn + 1
              /\ inbox' = [inbox EXCEPT ![nn + 1] = [of |-> c, status |-> "pending"]]
              /\ asg' = [asg EXCEPT ![c] = [status |-> "queued", notice |-> nn + 1]]
NoNote == nn' = nn /\ inbox' = inbox /\ SameAsg

(* Ending an attempt whose caller saw no notice, with an open parent, adds *)
(* the notice; otherwise the Inbox stays as it is.                         *)
LEMMA NotifyNotes ==
  ASSUME Base, NEW c \in Child, NEW seen, NEW res, NEW refused \in {"cancelled", "failed"},
         Notify(c, seen, res, refused)
  PROVE  NoNote \/ (seen = 0 /\ Open /\ AddNote(c))
<1> USE DEF Base, TypeInv
<1>1. CASE seen # 0 \/ ~Open
  <2>1. nn' = nn /\ inbox' = inbox
    BY <1>1 DEF Notify, noticeVars
  <2>2. asg' = asg \/ asg' = [asg EXCEPT ![c].status = refused]
    BY <1>1 DEF Notify
  <2> QED BY <2>1, <2>2, AsgNone, AsgOne DEF NoNote
<1>2. CASE ~(seen # 0 \/ ~Open)
  <2>1. /\ nn < MaxNotices /\ nn' = nn + 1
        /\ inbox' = [inbox EXCEPT ![nn + 1] = [of |-> c, status |-> "pending"]]
        /\ asg' = [asg EXCEPT ![c] = [status |-> "queued", notice |-> nn + 1]]
    BY <1>2 DEF Notify
  <2>2. nn + 1 \in Notices
    BY <2>1, Numbers DEF Notices
  <2> QED BY <1>2, <2>1, <2>2 DEF AddNote
<1> QED BY <1>1, <1>2

(* The same of a child's own report, which sees the notice of the row      *)
(* itself.                                                                 *)
LEMMA SubmitNotes ==
  ASSUME Base, NEW c \in Child, Submit(c)
  PROVE  NoNote \/ (asg[c].notice = 0 /\ Open /\ AddNote(c))
BY NotifyNotes DEF Submit

(* The same of the exit handler, which sees the notice of the row it has   *)
(* read.                                                                   *)
LEMMA ExitNotes ==
  ASSUME Base, ExitWrite
  PROVE  /\ leaving.child \in Child
         /\ NoNote \/ (leaving.row.notice = 0 /\ Open /\ AddNote(leaving.child))
<1> DEFINE c == leaving.child
<1>1. c \in Child
  BY DEF ExitWrite, Base, TypeInv, TypeOK
<1> HIDE DEF c
<1>2. PICK r : \/ leaving.how = "destroy" /\ Destroy(c, r)
               \/ leaving.how = "exit" /\ c \in Assigned /\ LoseAssigned(c, r)
               \/ leaving.how = "exit" /\ c \in Handoffs /\ Recover(c)
               \/ leaving.how = "exit" /\ c \in Handoffs /\ Exhaust(c, r)
  BY DEF ExitWrite, c
<1>3. \/ \E seen, res : \E refused \in {"cancelled", "failed"} :
             seen = leaving.row.notice /\ Notify(c, seen, res, refused)
      \/ nn' = nn /\ inbox' = inbox /\ asg' = asg
      \/ nn' = nn /\ inbox' = inbox /\ asg' = [asg EXCEPT ![c].status = "cancelled"]
      \/ c \in Handoffs /\ Recover(c)
  <2>1. CASE Destroy(c, r)
    BY <2>1 DEF Destroy, noticeVars
  <2>2. CASE LoseAssigned(c, r)
    BY <2>2 DEF LoseAssigned, noticeVars
  <2>3. CASE Exhaust(c, r)
    BY <2>3 DEF Exhaust, noticeVars
  <2> QED BY <1>2, <2>1, <2>2, <2>3
<1>4. CASE c \in Handoffs /\ Recover(c)
  <2>1. nn' = nn /\ inbox' = inbox
    BY <1>4 DEF Recover, noticeVars
  <2>2. asg' = [asg EXCEPT ![c].status = @] \/ asg' = [asg EXCEPT ![c].status = "recovering"]
    BY <1>4 DEF Recover
  <2>3. asg \in [Child -> AsgRow]
    BY Numbers DEF Base, TypeInv
  <2>4. \/ asg' = asg
        \/ asg' = [d \in Child |-> IF d \in {c} THEN [asg[d] EXCEPT !.status = "recovering"]
                                   ELSE asg[d]]
    BY <2>2, <2>3 DEF AsgRow
  <2>5. {c} \cap Assigned = {}
    BY <1>4, ChildAssumption
  <2> QED BY <1>1, <2>1, <2>4, <2>5, AsgNone, AsgRecover DEF NoNote, Base, TypeInv, c
<1>5. CASE nn' = nn /\ inbox' = inbox /\ asg' = asg
  BY <1>1, <1>5, AsgNone DEF NoNote, Base, TypeInv, c
<1>6. CASE nn' = nn /\ inbox' = inbox /\ asg' = [asg EXCEPT ![c].status = "cancelled"]
  BY <1>1, <1>6, AsgOne DEF NoNote, Base, TypeInv, c
<1>7. CASE \E seen, res : \E refused \in {"cancelled", "failed"} :
             seen = leaving.row.notice /\ Notify(c, seen, res, refused)
  <2>1. PICK seen, res : \E refused \in {"cancelled", "failed"} :
             seen = leaving.row.notice /\ Notify(c, seen, res, refused)
    BY <1>7
  <2>2. NoNote \/ (seen = 0 /\ Open /\ AddNote(c))
    BY <1>1, <2>1, NotifyNotes
  <2> QED BY <1>1, <2>1, <2>2 DEF c
<1> QED BY <1>1, <1>3, <1>4, <1>5, <1>6, <1>7 DEF c

(* What a restart ends: with an open parent every terminated child queues   *)
(* its own notice.                                                          *)
LEMMA BootNotes ==
  ASSUME Base, BootTerminated
  PROVE  LET k == IF Open THEN Cardinality(Terminated) ELSE 0 IN
         /\ k \in Nat /\ nn' = nn + k /\ nn + k <= MaxNotices /\ nt' = nt + k /\ nt + k <= MaxTurns
         /\ inbox' \in [Notices -> InboxRow] /\ asg' \in [Child -> AsgRow]
         /\ result' \in [Child -> ResultRow]
         /\ \A n \in Notices : n \notin nn + 1..nn + k => inbox'[n] = inbox[n]
         /\ \A n \in nn + 1..nn + k :
               /\ n \in Notices /\ inbox'[n].of = Nth(Terminated, n - nn)
               /\ n - nn \in 1..Cardinality(Terminated) /\ Open
         /\ \A c \in Terminated : /\ c \in Assigned /\ c \in Child /\ asg[c].status = "awaiting"
                                  /\ Rank(Terminated, c) \in 1..Cardinality(Terminated)
                                  /\ Nth(Terminated, Rank(Terminated, c)) = c
         /\ \A i \in 1..Cardinality(Terminated) :
               /\ Nth(Terminated, i) \in Terminated
               /\ Rank(Terminated, Nth(Terminated, i)) = i
         /\ \A c \in Child : c \notin Terminated => asg'[c] = asg[c] /\ result'[c] = result[c]
         /\ \A c \in Terminated :
               /\ asg'[c] = IF Open THEN [status |-> "queued", notice |-> nn + Rank(Terminated, c)]
                            ELSE [asg[c] EXCEPT !.status = "cancelled"]
               /\ result'[c].status = "incomplete"
<1> DEFINE k == IF Open THEN Cardinality(Terminated) ELSE 0
           T == Terminated
           note(n) == [of |-> Nth(T, n - nn), status |-> "pending"]
           asgOf(c) == IF Open THEN [status |-> "queued", notice |-> nn + Rank(T, c)]
                       ELSE [asg[c] EXCEPT !.status = "cancelled"]
           resOf(c) == [status |-> "incomplete", turn |-> IF Open THEN nt + Rank(T, c) ELSE 0]
<1>1. /\ nn' = nn + k /\ nn + k <= MaxNotices /\ nt' = nt + k /\ nt + k <= MaxTurns
      /\ inbox' = [n \in Notices |-> IF n \in nn + 1..nn + k THEN note(n) ELSE inbox[n]]
      /\ asg' = [c \in Child |-> IF c \notin T THEN asg[c] ELSE asgOf(c)]
      /\ result' = [c \in Child |-> IF c \notin T THEN result[c] ELSE resOf(c)]
  BY DEF BootTerminated
<1>2. /\ Cardinality(T) \in Nat /\ T \subseteq Child
      /\ \A c \in T : Rank(T, c) \in 1..Cardinality(T) /\ Nth(T, Rank(T, c)) = c
      /\ \A i \in 1..Cardinality(T) : Nth(T, i) \in T /\ Rank(T, Nth(T, i)) = i
  BY TerminatedType, Ranks
<1>3. /\ k \in Nat /\ nn \in Nat /\ nt \in Nat /\ MaxNotices \in Nat /\ MaxTurns \in Nat
      /\ inbox \in [Notices -> InboxRow] /\ asg \in [Child -> AsgRow]
      /\ result \in [Child -> ResultRow]
  BY <1>2, Numbers DEF Base, TypeInv
<1>4. \A c \in T : c \in Assigned /\ asg[c].status = "awaiting"
  BY DEF Terminated
<1>5. ASSUME NEW n \in nn + 1..nn + k
      PROVE  n \in Notices /\ n - nn \in 1..Cardinality(T) /\ Open /\ note(n) \in InboxRow
  <2>1. n \in Notices /\ n - nn \in 1..Cardinality(T) /\ Open
    BY <1>1, <1>2, <1>3 DEF Notices
  <2>2. Nth(T, n - nn) \in Child
    BY <1>2, <2>1
  <2> QED BY <2>1, <2>2 DEF InboxRow
<1>6. ASSUME NEW c \in T
      PROVE  asgOf(c) \in AsgRow /\ resOf(c) \in ResultRow
  <2>1. CASE Open
    <3>1. nn + Rank(T, c) \in 0..MaxNotices /\ nt + Rank(T, c) \in 0..MaxTurns
      BY <1>1, <1>2, <1>3, <2>1
    <3> QED BY <2>1, <3>1 DEF AsgRow, AsgStatus, ResultRow, ResultStatus
  <2>2. CASE ~Open
    <3>1. asg[c] \in AsgRow /\ 0 \in 0..MaxTurns
      BY <1>2, <1>3
    <3> QED BY <2>2, <3>1 DEF AsgRow, AsgStatus, ResultRow, ResultStatus
  <2> QED BY <2>1, <2>2
<1> HIDE DEF note, asgOf, resOf, k, T
<1>7. inbox' \in [Notices -> InboxRow]
  BY <1>1, <1>3, <1>5
<1>8. asg' \in [Child -> AsgRow] /\ result' \in [Child -> ResultRow]
  BY <1>1, <1>3, <1>6
<1>9. \A n \in Notices : n \notin nn + 1..nn + k => inbox'[n] = inbox[n]
  BY <1>1
<1>10. \A n \in nn + 1..nn + k : /\ n \in Notices /\ inbox'[n].of = Nth(T, n - nn)
                                 /\ n - nn \in 1..Cardinality(T) /\ Open
  BY <1>1, <1>5 DEF note
<1>11. \A c \in Child : c \notin T => asg'[c] = asg[c] /\ result'[c] = result[c]
  BY <1>1
<1>12. \A c \in T : asg'[c] = asgOf(c) /\ result'[c].status = "incomplete"
  BY <1>1, <1>2 DEF resOf
<1> QED BY <1>1, <1>2, <1>3, <1>4, <1>7, <1>8, <1>9, <1>10, <1>11, <1>12 DEF k, T, asgOf

(* The three kinds of steps.                                                *)
LEMMA Kinds ==
  ASSUME Base, [Next]_vars
  PROVE  \/ nn' = nn /\ SameInbox /\ SameAsg
         \/ \E c \in Child : /\ AddNote(c) /\ Open
                             /\ \/ Submit(c) /\ asg[c].notice = 0
                                \/ ExitWrite /\ leaving.child = c /\ leaving.row.notice = 0
         \/ BootTerminated
<1> USE DEF Base, TypeInv
<1>1. CASE \E c \in Child : Submit(c)
  BY <1>1, SubmitNotes, InboxNone DEF NoNote
<1>2. CASE ExitWrite
  BY <1>2, ExitNotes, InboxNone DEF NoNote
<1>3. CASE ~ExitWrite /\ ~BootTerminated /\ ~\E c \in Child : Submit(c)
  <2>1. nn' = nn
    BY <1>3, Steps
  <2>2. \/ inbox' = inbox
        \/ StartTick \/ CloseScan \/ FailOldest \/ Requeue \/ WriteStatus \/ Settle
        \/ BootResults
        \/ \E t \in Turns : Admit(t)
        \/ \E status \in {"completed", "cancelled"} : Close(status)
    BY <1>3, Steps
  <2>3. \/ asg' = asg
        \/ StartTick \/ Mark \/ Settle \/ AckWrite \/ BootArm \/ BootResults
        \/ \E t \in Turns : Admit(t)
        \/ \E status \in {"completed", "cancelled"} : Close(status)
    BY <1>3, Steps
  <2>4. SameInbox
    BY <2>2, InboxNone, InboxStep
  <2>5. SameAsg
    BY <2>3, AsgNone, AsgStep
  <2> QED BY <2>1, <2>4, <2>5
<1> QED BY <1>1, <1>2, <1>3

(* The rows keep their types, and their numbers.                            *)
NotesKept == /\ nn' \in 0..MaxNotices /\ nn' >= nn
             /\ inbox' \in [Notices -> InboxRow] /\ asg' \in [Child -> AsgRow]
             /\ \A n \in Notices : inbox'[n].of \in Child <=> n <= nn'
             /\ \A n \in Notices : inbox'[n].status = "pending" => inbox'[n].of \in Child
             /\ \A c \in Child : asg'[c].notice <= nn'
             /\ Waiting'

(* Every step keeps the rows of inbox and child_assignments typed and      *)
(* numbered.                                                               *)
LEMMA NotesStep ==
  ASSUME Base, [Next]_vars
  PROVE  NotesKept
<1>0. /\ nn \in Nat /\ nn \in 0..MaxNotices /\ MaxNotices \in Nat /\ Notices = 1..MaxNotices
      /\ inbox \in [Notices -> InboxRow] /\ asg \in [Child -> AsgRow]
      /\ \A n \in Notices : inbox[n].of \in Child <=> n <= nn
      /\ \A n \in Notices : inbox[n].status = "pending" => inbox[n].of \in Child
      /\ \A c \in Child : asg[c].notice <= nn /\ asg[c].notice \in Nat
      /\ Assigned \subseteq Child
  <2>1. \A c \in Child : asg[c].notice \in 0..MaxNotices
    BY Numbers DEF Base, TypeInv, AsgRow
  <2> QED BY <2>1, Numbers DEF Base, TypeInv, Numbered, Notices, Child
<1>1. CASE nn' = nn /\ SameInbox /\ SameAsg
  <2>1. Waiting'
    BY <1>0, <1>1 DEF SameAsg, AsgEdit, Waiting, Base
  <2> QED BY <1>0, <1>1, <2>1 DEF SameInbox, InboxEdit, SameAsg, AsgEdit, NotesKept
<1>2. ASSUME NEW c \in Child, AddNote(c)
      PROVE  NotesKept
  <2>1. [of |-> c, status |-> "pending"] \in InboxRow
    BY DEF InboxRow
  <2>2. [status |-> "queued", notice |-> nn + 1] \in AsgRow
    BY <1>0, <1>2 DEF AddNote, AsgRow, AsgStatus
  <2>3. /\ inbox' \in [Notices -> InboxRow] /\ asg' \in [Child -> AsgRow]
        /\ nn' = nn + 1 /\ nn + 1 \in Notices
    BY <1>0, <1>2, <2>1, <2>2 DEF AddNote
  <2>4. /\ \A n \in Notices : n # nn + 1 => inbox'[n] = inbox[n]
        /\ inbox'[nn + 1] = [of |-> c, status |-> "pending"]
        /\ \A d \in Child : d # c => asg'[d] = asg[d]
        /\ asg'[c] = [status |-> "queued", notice |-> nn + 1]
    BY <1>0, <1>2 DEF AddNote
  <2>5. Waiting'
    BY <1>0, <2>4 DEF Waiting, Base
  <2>6. \A n \in Notices : /\ inbox'[n].of \in Child <=> n <= nn'
                           /\ inbox'[n].status = "pending" => inbox'[n].of \in Child
    BY <1>0, <2>3, <2>4
  <2>7. \A d \in Child : asg'[d].notice <= nn'
    BY <1>0, <2>3, <2>4
  <2>8. nn' \in 0..MaxNotices /\ nn' >= nn
    BY <1>0, <2>3
  <2> QED BY <2>3, <2>5, <2>6, <2>7, <2>8 DEF NotesKept
<1>3. CASE BootTerminated
  <2> DEFINE k == IF Open THEN Cardinality(Terminated) ELSE 0
  <2>1. /\ k \in Nat /\ nn' = nn + k /\ nn + k <= MaxNotices
        /\ inbox' \in [Notices -> InboxRow] /\ asg' \in [Child -> AsgRow]
        /\ \A n \in Notices : n \notin nn + 1..nn + k => inbox'[n] = inbox[n]
        /\ \A n \in nn + 1..nn + k : n \in Notices /\ inbox'[n].of = Nth(Terminated, n - nn)
                                     /\ n - nn \in 1..Cardinality(Terminated)
        /\ \A i \in 1..Cardinality(Terminated) : Nth(Terminated, i) \in Terminated
        /\ \A c \in Terminated : c \in Child
    BY <1>3, BootNotes
  <2>2. /\ \A c \in Child : c \notin Terminated => asg'[c] = asg[c]
        /\ \A c \in Terminated :
               /\ asg'[c] = IF Open THEN [status |-> "queued", notice |-> nn + Rank(Terminated, c)]
                            ELSE [asg[c] EXCEPT !.status = "cancelled"]
               /\ Open => Rank(Terminated, c) \in 1..k
    BY <1>3, BootNotes
  <2>3. \A c \in Terminated :
               asg'[c].notice <= nn + k /\ asg'[c].status \in {"queued", "cancelled"}
    <3> SUFFICES ASSUME NEW c \in Terminated
                 PROVE  asg'[c].notice <= nn + k /\ asg'[c].status \in {"queued", "cancelled"}
      OBVIOUS
    <3>1. asg[c] \in AsgRow /\ asg[c].notice <= nn /\ asg[c].notice \in Nat
      BY <1>0, <2>1
    <3>2. CASE Open
      <4> HIDE DEF k
      <4>1. asg'[c] = [status |-> "queued", notice |-> nn + Rank(Terminated, c)]
        BY <2>2, <3>2
      <4>2. Rank(Terminated, c) \in 1..k
        BY <2>2, <3>2
      <4>3. asg'[c].notice = nn + Rank(Terminated, c) /\ asg'[c].status = "queued"
        BY <4>1
      <4> QED BY <1>0, <2>1, <4>2, <4>3
    <3>3. CASE ~Open
      <4>1. asg'[c] = [asg[c] EXCEPT !.status = "cancelled"]
        BY <2>2, <3>3
      <4>2. asg'[c].notice = asg[c].notice /\ asg'[c].status = "cancelled"
        BY <3>1, <4>1 DEF AsgRow
      <4> QED BY <1>0, <2>1, <3>1, <4>2
    <3> QED BY <3>2, <3>3
  <2> HIDE DEF k
  <2>4. Waiting'
    BY <1>0, <2>2, <2>3 DEF Waiting, Base
  <2>5. \A d \in Child : asg'[d].notice <= nn'
    BY <1>0, <2>1, <2>2, <2>3
  <2>6. \A n \in nn + 1..nn + k : inbox'[n].of \in Child
    BY <2>1
  <2>7. \A n \in Notices : /\ inbox'[n].of \in Child <=> n <= nn'
                           /\ inbox'[n].status = "pending" => inbox'[n].of \in Child
    BY <1>0, <2>1, <2>6
  <2>8. nn' \in 0..MaxNotices /\ nn' >= nn
    BY <1>0, <2>1
  <2> QED BY <2>1, <2>4, <2>5, <2>7, <2>8 DEF NotesKept
<1> QED BY <1>1, <1>2, <1>3, Kinds

(* Results.                                                                 *)
LEMMA ResultOne ==
  ASSUME TypeOK, NEW c, NEW s \in ResultStatus, NEW t \in 0..MaxTurns,
         \/ result' = result
         \/ result' = [result EXCEPT ![c].status = s]
         \/ result' = [result EXCEPT ![c].turn = t]
         \/ result' = [result EXCEPT ![c] = [status |-> s, turn |-> t]]
  PROVE  result' \in [Child -> ResultRow]
BY Numbers DEF ResultRow

(* Ending an attempt writes a typed result.                                *)
LEMMA NotifyResult ==
  ASSUME Base, NEW c \in Child, NEW seen, NEW res \in ResultStatus, NEW refused,
         Notify(c, seen, res, refused)
  PROVE  result' \in [Child -> ResultRow]
<1> USE DEF Base, TypeInv
<1>1. 0 \in 0..MaxTurns
  BY BoundAssumption
<1>2. CASE result' = [result EXCEPT ![c].status = res]
  BY <1>1, <1>2, ResultOne
<1>3. CASE ~(result' = [result EXCEPT ![c].status = res])
  <2>1. /\ nn < MaxNotices /\ Attach(c, nn + 1)
        /\ result' = [result EXCEPT ![c] =
               [status |-> res, turn |-> IF nt' = nt THEN Least(Joinable(c)) ELSE nt']]
    BY <1>3 DEF Notify
  <2>2. nn + 1 \in 0..MaxNotices
    BY <2>1, Numbers
  <2>3. TurnsKept /\ (nt' = nt => Least(Joinable(c)) \in Joinable(c))
    BY <2>1, <2>2, AttachTurns
  <2>4. (IF nt' = nt THEN Least(Joinable(c)) ELSE nt') \in 0..MaxTurns
    BY <2>3, BoundAssumption DEF TurnsKept, Joinable, OnBoundary, Turns
  <2> QED BY <2>1, <2>4, ResultOne
<1> QED BY <1>2, <1>3

(* A rebuild points the results at their heirs, which are turns.           *)
LEMMA RebuildResult ==
  ASSUME Base, NEW r, Rebuild(r)
  PROVE  result' \in [Child -> ResultRow]
<1> USE DEF Base, TypeInv
<1> DEFINE heirs == {t \in Superseded(r) : Kept(t) # {}}
           kept == UNION {Kept(t) : t \in heirs}
           Bearers(n) == {t \in heirs : n \in Kept(t)}
           Heir(t) == nt + Rank(heirs, t)
           Notice(c) == Least(NoticesOf(c) \cap kept)
<1>1. /\ nt + Cardinality(heirs) \in Turns
      /\ result' = [c \in Child |-> IF Notice(c) # 0
                        THEN [result[c] EXCEPT !.turn = Heir(Least(Bearers(Notice(c))))]
                        ELSE result[c]]
  BY DEF Rebuild, Rank
<1>2. heirs \in SUBSET Turns
  BY DEF Superseded
<1>3. heirs \in SUBSET (Nat \ {0}) /\ IsFiniteSet(heirs)
  <2>1. IsFiniteSet(Turns) /\ Turns \in SUBSET (Nat \ {0})
    BY BoundAssumption, FS_Interval DEF Turns
  <2> QED BY <1>2, <2>1, FS_Subset
<1>4. Cardinality(heirs) \in Nat /\ \A t \in heirs : Rank(heirs, t) \in 1..Cardinality(heirs)
  BY <1>3, Ranks
<1>5. ASSUME NEW c \in Child, Notice(c) # 0
      PROVE  Heir(Least(Bearers(Notice(c)))) \in 0..MaxTurns
  <2>1. NoticesOf(c) \cap kept \in SUBSET (Nat \ {0})
    BY Numbers DEF NoticesOf
  <2>2. Notice(c) \in kept
    BY <1>5, <2>1, LeastOf
  <2>3. Bearers(Notice(c)) # {} /\ Bearers(Notice(c)) \in SUBSET (Nat \ {0})
    BY <1>3, <2>2
  <2>4. Least(Bearers(Notice(c))) \in heirs
    BY <2>3, LeastOf
  <2>5. Heir(Least(Bearers(Notice(c)))) \in nt + 1..nt + Cardinality(heirs)
    BY <1>4, <2>4, Numbers
  <2> QED BY <1>1, <1>4, <2>5, Numbers DEF Turns
<1>6. result \in [Child -> ResultRow]
  BY Numbers
<1> HIDE DEF Notice, Heir, Bearers
<1>7. ASSUME NEW c \in Child
      PROVE  result'[c] \in ResultRow
  <2>1. result[c] \in ResultRow
    BY <1>6
  <2>2. CASE Notice(c) # 0
    <3>1. result'[c] = [result[c] EXCEPT !.turn = Heir(Least(Bearers(Notice(c))))]
      BY <1>1, <2>2
    <3> QED BY <1>5, <2>1, <2>2, <3>1 DEF ResultRow
  <2>3. CASE ~(Notice(c) # 0)
    BY <1>1, <2>1, <2>3
  <2> QED BY <2>2, <2>3
<1> QED BY <1>1, <1>7

(* Every step keeps the results typed.                                     *)
LEMMA ResultStep ==
  ASSUME Base, [Next]_vars
  PROVE  result' \in [Child -> ResultRow]
<1> USE DEF Base, TypeInv
<1>1. CASE UNCHANGED result
  BY <1>1, Numbers
<1>2. ASSUME NEW c \in Child, Submit(c)
      PROVE  result' \in [Child -> ResultRow]
  BY <1>2, NotifyResult DEF Submit, ResultStatus
<1>3. CASE ExitWrite
  <2> DEFINE c == leaving.child
  <2>1. c \in Child
    BY <1>3 DEF ExitWrite, TypeOK
  <2>2. PICK r \in {leaving.res, result[c].status} :
               Destroy(c, r) \/ LoseAssigned(c, r) \/ Recover(c) \/ Exhaust(c, r)
    BY <1>3 DEF ExitWrite
  <2>3. leaving.res \in ResultStatus
    BY DEF TypeOK
  <2>4. result[c].status \in ResultStatus
    BY <2>1, Numbers DEF ResultRow
  <2>5. r \in ResultStatus /\ EndedBy(r) \in ResultStatus /\ "incomplete" \in ResultStatus
    BY <2>2, <2>3, <2>4 DEF EndedBy, ResultStatus
  <2> HIDE DEF c
  <2>6. \/ result' = result
        \/ \E s \in ResultStatus : result' = [result EXCEPT ![c].status = s]
        \/ \E s \in ResultStatus : \E seen, refused : Notify(c, seen, s, refused)
    <3>1. CASE Destroy(c, r)
      <4>1. \/ result' = [result EXCEPT ![c].status = "incomplete"]
            \/ result' = [result EXCEPT ![c].status = @]
        BY <3>1 DEF Destroy
      <4> QED BY <2>1, <2>5, <4>1, Numbers DEF ResultRow
    <3>2. CASE LoseAssigned(c, r)
      BY <2>5, <3>2 DEF LoseAssigned
    <3>3. CASE Recover(c)
      BY <3>3 DEF Recover
    <3>4. CASE Exhaust(c, r)
      BY <2>5, <3>4 DEF Exhaust
    <3> QED BY <2>2, <3>1, <3>2, <3>3, <3>4
  <2>7. 0 \in 0..MaxTurns
    BY BoundAssumption
  <2> QED BY <2>1, <2>6, <2>7, NotifyResult, ResultOne, <1>1
<1>4. CASE StartTick
  BY <1>1, <1>4, RebuildResult DEF StartTick
<1>5. CASE PickOldest
  <2>1. CASE UNCHANGED result
    BY <1>1, <2>1
  <2>2. CASE ~UNCHANGED result
    <3>1. PICK n, c : /\ n = Oldest /\ n # 0 /\ c = inbox[n].of /\ Materializes(n) /\ Attach(c, n)
                      /\ result' = [result EXCEPT ![c].turn = IF nt' = nt
                                        THEN Least(Joinable(c)) ELSE nt']
      BY <1>5, <2>2 DEF PickOldest
    <3>2. c \in Child /\ n \in 0..MaxNotices
      BY <3>1, OldestType, Numbers DEF Materializes, Child, Notices
    <3>3. TurnsKept /\ (nt' = nt => Least(Joinable(c)) \in Joinable(c))
      BY <3>1, <3>2, AttachTurns
    <3>4. (IF nt' = nt THEN Least(Joinable(c)) ELSE nt') \in 0..MaxTurns
      BY <3>3, BoundAssumption DEF TurnsKept, Joinable, OnBoundary, Turns
    <3> QED BY <3>1, <3>4, ResultOne DEF ResultStatus
  <2> QED BY <2>1, <2>2
<1>6. CASE BootTerminated
  BY <1>6, BootNotes
<1>7. ASSUME NEW status \in {"completed", "cancelled"}, Close(status)
      PROVE  result' \in [Child -> ResultRow]
  <2>1. result' = [c \in Child |-> IF asg[c].status \in Active /\ result[c].status = "awaiting"
                                   THEN [result[c] EXCEPT !.status = "cancelled"] ELSE result[c]]
    BY <1>7 DEF Close
  <2> QED BY <2>1, Numbers DEF ResultRow, ResultStatus
<1> QED BY <1>1, <1>2, <1>3, <1>4, <1>5, <1>6, <1>7, Steps

(* The dispatcher's own variables.                                          *)
TickKept == /\ dpc' \in TickSteps /\ dturn' \in 0..MaxTurns /\ batch' \subseteq Notices
            /\ todo' \in Seq(Item) /\ Ticking'

(* Every step keeps the dispatcher's batch within the notices, and its     *)
(* turn a turn from activation to paste.                                   *)
LEMMA TickStep ==
  ASSUME Base, [Next]_vars
  PROVE  TickKept
<1> USE DEF Base, TypeInv
<1>1. /\ dpc \in TickSteps /\ dturn \in 0..MaxTurns /\ batch \subseteq Notices
      /\ todo \in Seq(Item) /\ 0 \in 0..MaxTurns
      /\ dpc \in {"activated", "slot", "paste"} => dturn \in Turns
      /\ batch \subseteq 1..nn
      /\ nn \in Nat /\ nn' \in Nat /\ nn' >= nn
  BY NotesStep, Numbers, BoundAssumption DEF TypeOK, Item, Ticking, NotesKept
<1>2. 1..nn \subseteq 1..nn'
  BY <1>1
<1>3. CASE UNCHANGED <<dpc, dturn, batch, todo>>
  BY <1>1, <1>2, <1>3 DEF TickKept, Ticking
<1>4. CASE Idle
  <2>1. <<>> \in Seq(Item)
    BY EmptySeq
  <2> QED BY <1>1, <1>4, <2>1 DEF Idle, TickKept, Ticking, TickSteps
<1>5. todo # <<>> => Tail(todo) \in Seq(Item)
  BY <1>1, HeadTailProperties
<1>6. \A S \in SUBSET Notices : Writes(S) \in Seq(Item) /\ WritesEach(S) \in Seq(Item)
  BY WritesType
<1>7. CASE UNCHANGED <<dturn, batch, todo>> /\ dpc' \in {"close", "head"}
  BY <1>1, <1>2, <1>7 DEF TickKept, Ticking, TickSteps
<1>8. CASE UNCHANGED <<dturn, batch>> /\ dpc' \in {"delivered", "failed", "undelivered", "deferred",
                                                   "rejected"} /\ todo' \in Seq(Item)
  BY <1>1, <1>2, <1>8 DEF TickKept, Ticking, TickSteps
<1>9. CASE StartTick \/ CloseScan
  BY <1>7, <1>9 DEF StartTick, CloseScan
<1>10. \A n \in PendingNotices : n \in Notices /\ n \in 1..nn
  BY Numbers DEF PendingNotices, Numbered, Notices
<1>11. CASE PickOldest
  <2>1. CASE Idle
    BY <1>4, <2>1
  <2>2. CASE ~Idle
    <3>1. /\ dpc' = "look" /\ batch' = {Oldest} /\ Oldest # 0
          /\ dturn' = dturn /\ todo' = todo
      BY <1>11, <2>2 DEF PickOldest
    <3>2. Oldest \in Notices /\ Oldest \in 1..nn'
      BY <1>2, <1>10, <3>1, OldestType
    <3> QED BY <1>1, <3>1, <3>2 DEF TickKept, Ticking, TickSteps
  <2> QED BY <2>1, <2>2
<1>12. CASE LookBusy \/ Crash
  BY <1>4, <1>12 DEF LookBusy, Crash
<1>13. CASE LookDead
  BY <1>1, <1>6, <1>8, <1>13 DEF LookDead
<1>14. CASE LookReady
  <2> DEFINE t == TurnOf(Min(batch))
  <2>1. CASE Idle
    BY <1>4, <2>1
  <2>2. CASE ~Idle
    <3>1. /\ t # 0 /\ dturn' = t /\ dpc' \in {"slot", "activated"} /\ todo' = todo
          /\ batch' = batch \/ batch' = SealedNotices(t)
      BY <1>14, <2>2 DEF LookReady
    <3>2. t \in Turns /\ t \in 0..MaxTurns
      <4>1. {u \in Turns : turn[u].anchor = Min(batch)} \in SUBSET (Nat \ {0})
        BY BoundAssumption DEF Turns
      <4> QED BY <3>1, <4>1, LeastOf DEF TurnOf, Turns
    <3>3. SealedNotices(t) \subseteq PendingNotices
      BY DEF SealedNotices
    <3>4. batch' \subseteq Notices /\ batch' \subseteq 1..nn'
      BY <1>1, <1>2, <1>10, <3>1, <3>3
    <3> HIDE DEF t
    <3> QED BY <1>1, <3>1, <3>2, <3>4 DEF TickKept, Ticking, TickSteps
  <2> QED BY <2>1, <2>2
<1>15. CASE ClaimTurn
  <2>1. CASE Idle
    BY <1>4, <2>1
  <2>2. CASE ~Idle
    BY <1>1, <1>2, <1>15, <2>2 DEF ClaimTurn, TickKept, Ticking, TickSteps
  <2> QED BY <2>1, <2>2
<1>16. CASE Slot
  BY <1>1, <1>2, <1>16 DEF Slot, SlotGranted, SlotRefused, TickKept, Ticking, TickSteps
<1>17. CASE PasteAccepted \/ PasteFailed
  BY <1>1, <1>6, <1>8, <1>17 DEF PasteAccepted, PasteFailed
<1>18. CASE Requeue
  BY <1>1, <1>4, <1>6, <1>8, <1>18 DEF Requeue
<1>19. CASE WriteStatus \/ Mark
  BY <1>1, <1>5, <1>8, <1>19 DEF WriteStatus, Mark
<1>20. CASE ReadMark
  <2>1. todo # <<>> /\ UNCHANGED <<dpc, dturn, batch>> /\ dpc \in {"delivered", "failed"}
    BY <1>20 DEF ReadMark
  <2>2. CASE todo' = Tail(todo)
    BY <1>5, <1>8, <2>1, <2>2
  <2>3. CASE todo' # Tail(todo)
    <3>1. PICK c \in Child : todo' = << <<"mark", c>> >> \o Tail(todo)
      BY <1>20, <2>3 DEF ReadMark
    <3>2. <<"mark", c>> \in Item
      BY DEF Item
    <3>3. << <<"mark", c>> >> \in Seq(Item)
      BY <3>2
    <3>4. todo' \in Seq(Item)
      BY <1>5, <2>1, <3>1, <3>3, ConcatProperties
    <3> QED BY <1>8, <2>1, <3>4
  <2> QED BY <2>2, <2>3
<1>21. CASE EndTick
  BY <1>4, <1>21 DEF EndTick
<1>22. \/ UNCHANGED <<dpc, dturn, batch, todo>>
       \/ StartTick \/ CloseScan \/ PickOldest \/ LookBusy \/ LookDead \/ LookReady
       \/ ClaimTurn \/ Slot \/ PasteAccepted \/ PasteFailed \/ Requeue \/ WriteStatus
       \/ ReadMark \/ Mark \/ EndTick \/ Crash
  BY Steps
<1> QED BY <1>3, <1>9, <1>11, <1>12, <1>13, <1>14, <1>15, <1>16, <1>17, <1>18, <1>19, <1>20,
           <1>21, <1>22

(* The workflow and the pane.                                               *)
PaneKept == /\ wf' \in [status : {"open", "completed", "cancelled", "owner_gate"}, active : Turns]
            /\ wf.status # "open" => wf' = wf
            /\ lease' \in 0..MaxTurns /\ pasted' \subseteq Turns /\ shown' \subseteq Child
            /\ faults' \in 0..MaxFaults /\ overtaken' \in BOOLEAN /\ (overtaken => overtaken')

(* Every step keeps workflow, lease and pane typed; a workflow that is not *)
(* open no longer changes, and an overtaken handler stays recorded.        *)
LEMMA PaneStep ==
  ASSUME Base, [Next]_vars
  PROVE  PaneKept
<1> USE DEF Base, TypeInv
<1>1. /\ wf \in [status : {"open", "completed", "cancelled", "owner_gate"}, active : Turns]
      /\ lease \in 0..MaxTurns /\ pasted \subseteq Turns /\ shown \subseteq Child
      /\ faults \in 0..MaxFaults /\ overtaken \in BOOLEAN
      /\ dturn \in 0..MaxTurns /\ Turns = 1..MaxTurns /\ MaxTurns \in Nat /\ MaxFaults \in Nat
      /\ nt \in Turns
  BY Numbers, BoundAssumption DEF TypeOK, Turns
<1>2. /\ wf' \in [status : {"open", "completed", "cancelled", "owner_gate"}, active : Turns]
      /\ wf.status # "open" => wf' = wf
  <2>1. CASE UNCHANGED wf
    BY <1>1, <2>1
  <2>2. CASE LookReady
    <3> DEFINE t == TurnOf(Min(batch))
    <3>1. wf' = wf \/ (t # 0 /\ wf' = [wf EXCEPT !.active = t] /\ Open)
      BY <2>2 DEF LookReady, Activatable
    <3>2. t # 0 => t \in Turns
      <4>1. {u \in Turns : turn[u].anchor = Min(batch)} \in SUBSET (Nat \ {0})
        BY BoundAssumption DEF Turns
      <4> QED BY <4>1, LeastOf DEF TurnOf
    <3> HIDE DEF t
    <3> QED BY <1>1, <3>1, <3>2 DEF Open
  <2>3. CASE Requeue \/ Settle
    <3>1. wf' = wf \/ (wf' = [wf EXCEPT !.status = "owner_gate"] /\ Open)
      BY <2>3 DEF Requeue, Settle
    <3> QED BY <1>1, <3>1 DEF Open
  <2>4. ASSUME NEW t \in Turns, Resume(t)
        PROVE  /\ wf' \in [status : {"open", "completed", "cancelled", "owner_gate"}, active : Turns]
               /\ wf.status # "open" => wf' = wf
    <3>1. wf' = [wf EXCEPT !.active = nt + 1] /\ Open /\ nt < MaxTurns
      BY <2>4 DEF Resume
    <3>2. nt + 1 \in Turns
      BY <1>1, <3>1
    <3> QED BY <1>1, <3>1, <3>2 DEF Open
  <2>5. ASSUME NEW status \in {"completed", "cancelled"}, Close(status)
        PROVE  /\ wf' \in [status : {"open", "completed", "cancelled", "owner_gate"}, active : Turns]
               /\ wf.status # "open" => wf' = wf
    BY <1>1, <2>5 DEF Close, MayClose, Open
  <2> QED BY <2>1, <2>2, <2>3, <2>4, <2>5, Steps
<1>3. lease' \in 0..MaxTurns
  <2>1. CASE Slot \/ PasteFailed \/ Settle
    BY <1>1, <2>1 DEF Slot, SlotGranted, SlotRefused, PasteFailed, Settle
  <2>2. ASSUME NEW t \in Turns, Admit(t) \/ Resume(t)
        PROVE  lease' \in 0..MaxTurns
    BY <1>1, <2>2 DEF Admit, Resume
  <2> QED BY <1>1, <2>1, <2>2, Steps
<1>4. pasted' \subseteq Turns /\ shown' \subseteq Child
  <2>1. CASE PasteAccepted \/ PasteFailed
    <3>1. dturn \in Turns
      BY <2>1 DEF PasteAccepted, PasteFailed, Ticking
    <3>2. \A n \in batch : inbox[n].of \in Child
      BY Numbers DEF Ticking, Numbered, Notices, TypeOK
    <3> QED BY <1>1, <2>1, <3>1, <3>2 DEF PasteAccepted, PasteFailed, Shown
  <2> QED BY <1>1, <2>1, Steps
<1>5. faults' \in 0..MaxFaults
  <2>1. ASSUME NEW t \in Turns, ClaimExpires(t)
        PROVE  faults' \in 0..MaxFaults
    BY <1>1, <2>1 DEF ClaimExpires
  <2>2. CASE Crash
    BY <1>1, <2>2 DEF Crash
  <2> QED BY <1>1, <2>1, <2>2, Steps
<1>6. overtaken' \in BOOLEAN /\ (overtaken => overtaken')
  <2>1. UNCHANGED overtaken \/ \E p \in BOOLEAN : overtaken' = (overtaken \/ p)
    BY Steps DEF ExitWrite, Mark, AckWrite, BootArm, BootResults
  <2> QED BY <1>1, <2>1
<1> QED BY <1>2, <1>3, <1>4, <1>5, <1>6 DEF PaneKept

(* The children, and the threads that hold rows they have read.             *)
ThreadKept == /\ childWf' \in [Child -> {"open", "terminal", "cancelled"}]
              /\ cycles' \in [Child -> 0..MaxCycles] /\ exited' \subseteq Child
              /\ leaving' \in [child : Child \cup {0}, how : {"exit", "destroy"}, row : AsgRow,
                               res : ResultStatus]
              /\ acking' \in Child \cup {0} /\ boot' \in BootSteps
              /\ stale' \in [asgs : SUBSET Child, notices : SUBSET Notices]
              /\ stale'.notices \subseteq 1..nn' /\ Stalled'

(* Every step keeps the children and the threads' rows typed; what a       *)
(* restart has read are notices there are and, while it arms, handoffs.    *)
LEMMA ThreadStep ==
  ASSUME Base, [Next]_vars
  PROVE  ThreadKept
<1> USE DEF Base, TypeInv
<1>1. /\ childWf \in [Child -> {"open", "terminal", "cancelled"}]
      /\ cycles \in [Child -> 0..MaxCycles] /\ exited \subseteq Child
      /\ leaving \in [child : Child \cup {0}, how : {"exit", "destroy"}, row : AsgRow,
                      res : ResultStatus]
      /\ acking \in Child \cup {0} /\ boot \in BootSteps
      /\ stale \in [asgs : SUBSET Child, notices : SUBSET Notices]
      /\ stale.notices \subseteq 1..nn /\ Stalled
      /\ nn \in Nat /\ nn' \in Nat /\ nn' >= nn /\ MaxCycles \in Nat
      /\ asg \in [Child -> AsgRow] /\ result \in [Child -> ResultRow]
  BY NotesStep, Numbers, BoundAssumption DEF TypeOK, NotesKept, Numbered
<1>2. childWf' \in [Child -> {"open", "terminal", "cancelled"}]
  <2>1. ASSUME NEW c \in Child, Submit(c)
        PROVE  childWf' \in [Child -> {"open", "terminal", "cancelled"}]
    BY <1>1, <2>1 DEF Submit
  <2>2. CASE ExitWrite
    <3> DEFINE c == leaving.child
    <3>1. \/ childWf' = childWf
          \/ childWf' = [childWf EXCEPT ![c] = IF @ = "open" THEN "cancelled" ELSE @]
      BY <2>2 DEF ExitWrite, Destroy, LoseAssigned, Recover, Exhaust
    <3> QED BY <1>1, <3>1
  <2>3. CASE BootTerminated
    BY <1>1, <2>3 DEF BootTerminated
  <2> QED BY <1>1, <2>1, <2>2, <2>3, Steps
<1>3. cycles' \in [Child -> 0..MaxCycles]
  <2>1. CASE ExitWrite
    <3> DEFINE c == leaving.child
    <3>0. c \in Child
      BY <2>1 DEF ExitWrite, TypeOK
    <3>1. \/ cycles' = cycles
          \/ cycles[c] < MaxCycles /\ cycles' = [cycles EXCEPT ![c] = @ + 1]
      BY <2>1 DEF ExitWrite, Destroy, LoseAssigned, Recover, Exhaust
    <3> HIDE DEF c
    <3>2. cycles[c] < MaxCycles => cycles[c] + 1 \in 0..MaxCycles
      BY <1>1, <3>0
    <3> QED BY <1>1, <3>0, <3>1, <3>2
  <2> QED BY <1>1, <2>1, Steps
<1>4. /\ exited' \subseteq Child
      /\ leaving' \in [child : Child \cup {0}, how : {"exit", "destroy"}, row : AsgRow,
                       res : ResultStatus]
  <2>1. NotLeaving \in [child : Child \cup {0}, how : {"exit", "destroy"}, row : AsgRow,
                        res : ResultStatus]
    BY BoundAssumption DEF NotLeaving, AsgRow, AsgStatus, ResultStatus
  <2>2. ASSUME NEW c \in Child, NEW how \in {"exit", "destroy"}, ExitRead(c, how)
        PROVE  /\ exited' \subseteq Child
               /\ leaving' \in [child : Child \cup {0}, how : {"exit", "destroy"}, row : AsgRow,
                                res : ResultStatus]
    <3>1. asg[c] \in AsgRow /\ result[c].status \in ResultStatus
      BY <1>1 DEF ResultRow
    <3>2. leaving' = [child |-> c, how |-> how, row |-> asg[c], res |-> result[c].status]
      BY <2>2 DEF ExitRead
    <3>3. exited' \subseteq Child
      BY <1>1, <2>2 DEF ExitRead
    <3> QED BY <3>1, <3>2, <3>3
  <2>3. exited' \subseteq Child
    BY <1>1, <2>2, Steps
  <2>4. CASE ExitWrite \/ Crash
    BY <2>1, <2>3, <2>4 DEF ExitWrite, Crash
  <2> QED BY <1>1, <2>1, <2>2, <2>3, <2>4, Steps
<1>5. acking' \in Child \cup {0}
  BY <1>1, Steps DEF AckRead, AckWrite
<1>6. boot' \in BootSteps
  BY <1>1, Steps DEF Crash, Restart, BootTerminated, BootArm, BootUnadmitted, BootResults,
     BootSteps
<1>7. /\ stale' \in [asgs : SUBSET Child, notices : SUBSET Notices]
      /\ stale'.notices \subseteq 1..nn'
  <2>1. CASE UNCHANGED stale
    BY <1>1, <2>1
  <2>2. CASE stale' = NotStale
    BY <2>2 DEF NotStale
  <2>3. CASE BootArm
    BY <1>1, <2>2, <2>3 DEF BootArm, Child
  <2>4. CASE BootResults
    <3> DEFINE S == {c \in Child : asg[c].status \in {"queued", "delivered", "failed"}
                                   /\ asg[c].notice # 0}
    <3>1. CASE stale' = [asgs |-> {c \in S : asg[c].status # "queued"},
                         notices |-> {asg[c].notice : c \in S} \ PendingNotices]
      <4>1. ASSUME NEW c \in Child, asg[c].notice # 0
            PROVE  asg[c].notice \in Notices /\ asg[c].notice \in 1..nn'
        <5>1. asg[c].notice \in 0..MaxNotices /\ asg[c].notice <= nn
          BY <1>1 DEF AsgRow, Numbered
        <5> QED BY <1>1, <4>1, <5>1, BoundAssumption DEF Notices
      <4> QED BY <3>1, <4>1
    <3> QED BY <2>2, <2>4, <3>1 DEF BootResults
  <2>5. CASE Crash
    BY <2>2, <2>5 DEF Crash
  <2> QED BY <2>1, <2>3, <2>4, <2>5, Steps
<1>8. Stalled'
  <2>1. CASE boot' # "armed"
    BY <2>1 DEF Stalled
  <2>2. CASE boot' = "armed"
    <3>1. CASE boot = "armed"
      <4>1. UNCHANGED stale
        BY <2>2, <3>1, Steps DEF Crash, BootArm, BootResults
      <4> QED BY <1>1, <3>1, <4>1 DEF Stalled
    <3>2. CASE boot # "armed"
      <4>1. BootArm
        BY <2>2, <3>2, Steps DEF Crash, Restart, BootTerminated, BootUnadmitted, BootResults
      <4> QED BY <1>1, <2>2, <4>1 DEF BootArm, Stalled
    <3> QED BY <3>1, <3>2
  <2> QED BY <2>1, <2>2
<1> QED BY <1>2, <1>3, <1>4, <1>5, <1>6, <1>7, <1>8 DEF ThreadKept

(* The invariant on the rows' types and numbers.                            *)
LEMMA BaseInit ==
  ASSUME Init
  PROVE  Base
<1>1. /\ 1 \in Turns /\ nt = 1 /\ MaxTurns \in Nat /\ MaxNotices \in Nat /\ Turns = 1..MaxTurns
      /\ Notices = 1..MaxNotices /\ 0 \notin Child /\ MaxCycles \in Nat /\ MaxFaults \in Nat
      /\ 0 \in 0..MaxNotices /\ 0 \in 0..MaxTurns
  BY BoundAssumption, ZeroNoChild DEF Init, Turns, Notices
<1>2. turn \in [Turns -> TurnRow] /\ \A t \in Turns : RowOK(turn[t])
  <2>1. RowOK(Admitted("external_input"))
    BY AdmittedRow
  <2>2. RowOK(NoTurn)
    BY <1>1 DEF NoTurn, NewTurn, RowOK, TurnRow
  <2>3. turn = [[t \in Turns |-> NoTurn] EXCEPT ![1] = Admitted("external_input")]
    BY DEF Init
  <2> QED BY <2>1, <2>2, <2>3 DEF RowOK
<1>3. Fresh
  <2>1. \A t \in Turns : t # 1 => turn[t].kind = "none"
    BY DEF Init, NoTurn, NewTurn
  <2> QED BY <1>1, <2>1 DEF Fresh
<1>4. /\ wf \in [status : {"open", "completed", "cancelled", "owner_gate"}, active : Turns]
      /\ nt \in Turns /\ lease \in 0..MaxTurns /\ pasted \subseteq Turns /\ shown \subseteq Child
      /\ nn \in 0..MaxNotices /\ inbox \in [Notices -> InboxRow]
      /\ asg \in [Child -> AsgRow] /\ result \in [Child -> ResultRow]
  BY <1>1 DEF Init, InboxRow, AsgRow, AsgStatus, ResultRow, ResultStatus
<1>5. /\ childWf \in [Child -> {"open", "terminal", "cancelled"}]
      /\ cycles \in [Child -> 0..MaxCycles] /\ exited \subseteq Child
      /\ acking \in Child \cup {0} /\ faults \in 0..MaxFaults /\ overtaken \in BOOLEAN
  <2>1. /\ childWf = [c \in Child |-> "open"] /\ cycles = [c \in Child |-> 0] /\ exited = {}
        /\ acking = 0 /\ faults = 0 /\ overtaken = FALSE
    BY DEF Init
  <2>2. 0 \in 0..MaxCycles /\ 0 \in 0..MaxFaults
    BY <1>1
  <2> QED BY <2>1, <2>2
<1>6. /\ leaving \in [child : Child \cup {0}, how : {"exit", "destroy"}, row : AsgRow,
                      res : ResultStatus]
      /\ boot \in BootSteps /\ stale \in [asgs : SUBSET Child, notices : SUBSET Notices]
  BY <1>1 DEF Init, NotLeaving, NotStale, AsgRow, AsgStatus, ResultStatus, BootSteps
<1>7. dpc \in TickSteps /\ dturn \in 0..MaxTurns /\ batch \subseteq Notices /\ todo \in Seq(Item)
  <2>1. <<>> \in Seq(Item)
    BY EmptySeq
  <2> QED BY <1>1, <2>1 DEF Init, TickSteps
<1>8. TypeInv
  BY <1>2, <1>3, <1>4, <1>5, <1>6, <1>7 DEF TypeInv, TypeOK, RowOK, Item
<1>9. Numbered /\ Ticking /\ Stalled /\ Waiting
  <2>1. Numbered
    BY <1>1 DEF Init, Numbered, NotStale
  <2>2. Ticking /\ Stalled
    BY DEF Init, Ticking, Stalled
  <2>3. Waiting
    BY DEF Init, Waiting, Child
  <2> QED BY <2>1, <2>2, <2>3
<1> QED BY <1>8, <1>9 DEF Base

(* The invariant on types and numbers is inductive.                        *)
LEMMA BaseStep ==
  ASSUME Base, [Next]_vars
  PROVE  Base'
<1>1. TurnsKept /\ NotesKept /\ TickKept /\ PaneKept /\ ThreadKept
  BY TurnsStep, NotesStep, TickStep, PaneStep, ThreadStep DEF Base
<1>2. result' \in [Child -> ResultRow]
  BY ResultStep
<1>3. \A t \in Turns : turn'[t].claim = "none" <=> turn'[t].state # "claimed"
  BY <1>1 DEF TurnsKept, RowOK
<1>4. TypeOK'
  BY <1>1, <1>2, <1>3 DEF TypeOK, TurnsKept, NotesKept, TickKept, PaneKept, ThreadKept, Item
<1>5. Fresh'
  <2> SUFFICES ASSUME NEW t \in Turns, t > nt'
               PROVE  turn'[t].kind = "none"
    BY DEF Fresh
  <2>1. nt \in Nat /\ nt' \in Nat /\ nt' >= nt /\ t \in Nat
    BY <1>1, Numbers, BoundAssumption DEF TurnsKept, Turns, Base, TypeInv
  <2>2. t \notin nt + 1..nt' /\ t > nt
    BY <2>1
  <2> QED BY <1>1, <2>2 DEF TurnsKept, Kin, Base, TypeInv, Fresh
<1>6. TypeInv'
  BY <1>1, <1>4, <1>5 DEF TypeInv, TurnsKept
<1>7. (Numbered /\ Ticking /\ Stalled /\ Waiting)'
  BY <1>1 DEF NotesKept, TickKept, ThreadKept, Numbered
<1> QED BY <1>6, <1>7 DEF Base

(* Every variable keeps its type: rows of workflow_turns, inbox,           *)
(* child_assignments and delegation_results, and a claim token exactly on  *)
(* a claimed turn.                                                         *)
THEOREM TypeCorrect == Spec => []TypeOK
<1>1. Init => Base
  BY BaseInit
<1>2. Base /\ [Next]_vars => Base'
  BY BaseStep
<1>3. Base => TypeOK
  BY DEF Base, TypeInv
<1> QED BY <1>1, <1>2, <1>3, PTL DEF Spec

-----------------------------------------------------------------------------
(* One notice for every attempt.                                            *)
Left == leaving.child # 0 =>
    /\ leaving.row.status \in Active
    /\ leaving.child \in Handoffs \/ leaving.how = "exit"
          => leaving.row.status \in {"awaiting", "recovering"}
    /\ leaving.child \in Assigned /\ leaving.how = "exit" => leaving.row.notice = 0
HasTurn(c) == \E t \in Turns : turn[t].kind = "assigned_result" /\ turn[t].key = c
Keyed == \A c \in Assigned : asg[c].notice # 0 => HasTurn(c)
Noticed == \A c \in Child : c \in Assigned \/ ~overtaken =>
    NoticesOf(c) = IF asg[c].notice = 0 THEN {} ELSE {asg[c].notice}
NoticeInv == Base /\ Left /\ Keyed /\ Noticed

(* What an exit handler has read is an attempt it may end.                 *)
LEMMA LeftStep ==
  ASSUME Base, Left, [Next]_vars
  PROVE  Left'
<1>1. CASE UNCHANGED leaving
  BY <1>1 DEF Left
<1>2. CASE leaving' = NotLeaving
  BY <1>2 DEF Left, NotLeaving
<1>3. ASSUME NEW c \in Child, NEW how \in {"exit", "destroy"}, ExitRead(c, how)
      PROVE  Left'
  <2>1. leaving' = [child |-> c, how |-> how, row |-> asg[c], res |-> result[c].status]
    BY <1>3 DEF ExitRead
  <2>2. asg[c].status \in {"awaiting", "recovering"} \cup (IF how = "destroy" /\ c \in Assigned
                                     THEN {"queued", "delivered", "failed"} ELSE {})
    BY <1>3 DEF ExitRead, Leavable
  <2>3. c \in Handoffs => c \notin Assigned
    BY ChildAssumption
  <2>4. c \in Assigned /\ how = "exit" => asg[c].notice = 0
    BY <2>2, <2>3 DEF Base, Waiting
  <2> QED BY <2>1, <2>2, <2>3, <2>4 DEF Left, Active
<1> QED BY <1>1, <1>2, <1>3, Steps DEF ExitWrite, Crash

(* The end of an assigned attempt adds a turn with its key.                 *)
LEMMA NotifyKey ==
  ASSUME Base, NEW c \in Assigned, NEW seen, NEW res, NEW refused,
         Notify(c, seen, res, refused), nn' # nn
  PROVE  HasTurn(c)'
<1>1. c \in Child /\ c \notin Handoffs
  BY ChildAssumption DEF Child
<1>2. nn < MaxNotices /\ Attach(c, nn + 1)
  BY <1>1 DEF Notify, noticeVars, Defers
<1>3. nn + 1 \in 0..MaxNotices
  BY <1>2, Numbers DEF Base, TypeInv
<1>4. /\ TurnsKept /\ nt' # nt /\ nt' = nt + 1
      /\ turn' = [turn EXCEPT ![nt + 1] = NewTurn("assigned_result", nn + 1, c, 0)]
  BY <1>1, <1>2, <1>3, AttachTurns DEF Joinable, BoundaryKind, BoundaryKey, Base
<1>5. turn'[nt + 1].kind = "assigned_result" /\ turn'[nt + 1].key = c /\ nt + 1 \in Turns
  BY <1>4, Numbers DEF TurnsKept, NewTurn, Base, TypeInv
<1> QED BY <1>5 DEF HasTurn

(* An assigned attempt that has a turn keeps it.                            *)
LEMMA HasTurnKept ==
  ASSUME Base, [Next]_vars, NEW c, HasTurn(c)
  PROVE  HasTurn(c)'
<1>1. PICK t \in Turns : turn[t].kind = "assigned_result" /\ turn[t].key = c
  BY DEF HasTurn
<1>2. TurnsKept
  BY TurnsStep DEF Base
<1>3. nt \in Nat /\ t \in Nat /\ ~(t > nt)
  BY <1>1, Numbers DEF Base, TypeInv, Fresh
<1>4. t \notin nt + 1..nt'
  BY <1>3
<1> QED BY <1>1, <1>2, <1>4 DEF TurnsKept, Kin, HasTurn

(* Who adds a notice.                                                       *)
LEMMA Adds ==
  ASSUME NoticeInv, [Next]_vars, NEW c \in Child, AddNote(c), Open,
         \/ Submit(c) /\ asg[c].notice = 0
         \/ ExitWrite /\ leaving.child = c /\ leaving.row.notice = 0
  PROVE  /\ c \in Assigned => HasTurn(c)'
         /\ c \in Assigned \/ ~overtaken' => asg[c].notice = 0
<1>1. nn' # nn
  BY Numbers DEF AddNote, NoticeInv, Base, TypeInv
<1>2. CASE Submit(c) /\ asg[c].notice = 0
  BY <1>1, <1>2, NotifyKey DEF Submit, NoticeInv
<1>3. CASE ExitWrite /\ leaving.child = c /\ leaving.row.notice = 0
  <2>1. CASE c \in Assigned
    <3>1. c \notin Handoffs
      BY <2>1, ChildAssumption
    <3>2. PICK r : (leaving.how = "destroy" /\ Destroy(c, r)) \/ LoseAssigned(c, r)
      BY <1>3, <3>1 DEF ExitWrite
    <3>3. LoseAssigned(c, r)
      BY <1>1, <3>2 DEF Destroy, noticeVars
    <3>4. Notify(c, leaving.row.notice, EndedBy(r), "cancelled") /\ ~Duplicate(c)
      BY <1>1, <3>3 DEF LoseAssigned, noticeVars
    <3>5. ~HasTurn(c)
      BY <2>1, <3>1, <3>4 DEF Duplicate, Joinable, OnBoundary, BoundaryKind, BoundaryKey,
         HasTurn
    <3> QED BY <1>1, <2>1, <3>4, <3>5, NotifyKey DEF Keyed, NoticeInv
  <2>2. CASE c \notin Assigned
    BY <1>3, <2>2 DEF ExitWrite
  <2> QED BY <2>1, <2>2
<1> QED BY <1>2, <1>3

(* An assigned attempt that has a notice has a turn with its dedupe key:   *)
(* the turn that stops a second notice when the handler's row is stale.    *)
LEMMA KeyedStep ==
  ASSUME NoticeInv, [Next]_vars
  PROVE  Keyed'
<1> SUFFICES ASSUME NEW c \in Assigned, asg'[c].notice # 0
             PROVE  HasTurn(c)'
  BY DEF Keyed
<1>1. c \in Child /\ Base
  BY DEF Child, NoticeInv
<1>2. CASE asg[c].notice # 0
  BY <1>1, <1>2, HasTurnKept DEF Keyed, NoticeInv
<1>3. CASE asg[c].notice = 0
  <2>1. CASE SameAsg
    BY <1>1, <1>3, <2>1 DEF SameAsg, AsgEdit
  <2>2. CASE \E d \in Child : /\ AddNote(d) /\ Open
                              /\ \/ Submit(d) /\ asg[d].notice = 0
                                 \/ ExitWrite /\ leaving.child = d /\ leaving.row.notice = 0
    <3>1. PICK d \in Child : /\ AddNote(d) /\ Open
                             /\ \/ Submit(d) /\ asg[d].notice = 0
                                \/ ExitWrite /\ leaving.child = d /\ leaving.row.notice = 0
      BY <2>2
    <3>2. d = c
      <4>1. asg' = [asg EXCEPT ![d] = [status |-> "queued", notice |-> nn + 1]]
        BY <3>1 DEF AddNote
      <4>2. asg \in [Child -> AsgRow]
        BY <1>1, Numbers DEF Base, TypeInv
      <4> QED BY <1>1, <1>3, <4>1, <4>2
    <3> QED BY <3>1, <3>2, Adds
  <2>3. CASE BootTerminated
    <3>1. c \in Terminated /\ Open
      <4>1. /\ \A d \in Child : d \notin Terminated => asg'[d] = asg[d]
            /\ \A d \in Terminated :
                  asg'[d] = IF Open THEN [status |-> "queued", notice |-> nn + Rank(Terminated, d)]
                            ELSE [asg[d] EXCEPT !.status = "cancelled"]
        BY <1>1, <2>3, BootNotes
      <4>2. asg[c] \in AsgRow
        BY <1>1, Numbers DEF Base, TypeInv
      <4>3. [asg[c] EXCEPT !.status = "cancelled"].notice = asg[c].notice
        BY <4>2 DEF AsgRow
      <4> QED BY <1>1, <1>3, <4>1, <4>3
    <3> DEFINE t == nt + Rank(Terminated, c)
               k == Cardinality(Terminated)
    <3>2. /\ k \in Nat /\ nt + k <= MaxTurns
          /\ Rank(Terminated, c) \in 1..k /\ Nth(Terminated, Rank(Terminated, c)) = c
      BY <1>1, <2>3, <3>1, BootNotes
    <3>3. nt \in Nat /\ MaxTurns \in Nat
      BY <1>1, Numbers DEF Base, TypeInv
    <3>4. t \in Turns /\ t \in nt + 1..nt + k /\ t - nt = Rank(Terminated, c)
      BY <3>2, <3>3 DEF Turns
    <3>5. turn' = [u \in Turns |-> IF u \in nt + 1..nt + k
                       THEN NewTurn("assigned_result", nn + u - nt, Nth(Terminated, u - nt), 0)
                       ELSE turn[u]]
      BY <2>3, <3>1 DEF BootTerminated
    <3> HIDE DEF t, k
    <3>6. turn'[t] = NewTurn("assigned_result", nn + t - nt, Nth(Terminated, t - nt), 0)
      BY <3>4, <3>5
    <3>7. turn'[t].kind = "assigned_result" /\ turn'[t].key = c
      BY <3>2, <3>4, <3>6 DEF NewTurn
    <3> QED BY <3>4, <3>7 DEF HasTurn
  <2> QED BY <1>1, <2>1, <2>2, <2>3, Kinds
<1> QED BY <1>2, <1>3

(* An attempt's notices are those of its assignment, for an assigned       *)
(* attempt even when a handler was overtaken.                              *)
LEMMA NoticedStep ==
  ASSUME NoticeInv, [Next]_vars
  PROVE  Noticed'
<1> SUFFICES ASSUME NEW c \in Child, c \in Assigned \/ ~overtaken'
             PROVE  NoticesOf(c)' = IF asg'[c].notice = 0 THEN {} ELSE {asg'[c].notice}
  BY DEF Noticed
<1>1. Base /\ PaneKept
  BY PaneStep DEF NoticeInv
<1>2. NoticesOf(c) = IF asg[c].notice = 0 THEN {} ELSE {asg[c].notice}
  BY <1>1 DEF PaneKept, Noticed, NoticeInv
<1>3. /\ inbox \in [Notices -> InboxRow] /\ asg \in [Child -> AsgRow]
      /\ nn \in Nat /\ Notices = 1..MaxNotices /\ MaxNotices \in Nat
      /\ \A n \in Notices : inbox[n].of \in Child <=> n <= nn
  BY <1>1, Numbers DEF Base, TypeInv, Numbered, Notices
<1>4. CASE SameInbox /\ SameAsg
  BY <1>2, <1>4 DEF SameInbox, SameAsg, InboxEdit, AsgEdit, NoticesOf
<1>5. ASSUME NEW d \in Child, AddNote(d), Open,
             \/ Submit(d) /\ asg[d].notice = 0
             \/ ExitWrite /\ leaving.child = d /\ leaving.row.notice = 0
      PROVE  NoticesOf(c)' = IF asg'[c].notice = 0 THEN {} ELSE {asg'[c].notice}
  <2>1. /\ nn + 1 \in Notices
        /\ inbox' = [inbox EXCEPT ![nn + 1] = [of |-> d, status |-> "pending"]]
        /\ asg' = [asg EXCEPT ![d] = [status |-> "queued", notice |-> nn + 1]]
    BY <1>5 DEF AddNote
  <2>2. nn + 1 \notin NoticesOf(c)
    BY <1>3, <2>1 DEF NoticesOf
  <2>3. NoticesOf(c)' = IF c = d THEN NoticesOf(c) \cup {nn + 1} ELSE NoticesOf(c)
    BY <1>3, <2>1, <2>2 DEF NoticesOf
  <2>4. CASE c = d
    <3>1. asg[c].notice = 0
      BY <1>5, <2>4, Adds
    <3>2. asg'[c].notice = nn + 1 /\ nn + 1 # 0
      BY <1>3, <2>1, <2>4
    <3> QED BY <1>2, <2>3, <2>4, <3>1, <3>2
  <2>5. CASE c # d
    BY <1>2, <1>3, <2>1, <2>3, <2>5
  <2> QED BY <2>4, <2>5
<1>6. CASE BootTerminated
  <2> DEFINE T == Terminated
             k == IF Open THEN Cardinality(T) ELSE 0
  <2>1. /\ k \in Nat
        /\ \A n \in Notices : n \notin nn + 1..nn + k => inbox'[n] = inbox[n]
        /\ \A n \in nn + 1..nn + k : n \in Notices /\ inbox'[n].of = Nth(T, n - nn)
                                     /\ n - nn \in 1..Cardinality(T) /\ Open
    BY <1>1, <1>6, BootNotes
  <2>2. /\ \A i \in 1..Cardinality(T) : Nth(T, i) \in T /\ Rank(T, Nth(T, i)) = i
        /\ \A d \in T : /\ asg[d].status = "awaiting" /\ d \in Child
                        /\ Rank(T, d) \in 1..Cardinality(T) /\ Nth(T, Rank(T, d)) = d
    BY <1>1, <1>6, BootNotes
  <2>3. /\ \A d \in Child : d \notin T => asg'[d] = asg[d]
        /\ \A d \in T : asg'[d] = IF Open THEN [status |-> "queued", notice |-> nn + Rank(T, d)]
                                  ELSE [asg[d] EXCEPT !.status = "cancelled"]
    BY <1>1, <1>6, BootNotes
  <2>4. \A n \in NoticesOf(c) : n \in Notices /\ n <= nn
    BY <1>3 DEF NoticesOf
  <2>5. Open => k = Cardinality(T)
    OBVIOUS
  <2>6. ~Open => k = 0
    OBVIOUS
  <2> HIDE DEF T, k
  <2>7. NoticesOf(c)' = NoticesOf(c) \cup {n \in nn + 1..nn + k : Nth(T, n - nn) = c}
    <3>1. \A n \in Notices : n \in nn + 1..nn + k => ~(n <= nn)
      BY <1>3
    <3> QED BY <2>1, <2>4, <3>1 DEF NoticesOf
  <2>8. CASE c \notin T
    <3>1. {n \in nn + 1..nn + k : Nth(T, n - nn) = c} = {}
      BY <2>1, <2>2, <2>8
    <3> QED BY <1>2, <2>3, <2>7, <2>8, <3>1
  <2>9. CASE c \in T /\ ~Open
    <3>1. nn + 1..nn + k = {}
      BY <1>3, <2>6, <2>9
    <3>2. asg'[c].notice = asg[c].notice
      BY <1>3, <2>3, <2>9 DEF AsgRow
    <3> QED BY <1>2, <2>7, <3>1, <3>2
  <2>10. CASE c \in T /\ Open
    <3>1. asg[c].notice = 0
      BY <1>1, <2>2, <2>10 DEF Base, Waiting
    <3>2. Rank(T, c) \in 1..k /\ Nth(T, Rank(T, c)) = c
      BY <2>2, <2>5, <2>10
    <3>3. \A n \in nn + 1..nn + k : Nth(T, n - nn) = c <=> n = nn + Rank(T, c)
      <4> TAKE n \in nn + 1..nn + k
      <4>1. n - nn \in 1..Cardinality(T)
        BY <2>1
      <4>2. Nth(T, n - nn) = c => n - nn = Rank(T, c)
        BY <2>2, <4>1
      <4>3. n = nn + Rank(T, c) => n - nn = Rank(T, c)
        BY <1>3, <3>2
      <4>4. n - nn = Rank(T, c) => n = nn + Rank(T, c)
        BY <1>3, <2>1, <3>2
      <4> QED BY <3>2, <4>2, <4>3, <4>4
    <3>4. nn + Rank(T, c) \in nn + 1..nn + k
      BY <1>3, <2>1, <3>2
    <3>5. {n \in nn + 1..nn + k : Nth(T, n - nn) = c} = {nn + Rank(T, c)}
      BY <3>3, <3>4
    <3>6. asg'[c].notice = nn + Rank(T, c) /\ nn + Rank(T, c) # 0
      <4>1. asg'[c] = [status |-> "queued", notice |-> nn + Rank(T, c)]
        BY <2>3, <2>10
      <4>2. asg'[c].notice = nn + Rank(T, c)
        BY <4>1
      <4> QED BY <1>3, <2>1, <3>2, <4>2
    <3> QED BY <1>2, <2>7, <3>1, <3>5, <3>6
  <2> QED BY <2>8, <2>9, <2>10
<1> QED BY <1>1, <1>4, <1>5, <1>6, Kinds

(* Initially no attempt has a notice.                                      *)
LEMMA NoticeInit ==
  ASSUME Init
  PROVE  NoticeInv
<1>1. Base
  BY BaseInit
<1>2. Left
  BY DEF Init, Left, NotLeaving
<1>3. \A c \in Child : asg[c].notice = 0
  BY DEF Init
<1>4. \A c \in Child : NoticesOf(c) = {}
  BY ZeroNoChild DEF Init, NoticesOf
<1> QED BY <1>1, <1>2, <1>3, <1>4 DEF NoticeInv, Keyed, Noticed, Child

(* The invariant on notices is inductive.                                  *)
LEMMA NoticeStep ==
  ASSUME NoticeInv, [Next]_vars
  PROVE  NoticeInv'
BY BaseStep, LeftStep, KeyedStep, NoticedStep DEF NoticeInv

(* Every attempt queues one notice, however it ended and whoever ended it  *)
(* (_queue_delegation_result_notice and its callers).                      *)
THEOREM NoticedOnce == Spec => []OneNotice
<1>1. Init => NoticeInv
  BY NoticeInit
<1>2. NoticeInv /\ [Next]_vars => NoticeInv'
  BY NoticeStep
<1>3. NoticeInv => OneNotice
  <2> SUFFICES ASSUME NoticeInv, NEW c \in Child, c \in Assigned \/ ~overtaken
               PROVE  /\ Cardinality(NoticesOf(c)) <= 1
                      /\ asg[c].notice # 0 => NoticesOf(c) = {asg[c].notice}
    BY DEF OneNotice
  <2>1. NoticesOf(c) = IF asg[c].notice = 0 THEN {} ELSE {asg[c].notice}
    BY DEF NoticeInv, Noticed
  <2>2. Cardinality({}) = 0 /\ Cardinality({asg[c].notice}) = 1
    BY FS_EmptySet, FS_Singleton
  <2> QED BY <2>1, <2>2
<1> QED BY <1>1, <1>2, <1>3, PTL DEF Spec

-----------------------------------------------------------------------------
(* How an attempt and its result move while no handler was overtaken.       *)
Unended == {"awaiting", "recovering"}
Carried == {"queued", "delivered", "failed"}
Ended == {"complete", "incomplete"}
Rests(a, b, r, s) == a = b /\ r = s
Recovers(a, b, r, s) == a \in Unended /\ b \in Unended /\ r = s
Ends(a, b, r, s) ==
    /\ a \in Unended /\ r = "awaiting" /\ s \in Ended
    /\ b = "queued" \/ (b \in {"cancelled", "failed"} /\ s = "incomplete")
Travels(a, b, r, s) == a \in Carried /\ b \in Carried /\ r = s
Consumed(a, b, r, s) == a = "delivered" /\ b = "acknowledged" /\ r = s
Withdrawn(c, a, b, r, s) ==
    /\ a \in Active /\ b = "cancelled"
    /\ s = r \/ r = "awaiting"
    /\ c \in Handoffs /\ s = "complete" => wf'.status = "cancelled"
Moves(c) ==
    LET a == asg[c].status
        b == asg'[c].status
        r == result[c].status
        s == result'[c].status
    IN \/ Rests(a, b, r, s) \/ Recovers(a, b, r, s) \/ Ends(a, b, r, s)
       \/ Travels(a, b, r, s) \/ Consumed(a, b, r, s) \/ Withdrawn(c, a, b, r, s)

Fit == ~overtaken => \A c \in Child :
    /\ asg[c].status \in Unended => result[c].status = "awaiting" /\ asg[c].notice = 0
    /\ asg[c].status \in Carried \cup {"acknowledged"} => result[c].status \in Ended
    /\ wf.status \in {"open", "completed"} /\ c \in Handoffs /\ result[c].status = "complete"
          => asg[c].status # "cancelled"
OutcomeInv == NoticeInv /\ Fit /\ ClosedInactive

(* The rows of assignments and results are typed.                          *)
LEMMA RowsNow ==
  ASSUME Base
  PROVE  /\ asg \in [Child -> AsgRow] /\ result \in [Child -> ResultRow]
         /\ \A c \in Child : asg[c] \in AsgRow /\ result[c] \in ResultRow
BY Numbers DEF Base, TypeInv

(* A child whose rows a step leaves alone rests.                            *)
LEMMA AtRest ==
  ASSUME NEW c, asg'[c].status = asg[c].status, result'[c].status = result[c].status
  PROVE  Moves(c)
BY DEF Moves, Rests

(* One assignment's status is written.                                     *)
LEMMA SetAsg ==
  ASSUME Base, NEW c \in Child, NEW d, NEW s,
         asg' = [asg EXCEPT ![d].status = s]
  PROVE  /\ c = d => asg'[c].status = s
         /\ c # d => asg'[c].status = asg[c].status
BY RowsNow DEF AsgRow

(* One result's status is written.                                         *)
LEMMA SetResult ==
  ASSUME Base, NEW c \in Child, NEW d, NEW s,
         result' = [result EXCEPT ![d].status = s]
  PROVE  /\ c = d => result'[c].status = s
         /\ c # d => result'[c].status = result[c].status
BY RowsNow DEF ResultRow

(* A first notification: queued if the parent is open, else refused.        *)
LEMMA NotifyMoves ==
  ASSUME Base, NEW c \in Child, NEW res, NEW refused, Notify(c, 0, res, refused)
  PROVE  /\ asg'[c].status = IF Open THEN "queued" ELSE refused
         /\ result'[c].status = res
         /\ \A d \in Child \ {c} : asg'[d] = asg[d] /\ result'[d] = result[d]
<1>0. asg \in [Child -> AsgRow] /\ result \in [Child -> ResultRow]
  BY RowsNow
<1>1. CASE Open
  <2>1. asg' = [asg EXCEPT ![c] = [status |-> "queued", notice |-> nn + 1]]
    BY <1>1 DEF Notify
  <2>2. \/ result' = [result EXCEPT ![c].status = res]
        \/ \E t : result' = [result EXCEPT ![c] = [status |-> res, turn |-> t]]
    BY <1>1 DEF Notify
  <2>3. result'[c].status = res /\ \A d \in Child \ {c} : result'[d] = result[d]
    <3>1. CASE result' = [result EXCEPT ![c].status = res]
      BY <1>0, <3>1 DEF ResultRow
    <3>2. ASSUME NEW t, result' = [result EXCEPT ![c] = [status |-> res, turn |-> t]]
          PROVE  result'[c].status = res /\ \A d \in Child \ {c} : result'[d] = result[d]
      BY <1>0, <3>2
    <3> QED BY <2>2, <3>1, <3>2
  <2> QED BY <1>0, <1>1, <2>1, <2>3
<1>2. CASE ~Open
  <2>1. asg' = [asg EXCEPT ![c].status = refused] /\ result' = [result EXCEPT ![c].status = res]
    BY <1>2 DEF Notify
  <2>2. asg'[c].status = refused /\ result'[c].status = res
    BY <1>0, <2>1 DEF AsgRow, ResultRow
  <2>3. \A d \in Child \ {c} : asg'[d] = asg[d] /\ result'[d] = result[d]
    BY <1>0, <2>1
  <2> QED BY <1>2, <2>2, <2>3
<1> QED BY <1>1, <1>2

(* A report ends an attempt that had not ended.                            *)
LEMMA SubmitMoves ==
  ASSUME OutcomeInv, ~overtaken, NEW d \in Child, Submit(d), NEW c \in Child
  PROVE  Moves(c)
<1>1. Base /\ Open /\ asg[d].status \in Unended /\ result[d].status = "awaiting"
  BY DEF OutcomeInv, NoticeInv, Submit, MaySubmit, Unended
<1>2. asg[d].notice = 0
  BY <1>1 DEF OutcomeInv, Fit
<1>3. Notify(d, 0, "complete", "cancelled")
  BY <1>2 DEF Submit
<1>4. CASE c = d
  BY <1>1, <1>3, <1>4, NotifyMoves DEF Moves, Ends, Ended
<1>5. CASE c # d
  BY <1>1, <1>3, <1>5, NotifyMoves, AtRest
<1> QED BY <1>4, <1>5

(* An exit handler that was not overtaken ends, recovers or withdraws an   *)
(* attempt.                                                                *)
LEMMA ExitMoves ==
  ASSUME OutcomeInv, ExitWrite, ~overtaken', NEW c \in Child
  PROVE  Moves(c)
<1> DEFINE d == leaving.child
<1>1. /\ Base /\ ~overtaken /\ d \in Child /\ d # 0
      /\ asg[d] = leaving.row /\ result[d].status = leaving.res
  BY DEF OutcomeInv, NoticeInv, Base, TypeInv, TypeOK, ExitWrite
<1>2. /\ asg[d].status \in Active
      /\ d \in Handoffs \/ leaving.how = "exit" => asg[d].status \in Unended
  BY <1>1 DEF OutcomeInv, NoticeInv, Left, Unended
<1>3. asg[d].status \in Unended => result[d].status = "awaiting" /\ asg[d].notice = 0
  BY <1>1 DEF OutcomeInv, Fit
<1>4. PICK r : /\ r = result[d].status
               /\ \/ leaving.how = "destroy" /\ Destroy(d, r)
                  \/ leaving.how = "exit" /\ d \in Assigned /\ LoseAssigned(d, r)
                  \/ leaving.how = "exit" /\ d \in Handoffs /\ Recover(d)
                  \/ leaving.how = "exit" /\ d \in Handoffs /\ Exhaust(d, r)
  BY <1>1 DEF ExitWrite
<1>5. asg \in [Child -> AsgRow] /\ result \in [Child -> ResultRow]
  BY <1>1, RowsNow
<1> HIDE DEF d
<1>6. CASE leaving.how = "destroy" /\ Destroy(d, r)
  <2>1. asg' = [asg EXCEPT ![d].status = "cancelled"]
    BY <1>6 DEF Destroy
  <2>2. result' = [result EXCEPT ![d].status = IF r = "awaiting" THEN "incomplete" ELSE @]
    BY <1>6 DEF Destroy
  <2>3. CASE c = d
    <3>1. asg'[c].status = "cancelled"
      BY <1>1, <1>5, <2>1, <2>3 DEF AsgRow
    <3>2. result'[c].status = IF r = "awaiting" THEN "incomplete" ELSE r
      BY <1>1, <1>4, <1>5, <2>2, <2>3 DEF ResultRow
    <3> QED BY <1>2, <1>3, <1>4, <2>3, <3>1, <3>2 DEF Moves, Withdrawn
  <2>4. CASE c # d
    <3>1. asg'[c] = asg[c] /\ result'[c] = result[c]
      BY <1>5, <2>1, <2>2, <2>4
    <3> QED BY <3>1, AtRest
  <2> QED BY <2>3, <2>4
<1>7. ASSUME NEW res, NEW refused \in {"cancelled", "failed"},
             Notify(d, leaving.row.notice, res, refused),
             asg[d].status \in Unended, res = "incomplete"
      PROVE  Moves(c)
  <2>1. Notify(d, 0, res, refused)
    BY <1>1, <1>3, <1>7
  <2>2. CASE c = d
    <3>1. /\ asg'[c].status = IF Open THEN "queued" ELSE refused
          /\ result'[c].status = res
      BY <1>1, <2>1, <2>2, NotifyMoves
    <3> QED BY <1>3, <1>7, <2>2, <3>1 DEF Moves, Ends, Ended
  <2>3. CASE c # d
    <3>1. asg'[c] = asg[c] /\ result'[c] = result[c]
      BY <1>1, <2>1, <2>3, NotifyMoves
    <3> QED BY <3>1, AtRest
  <2> QED BY <2>2, <2>3
<1>8. CASE leaving.how = "exit" /\ d \in Assigned /\ LoseAssigned(d, r)
  <2>1. asg[d].status \in Unended /\ EndedBy(r) = "incomplete"
    BY <1>2, <1>3, <1>4, <1>8 DEF EndedBy
  <2>2. \/ UNCHANGED <<asg, result>>
        \/ Notify(d, leaving.row.notice, "incomplete", "cancelled")
    BY <1>8, <2>1 DEF LoseAssigned
  <2> QED BY <1>7, <2>1, <2>2, AtRest
<1>9. CASE leaving.how = "exit" /\ d \in Handoffs /\ Recover(d)
  <2>1. /\ result' = result
        /\ asg' = [asg EXCEPT ![d].status = @] \/ asg' = [asg EXCEPT ![d].status = "recovering"]
    BY <1>9 DEF Recover
  <2>2. CASE c = d
    <3>1. asg'[c].status \in Unended
      BY <1>2, <1>5, <1>9, <2>1, <2>2 DEF AsgRow, Unended
    <3> QED BY <1>2, <1>9, <2>1, <2>2, <3>1 DEF Moves, Recovers
  <2>3. CASE c # d
    <3>1. asg'[c] = asg[c]
      BY <1>5, <2>1, <2>3
    <3> QED BY <2>1, <3>1, AtRest
  <2> QED BY <2>2, <2>3
<1>10. CASE leaving.how = "exit" /\ d \in Handoffs /\ Exhaust(d, r)
  <2>1. \/ UNCHANGED <<asg, result>>
        \/ Notify(d, leaving.row.notice, "incomplete", "failed")
    BY <1>10 DEF Exhaust
  <2> QED BY <1>2, <1>7, <1>10, <2>1, AtRest
<1> QED BY <1>4, <1>6, <1>8, <1>9, <1>10

(* A rebuild queues again what travels.                                    *)
LEMMA RebuildMoves ==
  ASSUME Base, NEW r, Rebuild(r), NEW c \in Child
  PROVE  Moves(c)
<1> DEFINE heirs == {t \in Superseded(r) : Kept(t) # {}}
           kept == UNION {Kept(t) : t \in heirs}
           Notice == Least(NoticesOf(c) \cap kept)
<1>1. /\ asg'[c] = IF Notice # 0 THEN [asg[c] EXCEPT !.status = "queued"] ELSE asg[c]
      /\ \/ result'[c] = result[c]
         \/ \E t : result'[c] = [result[c] EXCEPT !.turn = t]
  BY DEF Rebuild
<1>2. asg[c] \in AsgRow /\ result[c] \in ResultRow
  BY RowsNow
<1>3. result'[c].status = result[c].status
  BY <1>1, <1>2 DEF ResultRow
<1>4. CASE Notice = 0
  BY <1>1, <1>3, <1>4, AtRest
<1>5. CASE Notice # 0
  <2>1. NoticesOf(c) \cap kept \in SUBSET (Nat \ {0})
    BY Numbers DEF NoticesOf, Base, TypeInv
  <2>2. Notice \in NoticesOf(c) /\ Notice \in kept
    BY <1>5, <2>1, LeastOf
  <2>3. Deliverable(Notice) /\ inbox[Notice].of = c
    BY <2>2 DEF Kept, NoticesOf
  <2>4. asg[c].status \in Carried
    BY <2>3 DEF Deliverable, Carried
  <2>5. asg'[c].status = "queued"
    BY <1>1, <1>2, <1>5 DEF AsgRow
  <2> QED BY <1>3, <2>4, <2>5 DEF Moves, Travels, Carried
<1> QED BY <1>4, <1>5

(* A replay or a late receipt moves the members of a valid transport.       *)
LEMMA MembersMove ==
  ASSUME Base, NEW t, ValidTransport(t), NEW i, NEW a \in {"queued", "delivered"},
         WithMembers(t, i, a), result' = result, NEW c \in Child
  PROVE  Moves(c)
<1>1. asg[c] \in AsgRow
  BY RowsNow
<1>2. CASE c \in Members(t)
  <2>1. asg[c].status \in Carried
    BY <1>2 DEF ValidTransport, ValidMember, Carried
  <2>2. asg'[c].status = a
    BY <1>1, <1>2 DEF WithMembers, AsgRow
  <2> QED BY <2>1, <2>2 DEF Moves, Travels, Carried
<1>3. CASE c \notin Members(t)
  BY <1>3, AtRest DEF WithMembers
<1> QED BY <1>2, <1>3

(* Marks, replays, receipts, acknowledgements and the restart move         *)
(* assignments only.                                                       *)
LEMMA OtherMoves ==
  ASSUME OutcomeInv, ~overtaken', result' = result, NEW c \in Child,
         \/ asg' = asg \/ Mark \/ Settle \/ AckWrite \/ BootArm \/ BootResults
         \/ \E t \in Turns : Admit(t)
  PROVE  Moves(c)
<1>1. Base /\ asg[c] \in AsgRow /\ asg \in [Child -> AsgRow]
  BY RowsNow DEF OutcomeInv, NoticeInv
<1>2. CASE asg' = asg
  BY <1>2, AtRest
<1>3. CASE Mark
  <2> DEFINE d == Head(todo)[2]
  <2>1. /\ asg' = [asg EXCEPT ![d].status = dpc] /\ dpc \in {"delivered", "failed"}
        /\ asg[d].status = "queued"
    BY <1>3 DEF Mark
  <2> HIDE DEF d
  <2>2. /\ c = d => asg'[c].status = dpc
        /\ c # d => asg'[c].status = asg[c].status
    BY <1>1, <2>1, SetAsg
  <2> QED BY <2>1, <2>2, AtRest DEF Moves, Travels, Carried
<1>4. CASE Settle
  <2>1. asg' = asg \/ \E t : ValidTransport(t) /\ WithMembers(t, "pending", "queued")
    BY <1>4 DEF Settle
  <2> QED BY <1>1, <1>2, <2>1, MembersMove
<1>5. CASE AckWrite
  <2>1. asg' = [asg EXCEPT ![acking].status = "acknowledged"] /\ asg[acking].status = "delivered"
    BY <1>5 DEF AckWrite
  <2>2. /\ c = acking => asg'[c].status = "acknowledged"
        /\ c # acking => asg'[c].status = asg[c].status
    BY <1>1, <2>1, SetAsg
  <2> QED BY <2>1, <2>2, AtRest DEF Moves, Consumed
<1>6. CASE BootArm
  <2>1. asg' = asg \/
        /\ \A d \in stale.asgs : asg[d].status = "awaiting"
        /\ asg' = [d \in Child |-> IF d \in stale.asgs
                                   THEN [asg[d] EXCEPT !.status = "recovering"] ELSE asg[d]]
    BY <1>6 DEF BootArm
  <2>2. CASE c \in stale.asgs /\ asg' # asg
    <3>1. asg'[c].status = "recovering" /\ asg[c].status = "awaiting"
      BY <1>1, <2>1, <2>2 DEF AsgRow
    <3> QED BY <3>1 DEF Moves, Recovers, Unended
  <2>3. CASE c \notin stale.asgs \/ asg' = asg
    BY <2>1, <2>3, AtRest
  <2> QED BY <2>2, <2>3
<1>7. CASE BootResults
  <2>1. asg' = asg \/
        /\ \A d \in stale.asgs : asg[d].status \in {"delivered", "failed"}
        /\ asg' = [d \in Child |-> IF d \in stale.asgs
                                   THEN [asg[d] EXCEPT !.status = "queued"] ELSE asg[d]]
    BY <1>7 DEF BootResults
  <2>2. CASE c \in stale.asgs /\ asg' # asg
    <3>1. asg'[c].status = "queued" /\ asg[c].status \in {"delivered", "failed"}
      BY <1>1, <2>1, <2>2 DEF AsgRow
    <3> QED BY <3>1 DEF Moves, Travels, Carried
  <2>3. CASE c \notin stale.asgs \/ asg' = asg
    BY <2>1, <2>3, AtRest
  <2> QED BY <2>2, <2>3
<1>8. ASSUME NEW t \in Turns, Admit(t)
      PROVE  Moves(c)
  <2>1. asg' = asg \/ (ValidTransport(t) /\ WithMembers(t, "delivered", "delivered"))
    BY <1>8 DEF Admit
  <2> QED BY <1>1, <1>2, <2>1, MembersMove
<1> QED BY <1>2, <1>3, <1>4, <1>5, <1>6, <1>7, <1>8

(* A restart ends terminated attempts that had not ended.                  *)
LEMMA BootMoves ==
  ASSUME OutcomeInv, ~overtaken, BootTerminated, NEW c \in Child
  PROVE  Moves(c)
<1>1. /\ \A d \in Child : d \notin Terminated => asg'[d] = asg[d] /\ result'[d] = result[d]
      /\ \A d \in Terminated :
            /\ asg'[d] = IF Open THEN [status |-> "queued", notice |-> nn + Rank(Terminated, d)]
                         ELSE [asg[d] EXCEPT !.status = "cancelled"]
            /\ result'[d].status = "incomplete"
  BY BootNotes DEF OutcomeInv, NoticeInv
<1>2. CASE c \notin Terminated
  BY <1>1, <1>2, AtRest
<1>3. CASE c \in Terminated
  <2>1. asg[c] \in AsgRow
    BY RowsNow DEF OutcomeInv, NoticeInv
  <2>2. asg[c].status = "awaiting" /\ result[c].status = "awaiting"
    BY <1>3 DEF Terminated
  <2>3. asg'[c] = [status |-> "queued", notice |-> nn + Rank(Terminated, c)]
        \/ asg'[c] = [asg[c] EXCEPT !.status = "cancelled"]
    BY <1>1, <1>3
  <2>4. asg'[c].status \in {"queued", "cancelled"}
    BY <2>1, <2>3 DEF AsgRow
  <2> QED BY <1>1, <1>3, <2>2, <2>4 DEF Moves, Ends, Unended, Ended
<1> QED BY <1>2, <1>3

(* Closing withdraws what is active, and nothing is when the parent        *)
(* completes.                                                              *)
LEMMA CloseMoves ==
  ASSUME OutcomeInv, ~overtaken, NEW status \in {"completed", "cancelled"}, Close(status),
         NEW c \in Child
  PROVE  Moves(c)
<1>1. /\ wf \in [status : {"open", "completed", "cancelled", "owner_gate"}, active : Turns]
      /\ asg[c] \in AsgRow /\ result[c] \in ResultRow
  BY RowsNow DEF OutcomeInv, NoticeInv, Base, TypeInv, TypeOK
<1>2. wf'.status = status
  BY <1>1 DEF Close
<1>3. /\ asg'[c] = IF asg[c].status \in Active THEN [asg[c] EXCEPT !.status = "cancelled"]
                   ELSE asg[c]
      /\ result'[c] = IF asg[c].status \in Active /\ result[c].status = "awaiting"
                      THEN [result[c] EXCEPT !.status = "cancelled"] ELSE result[c]
  BY DEF Close
<1>4. CASE asg[c].status \notin Active
  BY <1>3, <1>4, AtRest
<1>5. CASE asg[c].status \in Active
  <2>1. status = "cancelled"
    BY <1>5 DEF Close, MayClose
  <2>2. asg'[c].status = "cancelled"
    BY <1>1, <1>3, <1>5 DEF AsgRow
  <2>3. result'[c].status = result[c].status \/ result[c].status = "awaiting"
    BY <1>3
  <2> QED BY <1>2, <1>5, <2>1, <2>2, <2>3 DEF Moves, Withdrawn
<1> QED BY <1>4, <1>5

(* Whatever the step, an attempt and its result move in one of the six     *)
(* ways.                                                                   *)
LEMMA MovesStep ==
  ASSUME OutcomeInv, [Next]_vars, ~overtaken', NEW c \in Child
  PROVE  Moves(c)
<1>1. Base /\ ~overtaken
  BY PaneStep DEF OutcomeInv, NoticeInv, PaneKept
<1>2. CASE \E d \in Child : Submit(d)
  BY <1>1, <1>2, SubmitMoves
<1>3. CASE ExitWrite
  BY <1>3, ExitMoves
<1>4. CASE StartTick
  <2>1. CASE MustRebuild(LatestResume)
    BY <1>1, <1>4, <2>1, RebuildMoves DEF StartTick
  <2>2. CASE ~MustRebuild(LatestResume)
    BY <1>4, <2>2, AtRest DEF StartTick
  <2> QED BY <2>1, <2>2
<1>5. CASE PickOldest
  <2>1. asg' = asg /\ (result' = result \/ \E d, t : result' = [result EXCEPT ![d].turn = t])
    BY <1>5 DEF PickOldest
  <2>2. result \in [Child -> ResultRow]
    BY <1>1, RowsNow
  <2>3. result'[c].status = result[c].status
    BY <2>1, <2>2 DEF ResultRow
  <2> QED BY <2>1, <2>3, AtRest
<1>6. CASE BootTerminated
  BY <1>1, <1>6, BootMoves
<1>7. CASE \E status \in {"completed", "cancelled"} : Close(status)
  BY <1>1, <1>7, CloseMoves
<1>8. CASE /\ ~ExitWrite /\ ~StartTick /\ ~PickOldest /\ ~BootTerminated
           /\ ~\E d \in Child : Submit(d)
           /\ ~\E status \in {"completed", "cancelled"} : Close(status)
  <2>1. result' = result
    BY <1>8, Steps
  <2>2. \/ asg' = asg \/ Mark \/ Settle \/ AckWrite \/ BootArm \/ BootResults
        \/ \E t \in Turns : Admit(t)
    BY <1>8, Steps
  <2> QED BY <2>1, <2>2, OtherMoves
<1> QED BY <1>2, <1>3, <1>4, <1>5, <1>6, <1>7, <1>8

(* An assignment is active, acknowledged or cancelled.                     *)
LEMMA Counts ==
  ASSUME NEW a \in AsgStatus
  PROVE  /\ a \in Active <=> a \in Unended \cup Carried
         /\ a \notin Active => a \in {"acknowledged", "cancelled"}
BY DEF AsgStatus, Active, Unended, Carried

(* What an attempt that is still under way has for a notice is kept.        *)
LEMMA UnendedNotice ==
  ASSUME OutcomeInv, [Next]_vars, NEW c \in Child, asg'[c].status \in Unended
  PROVE  asg'[c].notice = asg[c].notice
<1>1. Base /\ asg \in [Child -> AsgRow]
  BY RowsNow DEF OutcomeInv, NoticeInv
<1>2. CASE SameAsg
  BY <1>2 DEF SameAsg, AsgEdit
<1>3. ASSUME NEW d \in Child, AddNote(d)
      PROVE  asg'[c].notice = asg[c].notice
  <2>1. asg' = [asg EXCEPT ![d] = [status |-> "queued", notice |-> nn + 1]]
    BY <1>3 DEF AddNote
  <2>2. CASE c = d
    <3>1. asg'[c].status = "queued"
      BY <1>1, <2>1, <2>2
    <3> QED BY <3>1 DEF Unended
  <2>3. CASE c # d
    BY <1>1, <2>1, <2>3
  <2> QED BY <2>2, <2>3
<1>4. CASE BootTerminated
  <2>1. /\ c \notin Terminated => asg'[c] = asg[c]
        /\ c \in Terminated =>
              \/ asg'[c] = [status |-> "queued", notice |-> nn + Rank(Terminated, c)]
              \/ asg'[c] = [asg[c] EXCEPT !.status = "cancelled"]
    <3>1. /\ \A d \in Child : d \notin Terminated => asg'[d] = asg[d]
          /\ \A d \in Terminated :
                asg'[d] = IF Open THEN [status |-> "queued", notice |-> nn + Rank(Terminated, d)]
                          ELSE [asg[d] EXCEPT !.status = "cancelled"]
      BY <1>1, <1>4, BootNotes
    <3> QED BY <3>1
  <2>2. [asg[c] EXCEPT !.status = "cancelled"].status = "cancelled"
    BY <1>1 DEF AsgRow
  <2>3. [status |-> "queued", notice |-> nn + Rank(Terminated, c)].status = "queued"
    OBVIOUS
  <2>4. c \in Terminated => asg'[c].status \notin Unended
    BY <2>1, <2>2, <2>3 DEF Unended
  <2> QED BY <2>1, <2>4
<1> QED BY <1>1, <1>2, <1>3, <1>4, Kinds

(* The status of an assignment fits its result.                            *)
LEMMA FitStep ==
  ASSUME OutcomeInv, [Next]_vars
  PROVE  Fit'
<1> SUFFICES ASSUME ~overtaken', NEW c \in Child
             PROVE  /\ asg'[c].status \in Unended
                          => result'[c].status = "awaiting" /\ asg'[c].notice = 0
                    /\ asg'[c].status \in Carried \cup {"acknowledged"}
                          => result'[c].status \in Ended
                    /\ wf'.status \in {"open", "completed"} /\ c \in Handoffs
                             /\ result'[c].status = "complete"
                          => asg'[c].status # "cancelled"
  BY DEF Fit
<1>1. /\ ~overtaken /\ Moves(c)
      /\ wf'.status \in {"open", "completed"} => wf.status \in {"open", "completed"}
  BY MovesStep, PaneStep DEF PaneKept, OutcomeInv, NoticeInv
<1>2. /\ asg[c].status \in Unended => result[c].status = "awaiting" /\ asg[c].notice = 0
      /\ asg[c].status \in Carried \cup {"acknowledged"} => result[c].status \in Ended
      /\ wf.status \in {"open", "completed"} /\ c \in Handoffs /\ result[c].status = "complete"
            => asg[c].status # "cancelled"
  BY <1>1 DEF OutcomeInv, Fit
<1>3. asg'[c].status \in Unended => asg'[c].notice = asg[c].notice
  BY UnendedNotice
<1>4. asg'[c].status \in Unended => result'[c].status = "awaiting" /\ asg[c].notice = 0
  BY <1>1, <1>2 DEF Moves, Rests, Recovers, Ends, Travels, Consumed, Withdrawn, Unended,
     Carried
<1>5. asg'[c].status \in Carried \cup {"acknowledged"} => result'[c].status \in Ended
  BY <1>1, <1>2 DEF Moves, Rests, Recovers, Ends, Travels, Consumed, Withdrawn, Unended,
     Carried
<1>6. wf'.status \in {"open", "completed"} /\ c \in Handoffs /\ result'[c].status = "complete"
         => asg'[c].status # "cancelled"
  BY <1>1, <1>2 DEF Moves, Rests, Recovers, Ends, Travels, Consumed, Withdrawn, Unended,
     Carried
<1> QED BY <1>3, <1>4, <1>5, <1>6

(* A parent that completed or was cancelled has no active attempt.         *)
LEMMA ClosedStep ==
  ASSUME OutcomeInv, [Next]_vars
  PROVE  ClosedInactive'
<1> SUFFICES ASSUME ~overtaken', wf'.status \in {"completed", "cancelled"}, NEW c \in Child
             PROVE  asg'[c].status \notin Active
  BY DEF ClosedInactive
<1>1. /\ ~overtaken /\ (wf.status # "open" => wf' = wf) /\ Base
      /\ wf \in [status : {"open", "completed", "cancelled", "owner_gate"}, active : Turns]
      /\ asg[c] \in AsgRow /\ asg[c].status \in AsgStatus
  BY PaneStep, RowsNow DEF PaneKept, OutcomeInv, NoticeInv, Base, TypeInv, TypeOK, AsgRow
<1>2. CASE wf.status # "open"
  <2>1. asg[c].status \notin Active
    BY <1>1, <1>2 DEF OutcomeInv, ClosedInactive
  <2>2. asg[c].status \in {"acknowledged", "cancelled"}
    BY <1>1, <2>1, Counts
  <2>3. Moves(c)
    BY MovesStep
  <2>4. asg'[c].status = asg[c].status
    BY <2>1, <2>2, <2>3
    DEF Moves, Rests, Recovers, Ends, Travels, Consumed, Withdrawn, Unended, Carried
  <2> QED BY <2>1, <2>4
<1>3. CASE wf.status = "open"
  <2>1. \E status \in {"completed", "cancelled"} : Close(status)
    <3>1. ~(LookReady \/ Requeue \/ Settle \/ \E t \in Turns : Resume(t)) /\ ~UNCHANGED wf
      <4>1. LookReady \/ (\E t \in Turns : Resume(t)) => wf'.status = wf.status
        BY <1>1 DEF LookReady, Resume
      <4>2. Requeue \/ Settle => wf'.status = wf.status \/ wf'.status = "owner_gate"
        BY <1>1 DEF Requeue, Settle
      <4> QED BY <1>3, <4>1, <4>2
    <3> QED BY <3>1, Steps
  <2>2. asg'[c] = IF asg[c].status \in Active THEN [asg[c] EXCEPT !.status = "cancelled"]
                  ELSE asg[c]
    BY <2>1 DEF Close
  <2>3. [asg[c] EXCEPT !.status = "cancelled"].status = "cancelled"
    BY <1>1 DEF AsgRow
  <2> QED BY <2>2, <2>3 DEF Active
<1> QED BY <1>2, <1>3

(* Initially every attempt awaits its result.                              *)
LEMMA OutcomeInit ==
  ASSUME Init
  PROVE  OutcomeInv
<1>1. NoticeInv
  BY NoticeInit
<1>2. \A c \in Child : /\ asg[c].notice = 0 /\ asg[c].status = "awaiting"
                       /\ result[c].status = "awaiting"
  BY DEF Init
<1>3. wf.status = "open"
  BY DEF Init
<1> QED BY <1>1, <1>2, <1>3 DEF OutcomeInv, Fit, ClosedInactive, Unended, Carried

(* The invariant on outcomes is inductive.                                 *)
LEMMA OutcomeStep ==
  ASSUME OutcomeInv, [Next]_vars
  PROVE  OutcomeInv'
BY NoticeStep, FitStep, ClosedStep DEF OutcomeInv

(* The invariant on outcomes holds in every reachable state.               *)
LEMMA OutcomeInvariance == Spec => []OutcomeInv
<1>1. Init => OutcomeInv
  BY OutcomeInit
<1>2. OutcomeInv /\ [Next]_vars => OutcomeInv'
  BY OutcomeStep
<1> QED BY <1>1, <1>2, PTL DEF Spec

(* A parent that completed or was cancelled has no active attempt          *)
(* (set_workflow_terminal_state, _cancel_parent_assignments).              *)
THEOREM ClosedIsInactive == Spec => []ClosedInactive
<1>1. OutcomeInv => ClosedInactive
  BY DEF OutcomeInv
<1> QED BY <1>1, OutcomeInvariance, PTL

(* A parent completes only when it has consumed the results it was         *)
(* promised: an acknowledged attempt had ended, and a handoff with a       *)
(* complete result was acknowledged (the completion check of               *)
(* set_workflow_terminal_state).                                           *)
THEOREM CompletedIsConsumed == Spec => []CompletedConsumed
<1>1. OutcomeInv => CompletedConsumed
  <2> SUFFICES ASSUME OutcomeInv, ~overtaken, wf.status = "completed", NEW c \in Child
               PROVE  /\ asg[c].status = "acknowledged" => result[c].status # "awaiting"
                      /\ c \in Handoffs /\ result[c].status = "complete"
                            => asg[c].status = "acknowledged"
    BY DEF CompletedConsumed
  <2>1. asg[c].status \in {"acknowledged", "cancelled"}
    <3>1. asg[c].status \in AsgStatus
      BY RowsNow DEF AsgRow, OutcomeInv, NoticeInv
    <3>2. asg[c].status \notin Active
      BY DEF OutcomeInv, ClosedInactive
    <3> QED BY <3>1, <3>2, Counts
  <2> QED BY <2>1 DEF OutcomeInv, Fit, Ended
<1> QED BY <1>1, OutcomeInvariance, PTL

(* A result that ended keeps its outcome and an acknowledged attempt stays *)
(* acknowledged, whichever of report, exit, destruction, restart and       *)
(* closing comes next.                                                     *)
THEOREM OutcomeIsFinal == Spec => OutcomeFinal
<1>1. OutcomeInv /\ [Next]_vars =>
        [~overtaken' => \A c \in Child :
            /\ result[c].status # "awaiting" => result'[c].status = result[c].status
            /\ asg[c].status = "acknowledged" => asg'[c].status = "acknowledged"]_vars
  <2> SUFFICES ASSUME OutcomeInv, [Next]_vars, ~overtaken', NEW c \in Child
               PROVE  /\ result[c].status # "awaiting" => result'[c].status = result[c].status
                      /\ asg[c].status = "acknowledged" => asg'[c].status = "acknowledged"
    OBVIOUS
  <2>1. Moves(c)
    BY MovesStep
  <2> QED BY <2>1 DEF Moves, Rests, Recovers, Ends, Travels, Consumed, Withdrawn, Unended,
                      Carried, Active
<1> QED BY <1>1, OutcomeInvariance, PTL DEF Spec, OutcomeFinal

-----------------------------------------------------------------------------
(* What is delivered was shown, as long as no handler was overtaken.        *)

(* A result that a turn may still carry to the parent, and one that needs   *)
(* no further care: it is pending or has been shown.                        *)
Carrying(c) == asg[c].status \in Carried /\ result[c].status = "complete"
Ready(c) == inbox[asg[c].notice].status = "pending" \/ c \in shown
Entries(s) == {s[i] : i \in 1..Len(s)}
InTodo(n) == <<"inbox", n>> \in Entries(todo)

(* The active binding follows the turns that are pasted, and a handoff      *)
(* boundary is later than the turn it is the boundary of: no notice joins   *)
(* a turn that was activated.                                               *)
Onward == /\ wf.active <= nt
          /\ \A t \in pasted : t <= wf.active
          /\ dpc \in {"activated", "slot", "paste"} => dturn <= wf.active
          /\ \A t \in Turns : turn[t].kind = "handoff_result" => turn[t].key \in Nat /\ turn[t].key < t
          /\ \A t \in Turns : t > nt => turn[t].state = "none"
          /\ boot # "up" => dpc = "idle"
          /\ \A c \in Child : result[c].turn <= nt
(* A turn is found by the notice that anchors it, and by its members.       *)
Placed == /\ \A c \in Child : result[c].turn # 0 =>
                asg[c].notice # 0 /\ turn[result[c].turn].kind \in ResultKinds
          /\ \A t \in Turns : turn[t].anchor # 0 =>
                inbox[turn[t].anchor].of \in Child /\ result[inbox[turn[t].anchor].of].turn = t
          /\ \A t \in Turns : turn[t].kind = "assigned_result" =>
                \A c, d \in Members(t) : c = d
(* The dispatcher's batch: the anchor of the turn it looks at, then what it *)
(* claims, which covers every member that may still be carried.             *)
Covered(t) == \A c \in Members(t) : Carrying(c) => c \in shown \/ \E n \in batch : inbox[n].of = c
Aimed == /\ dpc = "look" => \E t \in Turns :
               /\ turn[t].anchor # 0 /\ batch = {turn[t].anchor}
               /\ Open /\ turn[t].state = "queued" => inbox[turn[t].anchor].status = "pending"
         /\ dpc = "activated" =>
               /\ turn[dturn].anchor # 0 /\ batch = {turn[dturn].anchor}
               /\ turn[dturn].kind = "assigned_result"
         /\ dpc \in {"slot", "paste", "undelivered", "deferred", "rejected"} =>
               /\ dturn \in Turns /\ turn[dturn].anchor \in batch
               /\ \A n \in batch : result[inbox[n].of].turn = dturn
         /\ dpc \in {"slot", "paste"} => Covered(dturn)
(* The writes that are left are of the batch; while a batch is failing its  *)
(* anchor has failed or is among them.                                      *)
Listed == /\ dpc \notin {"delivered", "failed"} => todo = <<>>
          /\ \A x \in Entries(todo) : x[1] # "mark" => x[2] \in batch
Failing == dpc = "failed" => \A x \in Entries(todo) : x[1] = "inbox" =>
    LET t == result[inbox[x[2]].of].turn
    IN t # 0 /\ (turn[t].anchor = 0 \/ InTodo(turn[t].anchor)
                 \/ inbox[turn[t].anchor].status = "failed")
(* A boundary whose anchor waits can be sealed whole.                       *)
Whole == Open /\ boot = "up" => \A t \in Turns :
    LET a == turn[t].anchor IN
    turn[t].kind = "handoff_result" /\ a # 0 /\ inbox[a].status = "pending" =>
        \/ \A c \in Members(t) : Carrying(c) => Ready(c)
        \/ dpc = "failed" /\ InTodo(a)
(* A restart queues again what was not shown, all of it at once.            *)
Again == Open /\ boot = "requeue" => \A c \in Child :
    asg[c].notice # 0 /\ Carrying(c) => Ready(c) \/ asg[c].notice \in stale.notices
(* A turn that was pasted has shown its members; what is marked was shown.  *)
Served == \A t \in pasted : \A c \in Members(t) : Carrying(c) => c \in shown
Told == dpc = "delivered" => \A x \in Entries(todo) :
    /\ x[1] = "mark" => x[2] \in shown
    /\ x[1] # "mark" => inbox[x[2]].of \in shown
Delivering == Onward /\ Placed /\ Aimed /\ Listed /\ Failing /\ Whole /\ Again /\ Served /\ Told
              /\ DeliveredShown
DeliverInv == OutcomeInv /\ (~overtaken => Delivering)
(* What the lemmas on a step that overtakes nobody assume.                  *)
Calm == OutcomeInv /\ Delivering /\ ~overtaken

(* The types and the parts of the earlier invariants.                       *)
LEMMA CalmTypes ==
  ASSUME Calm
  PROVE  /\ Base /\ TypeInv /\ TypeOK
         /\ turn \in [Turns -> TurnRow] /\ inbox \in [Notices -> InboxRow]
         /\ asg \in [Child -> AsgRow] /\ result \in [Child -> ResultRow]
         /\ nt \in Nat /\ nn \in Nat /\ Turns \subseteq Nat \ {0} /\ Notices \subseteq Nat \ {0}
         /\ Turns = 1..MaxTurns /\ Notices = 1..MaxNotices /\ 0 \notin Child
         /\ MaxTurns \in Nat /\ MaxNotices \in Nat
         /\ todo \in Seq(Item) /\ batch \subseteq 1..nn /\ nn <= MaxNotices
         /\ \A n \in Notices : inbox[n].of \in Child <=> n <= nn
         /\ \A n \in Notices : inbox[n].status = "pending" => inbox[n].of \in Child
         /\ \A c \in Child : /\ asg[c].notice \in Nat /\ asg[c].notice <= nn
                             /\ result[c].turn \in 0..MaxTurns
                             /\ NoticesOf(c) = IF asg[c].notice = 0 THEN {} ELSE {asg[c].notice}
<1>1. Base /\ TypeInv /\ TypeOK
  BY DEF Calm, OutcomeInv, NoticeInv, Base, TypeInv
<1>2. /\ turn \in [Turns -> TurnRow] /\ inbox \in [Notices -> InboxRow]
      /\ asg \in [Child -> AsgRow] /\ result \in [Child -> ResultRow]
      /\ nt \in Nat /\ nn \in Nat /\ Turns \subseteq Nat \ {0} /\ Notices \subseteq Nat \ {0}
      /\ Turns = 1..MaxTurns /\ Notices = 1..MaxNotices /\ nn <= MaxNotices
      /\ MaxTurns \in Nat /\ MaxNotices \in Nat
  BY <1>1, Numbers DEF Turns, Notices
<1>3. /\ todo \in Seq(Item) /\ batch \subseteq 1..nn
      /\ \A n \in Notices : inbox[n].of \in Child <=> n <= nn
      /\ \A n \in Notices : inbox[n].status = "pending" => inbox[n].of \in Child
      /\ \A c \in Child : asg[c].notice <= nn
  BY <1>1 DEF Base, TypeOK, Ticking, Numbered, Item
<1>4. \A c \in Child : NoticesOf(c) = IF asg[c].notice = 0 THEN {} ELSE {asg[c].notice}
  BY DEF Calm, OutcomeInv, NoticeInv, Noticed
<1>5. \A c \in Child : asg[c].notice \in Nat /\ result[c].turn \in 0..MaxTurns
  BY <1>2, Numbers DEF AsgRow, ResultRow
<1> QED BY <1>1, <1>2, <1>3, <1>4, <1>5, ZeroNoChild

(* A notice and its child.                                                  *)
LEMMA NoticeIs ==
  ASSUME Calm
  PROVE  /\ \A n \in Notices : inbox[n].of \in Child => asg[inbox[n].of].notice = n
         /\ \A c \in Child : asg[c].notice # 0 => asg[c].notice \in Notices
                                                  /\ inbox[asg[c].notice].of = c
<1>1. ASSUME NEW n \in Notices, inbox[n].of \in Child
      PROVE  asg[inbox[n].of].notice = n
  <2>1. n \in NoticesOf(inbox[n].of)
    BY DEF NoticesOf
  <2> QED BY <1>1, <2>1, CalmTypes
<1>2. ASSUME NEW c \in Child, asg[c].notice # 0
      PROVE  asg[c].notice \in Notices /\ inbox[asg[c].notice].of = c
  <2>1. asg[c].notice \in NoticesOf(c)
    BY <1>2, CalmTypes
  <2> QED BY <2>1 DEF NoticesOf
<1> QED BY <1>1, <1>2

(* The step stays within the earlier invariants.                            *)
LEMMA CalmStep ==
  ASSUME Calm, [Next]_vars, ~overtaken'
  PROVE  /\ OutcomeInv' /\ TurnsKept /\ NotesKept /\ TickKept /\ PaneKept /\ ThreadKept
         /\ \A c \in Child : NoticesOf(c)' = IF asg'[c].notice = 0 THEN {} ELSE {asg'[c].notice}
<1>1. OutcomeInv' /\ Base
  BY OutcomeStep DEF Calm, OutcomeInv, NoticeInv
<1>2. \A c \in Child : NoticesOf(c)' = IF asg'[c].notice = 0 THEN {} ELSE {asg'[c].notice}
  BY <1>1 DEF OutcomeInv, NoticeInv, Noticed
<1> QED BY <1>1, <1>2, TurnsStep, NotesStep, TickStep, PaneStep, ThreadStep DEF Base

(* What a step does to the placement of results: all but a rebuild keep the *)
(* anchors of the turns there are, and the turns of the results that have   *)
(* one; a result that gets its turn has a pending notice, and joins a       *)
(* boundary that is open or has a turn of its own.                          *)
Added(c) == /\ result[c].turn = 0 /\ asg'[c].notice # 0
            /\ inbox'[asg'[c].notice].status = "pending"
            /\ \/ result'[c].turn \in Joinable(c)
               \/ /\ result'[c].turn \in nt + 1..nt'
                  /\ turn'[result'[c].turn].kind \in ResultKinds
Grow == /\ \A t \in Turns : t \notin nt + 1..nt' => turn'[t].anchor = turn[t].anchor
        /\ \A c \in Child : result'[c].turn = result[c].turn \/ Added(c)
        /\ \A t \in nt + 1..nt' :
              /\ turn'[t].anchor # 0 =>
                    \E c \in Child : asg'[c].notice = turn'[t].anchor /\ result'[c].turn = t
              /\ \A c, d \in Child : result'[c].turn = t /\ result'[d].turn = t => c = d
              /\ turn'[t].kind = "handoff_result" => turn'[t].key \in Nat /\ turn'[t].key <= wf.active
Rebuilds == StartTick /\ MustRebuild(LatestResume)

(* A step that adds no turn and places no result.                           *)
LEMMA GrowNone ==
  ASSUME Calm, nt' = nt, \A t \in Turns : turn'[t].anchor = turn[t].anchor,
         \A c \in Child : result'[c].turn = result[c].turn
  PROVE  Grow
<1>1. nt + 1..nt' = {}
  BY CalmTypes
<1> QED BY <1>1 DEF Grow

(* A notice is attached.                                                    *)
LEMMA AttachGrow ==
  ASSUME Calm, NEW c \in Child, NEW n \in Notices, Attach(c, n),
         result[c].turn = 0, asg'[c].notice = n, inbox'[n].status = "pending",
         result'[c].turn = IF nt' = nt THEN Least(Joinable(c)) ELSE nt',
         \A d \in Child \ {c} : result'[d].turn = result[d].turn
  PROVE  Grow
<1>1. /\ nt' = nt => turn' = turn /\ Least(Joinable(c)) \in Joinable(c)
      /\ nt' # nt => /\ nt' = nt + 1
                     /\ turn' = [turn EXCEPT ![nt + 1] =
                                    NewTurn(BoundaryKind(c), n, BoundaryKey(c), 0)]
      /\ nt' \in Turns
  <2>1. n \in 0..MaxNotices
    BY CalmTypes
  <2> QED BY <2>1, AttachTurns, CalmTypes DEF TurnsKept
<1>2. n # 0
  BY CalmTypes
<1>3. CASE nt' = nt
  <2>1. nt + 1..nt' = {}
    BY <1>3, CalmTypes
  <2>2. Added(c)
    BY <1>1, <1>2, <1>3 DEF Added
  <2> QED BY <1>1, <1>3, <2>1, <2>2 DEF Grow
<1>4. CASE nt' # nt
  <2> DEFINE r == NewTurn(BoundaryKind(c), n, BoundaryKey(c), 0)
  <2>1. /\ turn'[nt + 1] = r
        /\ \A t \in Turns : t # nt + 1 => turn'[t] = turn[t]
    BY <1>1, <1>4, CalmTypes
  <2>2. /\ r.anchor = n /\ r.kind \in ResultKinds
        /\ r.kind = "handoff_result" => r.key = wf.active
    BY ChildAssumption DEF NewTurn, BoundaryKind, BoundaryKey, ResultKinds, Child
  <2> HIDE DEF r
  <2>3. nt + 1..nt' = {nt + 1}
    BY <1>1, <1>4, CalmTypes
  <2>4. Added(c)
    BY <1>1, <1>2, <1>4, <2>1, <2>2, <2>3 DEF Added
  <2>5. \A d \in Child : result[d].turn # nt + 1
    BY CalmTypes DEF Calm, Delivering, Onward
  <2>6. \A d \in Child : result'[d].turn = nt + 1 => d = c
    BY <2>5
  <2>7. wf.active \in Nat
    BY CalmTypes DEF TypeOK
  <2>8. \A t \in Turns : t \notin nt + 1..nt' => turn'[t].anchor = turn[t].anchor
    BY <2>1, <2>3
  <2>9. ASSUME NEW t \in nt + 1..nt'
        PROVE  /\ turn'[t].anchor # 0 =>
                    \E d \in Child : asg'[d].notice = turn'[t].anchor /\ result'[d].turn = t
               /\ \A d, e \in Child : result'[d].turn = t /\ result'[e].turn = t => d = e
               /\ turn'[t].kind = "handoff_result" => turn'[t].key \in Nat /\ turn'[t].key <= wf.active
    <3>1. t = nt + 1 /\ turn'[t] = r
      BY <2>1, <2>3
    <3>2. asg'[c].notice = turn'[t].anchor /\ result'[c].turn = t
      BY <1>1, <1>4, <2>2, <3>1
    <3> QED BY <2>2, <2>6, <2>7, <3>1, <3>2
  <2> QED BY <2>4, <2>8, <2>9 DEF Grow
<1> QED BY <1>3, <1>4

(* An attempt that has not ended has no turn.                               *)
LEMMA NoticeFirst ==
  ASSUME Calm, NEW c \in Child
  PROVE  /\ asg[c].notice = 0 => result[c].turn = 0
         /\ asg[c].status \in Unended => asg[c].notice = 0
BY DEF Calm, Delivering, Placed, OutcomeInv, Fit

(* An attempt ends through Notify.                                          *)
LEMMA NotifyGrow ==
  ASSUME Calm, NEW c \in Child, NEW res \in ResultStatus, NEW refused,
         Notify(c, asg[c].notice, res, refused)
  PROVE  Grow
<1>0. result \in [Child -> ResultRow] /\ asg \in [Child -> AsgRow]
  BY CalmTypes
<1>1. ASSUME nt' = nt, turn' = turn, result' = [result EXCEPT ![c].status = res]
      PROVE  Grow
  <2>1. \A d \in Child : result'[d].turn = result[d].turn
    BY <1>0, <1>1 DEF ResultRow
  <2> QED BY <1>1, <2>1, GrowNone
<1>2. CASE asg[c].notice # 0 \/ ~Open
  BY <1>1, <1>2 DEF Notify, turnVars
<1>3. CASE ~(asg[c].notice # 0 \/ ~Open)
  <2>1. /\ nn < MaxNotices
        /\ inbox' = [inbox EXCEPT ![nn + 1] = [of |-> c, status |-> "pending"]]
        /\ asg' = [asg EXCEPT ![c] = [status |-> "queued", notice |-> nn + 1]]
    BY <1>3 DEF Notify
  <2>2. CASE Defers(c)
    BY <1>1, <1>3, <2>2 DEF Notify, turnVars
  <2>3. CASE ~Defers(c)
    <3>1. /\ Attach(c, nn + 1)
          /\ result' = [result EXCEPT ![c] =
               [status |-> res, turn |-> IF nt' = nt THEN Least(Joinable(c)) ELSE nt']]
      BY <1>3, <2>3 DEF Notify
    <3>2. nn + 1 \in Notices
      BY <2>1, CalmTypes
    <3>3. asg'[c].notice = nn + 1 /\ inbox'[nn + 1].status = "pending"
      BY <1>0, <2>1, <3>2, CalmTypes
    <3>4. /\ result'[c].turn = IF nt' = nt THEN Least(Joinable(c)) ELSE nt'
          /\ \A d \in Child \ {c} : result'[d].turn = result[d].turn
      BY <1>0, <3>1
    <3>5. result[c].turn = 0
      BY <1>3, NoticeFirst
    <3> QED BY <3>1, <3>2, <3>3, <3>4, <3>5, AttachGrow
  <2> QED BY <2>2, <2>3
<1> QED BY <1>2, <1>3

(* The exit handler, which was not overtaken, has the rows as they are.     *)
LEMMA ExitGrow ==
  ASSUME Calm, ExitWrite, ~overtaken'
  PROVE  Grow
<1> DEFINE c == leaving.child
<1>1. c \in Child /\ asg[c] = leaving.row /\ result[c].status = leaving.res
  BY CalmTypes DEF ExitWrite, TypeOK
<1>2. result \in [Child -> ResultRow]
  BY CalmTypes
<1>3. PICK r : /\ r = result[c].status
               /\ \/ leaving.how = "destroy" /\ Destroy(c, r)
                  \/ LoseAssigned(c, r) \/ Recover(c) \/ Exhaust(c, r)
  BY <1>1 DEF ExitWrite
<1>4. r \in ResultStatus
  BY <1>1, <1>2, <1>3 DEF ResultRow
<1> HIDE DEF c
<1>5. ASSUME nt' = nt, turn' = turn,
             result' = result \/ \E s : result' = [result EXCEPT ![c].status = s]
      PROVE  Grow
  <2>1. \A d \in Child : result'[d].turn = result[d].turn
    BY <1>2, <1>5 DEF ResultRow
  <2> QED BY <1>5, <2>1, GrowNone
<1>6. ASSUME NEW res \in ResultStatus, NEW refused, Notify(c, leaving.row.notice, res, refused)
      PROVE  Grow
  BY <1>1, <1>6, NotifyGrow
<1>7. CASE Destroy(c, r)
  <2>1. /\ nt' = nt /\ turn' = turn
        /\ \/ result' = [result EXCEPT ![c].status = "incomplete"]
           \/ result' = [result EXCEPT ![c].status = @]
    BY <1>7 DEF Destroy, turnVars
  <2> QED BY <1>5, <2>1
<1>8. CASE LoseAssigned(c, r)
  <2>1. EndedBy(r) \in ResultStatus
    BY <1>4 DEF EndedBy, ResultStatus
  <2> QED BY <1>5, <1>6, <1>8, <2>1 DEF LoseAssigned, turnVars
<1>9. CASE Recover(c)
  BY <1>5, <1>9 DEF Recover, turnVars
<1>10. CASE Exhaust(c, r)
  BY <1>5, <1>6, <1>10 DEF Exhaust, turnVars, ResultStatus
<1> QED BY <1>3, <1>7, <1>8, <1>9, <1>10

(* The dispatcher makes the turn of a deferred handoff.                     *)
LEMMA PickGrow ==
  ASSUME Calm, PickOldest
  PROVE  Grow
<1>1. CASE UNCHANGED <<turnVars, result>>
  BY <1>1, GrowNone DEF turnVars
<1>2. CASE ~UNCHANGED <<turnVars, result>>
  <2>1. PICK n, c : /\ n = Oldest /\ n # 0 /\ c = inbox[n].of /\ Materializes(n) /\ Attach(c, n)
                    /\ result' = [result EXCEPT ![c].turn = IF nt' = nt
                                      THEN Least(Joinable(c)) ELSE nt']
                    /\ UNCHANGED <<inbox, asg>>
    BY <1>2 DEF PickOldest, noticeVars
  <2>2. /\ n \in Notices /\ inbox[n].status = "pending" /\ c \in Child
        /\ asg[c] = [status |-> "queued", notice |-> n] /\ result[c].turn = 0
    BY <2>1, OldestType DEF Materializes, PendingNotices, Child
  <2>3. result \in [Child -> ResultRow]
    BY CalmTypes
  <2>4. /\ result'[c].turn = IF nt' = nt THEN Least(Joinable(c)) ELSE nt'
        /\ \A d \in Child \ {c} : result'[d].turn = result[d].turn
    BY <2>1, <2>2, <2>3 DEF ResultRow
  <2> QED BY <2>1, <2>2, <2>4, AttachGrow
<1> QED BY <1>1, <1>2

(* The restart ends the attempts whose child has left.                      *)
LEMMA BootGrow ==
  ASSUME Calm, BootTerminated
  PROVE  Grow
<1> DEFINE T == Terminated
           k == IF Open THEN Cardinality(T) ELSE 0
<1>0. Base /\ nn \in Nat /\ nt \in Nat /\ asg \in [Child -> AsgRow] /\ result \in [Child -> ResultRow]
  BY CalmTypes
<1>1. /\ k \in Nat /\ nn' = nn + k /\ nn + k <= MaxNotices /\ nt' = nt + k /\ nt + k <= MaxTurns
      /\ \A n \in nn + 1..nn + k :
            /\ n \in Notices /\ inbox'[n].of = Nth(T, n - nn)
            /\ n - nn \in 1..Cardinality(T) /\ Open
      /\ \A c \in T : /\ c \in Assigned /\ c \in Child /\ asg[c].status = "awaiting"
                      /\ Rank(T, c) \in 1..Cardinality(T) /\ Nth(T, Rank(T, c)) = c
      /\ \A i \in 1..Cardinality(T) : Nth(T, i) \in T /\ Rank(T, Nth(T, i)) = i
      /\ \A c \in Child : c \notin T => asg'[c] = asg[c] /\ result'[c] = result[c]
      /\ \A c \in T : asg'[c] = IF Open THEN [status |-> "queued", notice |-> nn + Rank(T, c)]
                                ELSE [asg[c] EXCEPT !.status = "cancelled"]
  BY <1>0, BootNotes
<1>2. /\ inbox' = [n \in Notices |-> IF n \in nn + 1..nn + k
                       THEN [of |-> Nth(T, n - nn), status |-> "pending"] ELSE inbox[n]]
      /\ turn' = [t \in Turns |-> IF t \in nt + 1..nt + k
                       THEN NewTurn("assigned_result", nn + t - nt, Nth(T, t - nt), 0)
                       ELSE turn[t]]
      /\ result' = [c \in Child |-> IF c \notin T THEN result[c]
                       ELSE [status |-> "incomplete", turn |-> IF Open THEN nt + Rank(T, c) ELSE 0]]
  BY DEF BootTerminated
<1>3. \A c \in T : asg[c].notice = 0 /\ result[c].turn = 0
  BY <1>1, NoticeFirst DEF Unended
<1>4. /\ Open => k = Cardinality(T)
      /\ ~Open => k = 0
  OBVIOUS
<1> HIDE DEF T, k
<1>5. ASSUME ~Open PROVE Grow
  <2>1. nt' = nt
    BY <1>0, <1>1, <1>4, <1>5
  <2>2. \A t \in Turns : t \notin nt + 1..nt + k
    BY <1>0, <1>4, <1>5
  <2>3. \A t \in Turns : turn'[t].anchor = turn[t].anchor
    BY <1>2, <2>2
  <2>4. \A c \in Child : result'[c].turn = result[c].turn
    BY <1>1, <1>2, <1>3, <1>5
  <2> QED BY <2>1, <2>3, <2>4, GrowNone
<1>6. ASSUME Open PROVE Grow
  <2>1. ASSUME NEW c \in T
        PROVE  /\ asg'[c].notice = nn + Rank(T, c) /\ nn + Rank(T, c) \in nn + 1..nn + k
               /\ result'[c].turn = nt + Rank(T, c) /\ nt + Rank(T, c) \in nt + 1..nt + k
    <3>1. Rank(T, c) \in 1..k /\ c \in Child
      BY <1>1, <1>4, <1>6
    <3>2. asg'[c] = [status |-> "queued", notice |-> nn + Rank(T, c)]
      BY <1>1, <1>6
    <3>3. result'[c] = [status |-> "incomplete", turn |-> nt + Rank(T, c)]
      BY <1>2, <1>6, <3>1
    <3> QED BY <1>0, <1>1, <3>1, <3>2, <3>3
  <2>2. ASSUME NEW n \in nn + 1..nn + k
        PROVE  n \in Notices /\ inbox'[n].status = "pending"
    BY <1>1, <1>2
  <2>3. ASSUME NEW t \in nt + 1..nt + k
        PROVE  /\ t \in Turns /\ turn'[t] = NewTurn("assigned_result", nn + t - nt, Nth(T, t - nt), 0)
               /\ t - nt \in 1..k /\ nn + t - nt = nn + (t - nt) /\ nt + (t - nt) = t
    <3>1. t \in Turns
      BY <1>0, <1>1, CalmTypes
    <3> QED BY <1>0, <1>1, <1>2, <3>1
  <2>4. \A t \in nt + 1..nt + k : turn'[t].anchor = nn + (t - nt) /\ turn'[t].kind = "assigned_result"
    <3> TAKE t \in nt + 1..nt + k
    <3> DEFINE note == nn + t - nt
               key == Nth(T, t - nt)
    <3>1. turn'[t] = NewTurn("assigned_result", note, key, 0) /\ note = nn + (t - nt)
      BY <2>3
    <3> HIDE DEF note, key
    <3>2. turn'[t].anchor = note /\ turn'[t].kind = "assigned_result"
      BY <3>1 DEF NewTurn
    <3> QED BY <3>1, <3>2
  <2>5. \A c \in T : Added(c)
    <3> SUFFICES ASSUME NEW c \in T PROVE Added(c)
      OBVIOUS
    <3>1. asg'[c].notice # 0
      BY <1>0, <2>1
    <3>2. result'[c].turn \in nt + 1..nt' /\ turn'[result'[c].turn].kind \in ResultKinds
      BY <1>1, <2>1, <2>4 DEF ResultKinds
    <3> QED BY <1>3, <2>1, <2>2, <3>1, <3>2 DEF Added
  <2>6. \A c \in Child : c \notin T => result'[c].turn = result[c].turn /\ result'[c].turn <= nt
    BY <1>1 DEF Calm, Delivering, Onward
  <2>7. \A t \in Turns : t \notin nt + 1..nt' => turn'[t].anchor = turn[t].anchor
    BY <1>1, <1>2
  <2>8. ASSUME NEW t \in nt + 1..nt'
        PROVE  /\ turn'[t].anchor # 0 =>
                    \E c \in Child : asg'[c].notice = turn'[t].anchor /\ result'[c].turn = t
               /\ \A c, d \in Child : result'[c].turn = t /\ result'[d].turn = t => c = d
               /\ turn'[t].kind # "handoff_result"
    <3> DEFINE c == Nth(T, t - nt)
    <3>1. t \in nt + 1..nt + k /\ t - nt \in 1..k
      BY <1>1, <2>3
    <3>2. c \in T /\ Rank(T, c) = t - nt /\ c \in Child
      BY <1>1, <1>4, <1>6, <3>1
    <3> HIDE DEF c
    <3>3. asg'[c].notice = turn'[t].anchor /\ result'[c].turn = t
      BY <2>1, <2>3, <2>4, <3>1, <3>2
    <3>4. ASSUME NEW d \in Child, result'[d].turn = t
          PROVE  d = c
      <4>1. ~(t <= nt) /\ t \in Nat
        BY <1>0, <3>1
      <4>2. d \in T
        BY <2>6, <3>4, <4>1
      <4>3. nt + Rank(T, d) = t /\ Rank(T, d) \in Nat
        BY <1>1, <2>1, <3>4, <4>2
      <4>4. Rank(T, d) = t - nt
        BY <1>0, <4>1, <4>3
      <4> QED BY <1>1, <3>2, <4>2, <4>4 DEF c
    <3> QED BY <2>4, <3>1, <3>2, <3>3, <3>4
  <2> QED BY <2>5, <2>6, <2>7, <2>8 DEF Grow
<1> QED BY <1>5, <1>6

(* The other writes of the rows of turns leave their anchors.               *)
LEMMA AnchorsKept ==
  ASSUME Calm, [Next]_vars,
         \/ LookReady \/ ClaimTurn \/ Requeue \/ EndTick \/ RequeueExpired \/ Settle
         \/ BootUnadmitted /\ UNCHANGED nt
         \/ \E t \in Turns : ClaimExpires(t) \/ Admit(t)
         \/ \E status \in {"completed", "cancelled"} : Close(status)
  PROVE  nt' = nt /\ \A t \in Turns : turn'[t].anchor = turn[t].anchor
<1>0. turn \in [Turns -> TurnRow]
  BY CalmTypes
<1>1. CASE LookReady
  BY <1>0, <1>1 DEF LookReady, Claimed, TurnRow
<1>2. CASE ClaimTurn
  BY <1>0, <1>2 DEF ClaimTurn, Claimed, TurnRow
<1>3. CASE Requeue
  <2>1. \/ turn' = turn
        \/ \E t : turn' = Exhausted(t)
        \/ \E t : turn' = [turn EXCEPT ![t].state = "queued", ![t].claim = "none",
                                       ![t].settled = FALSE]
        \/ \E t : turn' = [[turn EXCEPT ![t].state = "queued", ![t].claim = "none",
                                        ![t].settled = FALSE] EXCEPT ![t].attempts = @ - 1]
    BY <1>3 DEF Requeue
  <2>2. nt' = nt
    BY <1>3 DEF Requeue
  <2>3. ASSUME NEW t, turn' = Exhausted(t)
        PROVE  \A u \in Turns : turn'[u].anchor = turn[u].anchor
    BY <1>0, <2>3 DEF Exhausted, TurnRow
  <2>4. ASSUME NEW t, turn' = [turn EXCEPT ![t].state = "queued", ![t].claim = "none",
                                           ![t].settled = FALSE]
        PROVE  \A u \in Turns : turn'[u].anchor = turn[u].anchor
    BY <1>0, <2>4 DEF TurnRow
  <2>5. ASSUME NEW t,
               turn' = [[turn EXCEPT ![t].state = "queued", ![t].claim = "none",
                                     ![t].settled = FALSE] EXCEPT ![t].attempts = @ - 1]
        PROVE  \A u \in Turns : turn'[u].anchor = turn[u].anchor
    BY <1>0, <2>5 DEF TurnRow
  <2> QED BY <2>1, <2>2, <2>3, <2>4, <2>5
<1>4. CASE EndTick
  BY <1>0, <1>4 DEF EndTick, TurnRow
<1>5. CASE RequeueExpired
  BY <1>0, <1>5 DEF RequeueExpired, TurnRow
<1>6. CASE Settle
  <2>1. \/ turn' = turn
        \/ \E t : turn' = Exhausted(t)
        \/ \E t : turn' = [turn EXCEPT ![t].settled = FALSE]
        \/ \E t : turn' = [turn EXCEPT ![t].state = "queued", ![t].claim = "none",
                                       ![t].settled = TRUE]
    BY <1>6 DEF Settle
  <2>2. nt' = nt
    BY <1>6 DEF Settle
  <2>3. ASSUME NEW t, turn' = Exhausted(t)
        PROVE  \A u \in Turns : turn'[u].anchor = turn[u].anchor
    BY <1>0, <2>3 DEF Exhausted, TurnRow
  <2>4. ASSUME NEW t, turn' = [turn EXCEPT ![t].settled = FALSE]
        PROVE  \A u \in Turns : turn'[u].anchor = turn[u].anchor
    BY <1>0, <2>4 DEF TurnRow
  <2>5. ASSUME NEW t, turn' = [turn EXCEPT ![t].state = "queued", ![t].claim = "none",
                                           ![t].settled = TRUE]
        PROVE  \A u \in Turns : turn'[u].anchor = turn[u].anchor
    BY <1>0, <2>5 DEF TurnRow
  <2> QED BY <2>1, <2>2, <2>3, <2>4, <2>5
<1>7. CASE BootUnadmitted /\ UNCHANGED nt
  BY <1>0, <1>7 DEF BootUnadmitted, TurnRow
<1>8. ASSUME NEW t \in Turns, ClaimExpires(t) \/ Admit(t)
      PROVE  nt' = nt /\ \A u \in Turns : turn'[u].anchor = turn[u].anchor
  <2>1. CASE ClaimExpires(t)
    BY <1>0, <2>1 DEF ClaimExpires, TurnRow
  <2>2. CASE Admit(t)
    <3>1. \/ turn' = [turn EXCEPT ![t].receipt = "consumed"]
          \/ turn' = [turn EXCEPT ![t].receipt = "consumed", ![t].state = "sent",
                                  ![t].claim = "none", ![t].settled = FALSE]
      BY <2>2 DEF Admit
    <3>2. nt' = nt
      BY <2>2 DEF Admit
    <3> QED BY <1>0, <3>1, <3>2 DEF TurnRow
  <2> QED BY <1>8, <2>1, <2>2
<1>9. ASSUME NEW status \in {"completed", "cancelled"}, Close(status)
      PROVE  nt' = nt /\ \A u \in Turns : turn'[u].anchor = turn[u].anchor
  <2>1. /\ nt' = nt
        /\ turn' = [u \in Turns |-> IF turn[u].state \in Pending
                                    THEN [turn[u] EXCEPT !.state = "cancelled", !.claim = "none"]
                                    ELSE turn[u]]
    BY <1>9 DEF Close
  <2> QED BY <1>0, <2>1 DEF TurnRow
<1> QED BY <1>1, <1>2, <1>3, <1>4, <1>5, <1>6, <1>7, <1>8, <1>9

(* A resume adds a turn that carries nothing.                               *)
LEMMA ResumeGrow ==
  ASSUME Calm, NEW t \in Turns, Resume(t)
  PROVE  Grow
<1>0. turn \in [Turns -> TurnRow] /\ nt \in Nat /\ nt + 1..nt + 1 = {nt + 1}
  BY CalmTypes
<1>1. /\ nt < MaxTurns /\ nt' = nt + 1 /\ result' = result
      /\ turn' = [turn EXCEPT ![t].state = "finished", ![t].receipt = "resumed",
                              ![nt + 1] = Admitted("execution_resume")]
  BY DEF Resume
<1>2. nt + 1 \in Turns /\ nt + 1..nt' = {nt + 1}
  BY <1>0, <1>1, CalmTypes
<1>3. \A u \in Turns : u # nt + 1 => turn'[u].anchor = turn[u].anchor
  BY <1>0, <1>1 DEF TurnRow
<1>4. turn'[nt + 1].anchor = 0 /\ turn'[nt + 1].kind = "execution_resume"
  <2>1. turn'[nt + 1] = Admitted("execution_resume")
    BY <1>0, <1>1, <1>2
  <2> QED BY <2>1 DEF Admitted, NewTurn
<1>5. \A c \in Child : result[c].turn # nt + 1
  BY <1>0, CalmTypes DEF Calm, Delivering, Onward
<1> QED BY <1>1, <1>2, <1>3, <1>4, <1>5 DEF Grow

(* Every step but a rebuild grows the placement.                            *)
LEMMA GrowStep ==
  ASSUME Calm, [Next]_vars, ~overtaken'
  PROVE  Grow \/ Rebuilds
<1>0. result \in [Child -> ResultRow]
  BY CalmTypes
<1>1. CASE \E c \in Child : Submit(c)
  BY <1>1, NotifyGrow DEF Submit, ResultStatus
<1>2. CASE ExitWrite
  BY <1>2, ExitGrow
<1>3. CASE PickOldest
  BY <1>3, PickGrow
<1>4. CASE BootTerminated
  BY <1>4, BootGrow
<1>5. CASE \E t \in Turns : Resume(t)
  BY <1>5, ResumeGrow
<1>6. CASE /\ ~ExitWrite /\ ~PickOldest /\ ~BootTerminated /\ ~Rebuilds
           /\ ~\E c \in Child : Submit(c)
           /\ ~\E t \in Turns : Resume(t)
  <2>1. StartTick => turn' = turn /\ nt' = nt /\ result' = result
    BY <1>6 DEF StartTick, Rebuilds, turnVars
  <2>2. \/ UNCHANGED <<nt, turn>>
        \/ LookReady \/ ClaimTurn \/ Requeue \/ EndTick \/ RequeueExpired \/ Settle
        \/ BootUnadmitted /\ UNCHANGED nt
        \/ \E t \in Turns : ClaimExpires(t) \/ Admit(t)
        \/ \E status \in {"completed", "cancelled"} : Close(status)
    <3>1. UNCHANGED nt
      BY <1>6, <2>1, Steps
    <3>2. \/ UNCHANGED turn
          \/ LookReady \/ ClaimTurn \/ Requeue \/ EndTick \/ RequeueExpired \/ Settle
          \/ BootUnadmitted /\ UNCHANGED nt
          \/ \E t \in Turns : ClaimExpires(t) \/ Admit(t)
          \/ \E status \in {"completed", "cancelled"} : Close(status)
      BY <1>6, <2>1, Steps
    <3> QED BY <3>1, <3>2
  <2>3. nt' = nt /\ \A t \in Turns : turn'[t].anchor = turn[t].anchor
    BY <2>2, AnchorsKept
  <2>4. \A c \in Child : result'[c].turn = result[c].turn
    <3>1. \/ UNCHANGED result
          \/ \E status \in {"completed", "cancelled"} : Close(status)
      BY <1>6, <2>1, Steps
    <3>2. CASE \E status \in {"completed", "cancelled"} : Close(status)
      <4>1. result' = [c \in Child |-> IF asg[c].status \in Active /\ result[c].status = "awaiting"
                                  THEN [result[c] EXCEPT !.status = "cancelled"] ELSE result[c]]
        BY <3>2 DEF Close
      <4> QED BY <1>0, <4>1 DEF ResultRow
    <3> QED BY <3>1, <3>2
  <2> QED BY <2>3, <2>4, GrowNone
<1> QED BY <1>1, <1>2, <1>3, <1>4, <1>5, <1>6 DEF Rebuilds

(* A rebuild: whom it retires with an heir, where the heir is, and whose    *)
(* result it moves there.                                                   *)
Heirs(r) == {t \in Superseded(r) : Kept(t) # {}}
HeirAt(r, t) == nt + Rank(Heirs(r), t)
Moved(r, c) == /\ asg[c].notice # 0 /\ result[c].turn \in Heirs(r)
               /\ asg[c].notice \in Kept(result[c].turn)

(* What a turn carries are pending notices of its members.                  *)
LEMMA CarriedMembers ==
  ASSUME Calm, NEW t \in Turns, NEW n \in CarriedBy(t)
  PROVE  /\ n \in Notices /\ inbox[n].status = "pending" /\ inbox[n].of \in Child
         /\ result[inbox[n].of].turn = t /\ asg[inbox[n].of].notice = n
<1>1. n \in Notices /\ inbox[n].status = "pending"
  BY DEF CarriedBy, SealedNotices, PendingNotices
<1>2. inbox[n].of \in Child
  BY <1>1, CalmTypes
<1>3. asg[inbox[n].of].notice = n
  BY <1>1, <1>2, NoticeIs
<1>4. CASE n \in SealedNotices(t)
  BY <1>1, <1>2, <1>3, <1>4 DEF SealedNotices, Members
<1>5. CASE turn[t].anchor = n
  <2>1. n # 0
    BY <1>1, CalmTypes
  <2> QED BY <1>1, <1>2, <1>3, <1>5, <2>1 DEF Calm, Delivering, Placed
<1> QED BY <1>4, <1>5 DEF CarriedBy

(* What is kept may still be carried.                                       *)
LEMMA KeptMembers ==
  ASSUME Calm, NEW t \in Turns, NEW n \in CarriedBy(t)
  PROVE  n \in Kept(t) <=> Carrying(inbox[n].of)
BY DEF Kept, Deliverable, Carrying, Carried

(* Heirs are turns of results, numbered after the last.                     *)
LEMMA HeirsType ==
  ASSUME Calm, NEW r, nt + Cardinality(Heirs(r)) \in Turns
  PROVE  LET k == Cardinality(Heirs(r)) IN
         /\ k \in Nat
         /\ \A t \in Heirs(r) : /\ t \in Turns /\ t <= nt /\ turn[t].kind \in ResultKinds
                                /\ HeirAt(r, t) \in nt + 1..nt + k
                                /\ Min(Kept(t)) \in Kept(t)
         /\ \A t, u \in Heirs(r) : HeirAt(r, t) = HeirAt(r, u) => t = u
         /\ \A h \in nt + 1..nt + k : \E t \in Heirs(r) : HeirAt(r, t) = h
<1> DEFINE H == Heirs(r)
           k == Cardinality(H)
<1>0. nt \in Nat /\ Turns \in SUBSET Nat /\ IsFiniteSet(Turns)
  BY CalmTypes, FS_Interval
<1>1. H \in SUBSET Turns /\ \A t \in H : Kept(t) # {}
  BY DEF Superseded, Heirs
<1>2. H \in SUBSET Nat /\ IsFiniteSet(H)
  BY <1>0, <1>1, FS_Subset
<1> HIDE DEF H
<1>3. /\ k \in Nat
      /\ \A x \in H : Rank(H, x) \in 1..k /\ Nth(H, Rank(H, x)) = x
      /\ \A i \in 1..k : Nth(H, i) \in H /\ Rank(H, Nth(H, i)) = i
  BY <1>2, Ranks
<1>4. \A t \in H : HeirAt(r, t) = nt + Rank(H, t)
  BY DEF HeirAt, H
<1>5. ASSUME NEW t \in H
      PROVE  /\ t \in Turns /\ t <= nt /\ turn[t].kind \in ResultKinds
             /\ HeirAt(r, t) \in nt + 1..nt + k
             /\ Min(Kept(t)) \in Kept(t)
  <2>1. t \in Turns /\ Kept(t) # {} /\ Kept(t) \in SUBSET Nat
    BY <1>1, CarriedType, CalmTypes
  <2>2. Min(Kept(t)) \in Kept(t)
    BY <2>1, MinOf
  <2>3. PICK n : n \in CarriedBy(t)
    BY <2>1 DEF Kept
  <2>4. /\ inbox[n].of \in Child /\ result[inbox[n].of].turn = t /\ t # 0
    BY <2>1, <2>3, CarriedMembers, CalmTypes
  <2>5. t <= nt /\ turn[t].kind \in ResultKinds
    BY <2>4 DEF Calm, Delivering, Onward, Placed
  <2> QED BY <1>0, <1>3, <1>4, <2>1, <2>2, <2>5
<1>6. ASSUME NEW t \in H, NEW u \in H, HeirAt(r, t) = HeirAt(r, u)
      PROVE  t = u
  <2>1. nt + Rank(H, t) = nt + Rank(H, u) /\ Rank(H, t) \in Nat /\ Rank(H, u) \in Nat
    BY <1>3, <1>4, <1>6
  <2>2. Rank(H, t) = Rank(H, u)
    BY <1>0, <2>1
  <2> QED BY <1>3, <2>2
<1>7. ASSUME NEW h \in nt + 1..nt + k
      PROVE  \E t \in H : HeirAt(r, t) = h
  <2>1. h - nt \in 1..k /\ nt + (h - nt) = h
    BY <1>0, <1>3
  <2> QED BY <1>3, <1>4, <2>1
<1> QED BY <1>3, <1>5, <1>6, <1>7 DEF H

(* Where a rebuild leaves the rows.                                         *)
LEMMA RebuildRows ==
  ASSUME Calm, NEW r, Rebuild(r)
  PROVE  /\ nt' = nt + Cardinality(Heirs(r)) /\ nt' \in Turns /\ nn' = nn
         /\ \A t \in Turns : t \notin nt + 1..nt' =>
               /\ turn'[t].anchor = IF t \in Heirs(r) THEN 0 ELSE turn[t].anchor
               /\ t \notin Superseded(r) => turn'[t] = turn[t]
         /\ \A u \in Heirs(r) :
               turn'[HeirAt(r, u)] = NewTurn(turn[u].kind, Min(Kept(u)), 0, turn[u].attempts)
         /\ \A c \in Child : Moved(r, c) =>
               /\ result'[c].turn = HeirAt(r, result[c].turn)
               /\ result'[c].status = result[c].status
               /\ asg'[c].status = "queued" /\ asg'[c].notice = asg[c].notice
         /\ \A c \in Child : ~Moved(r, c) => result'[c] = result[c] /\ asg'[c] = asg[c]
         /\ \A n \in Notices : /\ inbox'[n].of = inbox[n].of
                               /\ inbox'[n].status = "pending" => inbox[n].status = "pending"
         /\ \A t \in Superseded(r) : \A n \in CarriedBy(t) :
               inbox'[n].status = "pending" <=> n \in Kept(t)
         /\ \A n \in Notices : (\A t \in Superseded(r) : n \notin CarriedBy(t)) => inbox'[n] = inbox[n]
<1> DEFINE H == Heirs(r)
           old == Superseded(r)
           kept == UNION {Kept(t) : t \in H}
           lost == (UNION {CarriedBy(t) : t \in old}) \ kept
           Bearers(n) == {t \in H : n \in Kept(t)}
           Notice(c) == Least(NoticesOf(c) \cap kept)
           retired(t) == [turn[t] EXCEPT !.state = IF @ = "finished" THEN @ ELSE "cancelled",
                                         !.claim = "none", !.retired = TRUE,
                                         !.anchor = IF t \in H THEN 0 ELSE @]
           heir(u) == NewTurn(turn[u].kind, Min(Kept(u)), 0, turn[u].attempts)
<1>1. /\ nt + Cardinality(H) \in Turns /\ nt' = nt + Cardinality(H) /\ nn' = nn
      /\ turn' = [t \in Turns |-> IF t \in old THEN retired(t)
                                  ELSE IF \E u \in H : HeirAt(r, u) = t
                                  THEN heir(CHOOSE u \in H : HeirAt(r, u) = t) ELSE turn[t]]
      /\ inbox' = [n \in Notices |-> IF n \in lost THEN [inbox[n] EXCEPT !.status = Dropped(n)]
                                     ELSE inbox[n]]
      /\ result' = [c \in Child |-> IF Notice(c) # 0
                        THEN [result[c] EXCEPT !.turn = HeirAt(r, Least(Bearers(Notice(c))))]
                        ELSE result[c]]
      /\ asg' = [c \in Child |-> IF Notice(c) # 0 THEN [asg[c] EXCEPT !.status = "queued"]
                                 ELSE asg[c]]
  BY DEF Rebuild, Heirs, HeirAt, Rank
<1>2. /\ \A t \in H : /\ t \in Turns /\ t <= nt
                      /\ HeirAt(r, t) \in nt + 1..nt'
      /\ \A t, u \in H : HeirAt(r, t) = HeirAt(r, u) => t = u
      /\ \A h \in nt + 1..nt' : \E t \in H : HeirAt(r, t) = h
  BY <1>1, HeirsType
<1>3. old \in SUBSET Turns /\ H \in SUBSET old /\ \A t \in old : t \in H <=> Kept(t) # {}
  BY DEF Superseded, Heirs
<1>4. /\ nt \in Nat /\ turn \in [Turns -> TurnRow] /\ inbox \in [Notices -> InboxRow]
      /\ asg \in [Child -> AsgRow] /\ result \in [Child -> ResultRow] /\ Turns = 1..MaxTurns
  BY CalmTypes
<1>5. \A t \in old : t <= nt
  <2> SUFFICES ASSUME NEW t \in old, ~(t <= nt) PROVE FALSE
    OBVIOUS
  <2>1. turn[t].state = "none"
    BY <1>3, <1>4 DEF Calm, Delivering, Onward
  <2> QED BY <2>1 DEF Superseded, Pending
<1>6. \A t \in nt + 1..nt' : t \notin old
  BY <1>3, <1>4, <1>5
<1> HIDE DEF H, old
<1>7. ASSUME NEW t \in Turns, t \notin nt + 1..nt'
      PROVE  /\ turn'[t].anchor = IF t \in H THEN 0 ELSE turn[t].anchor
             /\ t \notin old => turn'[t] = turn[t]
  <2>1. ~\E u \in H : HeirAt(r, u) = t
    BY <1>2, <1>7
  <2>2. CASE t \in old
    <3>1. turn'[t] = retired(t) /\ turn[t] \in TurnRow
      BY <1>1, <1>4, <2>2
    <3> QED BY <2>2, <3>1 DEF TurnRow
  <2>3. CASE t \notin old
    <3>1. turn'[t] = turn[t]
      BY <1>1, <2>1, <2>3
    <3> QED BY <1>3, <2>3, <3>1
  <2> QED BY <2>2, <2>3
<1> HIDE DEF retired, heir
<1>8. ASSUME NEW u \in H
      PROVE  turn'[HeirAt(r, u)] = heir(u)
  <2>1. HeirAt(r, u) \in nt + 1..nt' /\ HeirAt(r, u) \in Turns
    <3>1. nt' \in 1..MaxTurns
      BY <1>1, <1>4
    <3>2. \A h \in nt + 1..nt' : h \in 1..MaxTurns
      BY <1>4, <3>1, CalmTypes
    <3> QED BY <1>2, <1>4, <3>2
  <2>2. HeirAt(r, u) \notin old
    BY <1>6, <2>1
  <2>3. (CHOOSE v \in H : HeirAt(r, v) = HeirAt(r, u)) = u
    BY <1>2
  <2> QED BY <1>1, <2>1, <2>2, <2>3
<1>9. ASSUME NEW c \in Child
      PROVE  /\ Moved(r, c) => Notice(c) # 0 /\ Least(Bearers(Notice(c))) = result[c].turn
             /\ ~Moved(r, c) => Notice(c) = 0
  <2> DEFINE n == asg[c].notice
             t == result[c].turn
  <2>1. /\ NoticesOf(c) = IF n = 0 THEN {} ELSE {n}
        /\ n # 0 => n \in Notices /\ inbox[n].of = c
        /\ NoticesOf(c) \cap kept \in SUBSET (Nat \ {0})
    BY NoticeIs, CalmTypes DEF NoticesOf
  <2> HIDE DEF n
  <2>2. ASSUME NEW u \in H, n \in Kept(u), n # 0
        PROVE  u = t
    <3>1. u \in Turns /\ n \in CarriedBy(u)
      BY <1>2, <2>2 DEF Kept
    <3> QED BY <2>1, <2>2, <3>1, CarriedMembers
  <2> HIDE DEF t
  <2>3. ASSUME n # 0, t \in H, n \in Kept(t)
        PROVE  Notice(c) # 0 /\ Least(Bearers(Notice(c))) = t
    <3>1. NoticesOf(c) \cap kept = {n}
      BY <2>1, <2>3
    <3>2. Notice(c) = n
      <4>1. {n} \in SUBSET (Nat \ {0})
        BY <2>1, <2>3, CalmTypes
      <4> QED BY <3>1, <4>1, LeastOf
    <3>3. Bearers(n) = {t}
      BY <2>2, <2>3
    <3>4. Least({t}) = t
      <4>1. {t} \in SUBSET (Nat \ {0})
        BY <1>2, <2>3, CalmTypes
      <4> QED BY <4>1, LeastOf
    <3> QED BY <2>3, <3>2, <3>3, <3>4
  <2>4. ASSUME ~(n # 0 /\ t \in H /\ n \in Kept(t))
        PROVE  Notice(c) = 0
    <3>1. NoticesOf(c) \cap kept = {}
      BY <2>1, <2>2, <2>4
    <3> QED BY <2>1, <3>1, LeastOf
  <2> QED BY <2>3, <2>4 DEF Moved, n, t, H
<1> HIDE DEF Notice, Bearers
<1>10. ASSUME NEW c \in Child, Moved(r, c)
       PROVE  /\ result'[c].turn = HeirAt(r, result[c].turn)
              /\ result'[c].status = result[c].status
              /\ asg'[c].status = "queued" /\ asg'[c].notice = asg[c].notice
  <2>1. /\ result'[c] = [result[c] EXCEPT !.turn = HeirAt(r, result[c].turn)]
        /\ asg'[c] = [asg[c] EXCEPT !.status = "queued"]
        /\ result[c] \in ResultRow /\ asg[c] \in AsgRow
    BY <1>1, <1>4, <1>9, <1>10
  <2> QED BY <2>1 DEF ResultRow, AsgRow
<1>11. ASSUME NEW c \in Child, ~Moved(r, c)
       PROVE  result'[c] = result[c] /\ asg'[c] = asg[c]
  BY <1>1, <1>9, <1>11
<1>12. ASSUME NEW n \in Notices
       PROVE  /\ inbox'[n].of = inbox[n].of
              /\ n \in lost => inbox'[n].status \in {"superseded", "failed"}
              /\ n \notin lost => inbox'[n] = inbox[n]
  <2>1. inbox[n] \in InboxRow
    BY <1>4
  <2>2. CASE n \in lost
    <3>1. inbox'[n] = [inbox[n] EXCEPT !.status = Dropped(n)]
      BY <1>1, <2>2
    <3>2. Dropped(n) \in {"superseded", "failed"}
      BY DEF Dropped
    <3> QED BY <2>1, <2>2, <3>1, <3>2 DEF InboxRow
  <2>3. CASE n \notin lost
    BY <1>1, <2>3
  <2> QED BY <2>2, <2>3
<1>13. ASSUME NEW t \in old, NEW n \in CarriedBy(t)
       PROVE  inbox'[n].status = "pending" <=> n \in Kept(t)
  <2>1. /\ t \in Turns /\ n \in Notices /\ inbox[n].status = "pending"
        /\ inbox[n].of \in Child /\ result[inbox[n].of].turn = t
    BY <1>3, CarriedMembers
  <2>2. CASE n \in Kept(t)
    <3>1. n \in kept
      BY <1>3, <2>2
    <3> QED BY <1>12, <2>1, <2>2, <3>1
  <2>3. CASE n \notin Kept(t)
    <3>1. n \notin kept
      <4> SUFFICES ASSUME NEW u \in H, n \in Kept(u) PROVE FALSE
        OBVIOUS
      <4>1. u \in Turns /\ n \in CarriedBy(u)
        BY <1>2 DEF Kept
      <4>2. u = t
        BY <2>1, <4>1, CarriedMembers
      <4> QED BY <2>3, <4>2
    <3>2. n \in lost
      BY <3>1
    <3> QED BY <1>12, <2>1, <2>3, <3>2
  <2> QED BY <2>2, <2>3
<1>14. ASSUME NEW n \in Notices, \A t \in old : n \notin CarriedBy(t)
       PROVE  inbox'[n] = inbox[n]
  BY <1>12, <1>14
<1>15. ASSUME NEW n \in Notices, inbox'[n].status = "pending"
       PROVE  inbox[n].status = "pending"
  BY <1>12, <1>15
<1> HIDE DEF lost, kept
<1>16. \A u \in H : turn'[HeirAt(r, u)] = NewTurn(turn[u].kind, Min(Kept(u)), 0, turn[u].attempts)
  BY <1>8 DEF heir
<1> QED BY <1>1, <1>7, <1>10, <1>11, <1>12, <1>13, <1>14, <1>15, <1>16 DEF H, old

-----------------------------------------------------------------------------
(* What a step that overtakes nobody does to notices, marks and turns.      *)

(* A notice keeps its child and a child its notice; a new one is pending.   *)
LEMMA NoticeKept ==
  ASSUME Calm, [Next]_vars, ~overtaken'
  PROVE  /\ \A n \in Notices : inbox[n].of \in Child => inbox'[n].of = inbox[n].of
         /\ \A n \in Notices : inbox'[n].of \in Child => asg'[inbox'[n].of].notice = n
         /\ \A c \in Child : asg[c].notice # 0 => asg'[c].notice = asg[c].notice
         /\ \A c \in Child : asg'[c].notice # 0 =>
               asg'[c].notice \in Notices /\ inbox'[asg'[c].notice].of = c
         /\ \A c \in Child : asg[c].notice = 0 /\ asg'[c].notice # 0 =>
               inbox'[asg'[c].notice].status = "pending"
<1>0. /\ Base /\ nn \in Nat /\ Notices \subseteq Nat \ {0}
      /\ inbox \in [Notices -> InboxRow] /\ asg \in [Child -> AsgRow]
      /\ \A n \in Notices : inbox[n].of \in Child <=> n <= nn
  BY CalmTypes
<1>1. \A c \in Child : NoticesOf(c)' = IF asg'[c].notice = 0 THEN {} ELSE {asg'[c].notice}
  BY CalmStep
<1>2. \A c \in Child : NoticesOf(c)' = {n \in Notices : inbox'[n].of = c}
  BY DEF NoticesOf
<1>3. \A n \in Notices : inbox'[n].of \in Child => asg'[inbox'[n].of].notice = n
  <2> SUFFICES ASSUME NEW n \in Notices, NEW c \in Child, inbox'[n].of = c
               PROVE  asg'[c].notice = n
    OBVIOUS
  <2>1. n \in NoticesOf(c)'
    BY <1>2
  <2> QED BY <1>1, <2>1
<1>4. \A c \in Child : asg'[c].notice # 0 =>
         asg'[c].notice \in Notices /\ inbox'[asg'[c].notice].of = c
  <2> SUFFICES ASSUME NEW c \in Child, asg'[c].notice # 0
               PROVE  asg'[c].notice \in Notices /\ inbox'[asg'[c].notice].of = c
    OBVIOUS
  <2>1. asg'[c].notice \in NoticesOf(c)'
    BY <1>1
  <2> QED BY <1>2, <2>1
<1>5. \A n \in Notices : inbox[n].of \in Child => inbox'[n].of = inbox[n].of
  <2> SUFFICES ASSUME NEW n \in Notices, n <= nn
               PROVE  inbox'[n].of = inbox[n].of
    BY <1>0
  <2>1. CASE SameInbox
    BY <2>1 DEF SameInbox, InboxEdit
  <2>2. ASSUME NEW c \in Child, AddNote(c)
        PROVE  inbox'[n].of = inbox[n].of
    BY <1>0, <2>2 DEF AddNote
  <2>3. CASE BootTerminated
    <3> DEFINE k == IF Open THEN Cardinality(Terminated) ELSE 0
    <3>1. \A m \in Notices : m \notin nn + 1..nn + k => inbox'[m] = inbox[m]
      BY <1>0, <2>3, BootNotes
    <3>2. n \notin nn + 1..nn + k
      BY <1>0
    <3> QED BY <3>1, <3>2
  <2> QED BY <1>0, <2>1, <2>2, <2>3, Kinds
<1>6. \A c \in Child : asg[c].notice # 0 => asg'[c].notice = asg[c].notice
  BY <1>3, <1>5, NoticeIs
<1>7. ASSUME NEW c \in Child, asg[c].notice = 0, asg'[c].notice # 0
      PROVE  inbox'[asg'[c].notice].status = "pending"
  <2>1. ~SameAsg
    BY <1>7 DEF SameAsg, AsgEdit
  <2>2. ASSUME NEW d \in Child, AddNote(d)
        PROVE  inbox'[asg'[c].notice].status = "pending"
    <3>1. c = d
      BY <1>0, <1>7, <2>2 DEF AddNote
    <3>2. asg'[c].notice = nn + 1
      BY <1>0, <2>2, <3>1 DEF AddNote
    <3> QED BY <1>0, <2>2, <3>2 DEF AddNote
  <2>3. CASE BootTerminated
    <3> DEFINE k == IF Open THEN Cardinality(Terminated) ELSE 0
               n == asg'[c].notice
    <3>1. /\ \A m \in Notices : m \notin nn + 1..nn + k => inbox'[m] = inbox[m]
          /\ inbox' = [m \in Notices |-> IF m \in nn + 1..nn + k
                       THEN [of |-> Nth(Terminated, m - nn), status |-> "pending"] ELSE inbox[m]]
      BY <1>0, <2>3, BootNotes DEF BootTerminated
    <3> HIDE DEF k
    <3>2. n \in Notices /\ inbox'[n].of = c
      BY <1>4, <1>7
    <3> HIDE DEF n
    <3>3. CASE n \in nn + 1..nn + k
      <4>1. inbox'[n] = [of |-> Nth(Terminated, n - nn), status |-> "pending"]
        BY <3>1, <3>2, <3>3
      <4> QED BY <4>1 DEF n
    <3>4. CASE n \notin nn + 1..nn + k
      <4>1. n \in NoticesOf(c)
        BY <3>1, <3>2, <3>4 DEF NoticesOf
      <4> QED BY <1>7, <4>1, CalmTypes
    <3> QED BY <3>3, <3>4 DEF n
  <2> QED BY <1>0, <2>1, <2>2, <2>3, Kinds
<1> QED BY <1>3, <1>4, <1>5, <1>6, <1>7

(* What had a notice and may be carried was carried before.                 *)
LEMMA CarryStep ==
  ASSUME Calm, [Next]_vars, ~overtaken', NEW c \in Child, asg[c].notice # 0, Carrying(c)'
  PROVE  Carrying(c)
<1>1. Moves(c)
  BY MovesStep DEF Calm
<1>2. asg[c].status \notin Unended
  BY <1>1, NoticeFirst
<1>3. asg'[c].status \in Carried /\ result'[c].status = "complete"
  BY DEF Carrying
<1> QED BY <1>1, <1>2, <1>3
        DEF Moves, Rests, Recovers, Ends, Travels, Consumed, Withdrawn, Unended, Carried, Carrying

(* A result that was delivered now was carried, or was delivered before.    *)
LEMMA DeliveredFrom ==
  ASSUME Calm, [Next]_vars, ~overtaken', NEW c \in Child,
         asg'[c].status \in {"delivered", "acknowledged"}
  PROVE  \/ asg[c].status \in {"delivered", "acknowledged"}
         \/ asg'[c].status = "delivered"
<1>1. Moves(c)
  BY MovesStep DEF Calm
<1> QED BY <1>1
        DEF Moves, Rests, Recovers, Ends, Travels, Consumed, Withdrawn, Unended, Carried

(* Ending an attempt, and making the turn of a deferred one, leave the      *)
(* turns there are alone.                                                   *)
LEMMA RowsRest ==
  ASSUME Calm, PickOldest \/ ExitWrite \/ \E c \in Child : Submit(c),
         NEW t \in Turns, t \notin nt + 1..nt'
  PROVE  turn'[t] = turn[t]
<1>0. TypeInv /\ turn \in [Turns -> TurnRow] /\ nt \in Nat /\ nn \in Nat /\ MaxNotices \in Nat
  BY CalmTypes
<1>1. ASSUME NEW c \in Child, NEW n \in 0..MaxNotices, Attach(c, n)
      PROVE  turn'[t] = turn[t]
  <2> DEFINE r == NewTurn(BoundaryKind(c), n, BoundaryKey(c), 0)
  <2>1. /\ nt' = nt => turn' = turn
        /\ nt' # nt => nt' = nt + 1 /\ turn' = [turn EXCEPT ![nt + 1] = r]
    BY <1>0, <1>1, AttachTurns
  <2> HIDE DEF r
  <2>2. CASE nt' = nt
    BY <2>1, <2>2
  <2>3. CASE nt' # nt
    <3>1. t # nt + 1
      BY <1>0, <2>1, <2>3
    <3> QED BY <1>0, <2>1, <2>3, <3>1
  <2> QED BY <2>2, <2>3
<1>2. ASSUME NEW c \in Child, NEW seen, NEW res, NEW refused, Notify(c, seen, res, refused)
      PROVE  turn'[t] = turn[t]
  <2>1. CASE UNCHANGED turnVars
    BY <2>1 DEF turnVars
  <2>2. CASE ~UNCHANGED turnVars
    <3>1. Attach(c, nn + 1) /\ nn < MaxNotices
      BY <1>2, <2>2 DEF Notify
    <3>2. nn + 1 \in 0..MaxNotices
      BY <1>0, <3>1
    <3> QED BY <1>1, <3>1, <3>2
  <2> QED BY <2>1, <2>2
<1>3. CASE PickOldest
  <2>1. CASE UNCHANGED turnVars
    BY <2>1 DEF turnVars
  <2>2. CASE ~UNCHANGED turnVars
    <3>1. PICK n : n = Oldest /\ n # 0 /\ Materializes(n) /\ Attach(inbox[n].of, n)
      BY <1>3, <2>2 DEF PickOldest
    <3>2. inbox[n].of \in Child /\ n \in 0..MaxNotices
      BY <1>0, <3>1, OldestType, CalmTypes DEF Materializes, Child
    <3> QED BY <1>1, <3>1, <3>2
  <2> QED BY <2>1, <2>2
<1>4. CASE ExitWrite
  <2> DEFINE c == leaving.child
  <2>1. c \in Child
    BY <1>4, CalmTypes DEF ExitWrite, TypeOK
  <2> HIDE DEF c
  <2>2. \/ UNCHANGED turnVars
        \/ \E seen, res, refused : Notify(c, seen, res, refused)
    BY <1>4 DEF c, ExitWrite, LoseAssigned, Recover, Exhaust, Destroy
  <2> QED BY <1>2, <2>1, <2>2 DEF turnVars
<1>5. CASE \E c \in Child : Submit(c)
  BY <1>2, <1>5 DEF Submit
<1> QED BY <1>3, <1>4, <1>5

(* Blank rows stay blank, and who queues a turn that was not queued.        *)
QueuedBy(t) == \/ turn[t].state = "queued"
               \/ Requeue \/ RequeueExpired \/ BootUnadmitted
               \/ /\ Settle /\ lease = t /\ ValidTransport(t)
                  /\ WithMembers(t, "pending", "queued")
LEMMA StateMoves ==
  ASSUME Calm, [Next]_vars, ~overtaken', NEW t \in Turns, t \notin nt + 1..nt'
  PROVE  /\ turn[t].state = "none" => turn'[t].state = "none"
         /\ turn'[t].state = "queued" => QueuedBy(t)
<1> DEFINE Fine == /\ turn[t].state = "none" => turn'[t].state = "none"
                   /\ turn'[t].state = "queued" => QueuedBy(t)
<1>0. /\ turn \in [Turns -> TurnRow] /\ \A u \in Turns : RowOK(turn[u]) /\ turn[u] \in TurnRow
      /\ nt \in Nat /\ t \in Turns
  BY CalmTypes DEF TypeInv
<1>1. CASE turn'[t] = turn[t]
  BY <1>1 DEF QueuedBy
<1>2. CASE PickOldest \/ ExitWrite \/ \E c \in Child : Submit(c)
  BY <1>1, <1>2, RowsRest
<1>3. CASE StartTick
  <2>1. CASE MustRebuild(LatestResume)
    <3>1. Rebuild(LatestResume)
      BY <1>3, <2>1 DEF StartTick
    <3> DEFINE r == LatestResume
    <3> HIDE DEF r
    <3>2. t \notin Superseded(r) => turn'[t] = turn[t]
      BY <3>1, RebuildRows DEF r
    <3>3. CASE t \in Superseded(r)
      <4> DEFINE heirs == {u \in Superseded(r) : Kept(u) # {}}
      <4>1. turn'[t] = [turn[t] EXCEPT !.state = IF @ = "finished" THEN @ ELSE "cancelled",
                                       !.claim = "none", !.retired = TRUE,
                                       !.anchor = IF t \in heirs THEN 0 ELSE @]
        BY <3>1, <3>3 DEF Rebuild, r
      <4> HIDE DEF heirs
      <4>2. turn'[t].state = IF turn[t].state = "finished" THEN "finished" ELSE "cancelled"
        BY <1>0, <4>1 DEF TurnRow
      <4>3. turn[t].state # "none"
        BY <3>3 DEF Superseded, Pending
      <4> QED BY <4>2, <4>3
    <3> QED BY <1>1, <3>2, <3>3
  <2>2. CASE ~MustRebuild(LatestResume)
    BY <1>1, <1>3, <2>2 DEF StartTick, turnVars
  <2> QED BY <2>1, <2>2
<1>4. CASE LookReady \/ ClaimTurn
  <2>1. PICK u : turn' = turn \/ (turn' = Claimed(u) /\ turn[u].state = "queued")
    BY <1>4 DEF LookReady, Activatable, ClaimTurn
  <2>2. CASE t = u /\ turn' = Claimed(u) /\ turn[u].state = "queued"
    BY <1>0, <2>2 DEF QueuedBy
  <2>3. CASE turn' = Claimed(u) /\ t # u
    <3>1. turn'[t] = turn[t]
      BY <1>0, <2>3 DEF Claimed
    <3> QED BY <1>1, <3>1
  <2> QED BY <1>1, <2>1, <2>2, <2>3
<1>5. CASE Requeue
  <2>1. \/ turn' = turn
        \/ /\ turn[dturn].state = "claimed"
           /\ \/ turn' = Exhausted(dturn)
              \/ turn' = [turn EXCEPT ![dturn].state = "queued", ![dturn].claim = "none",
                                      ![dturn].settled = FALSE]
              \/ turn' = [[turn EXCEPT ![dturn].state = "queued", ![dturn].claim = "none",
                                      ![dturn].settled = FALSE] EXCEPT ![dturn].attempts = @ - 1]
    BY <1>5 DEF Requeue, ClaimMatches
  <2>2. CASE t # dturn
    <3>1. turn'[t] = turn[t]
      BY <1>0, <2>1, <2>2 DEF Exhausted
    <3> QED BY <1>1, <3>1
  <2> QED BY <1>1, <1>5, <2>1, <2>2 DEF QueuedBy
<1>6. CASE EndTick
  <2>1. \/ turn' = turn
        \/ turn[dturn].state = "claimed"
           /\ turn' = [turn EXCEPT ![dturn].state = "sent", ![dturn].claim = "none",
                                   ![dturn].settled = FALSE]
    BY <1>6 DEF EndTick, MaySend, ClaimMatches
  <2>2. CASE t # dturn
    <3>1. turn'[t] = turn[t]
      BY <1>0, <2>1, <2>2
    <3> QED BY <1>1, <3>1
  <2>3. CASE t = dturn /\ turn' # turn
    BY <1>0, <2>1, <2>3 DEF TurnRow
  <2> QED BY <1>1, <2>1, <2>2, <2>3
<1>7. CASE RequeueExpired
  <2>1. turn'[t] = IF turn[t].claim = "expired"
                   THEN [turn[t] EXCEPT !.state = "queued", !.claim = "none"] ELSE turn[t]
    BY <1>7 DEF RequeueExpired
  <2>2. turn[t].claim = "expired" => turn[t].state # "none"
    BY <1>0 DEF RowOK
  <2> QED BY <1>1, <1>7, <2>1, <2>2 DEF QueuedBy
<1>8. CASE Settle
  <2>1. \/ turn' = turn
        \/ /\ turn[lease].state \in {"claimed", "sent"}
           /\ \/ turn' = Exhausted(lease)
              \/ turn' = [turn EXCEPT ![lease].settled = FALSE]
              \/ /\ turn' = [turn EXCEPT ![lease].state = "queued", ![lease].claim = "none",
                                         ![lease].settled = TRUE]
                 /\ ValidTransport(lease) /\ WithMembers(lease, "pending", "queued")
    BY <1>8 DEF Settle
  <2>2. CASE t # lease
    <3>1. turn'[t] = turn[t]
      BY <1>0, <2>1, <2>2 DEF Exhausted
    <3> QED BY <1>1, <3>1
  <2>3. CASE t = lease
    <3>1. turn' = Exhausted(lease) => turn'[t].state = "cancelled"
      BY <1>0, <2>3 DEF Exhausted, TurnRow
    <3>2. turn' = [turn EXCEPT ![lease].settled = FALSE] => turn'[t].state = turn[t].state
      BY <1>0, <2>3 DEF TurnRow
    <3> QED BY <1>1, <1>8, <2>1, <2>3, <3>1, <3>2 DEF QueuedBy
  <2> QED BY <2>2, <2>3
<1>9. CASE BootTerminated
  <2> DEFINE k == IF Open THEN Cardinality(Terminated) ELSE 0
  <2>1. /\ nt' = nt + k
        /\ turn' = [u \in Turns |-> IF u \in nt + 1..nt + k
                       THEN NewTurn("assigned_result", nn + u - nt, Nth(Terminated, u - nt), 0)
                       ELSE turn[u]]
    BY <1>9 DEF BootTerminated
  <2> HIDE DEF k
  <2>2. turn'[t] = turn[t]
    BY <2>1
  <2> QED BY <1>1, <2>2
<1>10. CASE BootUnadmitted
  <2>1. \/ turn' = turn
        \/ /\ turn[wf.active].state = "sent"
           /\ turn' = [turn EXCEPT ![wf.active].state = "queued"]
    BY <1>10 DEF BootUnadmitted
  <2>2. CASE t # wf.active
    <3>1. turn'[t] = turn[t]
      BY <1>0, <2>1, <2>2
    <3> QED BY <1>1, <3>1
  <2> QED BY <1>1, <1>10, <2>1, <2>2 DEF QueuedBy
<1>11. ASSUME NEW u \in Turns, ClaimExpires(u) \/ Admit(u)
       PROVE  Fine
  <2>1. CASE t # u
    <3>1. turn'[t] = turn[t]
      BY <1>0, <1>11, <2>1 DEF ClaimExpires, Admit
    <3> QED BY <1>1, <3>1
  <2>2. CASE t = u /\ ClaimExpires(u)
    <3>1. turn' = [turn EXCEPT ![u].claim = "expired"]
      BY <2>2 DEF ClaimExpires
    <3>2. turn'[t].state = turn[t].state
      BY <1>0, <2>2, <3>1 DEF TurnRow
    <3> QED BY <3>2 DEF QueuedBy
  <2>3. CASE t = u /\ Admit(u)
    <3>1. \/ turn' = [turn EXCEPT ![u].receipt = "consumed"]
          \/ /\ turn[u].state \in Pending
             /\ turn' = [turn EXCEPT ![u].receipt = "consumed", ![u].state = "sent",
                                     ![u].claim = "none", ![u].settled = FALSE]
      BY <2>3 DEF Admit
    <3>2. CASE turn' = [turn EXCEPT ![u].receipt = "consumed"]
      <4>1. turn'[t].state = turn[t].state
        BY <1>0, <2>3, <3>2 DEF TurnRow
      <4> QED BY <4>1 DEF QueuedBy
    <3>3. CASE /\ turn[u].state \in Pending
               /\ turn' = [turn EXCEPT ![u].receipt = "consumed", ![u].state = "sent",
                                       ![u].claim = "none", ![u].settled = FALSE]
      BY <1>0, <2>3, <3>3 DEF TurnRow, Pending
    <3> QED BY <3>1, <3>2, <3>3
  <2> QED BY <1>11, <2>1, <2>2, <2>3
<1>12. ASSUME NEW u \in Turns, Resume(u)
       PROVE  Fine
  <2>1. /\ turn[u].state = "sent" /\ nt' = nt + 1
        /\ turn' = [turn EXCEPT ![u].state = "finished", ![u].receipt = "resumed",
                                ![nt + 1] = Admitted("execution_resume")]
    BY <1>12 DEF Resume
  <2>2. t # nt + 1
    BY <1>0, <2>1
  <2>3. CASE t # u
    <3>1. turn'[t] = turn[t]
      BY <1>0, <2>1, <2>2, <2>3
    <3> QED BY <1>1, <3>1
  <2>4. CASE t = u
    <3>1. turn'[t].state = "finished"
      BY <1>0, <2>1, <2>2, <2>4 DEF TurnRow
    <3> QED BY <2>1, <2>4, <3>1
  <2> QED BY <2>3, <2>4
<1>13. ASSUME NEW status \in {"completed", "cancelled"}, Close(status)
       PROVE  Fine
  <2>1. turn'[t] = IF turn[t].state \in Pending
                   THEN [turn[t] EXCEPT !.state = "cancelled", !.claim = "none"] ELSE turn[t]
    BY <1>13 DEF Close
  <2>2. [turn[t] EXCEPT !.state = "cancelled", !.claim = "none"].state = "cancelled"
    BY <1>0 DEF TurnRow
  <2> QED BY <1>1, <2>1, <2>2 DEF Pending
<1> HIDE DEF Fine
<1>14. Fine
  BY <1>1, <1>2, <1>3, <1>4, <1>5, <1>6, <1>7, <1>8, <1>9, <1>10, <1>11, <1>12, <1>13, Steps DEF Fine
<1> QED BY <1>14 DEF Fine

(* The turn that carries a notice is its only one.                          *)
LEMMA AnchorTurn ==
  ASSUME Calm, NEW t \in Turns, turn[t].anchor # 0
  PROVE  /\ TurnOf(turn[t].anchor) = t /\ t <= nt
         /\ turn[t].anchor \in Notices /\ inbox[turn[t].anchor].of \in Child
         /\ result[inbox[turn[t].anchor].of].turn = t
         /\ asg[inbox[turn[t].anchor].of].notice = turn[t].anchor
         /\ turn[t].kind \in ResultKinds
<1> DEFINE a == turn[t].anchor
           S == {u \in Turns : turn[u].anchor = a}
<1>1. \A u \in S : inbox[a].of \in Child /\ result[inbox[a].of].turn = u
  BY DEF Calm, Delivering, Placed
<1>2. S = {t}
  BY <1>1
<1>3. S \in SUBSET (Nat \ {0}) /\ t # 0
  BY CalmTypes
<1>4. Least(S) = t
  BY <1>2, <1>3, LeastOf
<1>5. turn[t] \in TurnRow /\ MaxNotices \in Nat /\ Notices = 1..MaxNotices
  BY CalmTypes
<1>6. a \in Notices
  BY <1>5 DEF TurnRow
<1>7. inbox[a].of \in Child /\ result[inbox[a].of].turn = t
  BY <1>1, <1>2
<1>8. asg[inbox[a].of].notice = a
  BY <1>6, <1>7, NoticeIs
<1>9. t <= nt /\ turn[t].kind \in ResultKinds
  BY <1>3, <1>7 DEF Calm, Delivering, Onward, Placed
<1> QED BY <1>4, <1>6, <1>7, <1>8, <1>9 DEF TurnOf

(* The turn the dispatcher looks at.                                        *)
LEMMA LookedAt ==
  ASSUME Calm, dpc = "look"
  PROVE  \E t \in Turns :
            /\ turn[t].anchor # 0 /\ batch = {turn[t].anchor}
            /\ Min(batch) = turn[t].anchor /\ TurnOf(Min(batch)) = t
            /\ Open /\ turn[t].state = "queued" => inbox[turn[t].anchor].status = "pending"
<1>1. PICK t \in Turns : /\ turn[t].anchor # 0 /\ batch = {turn[t].anchor}
                         /\ Open /\ turn[t].state = "queued" =>
                               inbox[turn[t].anchor].status = "pending"
  BY DEF Calm, Delivering, Aimed
<1>2. turn[t].anchor \in Nat
  BY <1>1, AnchorTurn, CalmTypes
<1>3. Min(batch) \in batch
  BY <1>1, <1>2, MinOf
<1> QED BY <1>1, <1>3, AnchorTurn

(* The active binding moves on, to a turn that there is.                    *)
LEMMA ActiveStep ==
  ASSUME Calm, [Next]_vars, ~overtaken'
  PROVE  /\ nt' \in Nat /\ nt <= nt' /\ nt' <= MaxTurns
         /\ wf.active \in Nat /\ wf'.active \in Nat
         /\ wf.active <= wf'.active /\ wf'.active <= nt'
<1>0. /\ nt \in Nat /\ nt' \in 1..MaxTurns /\ nt <= nt' /\ MaxTurns \in Nat /\ wf.active <= nt
      /\ wf \in [status : {"open", "completed", "cancelled", "owner_gate"}, active : Turns]
      /\ wf' \in [status : {"open", "completed", "cancelled", "owner_gate"}, active : Turns]
      /\ Turns = 1..MaxTurns
  BY CalmTypes, CalmStep DEF TypeOK, TurnsKept, PaneKept, Calm, Delivering, Onward
<1>1. CASE wf'.active = wf.active
  BY <1>0, <1>1
<1>2. CASE LookReady
  <2>1. CASE wf' = wf
    BY <1>1, <2>1
  <2>2. CASE wf' # wf
    <3> DEFINE t == TurnOf(Min(batch))
    <3>1. wf' = [wf EXCEPT !.active = t] /\ t # 0 /\ Activatable(t) /\ dpc = "look"
      BY <1>2, <2>2 DEF LookReady
    <3> HIDE DEF t
    <3>2. t \in Turns
      BY <3>1, LookedAt DEF t
    <3>3. t <= nt
      <4>1. ~(t > nt)
        BY <3>1, <3>2 DEF Activatable, Calm, Delivering, Onward
      <4> QED BY <1>0, <3>2, <4>1
    <3>4. wf.active <= t
      BY <3>1 DEF Activatable
    <3>5. wf'.active = t
      BY <1>0, <3>1
    <3> QED BY <1>0, <3>2, <3>3, <3>4, <3>5
  <2> QED BY <2>1, <2>2
<1>3. CASE Requeue \/ Settle
  <2>1. wf' = wf \/ wf' = [wf EXCEPT !.status = "owner_gate"]
    BY <1>3 DEF Requeue, Settle
  <2> QED BY <1>0, <1>1, <2>1
<1>4. CASE \E t \in Turns : Resume(t)
  <2>1. wf' = [wf EXCEPT !.active = nt + 1] /\ nt' = nt + 1
    BY <1>4 DEF Resume
  <2>2. wf'.active = nt + 1
    BY <1>0, <2>1
  <2> QED BY <1>0, <2>1, <2>2
<1>5. CASE \E status \in {"completed", "cancelled"} : Close(status)
  <2>1. PICK status : wf' = [wf EXCEPT !.status = status]
    BY <1>5 DEF Close
  <2> QED BY <1>0, <1>1, <2>1
<1> QED BY <1>1, <1>2, <1>3, <1>4, <1>5, Steps

(* A boundary that a handoff may join has not been activated.               *)
LEMMA JoinableLater ==
  ASSUME Calm, NEW c \in Child, NEW t \in Joinable(c)
  PROVE  /\ t \in Turns /\ t <= nt /\ wf.active < t
         /\ turn[t].kind = "handoff_result" /\ turn[t].state = "queued"
<1>1. /\ t \in Turns /\ c \in Handoffs /\ turn[t].state = "queued"
      /\ turn[t].kind = BoundaryKind(c) /\ turn[t].key = BoundaryKey(c)
  BY DEF Joinable, OnBoundary
<1>2. turn[t].kind = "handoff_result" /\ turn[t].key = wf.active
  BY <1>1, ChildAssumption DEF BoundaryKind, BoundaryKey
<1>3. ~(t > nt) /\ t \in Nat /\ nt \in Nat
  BY <1>1, CalmTypes DEF Calm, Delivering, Onward
<1>4. wf.active < t
  BY <1>1, <1>2 DEF Calm, Delivering, Onward
<1> QED BY <1>1, <1>2, <1>3, <1>4

(* A result that changes its turn joins one that was not activated, or      *)
(* takes a new one.                                                         *)
LEMMA Joined ==
  ASSUME Calm, [Next]_vars, ~overtaken', NEW c \in Child, result'[c].turn # result[c].turn
  PROVE  /\ asg'[c].notice # 0
         /\ \/ /\ result[c].turn = 0 /\ result'[c].turn \in Joinable(c)
               /\ inbox'[asg'[c].notice].status = "pending"
            \/ result'[c].turn \in nt + 1..nt'
<1>1. CASE Grow
  BY <1>1 DEF Grow, Added
<1>2. CASE Rebuilds
  <2>1. Rebuild(LatestResume)
    BY <1>2 DEF Rebuilds, StartTick
  <2> DEFINE r == LatestResume
  <2> HIDE DEF r
  <2>2. Moved(r, c)
    BY <2>1, RebuildRows DEF r
  <2>3. /\ result'[c].turn = HeirAt(r, result[c].turn) /\ asg'[c].notice = asg[c].notice
        /\ nt' = nt + Cardinality(Heirs(r)) /\ nt' \in Turns
    BY <2>1, <2>2, RebuildRows DEF r
  <2>4. HeirAt(r, result[c].turn) \in nt + 1..nt'
    BY <2>2, <2>3, HeirsType DEF Moved
  <2> QED BY <2>2, <2>3, <2>4 DEF Moved
<1> QED BY <1>1, <1>2, GrowStep

(* Who is a member of a turn that there was.                                *)
LEMMA MembersFrom ==
  ASSUME Calm, [Next]_vars, ~overtaken', NEW c \in Child, NEW t \in Turns, t <= nt,
         result'[c].turn = t
  PROVE  \/ /\ result[c].turn = t /\ asg[c].notice # 0
         \/ /\ result[c].turn = 0 /\ t \in Joinable(c) /\ wf.active < t
            /\ asg'[c].notice # 0 /\ inbox'[asg'[c].notice].status = "pending"
<1>1. CASE result[c].turn = t
  <2>1. t # 0
    BY CalmTypes
  <2> QED BY <1>1, <2>1 DEF Calm, Delivering, Placed
<1>2. CASE result[c].turn # t
  <2>1. t \notin nt + 1..nt'
    BY CalmTypes
  <2> QED BY <1>2, <2>1, Joined, JoinableLater
<1> QED BY <1>1, <1>2

(* The turns are numbered onward.                                           *)
LEMMA OnwardStep ==
  ASSUME Calm, [Next]_vars, ~overtaken'
  PROVE  Onward'
<1>0. /\ nt' \in Nat /\ nt <= nt' /\ nt \in Nat /\ Turns = 1..MaxTurns /\ MaxTurns \in Nat
      /\ wf.active \in Nat /\ wf'.active \in Nat
      /\ wf.active <= wf'.active /\ wf'.active <= nt' /\ wf.active <= nt
  BY ActiveStep, CalmTypes DEF Calm, Delivering, Onward
<1>1. \A t \in pasted' : t <= wf'.active
  <2>1. \A t \in pasted : t \in Turns /\ t <= wf.active
    BY CalmTypes DEF TypeOK, Calm, Delivering, Onward
  <2>2. CASE pasted' = pasted
    BY <1>0, <2>1, <2>2
  <2>3. CASE PasteAccepted \/ PasteFailed
    <3>1. pasted' \subseteq pasted \cup {dturn} /\ dpc = "paste"
      BY <2>3 DEF PasteAccepted, PasteFailed, Shown
    <3>2. dturn \in Turns /\ dturn <= wf.active
      BY <3>1, CalmTypes DEF Base, Ticking, Calm, Delivering, Onward
    <3> QED BY <1>0, <2>1, <3>1, <3>2
  <2> QED BY <2>2, <2>3, Steps
<1>2. ASSUME dpc' \in {"activated", "slot", "paste"}
      PROVE  dturn' <= wf'.active
  <2>1. dpc \in {"activated", "slot", "paste"} => dturn \in Turns /\ dturn <= wf.active
    BY CalmTypes DEF Base, Ticking, Calm, Delivering, Onward
  <2>2. CASE dpc \in {"activated", "slot", "paste"} /\ dturn' = dturn
    BY <1>0, <2>1, <2>2
  <2>3. CASE LookReady
    <3>1. wf' = [wf EXCEPT !.active = dturn']
      BY <1>2, <2>3 DEF LookReady, Idle
    <3>2. wf \in [status : {"open", "completed", "cancelled", "owner_gate"}, active : Turns]
      BY CalmTypes DEF TypeOK
    <3> QED BY <1>0, <3>1, <3>2
  <2>4. CASE ClaimTurn \/ Slot
    BY <1>2, <2>2, <2>4 DEF ClaimTurn, Slot, SlotGranted, SlotRefused, Idle
  <2>5. CASE UNCHANGED <<dpc, dturn, batch, todo>>
    BY <1>2, <2>2, <2>5
  <2>6. CASE WriteStatus \/ ReadMark \/ Mark \/ EndTick \/ Crash
    BY <1>2, <2>6 DEF WriteStatus, ReadMark, Mark, EndTick, Crash, Idle
  <2>7. CASE StartTick \/ CloseScan \/ PickOldest \/ LookBusy \/ LookDead \/ PasteAccepted
             \/ PasteFailed \/ Requeue
    BY <1>2, <2>7 DEF StartTick, CloseScan, PickOldest, LookBusy, LookDead, PasteAccepted,
       PasteFailed, Requeue, Idle
  <2> QED BY <2>3, <2>4, <2>5, <2>6, <2>7, Steps
<1>3. ASSUME NEW t \in Turns, turn'[t].kind = "handoff_result"
      PROVE  turn'[t].key \in Nat /\ turn'[t].key < t
  <2>1. CASE t \notin nt + 1..nt'
    <3>1. turn'[t].kind = turn[t].kind /\ turn'[t].key = turn[t].key
      BY <2>1, CalmStep DEF TurnsKept, Kin
    <3> QED BY <1>3, <3>1 DEF Calm, Delivering, Onward
  <2>2. CASE t \in nt + 1..nt' /\ Grow
    BY <1>0, <1>3, <2>2 DEF Grow
  <2>3. CASE t \in nt + 1..nt' /\ Rebuilds
    <3>1. Rebuild(LatestResume)
      BY <2>3 DEF Rebuilds, StartTick
    <3> DEFINE r == LatestResume
    <3> HIDE DEF r
    <3>2. /\ nt' = nt + Cardinality(Heirs(r)) /\ nt' \in Turns
          /\ \A u \in Heirs(r) :
               turn'[HeirAt(r, u)] = NewTurn(turn[u].kind, Min(Kept(u)), 0, turn[u].attempts)
      BY <3>1, RebuildRows DEF r
    <3>3. PICK u \in Heirs(r) : HeirAt(r, u) = t
      BY <2>3, <3>2, HeirsType
    <3>4. turn'[t] = NewTurn(turn[u].kind, Min(Kept(u)), 0, turn[u].attempts)
      BY <3>2, <3>3
    <3> DEFINE k == turn[u].kind
               m == Min(Kept(u))
               a == turn[u].attempts
    <3> HIDE DEF k, m, a
    <3>5. turn'[t].key = 0
      <4>1. turn'[t] = NewTurn(k, m, 0, a)
        BY <3>4 DEF k, m, a
      <4> QED BY <4>1 DEF NewTurn
    <3> QED BY <1>0, <2>3, <3>5
  <2> QED BY <2>1, <2>2, <2>3, GrowStep
<1>4. ASSUME NEW t \in Turns, t > nt'
      PROVE  turn'[t].state = "none"
  <2>1. t \notin nt + 1..nt' /\ t > nt
    BY <1>0, <1>4
  <2>2. turn[t].state = "none"
    BY <2>1 DEF Calm, Delivering, Onward
  <2> QED BY <2>1, <2>2, StateMoves
<1>5. ASSUME boot' # "up"
      PROVE  dpc' = "idle"
  <2>1. boot # "up" => dpc = "idle"
    BY DEF Calm, Delivering, Onward
  <2>2. CASE Crash
    BY <2>2 DEF Crash, Idle
  <2>3. CASE ~Crash /\ boot = "up"
    <3>1. boot' = "up"
      BY <2>3, Steps DEF Restart, BootTerminated, BootArm, BootUnadmitted, BootResults
    <3> QED BY <1>5, <3>1
  <2>4. CASE ~Crash /\ boot # "up"
    <3>1. dpc = "idle"
      BY <2>1, <2>4
    <3>2. UNCHANGED dpc
      BY <2>4, <3>1, Steps DEF StartTick, CloseScan, PickOldest, LookBusy, LookDead, LookReady,
         ClaimTurn, Slot, SlotGranted, SlotRefused, PasteAccepted, PasteFailed, Requeue, EndTick
    <3> QED BY <3>1, <3>2
  <2> QED BY <2>2, <2>3, <2>4
<1>6. ASSUME NEW c \in Child
      PROVE  result'[c].turn <= nt'
  <2>1. result[c].turn \in Nat /\ result[c].turn <= nt
    BY CalmTypes DEF Calm, Delivering, Onward
  <2>2. CASE result'[c].turn = result[c].turn
    BY <1>0, <2>1, <2>2
  <2>3. CASE result'[c].turn \in Joinable(c)
    <3>1. result'[c].turn \in Nat /\ result'[c].turn <= nt
      BY <1>0, <2>3, JoinableLater
    <3> QED BY <1>0, <3>1
  <2>4. CASE result'[c].turn \in nt + 1..nt'
    BY <1>0, <2>4
  <2> QED BY <2>2, <2>3, <2>4, Joined
<1> QED BY <1>0, <1>1, <1>2, <1>3, <1>4, <1>5, <1>6 DEF Onward

(* Turns are found by their anchors and their members.                      *)
LEMMA PlacedStep ==
  ASSUME Calm, [Next]_vars, ~overtaken'
  PROVE  Placed'
<1> DEFINE Members2(t) == {c \in Child : result'[c].turn = t}
<1>0. /\ nt' \in Nat /\ nt <= nt' /\ nt \in Nat /\ Turns = 1..MaxTurns /\ MaxTurns \in Nat
      /\ nt' <= MaxTurns
  BY ActiveStep, CalmTypes
<1>1. \A t \in Turns : t \notin nt + 1..nt' => turn'[t].kind = turn[t].kind
  BY CalmStep DEF TurnsKept, Kin
<1>2. \A c \in Child : result[c].turn \in 0..MaxTurns /\ result[c].turn <= nt
  BY CalmTypes DEF Calm, Delivering, Onward
<1>3. ASSUME NEW c \in Child, result'[c].turn = result[c].turn, result[c].turn # 0
      PROVE  asg'[c].notice # 0 /\ turn'[result'[c].turn].kind \in ResultKinds
  <2>1. /\ result[c].turn \in Turns /\ result[c].turn \notin nt + 1..nt'
        /\ asg[c].notice # 0 /\ turn[result[c].turn].kind \in ResultKinds
    BY <1>0, <1>2, <1>3 DEF Calm, Delivering, Placed
  <2> QED BY <1>1, <1>3, <2>1, NoticeKept
<1>4. ASSUME NEW t \in Turns, t \notin nt + 1..nt', turn'[t].kind = "assigned_result",
             NEW c \in Child, NEW d \in Child, result'[c].turn = t, result'[d].turn = t
      PROVE  c = d
  <2>1. t <= nt
    <3>1. result'[c].turn <= nt'
      BY OnwardStep DEF Onward
    <3> QED BY <1>0, <1>4, <3>1
  <2>2. turn[t].kind = "assigned_result"
    BY <1>1, <1>4
  <2>3. \A e \in Child : t \notin Joinable(e)
    BY <2>2, JoinableLater
  <2>4. c \in Members(t) /\ d \in Members(t)
    BY <1>4, <2>1, <2>3, MembersFrom DEF Members
  <2> QED BY <2>2, <2>4 DEF Calm, Delivering, Placed
<1>5. ASSUME NEW t \in Turns, t \notin nt + 1..nt', turn'[t].anchor # 0,
             turn'[t].anchor = turn[t].anchor,
             result'[inbox[turn[t].anchor].of].turn = result[inbox[turn[t].anchor].of].turn
      PROVE  /\ inbox'[turn'[t].anchor].of \in Child
             /\ result'[inbox'[turn'[t].anchor].of].turn = t
  <2>1. /\ turn[t].anchor \in Notices /\ inbox[turn[t].anchor].of \in Child
        /\ result[inbox[turn[t].anchor].of].turn = t
    BY <1>5, AnchorTurn
  <2>2. inbox'[turn[t].anchor].of = inbox[turn[t].anchor].of
    BY <2>1, NoticeKept
  <2> QED BY <1>5, <2>1, <2>2
<1>6. CASE Grow
  <2>1. ASSUME NEW c \in Child, result'[c].turn # 0
        PROVE  asg'[c].notice # 0 /\ turn'[result'[c].turn].kind \in ResultKinds
    <3>1. CASE result'[c].turn = result[c].turn
      BY <1>3, <2>1, <3>1
    <3>2. CASE result'[c].turn # result[c].turn
      <4>1. Added(c)
        BY <1>6, <3>2 DEF Grow
      <4>2. CASE result'[c].turn \in Joinable(c)
        <5>1. /\ result'[c].turn \in Turns /\ result'[c].turn <= nt
              /\ turn[result'[c].turn].kind = "handoff_result"
          BY <4>2, JoinableLater
        <5>2. result'[c].turn \notin nt + 1..nt'
          BY <1>0, <5>1
        <5> QED BY <1>1, <4>1, <5>1, <5>2 DEF Added, ResultKinds
      <4> QED BY <4>1, <4>2 DEF Added
    <3> QED BY <3>1, <3>2
  <2>2. ASSUME NEW t \in Turns, turn'[t].anchor # 0
        PROVE  /\ inbox'[turn'[t].anchor].of \in Child
               /\ result'[inbox'[turn'[t].anchor].of].turn = t
    <3>1. CASE t \in nt + 1..nt'
      <4>1. PICK c \in Child : asg'[c].notice = turn'[t].anchor /\ result'[c].turn = t
        BY <1>6, <2>2, <3>1 DEF Grow
      <4>2. inbox'[turn'[t].anchor].of = c
        BY <2>2, <4>1, NoticeKept
      <4> QED BY <4>1, <4>2
    <3>2. CASE t \notin nt + 1..nt'
      <4>1. turn'[t].anchor = turn[t].anchor
        BY <1>6, <3>2 DEF Grow
      <4>2. /\ inbox[turn[t].anchor].of \in Child /\ result[inbox[turn[t].anchor].of].turn = t
            /\ t # 0
        BY <1>0, <2>2, <4>1, AnchorTurn
      <4>3. result'[inbox[turn[t].anchor].of].turn = result[inbox[turn[t].anchor].of].turn
        BY <1>6, <4>2 DEF Grow, Added
      <4> QED BY <1>5, <2>2, <3>2, <4>1, <4>3
    <3> QED BY <3>1, <3>2
  <2>3. ASSUME NEW t \in Turns, turn'[t].kind = "assigned_result",
               NEW c \in Child, NEW d \in Child, result'[c].turn = t, result'[d].turn = t
        PROVE  c = d
    <3>1. CASE t \in nt + 1..nt'
      BY <1>6, <2>3, <3>1 DEF Grow
    <3> QED BY <1>4, <2>3, <3>1
  <2> QED BY <2>1, <2>2, <2>3 DEF Placed, Members
<1>7. CASE Rebuilds
  <2>0. Rebuild(LatestResume)
    BY <1>7 DEF Rebuilds, StartTick
  <2> DEFINE r == LatestResume
  <2> HIDE DEF r
  <2>1. /\ nt' = nt + Cardinality(Heirs(r)) /\ nt' \in Turns
        /\ \A t \in Turns : t \notin nt + 1..nt' =>
               turn'[t].anchor = IF t \in Heirs(r) THEN 0 ELSE turn[t].anchor
        /\ \A c \in Child : Moved(r, c) => result'[c].turn = HeirAt(r, result[c].turn)
        /\ \A c \in Child : ~Moved(r, c) => result'[c] = result[c]
        /\ \A u \in Heirs(r) :
               turn'[HeirAt(r, u)] = NewTurn(turn[u].kind, Min(Kept(u)), 0, turn[u].attempts)
    BY <2>0, RebuildRows DEF r
  <2>2. /\ \A u \in Heirs(r) : /\ u \in Turns /\ u <= nt /\ turn[u].kind \in ResultKinds
                               /\ HeirAt(r, u) \in nt + 1..nt' /\ Min(Kept(u)) \in Kept(u)
        /\ \A t, u \in Heirs(r) : HeirAt(r, t) = HeirAt(r, u) => t = u
        /\ \A h \in nt + 1..nt' : \E u \in Heirs(r) : HeirAt(r, u) = h
    BY <2>1, HeirsType
  <2>3. ASSUME NEW u \in Heirs(r)
        PROVE  /\ turn'[HeirAt(r, u)].kind = turn[u].kind
               /\ turn'[HeirAt(r, u)].anchor = Min(Kept(u))
    <3> DEFINE k == turn[u].kind
               m == Min(Kept(u))
               a == turn[u].attempts
    <3>1. turn'[HeirAt(r, u)] = NewTurn(k, m, 0, a)
      BY <2>1
    <3> HIDE DEF k, m, a
    <3>2. turn'[HeirAt(r, u)].kind = k /\ turn'[HeirAt(r, u)].anchor = m
      BY <3>1 DEF NewTurn
    <3> QED BY <3>2 DEF k, m
  <2>4. ASSUME NEW c \in Child, result'[c].turn # 0
        PROVE  asg'[c].notice # 0 /\ turn'[result'[c].turn].kind \in ResultKinds
    <3>1. CASE Moved(r, c)
      <4>1. asg'[c].notice # 0
        BY <3>1, NoticeKept DEF Moved
      <4> QED BY <2>1, <2>2, <2>3, <3>1, <4>1 DEF Moved
    <3>2. CASE ~Moved(r, c)
      BY <1>3, <2>1, <2>4, <3>2
    <3> QED BY <3>1, <3>2
  <2>5. ASSUME NEW t \in Turns, turn'[t].anchor # 0
        PROVE  /\ inbox'[turn'[t].anchor].of \in Child
               /\ result'[inbox'[turn'[t].anchor].of].turn = t
    <3>1. CASE t \in nt + 1..nt'
      <4>1. PICK u \in Heirs(r) : HeirAt(r, u) = t
        BY <2>2, <3>1
      <4> DEFINE n == Min(Kept(u))
                 c == inbox[n].of
      <4>2. turn'[t].anchor = n /\ n \in Kept(u) /\ n \in CarriedBy(u) /\ u \in Turns
        BY <2>2, <2>3, <4>1 DEF Kept
      <4> HIDE DEF n
      <4>3. n \in Notices /\ c \in Child /\ result[c].turn = u /\ asg[c].notice = n
        BY <4>2, CarriedMembers
      <4>4. n # 0
        BY <4>3, CalmTypes
      <4>5. Moved(r, c)
        BY <4>1, <4>2, <4>3, <4>4 DEF Moved
      <4>6. result'[c].turn = t
        BY <2>1, <4>1, <4>3, <4>5
      <4>7. inbox'[n].of = c
        BY <4>3, NoticeKept
      <4> QED BY <4>2, <4>3, <4>6, <4>7
    <3>2. CASE t \notin nt + 1..nt'
      <4>1. turn'[t].anchor = turn[t].anchor /\ t \notin Heirs(r)
        BY <2>1, <2>5, <3>2
      <4>2. /\ inbox[turn[t].anchor].of \in Child /\ result[inbox[turn[t].anchor].of].turn = t
        BY <2>5, <4>1, AnchorTurn
      <4>3. ~Moved(r, inbox[turn[t].anchor].of)
        BY <4>1, <4>2 DEF Moved
      <4>4. result'[inbox[turn[t].anchor].of].turn = result[inbox[turn[t].anchor].of].turn
        BY <2>1, <4>2, <4>3
      <4> QED BY <1>5, <2>5, <3>2, <4>1, <4>4
    <3> QED BY <3>1, <3>2
  <2>6. ASSUME NEW t \in Turns, turn'[t].kind = "assigned_result",
               NEW c \in Child, NEW d \in Child, result'[c].turn = t, result'[d].turn = t
        PROVE  c = d
    <3>1. CASE t \in nt + 1..nt'
      <4>1. PICK u \in Heirs(r) : HeirAt(r, u) = t
        BY <2>2, <3>1
      <4>2. turn[u].kind = "assigned_result" /\ u \in Turns
        BY <2>2, <2>3, <2>6, <4>1
      <4>3. \A e \in Child : result'[e].turn = t => result[e].turn = u
        <5> SUFFICES ASSUME NEW e \in Child, result'[e].turn = t PROVE result[e].turn = u
          OBVIOUS
        <5>1. CASE Moved(r, e)
          BY <2>1, <2>2, <4>1, <5>1 DEF Moved
        <5>2. CASE ~Moved(r, e)
          BY <1>0, <1>2, <2>1, <3>1, <5>2
        <5> QED BY <5>1, <5>2
      <4>4. c \in Members(u) /\ d \in Members(u)
        BY <2>6, <4>3 DEF Members
      <4> QED BY <4>2, <4>4 DEF Calm, Delivering, Placed
    <3> QED BY <1>4, <2>6, <3>1
  <2> QED BY <2>4, <2>5, <2>6 DEF Placed, Members
<1> QED BY <1>6, <1>7, GrowStep

(* How the status of a child's notice moves.                                *)
Replayed(n) == \E t \in Turns : /\ Settle /\ lease = t /\ ValidTransport(t)
                                /\ WithMembers(t, "pending", "queued")
                                /\ inbox[n].of \in Members(t) /\ inbox'[n].status = "pending"
Received(n) == \E t \in pasted : /\ Admit(t) /\ ValidTransport(t)
                                 /\ WithMembers(t, "delivered", "delivered")
                                 /\ inbox[n].of \in Members(t) /\ turn'[t].state = "sent"
                                 /\ inbox'[n].status = "delivered"
Written(n) == WriteStatus /\ n = Head(todo)[2] /\ inbox'[n].status = dpc
Requeued(n) == BootResults /\ boot = "requeue" /\ n \in stale.notices /\ inbox'[n].status = "pending"
Undone(n) == /\ inbox[n].status = "pending" /\ inbox'[n].status # "pending"
             /\ \/ ~Open'
                \/ dpc \in {"idle", "head"} /\ ~Carrying(inbox[n].of)
LEMMA InboxMoves ==
  ASSUME Calm, [Next]_vars, ~overtaken', NEW n \in Notices, inbox[n].of \in Child
  PROVE  \/ inbox'[n].status = inbox[n].status
         \/ Replayed(n) \/ Received(n) \/ Written(n) \/ Requeued(n) \/ Undone(n)
<1> DEFINE Fine == \/ inbox'[n].status = inbox[n].status
                   \/ Replayed(n) \/ Received(n) \/ Written(n) \/ Requeued(n) \/ Undone(n)
<1>0. /\ Base /\ inbox \in [Notices -> InboxRow] /\ inbox[n] \in InboxRow /\ nn \in Nat
      /\ n <= nn /\ n \in Nat /\ turn \in [Turns -> TurnRow]
      /\ wf \in [status : {"open", "completed", "cancelled", "owner_gate"}, active : Turns]
  BY CalmTypes DEF TypeOK
<1>1. CASE inbox'[n] = inbox[n]
  BY <1>1
<1>2. ASSUME NEW c \in Child, AddNote(c) PROVE Fine
  <2>1. inbox'[n] = inbox[n]
    BY <1>0, <1>2 DEF AddNote
  <2> QED BY <2>1
<1>3. ASSUME inbox' = FailAnchored, ~Open' PROVE Fine
  <2>1. \/ inbox'[n] = inbox[n]
        \/ /\ inbox[n].status = "pending"
           /\ inbox'[n] = [inbox[n] EXCEPT !.status = "failed"]
    BY <1>3 DEF FailAnchored, PendingNotices
  <2>2. [inbox[n] EXCEPT !.status = "failed"].status = "failed"
    BY <1>0 DEF InboxRow
  <2> QED BY <1>3, <2>1, <2>2 DEF Undone
<1>4. CASE StartTick
  <2>1. CASE MustRebuild(LatestResume)
    <3>1. Rebuild(LatestResume) /\ dpc = "idle"
      BY <1>4, <2>1 DEF StartTick
    <3> DEFINE r == LatestResume
    <3> HIDE DEF r
    <3>2. /\ \A t \in Superseded(r) : \A m \in CarriedBy(t) :
               inbox'[m].status = "pending" <=> m \in Kept(t)
          /\ (\A t \in Superseded(r) : n \notin CarriedBy(t)) => inbox'[n] = inbox[n]
      BY <3>1, RebuildRows DEF r
    <3>3. ASSUME NEW t \in Superseded(r), n \in CarriedBy(t)
          PROVE  Fine
      <4>1. t \in Turns
        BY DEF Superseded
      <4>2. inbox[n].status = "pending" /\ (n \in Kept(t) <=> Carrying(inbox[n].of))
        BY <3>3, <4>1, CarriedMembers, KeptMembers
      <4> QED BY <3>1, <3>2, <3>3, <4>2 DEF Undone
    <3> QED BY <1>1, <3>2, <3>3
  <2>2. CASE ~MustRebuild(LatestResume)
    BY <1>1, <1>4, <2>2 DEF StartTick, noticeVars
  <2> QED BY <2>1, <2>2
<1>5. CASE CloseScan
  <2>1. inbox' = inbox \/ (inbox' = FailAnchored /\ ~Open /\ wf' = wf)
    BY <1>5 DEF CloseScan
  <2> QED BY <1>1, <1>3, <2>1 DEF Open
<1>6. CASE FailOldest
  <2>1. /\ inbox' = [inbox EXCEPT ![Oldest].status = "failed"] /\ wf' = wf /\ dpc = "head"
        /\ Oldest # 0 /\ (asg[inbox[Oldest].of].status = "cancelled" \/ ~Open)
    BY <1>6 DEF FailOldest, OldestDead
  <2>2. Oldest \in Notices /\ inbox[Oldest].status = "pending"
    BY <2>1, OldestType DEF PendingNotices
  <2>3. CASE n # Oldest
    <3>1. inbox'[n] = inbox[n]
      BY <1>0, <2>1, <2>3
    <3> QED BY <1>1, <3>1
  <2>4. CASE n = Oldest
    <3>1. inbox'[n].status = "failed"
      BY <1>0, <2>1, <2>4 DEF InboxRow
    <3>2. asg[inbox[n].of].status = "cancelled" => ~Carrying(inbox[n].of)
      BY DEF Carrying, Carried
    <3> QED BY <2>1, <2>2, <2>4, <3>1, <3>2 DEF Undone, Open
  <2> QED BY <2>3, <2>4
<1>7. CASE Requeue
  <2>1. \/ inbox' = inbox
        \/ inbox' = FailAnchored /\ wf' = [wf EXCEPT !.status = "owner_gate"]
    BY <1>7 DEF Requeue
  <2>2. wf' = [wf EXCEPT !.status = "owner_gate"] => ~Open'
    BY <1>0 DEF Open
  <2> QED BY <1>1, <1>3, <2>1, <2>2
<1>8. CASE WriteStatus
  <2>1. inbox' = [inbox EXCEPT ![Head(todo)[2]].status = dpc]
    BY <1>8 DEF WriteStatus
  <2>2. CASE n # Head(todo)[2]
    <3>1. inbox'[n] = inbox[n]
      BY <1>0, <2>1, <2>2
    <3> QED BY <1>1, <3>1
  <2>3. CASE n = Head(todo)[2]
    <3>1. inbox'[n].status = dpc
      BY <1>0, <2>1, <2>3 DEF InboxRow
    <3> QED BY <1>8, <2>3, <3>1 DEF Written
  <2> QED BY <2>2, <2>3
<1>9. CASE Settle
  <2>1. \/ inbox' = inbox
        \/ inbox' = FailAnchored /\ wf' = [wf EXCEPT !.status = "owner_gate"]
        \/ ValidTransport(lease) /\ WithMembers(lease, "pending", "queued") /\ lease # 0
    BY <1>9 DEF Settle
  <2>2. wf' = [wf EXCEPT !.status = "owner_gate"] => ~Open'
    BY <1>0 DEF Open
  <2>3. CASE ValidTransport(lease) /\ WithMembers(lease, "pending", "queued") /\ lease # 0
    <3>1. lease \in Turns
      BY <2>3, CalmTypes DEF TypeOK
    <3>2. inbox'[n] = IF inbox[n].of \in Members(lease)
                      THEN [inbox[n] EXCEPT !.status = "pending"] ELSE inbox[n]
      BY <2>3 DEF WithMembers
    <3>3. [inbox[n] EXCEPT !.status = "pending"].status = "pending"
      BY <1>0 DEF InboxRow
    <3> QED BY <1>1, <1>9, <2>3, <3>1, <3>2, <3>3 DEF Replayed
  <2> QED BY <1>1, <1>3, <2>1, <2>2, <2>3
<1>10. CASE BootTerminated
  <2> DEFINE k == IF Open THEN Cardinality(Terminated) ELSE 0
  <2>1. n \notin nn + 1..nn + k => inbox'[n] = inbox[n]
    BY <1>0, <1>10, BootNotes
  <2> HIDE DEF k
  <2>2. n \notin nn + 1..nn + k
    BY <1>0
  <2> QED BY <1>1, <2>1, <2>2
<1>11. CASE BootResults
  <2>1. \/ inbox' = inbox
        \/ /\ boot = "requeue"
           /\ inbox' = [m \in Notices |-> IF m \in stale.notices
                                      THEN [inbox[m] EXCEPT !.status = "pending"] ELSE inbox[m]]
    BY <1>11 DEF BootResults
  <2>2. [inbox[n] EXCEPT !.status = "pending"].status = "pending"
    BY <1>0 DEF InboxRow
  <2>3. CASE n \in stale.notices /\ inbox' # inbox
    <3>1. boot = "requeue" /\ inbox'[n].status = "pending"
      BY <2>1, <2>2, <2>3
    <3> QED BY <1>11, <2>3, <3>1 DEF Requeued
  <2>4. CASE n \notin stale.notices \/ inbox' = inbox
    BY <1>1, <2>1, <2>4
  <2> QED BY <2>3, <2>4
<1>12. ASSUME NEW t \in Turns, Admit(t) PROVE Fine
  <2>1. CASE inbox' = inbox
    BY <1>1, <2>1
  <2>2. CASE inbox' # inbox
    <3>1. /\ ValidTransport(t) /\ WithMembers(t, "delivered", "delivered") /\ t \in pasted
          /\ turn' = [turn EXCEPT ![t].receipt = "consumed", ![t].state = "sent",
                                  ![t].claim = "none", ![t].settled = FALSE]
      BY <1>12, <2>2 DEF Admit
    <3>2. inbox'[n] = IF inbox[n].of \in Members(t)
                      THEN [inbox[n] EXCEPT !.status = "delivered"] ELSE inbox[n]
      BY <3>1 DEF WithMembers
    <3>3. [inbox[n] EXCEPT !.status = "delivered"].status = "delivered"
      BY <1>0 DEF InboxRow
    <3>4. turn'[t].state = "sent"
      BY <1>0, <3>1 DEF TurnRow
    <3> QED BY <1>1, <1>12, <3>1, <3>2, <3>3, <3>4 DEF Received
  <2> QED BY <2>1, <2>2
<1>13. ASSUME NEW status \in {"completed", "cancelled"}, Close(status) PROVE Fine
  <2>1. inbox' = FailAnchored /\ wf' = [wf EXCEPT !.status = status]
    BY <1>13 DEF Close
  <2>2. ~Open'
    BY <1>0, <2>1 DEF Open
  <2> QED BY <1>3, <2>1, <2>2
<1>14. CASE \E c \in Child : Submit(c)
  BY <1>0, <1>1, <1>2, <1>14, SubmitNotes DEF NoNote
<1>15. CASE ExitWrite
  BY <1>0, <1>1, <1>2, <1>15, ExitNotes DEF NoNote
<1> HIDE DEF Fine
<1>16. inbox'[n] = inbox[n] => Fine
  BY DEF Fine
<1>17. Fine
  BY <1>4, <1>5, <1>6, <1>7, <1>8, <1>9, <1>10, <1>11, <1>12, <1>13, <1>14, <1>15, <1>16, Steps
     DEF Fine
<1> QED BY <1>17 DEF Fine

(* The entries of a list of writes.                                         *)
LEMMA EntriesOf ==
  ASSUME NEW s \in Seq(Item)
  PROVE  /\ Entries(s) \subseteq Item
         /\ s # <<>> => /\ Head(s) \in Entries(s) /\ Entries(Tail(s)) \subseteq Entries(s)
                        /\ Entries(s) \subseteq {Head(s)} \cup Entries(Tail(s))
         /\ \A x \in Item : Entries(<<x>> \o s) = {x} \cup Entries(s)
<1>0. Len(s) \in Nat /\ \A i \in 1..Len(s) : s[i] \in Item
  BY ElementOfSeq, LenProperties
<1>1. Entries(s) \subseteq Item
  BY <1>0 DEF Entries
<1>2. ASSUME s # <<>>
      PROVE  /\ Head(s) \in Entries(s) /\ Entries(Tail(s)) \subseteq Entries(s)
             /\ Entries(s) \subseteq {Head(s)} \cup Entries(Tail(s))
  <2>1. /\ Len(s) > 0 /\ Head(s) = s[1] /\ Len(Tail(s)) = Len(s) - 1
        /\ \A i \in 1..Len(Tail(s)) : Tail(s)[i] = s[i + 1]
    BY <1>0, <1>2, HeadTailProperties, EmptySeq
  <2>2. Head(s) \in Entries(s)
    BY <1>0, <2>1 DEF Entries
  <2>3. Entries(Tail(s)) \subseteq Entries(s)
    <3>1. \A i \in 1..Len(Tail(s)) : i + 1 \in 1..Len(s) /\ Tail(s)[i] = s[i + 1]
      BY <1>0, <2>1
    <3> QED BY <3>1 DEF Entries
  <2>4. ASSUME NEW i \in 1..Len(s), i # 1
        PROVE  s[i] \in Entries(Tail(s))
    <3>1. i - 1 \in 1..Len(Tail(s)) /\ i - 1 + 1 = i
      BY <1>0, <2>1, <2>4
    <3> QED BY <2>1, <3>1 DEF Entries
  <2> QED BY <2>1, <2>2, <2>3, <2>4 DEF Entries
<1>3. ASSUME NEW x \in Item
      PROVE  Entries(<<x>> \o s) = {x} \cup Entries(s)
  <2> DEFINE one == <<x>>
             w == one \o s
  <2>1. one \in Seq(Item) /\ Len(one) = 1 /\ one[1] = x
    OBVIOUS
  <2> HIDE DEF one
  <2>2. /\ Len(w) = 1 + Len(s)
        /\ \A i \in 1..1 + Len(s) : w[i] = IF i <= 1 THEN one[i] ELSE s[i - 1]
    <3>1. /\ Len(w) = Len(one) + Len(s)
          /\ \A i \in 1..Len(one) + Len(s) : w[i] = IF i <= Len(one) THEN one[i]
                                                  ELSE s[i - Len(one)]
      BY <2>1, ConcatProperties
    <3> HIDE DEF w
    <3> QED BY <2>1, <3>1
  <2> HIDE DEF w
  <2>3. ASSUME NEW i \in 1..Len(w) PROVE w[i] \in {x} \cup Entries(s)
    <3>1. CASE i = 1
      BY <1>0, <2>1, <2>2, <3>1
    <3>2. CASE i # 1
      <4>1. i - 1 \in 1..Len(s) /\ ~(i <= 1) /\ i \in 1..1 + Len(s)
        BY <1>0, <2>2, <3>2
      <4> QED BY <2>2, <4>1 DEF Entries
    <3> QED BY <3>1, <3>2
  <2>4. x \in Entries(w)
    BY <1>0, <2>1, <2>2 DEF Entries
  <2>5. ASSUME NEW i \in 1..Len(s) PROVE s[i] \in Entries(w)
    <3>1. i + 1 \in 1..1 + Len(s) /\ ~(i + 1 <= 1) /\ i + 1 - 1 = i
      BY <1>0
    <3>2. w[i + 1] = s[i] /\ i + 1 \in 1..Len(w)
      BY <2>2, <3>1
    <3> QED BY <3>2 DEF Entries
  <2> QED BY <2>3, <2>4, <2>5 DEF Entries, w, one
<1> QED BY <1>1, <1>2, <1>3

(* The writes of a batch, and every notice has one.                         *)
LEMMA EntriesOfWrites ==
  ASSUME NEW S \in SUBSET Notices
  PROVE  /\ \A x \in Entries(Writes(S)) \cup Entries(WritesEach(S)) : x[2] \in S /\ x[1] # "mark"
         /\ \A n \in S : <<"inbox", n>> \in Entries(WritesEach(S))
<1> DEFINE k == Cardinality(S)
           q == InOrder(S)
           e(i) == <<IF i % 2 = 1 THEN "inbox" ELSE "read", q[(i + 1) \div 2]>>
<1>1. /\ k \in Nat /\ q \in [1..k -> S] /\ Len(q) = k
      /\ \A n \in S : Rank(S, n) \in 1..k /\ q[Rank(S, n)] = n
  BY InOrderType, NoticeSets, Ranks DEF InOrder
<1>2. WritesEach(S) = [i \in 1..2 * k |-> e(i)]
  BY <1>1 DEF WritesEach
<1>3. WritesEach(S) \in Seq(Item) /\ 2 * k \in Nat
  BY <1>1, WritesType
<1>4. Len(WritesEach(S)) = 2 * k
  <2>1. DOMAIN WritesEach(S) = 1..2 * k
    BY <1>2
  <2> QED BY <1>3, <2>1, LenProperties
<1> HIDE DEF q, k
<1>5. ASSUME NEW i \in 1..2 * k
      PROVE  e(i)[2] \in S /\ e(i)[1] # "mark"
  <2>1. (i + 1) \div 2 \in 1..k
    BY <1>1
  <2> QED BY <1>1, <2>1
<1>6. \A x \in Entries(WritesEach(S)) : x[2] \in S /\ x[1] # "mark"
  <2> SUFFICES ASSUME NEW i \in 1..Len(WritesEach(S))
               PROVE  WritesEach(S)[i][2] \in S /\ WritesEach(S)[i][1] # "mark"
    BY DEF Entries
  <2>1. WritesEach(S)[i] = e(i) /\ i \in 1..2 * k
    BY <1>2, <1>4
  <2> HIDE DEF e
  <2> QED BY <1>5, <2>1
<1>7. \A x \in Entries(Writes(S)) : x[2] \in S /\ x[1] # "mark"
  BY WritesType DEF Entries
<1>8. ASSUME NEW n \in S
      PROVE  <<"inbox", n>> \in Entries(WritesEach(S))
  <2> DEFINE j == Rank(S, n)
             i == 2 * j - 1
  <2>1. j \in 1..k /\ q[j] = n
    BY <1>1
  <2> HIDE DEF j
  <2>2. i \in 1..2 * k /\ i % 2 = 1 /\ (i + 1) \div 2 = j
    BY <1>1, <2>1
  <2> HIDE DEF i
  <2>3. WritesEach(S)[i] = <<"inbox", n>>
    BY <1>2, <2>1, <2>2
  <2> QED BY <1>4, <2>2, <2>3 DEF Entries
<1> QED BY <1>6, <1>7, <1>8

(* How the list of writes moves: it is empty, made of a batch, or drained.  *)
Marks(x) == \E c \in Child : x = <<"mark", c>> /\ <<"read", asg[c].notice>> \in Entries(todo)
Drains == /\ dpc \in {"delivered", "failed"} /\ dpc' = dpc /\ batch' = batch
          /\ \A x \in Entries(todo') : x \in Entries(todo) \/ Marks(x)
          /\ \A x \in Entries(todo) : x[1] = "inbox" =>
                x \in Entries(todo') \/ (WriteStatus /\ x = Head(todo))
LEMMA TodoMoves ==
  ASSUME Calm, [Next]_vars, ~overtaken'
  PROVE  \/ todo' = <<>> /\ dpc' \notin {"delivered", "failed"}
         \/ PasteAccepted /\ todo' = Writes(batch) /\ batch' = batch /\ dpc' = "delivered"
         \/ /\ LookDead \/ (Requeue /\ dpc # "deferred")
            /\ todo' = WritesEach(batch) /\ batch' = batch /\ dpc' = "failed"
         \/ Drains
<1> DEFINE Fine ==
         \/ todo' = <<>> /\ dpc' \notin {"delivered", "failed"}
         \/ PasteAccepted /\ todo' = Writes(batch) /\ batch' = batch /\ dpc' = "delivered"
         \/ /\ LookDead \/ (Requeue /\ dpc # "deferred")
            /\ todo' = WritesEach(batch) /\ batch' = batch /\ dpc' = "failed"
         \/ Drains
<1>0. /\ todo \in Seq(Item) /\ asg \in [Child -> AsgRow]
      /\ dpc \notin {"delivered", "failed"} => todo = <<>>
  BY CalmTypes DEF Calm, Delivering, Listed
<1>1. CASE UNCHANGED <<dpc, dturn, batch, todo>>
  BY <1>0, <1>1 DEF Drains
<1>2. CASE StartTick \/ CloseScan \/ PickOldest \/ LookBusy
  BY <1>0, <1>2 DEF StartTick, CloseScan, PickOldest, LookBusy, Idle
<1>3. CASE LookReady \/ ClaimTurn \/ Slot \/ PasteFailed
  BY <1>0, <1>3 DEF LookReady, ClaimTurn, Slot, SlotGranted, SlotRefused, PasteFailed, Idle
<1>4. CASE LookDead \/ PasteAccepted
  BY <1>4 DEF LookDead, PasteAccepted
<1>5. CASE Requeue
  BY <1>5 DEF Requeue, Idle
<1>6. CASE EndTick \/ Crash
  BY <1>6 DEF EndTick, Crash, Idle
<1>7. CASE WriteStatus \/ Mark
  <2>1. /\ dpc \in {"delivered", "failed"} /\ dpc' = dpc /\ batch' = batch
        /\ todo # <<>> /\ todo' = Tail(todo)
        /\ WriteStatus \/ Head(todo)[1] # "inbox"
    BY <1>7 DEF WriteStatus, Mark
  <2> QED BY <1>0, <2>1, EntriesOf DEF Drains
<1>8. CASE ReadMark
  <2>1. /\ dpc \in {"delivered", "failed"} /\ dpc' = dpc /\ batch' = batch
        /\ todo # <<>> /\ Head(todo)[1] = "read"
        /\ \/ todo' = Tail(todo)
           \/ \E c \in Child : /\ asg[c] = [status |-> "queued", notice |-> Head(todo)[2]]
                               /\ todo' = << <<"mark", c>> >> \o Tail(todo)
    BY <1>8 DEF ReadMark
  <2>2. /\ Head(todo) \in Entries(todo) /\ Entries(Tail(todo)) \subseteq Entries(todo)
        /\ Entries(todo) \subseteq {Head(todo)} \cup Entries(Tail(todo))
        /\ Entries(todo) \subseteq Item
    BY <1>0, <2>1, EntriesOf
  <2>3. Head(todo) = <<"read", Head(todo)[2]>>
    BY <2>1, <2>2 DEF Item
  <2>4. CASE todo' = Tail(todo)
    BY <2>1, <2>2, <2>4 DEF Drains
  <2>5. ASSUME NEW c \in Child, asg[c] = [status |-> "queued", notice |-> Head(todo)[2]],
               todo' = << <<"mark", c>> >> \o Tail(todo)
        PROVE  Fine
    <3>1. Tail(todo) \in Seq(Item) /\ <<"mark", c>> \in Item
      BY <1>0, <2>1, HeadTailProperties, EmptySeq DEF Item
    <3>2. Entries(todo') = {<<"mark", c>>} \cup Entries(Tail(todo))
      BY <2>5, <3>1, EntriesOf
    <3>3. asg[c].notice = Head(todo)[2]
      BY <2>5
    <3>4. Marks(<<"mark", c>>)
      BY <2>2, <2>3, <3>3 DEF Marks
    <3>5. \A x \in Entries(todo') : x \in Entries(todo) \/ Marks(x)
      BY <2>2, <3>2, <3>4
    <3>6. \A x \in Entries(todo) : x[1] = "inbox" => x \in Entries(todo')
      BY <2>1, <2>2, <3>2
    <3> QED BY <2>1, <3>5, <3>6 DEF Drains
  <2> QED BY <2>1, <2>4, <2>5
<1> HIDE DEF Fine
<1>9. Fine
  BY <1>1, <1>2, <1>3, <1>4, <1>5, <1>6, <1>7, <1>8, Steps DEF Fine
<1> QED BY <1>9 DEF Fine

(* What was shown stays shown, and a closed parent stays closed.            *)
LEMMA ShownKept ==
  ASSUME Calm, [Next]_vars, ~overtaken'
  PROVE  shown \subseteq shown' /\ (Open' => Open)
<1>1. shown \subseteq shown'
  BY Steps DEF PasteAccepted, PasteFailed, Shown
<1>2. Open' => Open
  BY CalmStep DEF PaneKept, Open
<1> QED BY <1>1, <1>2

(* A result that may be carried to an open parent stays ready, unless the   *)
(* dispatcher writes that its delivery failed.                              *)
LEMMA ReadyKept ==
  ASSUME Calm, [Next]_vars, ~overtaken', Open', NEW c \in Child, asg[c].notice # 0,
         Carrying(c), Ready(c)
  PROVE  \/ Ready(c)'
         \/ WriteStatus /\ dpc = "failed" /\ asg[c].notice = Head(todo)[2]
<1> DEFINE n == asg[c].notice
<1>1. /\ asg'[c].notice = n /\ n \in Notices /\ inbox[n].of = c
      /\ shown \subseteq shown' /\ Open
  BY NoticeKept, NoticeIs, ShownKept
<1> HIDE DEF n
<1>2. CASE c \in shown
  BY <1>1, <1>2 DEF Ready
<1>3. CASE c \notin shown
  <2>1. inbox[n].status = "pending"
    BY <1>3 DEF Ready, n
  <2>2. CASE inbox'[n].status = "pending"
    BY <1>1, <2>2 DEF Ready
  <2>3. CASE Received(n)
    BY <1>1, <1>3, <2>3 DEF Received, Members, Calm, Delivering, Served
  <2>4. CASE Written(n)
    <3>1. /\ dpc \in {"delivered", "failed"} /\ todo # <<>> /\ Head(todo)[1] = "inbox"
          /\ n = Head(todo)[2] /\ WriteStatus
      BY <2>4 DEF Written, WriteStatus
    <3>2. Head(todo) \in Entries(todo)
      BY <3>1, EntriesOf, CalmTypes
    <3>3. dpc # "delivered"
      BY <1>1, <1>3, <3>1, <3>2 DEF Calm, Delivering, Told
    <3> QED BY <3>1, <3>3 DEF n
  <2>5. ~Undone(n)
    BY <1>1 DEF Undone
  <2> QED BY <1>1, <2>1, <2>2, <2>3, <2>4, <2>5, InboxMoves DEF Replayed, Requeued
<1> QED BY <1>2, <1>3

(* A turn that was pasted has shown its members.                            *)
LEMMA ServedStep ==
  ASSUME Calm, [Next]_vars, ~overtaken'
  PROVE  Served'
<1> SUFFICES ASSUME NEW t \in pasted', NEW c \in Child, result'[c].turn = t, Carrying(c)'
             PROVE  c \in shown'
  BY DEF Served, Members
<1>1. shown \subseteq shown'
  BY ShownKept
<1>2. CASE t \in pasted
  <2>1. t \in Turns /\ t <= nt /\ ~(wf.active < t)
    <3>1. /\ t \in Nat /\ t \in Turns /\ t <= wf.active /\ wf.active \in Nat /\ wf.active <= nt
          /\ nt \in Nat
      BY <1>2, ActiveStep, CalmTypes DEF TypeOK, Calm, Delivering, Onward
    <3> QED BY <3>1
  <2>2. result[c].turn = t /\ asg[c].notice # 0
    BY <2>1, MembersFrom
  <2>3. Carrying(c)
    BY <2>2, CarryStep
  <2> QED BY <1>1, <1>2, <2>2, <2>3 DEF Calm, Delivering, Served, Members
<1>3. CASE t \notin pasted
  <2>1. PasteAccepted \/ PasteFailed
    BY <1>3, Steps
  <2>2. /\ t = dturn /\ dpc = "paste" /\ shown' = shown \cup {inbox[n].of : n \in batch}
        /\ result' = result /\ asg' = asg
    BY <1>3, <2>1 DEF PasteAccepted, PasteFailed, Shown
  <2>3. c \in Members(dturn) /\ Carrying(c)
    BY <2>2 DEF Members, Carrying
  <2>4. c \in shown \/ \E n \in batch : inbox[n].of = c
    BY <2>2, <2>3 DEF Calm, Delivering, Aimed, Covered
  <2> QED BY <2>2, <2>4
<1> QED BY <1>2, <1>3

(* What is left to write is of the batch.                                   *)
LEMMA ListedStep ==
  ASSUME Calm, [Next]_vars, ~overtaken'
  PROVE  Listed'
<1>1. batch \in SUBSET Notices /\ \A x \in Entries(todo) : x[1] # "mark" => x[2] \in batch
  BY CalmTypes DEF TypeOK, Calm, Delivering, Listed
<1>2. CASE todo' = <<>> /\ dpc' \notin {"delivered", "failed"}
  BY <1>2 DEF Listed, Entries
<1>3. CASE Drains
  <2>1. dpc' \in {"delivered", "failed"}
    BY <1>3 DEF Drains
  <2>2. \A x \in Entries(todo') : x[1] # "mark" => x[2] \in batch'
    <3> SUFFICES ASSUME NEW x \in Entries(todo'), x[1] # "mark" PROVE x[2] \in batch'
      OBVIOUS
    <3>1. ASSUME NEW c, x = <<"mark", c>> PROVE FALSE
      <4>1. <<"mark", c>>[1] = "mark"
        OBVIOUS
      <4> QED BY <3>1, <4>1
    <3>2. ~Marks(x)
      BY <3>1 DEF Marks
    <3> QED BY <1>1, <1>3, <3>2 DEF Drains
  <2> QED BY <2>1, <2>2 DEF Listed
<1>4. CASE /\ todo' = Writes(batch) \/ todo' = WritesEach(batch)
           /\ batch' = batch /\ dpc' \in {"delivered", "failed"}
  BY <1>1, <1>4, EntriesOfWrites DEF Listed
<1> QED BY <1>2, <1>3, <1>4, TodoMoves

(* What is marked and written as delivered was shown.                       *)
LEMMA ToldStep ==
  ASSUME Calm, [Next]_vars, ~overtaken'
  PROVE  Told'
<1> SUFFICES ASSUME dpc' = "delivered", NEW x \in Entries(todo')
             PROVE  /\ x[1] = "mark" => x[2] \in shown'
                    /\ x[1] # "mark" => inbox'[x[2]].of \in shown'
  BY DEF Told
<1>1. shown \subseteq shown' /\ shown \subseteq Child /\ batch \in SUBSET Notices
  BY ShownKept, CalmTypes DEF TypeOK
<1>2. CASE PasteAccepted /\ todo' = Writes(batch)
  <2>1. x[2] \in batch /\ x[1] # "mark"
    BY <1>1, <1>2, EntriesOfWrites
  <2>2. inbox' = inbox /\ shown' = shown \cup {inbox[n].of : n \in batch}
    BY <1>2 DEF PasteAccepted, Shown, noticeVars
  <2> QED BY <2>1, <2>2
<1>3. CASE Drains
  <2>1. \A y \in Entries(todo) : /\ y[1] = "mark" => y[2] \in shown
                                 /\ y[1] # "mark" => y[2] \in batch /\ inbox[y[2]].of \in shown
    BY <1>3 DEF Drains, Calm, Delivering, Told, Listed
  <2>2. CASE x \in Entries(todo)
    <3>1. x[1] # "mark" => inbox'[x[2]].of = inbox[x[2]].of
      BY <1>1, <2>1, <2>2, NoticeKept
    <3> QED BY <1>1, <2>1, <2>2, <3>1
  <2>3. CASE Marks(x)
    <3>1. PICK c \in Child : x = <<"mark", c>> /\ <<"read", asg[c].notice>> \in Entries(todo)
      BY <2>3 DEF Marks
    <3>2. inbox[asg[c].notice].of \in shown /\ asg[c].notice \in Notices
      BY <1>1, <2>1, <3>1
    <3>3. asg[c].notice # 0
      BY <3>2, CalmTypes
    <3>4. inbox[asg[c].notice].of = c
      BY <3>3, NoticeIs
    <3> QED BY <1>1, <3>1, <3>2, <3>4
  <2> QED BY <1>3, <2>2, <2>3 DEF Drains
<1> QED BY <1>2, <1>3, TodoMoves

(* While a tick is under way anchors stay, and results that have a turn     *)
(* keep it.                                                                 *)
LEMMA PlaceKept ==
  ASSUME Calm, [Next]_vars, ~overtaken', dpc # "idle"
  PROVE  /\ \A t \in Turns : t <= nt => turn'[t].anchor = turn[t].anchor
         /\ \A c \in Child : result[c].turn # 0 => result'[c].turn = result[c].turn
<1>1. Grow
  BY GrowStep DEF Rebuilds, StartTick
<1>2. \A t \in Turns : t <= nt => t \notin nt + 1..nt'
  BY CalmTypes
<1> QED BY <1>1, <1>2 DEF Grow, Added

(* The notices of a batch have their children.                              *)
LEMMA BatchIs ==
  ASSUME Calm, NEW n \in batch
  PROVE  n \in Notices /\ inbox[n].of \in Child /\ asg[inbox[n].of].notice = n
<1>1. n \in Notices /\ n \in 1..nn /\ nn \in Nat
  BY CalmTypes DEF TypeOK
<1> QED BY <1>1, CalmTypes, NoticeIs

(* A notice that failed while its batch fails stays so.                     *)
LEMMA FailedStays ==
  ASSUME Calm, [Next]_vars, ~overtaken', dpc = "failed", NEW n \in Notices,
         inbox[n].of \in Child, inbox[n].status = "failed"
  PROVE  inbox'[n].status = "failed"
<1>1. ASSUME NEW t, ValidTransport(t), inbox[n].of \in Members(t)
      PROVE  FALSE
  <2> DEFINE c == inbox[n].of
  <2>1. asg[c].notice = n
    BY NoticeIs
  <2>2. inbox[asg[c].notice].status \in {"pending", "delivered"}
    BY <1>1 DEF ValidTransport, ValidMember
  <2> QED BY <2>1, <2>2
<1>2. ~Replayed(n) /\ ~Received(n)
  BY <1>1 DEF Replayed, Received
<1>3. boot = "up"
  BY DEF Calm, Delivering, Onward
<1> QED BY <1>2, <1>3, InboxMoves DEF Written, Requeued, Undone

(* A batch that fails ends with its anchor failed.                          *)
LEMMA FailingStep ==
  ASSUME Calm, [Next]_vars, ~overtaken'
  PROVE  Failing'
<1> SUFFICES ASSUME dpc' = "failed", NEW x \in Entries(todo'), x[1] = "inbox",
                    NEW t, t = result'[inbox'[x[2]].of].turn
             PROVE  t # 0 /\ (turn'[t].anchor = 0
                              \/ <<"inbox", turn'[t].anchor>> \in Entries(todo')
                              \/ inbox'[turn'[t].anchor].status = "failed")
  BY DEF Failing, InTodo
<1>0. /\ batch \in SUBSET Notices /\ batch \subseteq 1..nn
      /\ \A n \in Notices : inbox[n].of \in Child <=> n <= nn
  BY CalmTypes DEF TypeOK
<1>1. ASSUME NEW u \in Turns, dpc # "idle", turn[u].anchor \in batch, todo' = WritesEach(batch),
             \A n \in batch : result[inbox[n].of].turn = u
      PROVE  t # 0 /\ <<"inbox", turn'[t].anchor>> \in Entries(todo')
  <2>1. x[2] \in batch /\ x[2] \in Notices /\ inbox[x[2]].of \in Child
    <3>1. x[2] \in batch
      BY <1>0, <1>1, EntriesOfWrites
    <3> QED BY <1>0, <3>1, BatchIs
  <2>2. u # 0 /\ result[inbox[x[2]].of].turn = u /\ inbox'[x[2]].of = inbox[x[2]].of
    BY <1>1, <2>1, NoticeKept, CalmTypes
  <2>3. t = u
    BY <1>1, <2>1, <2>2, PlaceKept
  <2>4. u <= nt
    BY <2>1, <2>2 DEF Calm, Delivering, Onward
  <2>5. turn'[u].anchor = turn[u].anchor
    BY <1>1, <2>4, PlaceKept
  <2> QED BY <1>0, <1>1, <2>2, <2>3, <2>5, EntriesOfWrites
<1>2. CASE LookDead /\ todo' = WritesEach(batch)
  <2>1. dpc = "look"
    BY <1>2 DEF LookDead
  <2>2. PICK u \in Turns : turn[u].anchor # 0 /\ batch = {turn[u].anchor}
    BY <2>1, LookedAt
  <2>3. result[inbox[turn[u].anchor].of].turn = u
    BY <2>2, AnchorTurn
  <2> QED BY <1>1, <1>2, <2>1, <2>2, <2>3
<1>3. CASE Requeue /\ todo' = WritesEach(batch)
  <2>1. dpc \in {"undelivered", "deferred", "rejected"}
    BY <1>3 DEF Requeue
  <2>2. /\ dturn \in Turns /\ turn[dturn].anchor \in batch
        /\ \A n \in batch : result[inbox[n].of].turn = dturn
    BY <2>1 DEF Calm, Delivering, Aimed
  <2> QED BY <1>1, <1>3, <2>1, <2>2
<1>4. CASE Drains
  <2>1. dpc = "failed" /\ x \in Entries(todo)
    <3>1. ASSUME NEW c, x = <<"mark", c>> PROVE FALSE
      <4>1. <<"mark", c>>[1] = "mark"
        OBVIOUS
      <4> QED BY <3>1, <4>1
    <3> QED BY <1>4, <3>1 DEF Drains, Marks
  <2>2. x[2] \in batch /\ x[2] \in Notices /\ inbox[x[2]].of \in Child
    <3>1. x[2] \in batch
      <4>1. x[1] # "mark"
        OBVIOUS
      <4> QED BY <2>1, <4>1 DEF Calm, Delivering, Listed
    <3> QED BY <1>0, <3>1, BatchIs
  <2> DEFINE u == result[inbox[x[2]].of].turn
  <2>3. /\ u # 0 /\ u \in Turns /\ u <= nt
        /\ turn[u].anchor = 0 \/ InTodo(turn[u].anchor) \/ inbox[turn[u].anchor].status = "failed"
    <3>1. u \in 0..MaxTurns /\ u <= nt
      BY <2>2, CalmTypes DEF Calm, Delivering, Onward
    <3>2. /\ u # 0
          /\ turn[u].anchor = 0 \/ InTodo(turn[u].anchor) \/ inbox[turn[u].anchor].status = "failed"
      <4>1. Failing
        BY DEF Calm, Delivering
      <4> QED BY <2>1, <4>1 DEF Failing
    <3>3. Turns = 1..MaxTurns /\ MaxTurns \in Nat
      BY CalmTypes
    <3> HIDE DEF u
    <3> QED BY <3>1, <3>2, <3>3
  <2>4. t = u
    BY <2>1, <2>2, <2>3, NoticeKept, PlaceKept
  <2> HIDE DEF u
  <2>5. turn'[u].anchor = turn[u].anchor
    BY <2>1, <2>3, PlaceKept
  <2>6. CASE turn[u].anchor = 0
    BY <2>3, <2>4, <2>5, <2>6
  <2>7. CASE turn[u].anchor # 0
    <3> DEFINE a == turn[u].anchor
    <3>1. a \in Notices /\ inbox[a].of \in Child
      BY <2>3, <2>7, AnchorTurn
    <3>2. InTodo(a) \/ inbox[a].status = "failed"
      BY <2>3, <2>7
    <3> HIDE DEF a
    <3>3. CASE inbox[a].status = "failed"
      BY <2>1, <2>3, <2>4, <2>5, <3>1, <3>3, FailedStays DEF a
    <3>4. CASE InTodo(a)
      <4>1. <<"inbox", a>> \in Entries(todo') \/ (WriteStatus /\ <<"inbox", a>> = Head(todo))
        BY <1>4, <3>4 DEF Drains, InTodo
      <4>2. CASE WriteStatus /\ <<"inbox", a>> = Head(todo)
        <5>1. inbox' = [inbox EXCEPT ![a].status = "failed"]
          <6>1. Head(todo)[2] = a
            <7>1. <<"inbox", a>>[2] = a
              OBVIOUS
            <7> QED BY <4>2, <7>1
          <6> QED BY <2>1, <4>2, <6>1 DEF WriteStatus
        <5>2. inbox'[a].status = "failed"
          BY <3>1, <5>1, CalmTypes DEF InboxRow
        <5> QED BY <2>3, <2>4, <2>5, <5>2 DEF a
      <4> QED BY <2>3, <2>4, <2>5, <4>1, <4>2 DEF a
    <3> QED BY <3>2, <3>3, <3>4
  <2> QED BY <2>6, <2>7
<1>5. CASE todo' = <<>>
  BY <1>5 DEF Entries
<1> QED BY <1>2, <1>3, <1>4, <1>5, TodoMoves DEF PasteAccepted

(* Neither a report nor an exit delivers a result.                          *)
LEMMA ReportsRest ==
  ASSUME Calm, ExitWrite \/ \E d \in Child : Submit(d), NEW c \in Child
  PROVE  asg'[c].status \in {asg[c].status, "queued", "cancelled", "failed", "recovering"}
<1>0. asg \in [Child -> AsgRow] /\ Base
  BY CalmTypes
<1>1. PICK d : \/ asg' = asg
               \/ \E s \in {"cancelled", "failed", "recovering", asg[d].status} :
                     asg' = [asg EXCEPT ![d].status = s]
               \/ asg' = [asg EXCEPT ![d] = [status |-> "queued", notice |-> nn + 1]]
  <2>1. ASSUME NEW d, NEW seen, NEW res, NEW refused \in {"cancelled", "failed"},
               Notify(d, seen, res, refused)
        PROVE  \/ asg' = asg
               \/ asg' = [asg EXCEPT ![d].status = refused]
               \/ asg' = [asg EXCEPT ![d] = [status |-> "queued", notice |-> nn + 1]]
    BY <2>1 DEF Notify
  <2>2. CASE \E d \in Child : Submit(d)
    <3>1. PICK d \in Child : Notify(d, asg[d].notice, "complete", "cancelled")
      BY <2>2 DEF Submit
    <3> QED BY <2>1, <3>1
  <2>3. CASE ExitWrite
    <3> DEFINE d == leaving.child
    <3>1. PICK r : \/ leaving.how = "destroy" /\ Destroy(d, r)
                   \/ leaving.how = "exit" /\ d \in Assigned /\ LoseAssigned(d, r)
                   \/ leaving.how = "exit" /\ d \in Handoffs /\ Recover(d)
                   \/ leaving.how = "exit" /\ d \in Handoffs /\ Exhaust(d, r)
      BY <2>3 DEF ExitWrite
    <3>2. \/ \E seen, res : \E refused \in {"cancelled", "failed"} : Notify(d, seen, res, refused)
          \/ asg' = asg
          \/ asg' = [asg EXCEPT ![d].status = "cancelled"]
          \/ asg' = [asg EXCEPT ![d].status = IF leaving.row.status = "recovering" THEN @
                                              ELSE "recovering"]
      BY <3>1 DEF Destroy, LoseAssigned, Recover, Exhaust
    <3> HIDE DEF d
    <3> QED BY <2>1, <3>2
  <2> QED BY <2>2, <2>3
<1> QED BY <1>0, <1>1 DEF AsgRow

(* What becomes delivered was told or received, and both were shown.        *)
LEMMA DeliveredStep ==
  ASSUME Calm, [Next]_vars, ~overtaken'
  PROVE  DeliveredShown'
<1> SUFFICES ASSUME NEW c \in Child, asg'[c].status \in {"delivered", "acknowledged"}
             PROVE  c \in shown'
  BY DEF DeliveredShown
<1>0. shown \subseteq shown' /\ asg \in [Child -> AsgRow] /\ asg[c] \in AsgRow /\ Base
  BY ShownKept, CalmTypes
<1>1. CASE asg[c].status \in {"delivered", "acknowledged"}
  BY <1>0, <1>1 DEF Calm, Delivering, DeliveredShown
<1>2. CASE asg[c].status \notin {"delivered", "acknowledged"}
  <2>0. asg'[c].status = "delivered"
    BY <1>2, DeliveredFrom
  <2>1. asg'[c].status # asg[c].status /\ asg' # asg
    BY <1>2, <2>0
  <2>2. CASE ExitWrite \/ \E d \in Child : Submit(d)
    BY <2>0, <2>1, <2>2, ReportsRest
  <2>3. CASE Mark
    <3>1. /\ asg' = [asg EXCEPT ![Head(todo)[2]].status = dpc]
          /\ todo # <<>> /\ Head(todo)[1] = "mark"
      BY <2>3 DEF Mark
    <3>2. c = Head(todo)[2] /\ dpc = "delivered"
      BY <1>0, <2>0, <2>1, <3>1, SetAsg
    <3>3. Head(todo) \in Entries(todo)
      BY <3>1, EntriesOf, CalmTypes
    <3> QED BY <1>0, <3>1, <3>2, <3>3 DEF Calm, Delivering, Told
  <2>4. ASSUME NEW t \in Turns, Admit(t)
        PROVE  c \in shown'
    <3>1. t \in pasted /\ ValidTransport(t) /\ WithMembers(t, "delivered", "delivered")
      BY <2>1, <2>4 DEF Admit
    <3>2. c \in Members(t)
      BY <2>1, <3>1 DEF WithMembers
    <3>3. Carrying(c)
      BY <3>1, <3>2 DEF ValidTransport, ValidMember, Carrying, Carried
    <3> QED BY <1>0, <3>1, <3>2, <3>3 DEF Calm, Delivering, Served
  <2>5. CASE StartTick
    <3>1. Rebuild(LatestResume)
      BY <2>1, <2>5 DEF StartTick
    <3> DEFINE r == LatestResume
    <3> HIDE DEF r
    <3>2. asg'[c].status = "queued" \/ asg'[c] = asg[c]
      BY <3>1, RebuildRows DEF r
    <3> QED BY <2>0, <2>1, <3>2
  <2>6. CASE Settle
    <3>1. PICK t : WithMembers(t, "pending", "queued")
      BY <2>1, <2>6 DEF Settle
    <3>2. asg'[c] = IF c \in Members(t) THEN [asg[c] EXCEPT !.status = "queued"] ELSE asg[c]
      BY <3>1 DEF WithMembers
    <3>3. [asg[c] EXCEPT !.status = "queued"].status = "queued"
      BY <1>0 DEF AsgRow
    <3> QED BY <2>0, <2>1, <3>2, <3>3
  <2>7. CASE AckWrite
    <3>1. asg' = [asg EXCEPT ![acking].status = "acknowledged"]
      BY <2>7 DEF AckWrite
    <3> QED BY <1>0, <2>0, <2>1, <3>1, SetAsg
  <2>8. CASE BootTerminated
    <3>1. /\ c \notin Terminated => asg'[c] = asg[c]
          /\ c \in Terminated =>
                asg'[c] = IF Open THEN [status |-> "queued", notice |-> nn + Rank(Terminated, c)]
                          ELSE [asg[c] EXCEPT !.status = "cancelled"]
      BY <1>0, <2>8, BootNotes
    <3>2. [asg[c] EXCEPT !.status = "cancelled"].status = "cancelled"
      BY <1>0 DEF AsgRow
    <3>3. c \in Terminated => asg'[c].status \in {"queued", "cancelled"}
      <4> DEFINE r == [asg[c] EXCEPT !.status = "cancelled"]
                 q == [status |-> "queued", notice |-> nn + Rank(Terminated, c)]
      <4>1. r.status = "cancelled" /\ q.status = "queued"
        BY <3>2
      <4>2. c \in Terminated => asg'[c] = q \/ asg'[c] = r
        BY <3>1
      <4> HIDE DEF r, q
      <4> QED BY <4>1, <4>2
    <3> QED BY <2>0, <2>1, <3>1, <3>3
  <2>9. CASE BootArm \/ BootResults
    <3>1. asg'[c] \in {asg[c], [asg[c] EXCEPT !.status = "recovering"],
                       [asg[c] EXCEPT !.status = "queued"]}
      BY <2>1, <2>9 DEF BootArm, BootResults
    <3> QED BY <1>0, <2>0, <2>1, <3>1 DEF AsgRow
  <2>10. CASE \E status \in {"completed", "cancelled"} : Close(status)
    <3>1. asg'[c] \in {asg[c], [asg[c] EXCEPT !.status = "cancelled"]}
      BY <2>10 DEF Close
    <3> QED BY <1>0, <2>0, <2>1, <3>1 DEF AsgRow
  <2> QED BY <2>1, <2>2, <2>3, <2>4, <2>5, <2>6, <2>7, <2>8, <2>9, <2>10, Steps
<1> QED BY <1>1, <1>2

(* The restart is over when what it read is queued again.                   *)
LEMMA RestartMoves ==
  ASSUME Calm, [Next]_vars
  PROVE  /\ boot' = "up" => boot = "up" \/ (BootResults /\ boot = "requeue")
         /\ boot' = "requeue" => \/ boot = "requeue" /\ stale' = stale
                                 \/ BootResults /\ boot = "results"
<1>1. \/ UNCHANGED boot
      \/ boot' = "down"
      \/ boot' \in {"terminated", "arm", "armed", "unadmitted", "results"}
      \/ BootResults
  BY Steps DEF Crash, Restart, BootTerminated, BootArm, BootUnadmitted
<1>2. boot' = "requeue" => UNCHANGED stale \/ BootResults
  BY Steps DEF Crash, BootArm
<1>3. BootResults => (boot = "results" /\ boot' = "requeue") \/ (boot = "requeue" /\ boot' = "up")
  BY DEF BootResults
<1>4. boot' = "up" => boot = "up" \/ (BootResults /\ boot = "requeue")
  BY <1>1, <1>3
<1>5. boot' = "requeue" => \/ boot = "requeue" /\ stale' = stale
                           \/ BootResults /\ boot = "results"
  BY <1>1, <1>2, <1>3
<1> QED BY <1>4, <1>5

(* An anchor that is pending after a step of a failing batch was not the    *)
(* write of that step.                                                      *)
LEMMA AnchorWaits ==
  ASSUME Calm, [Next]_vars, ~overtaken', dpc = "failed", dpc' = "failed",
         NEW a \in Notices, inbox[a].of \in Child, inbox'[a].status = "pending", InTodo(a)
  PROVE  <<"inbox", a>> \in Entries(todo')
<1>1. Drains
  BY TodoMoves DEF LookDead, Requeue
<1>2. <<"inbox", a>> \in Entries(todo') \/ (WriteStatus /\ <<"inbox", a>> = Head(todo))
  BY <1>1 DEF Drains, InTodo
<1>3. ASSUME WriteStatus, <<"inbox", a>> = Head(todo)
      PROVE  FALSE
  <2>1. Head(todo)[2] = a
    <3>1. <<"inbox", a>>[2] = a
      OBVIOUS
    <3> QED BY <1>3, <3>1
  <2>2. inbox' = [inbox EXCEPT ![a].status = "failed"]
    BY <1>3, <2>1 DEF WriteStatus
  <2> QED BY <2>2, CalmTypes DEF InboxRow
<1> QED BY <1>2, <1>3

(* The members of a turn that there was stay ready, unless its anchor is    *)
(* yet to fail.                                                             *)
LEMMA WholeKept ==
  ASSUME Calm, [Next]_vars, ~overtaken', Open', NEW t \in Turns, turn[t].anchor # 0,
         turn'[t].anchor = turn[t].anchor, inbox'[turn[t].anchor].status = "pending",
         \A c \in Members(t) : Carrying(c) => Ready(c)
  PROVE  \/ \A c \in Child : result'[c].turn = t /\ Carrying(c)' => Ready(c)'
         \/ dpc' = "failed" /\ <<"inbox", turn[t].anchor>> \in Entries(todo')
<1> DEFINE a == turn[t].anchor
<1>0. t <= nt /\ a \in Notices /\ inbox[a].of \in Child /\ result[inbox[a].of].turn = t
  BY AnchorTurn
<1> HIDE DEF a
<1>1. ASSUME NEW c \in Child, result'[c].turn = t, Carrying(c)', ~Ready(c)'
      PROVE  dpc' = "failed" /\ <<"inbox", a>> \in Entries(todo')
  <2>1. result[c].turn = t /\ asg[c].notice # 0
    BY <1>0, <1>1, MembersFrom DEF Ready
  <2>2. Carrying(c) /\ Ready(c)
    BY <1>1, <2>1, CarryStep DEF Members
  <2>3. WriteStatus /\ dpc = "failed" /\ asg[c].notice = Head(todo)[2]
    BY <1>1, <2>1, <2>2, ReadyKept
  <2>4. dpc' = "failed" /\ todo # <<>> /\ Head(todo)[1] = "inbox"
    BY <2>3 DEF WriteStatus
  <2>5. Head(todo) \in Entries(todo)
    BY <2>4, EntriesOf, CalmTypes
  <2>6. inbox[Head(todo)[2]].of = c
    BY <2>1, <2>3, NoticeIs
  <2>7. a = 0 \/ InTodo(a) \/ inbox[a].status = "failed"
    <3>1. Failing
      BY DEF Calm, Delivering
    <3> QED BY <2>1, <2>3, <2>4, <2>5, <2>6, <3>1 DEF Failing, a
  <2>8. inbox[a].status # "failed"
    <3>1. inbox'[a].status = "pending"
      BY DEF a
    <3> QED BY <1>0, <2>3, <3>1, FailedStays
  <2>9. InTodo(a)
    BY <2>7, <2>8 DEF a
  <2>10. inbox'[a].status = "pending"
    BY DEF a
  <2> QED BY <1>0, <2>3, <2>4, <2>9, <2>10, AnchorWaits
<1> QED BY <1>1 DEF a

(* A turn that there was and whose anchor waits can be sealed whole.        *)
LEMMA WholeOld ==
  ASSUME Calm, [Next]_vars, ~overtaken', Open', boot' = "up", NEW t \in Turns, turn[t].anchor # 0,
         turn[t].kind = "handoff_result",
         turn'[t].anchor = turn[t].anchor, inbox'[turn[t].anchor].status = "pending"
  PROVE  \/ \A c \in Child : result'[c].turn = t /\ Carrying(c)' => Ready(c)'
         \/ dpc' = "failed" /\ <<"inbox", turn[t].anchor>> \in Entries(todo')
<1> DEFINE a == turn[t].anchor
<1>0. /\ t <= nt /\ a \in Notices /\ inbox[a].of \in Child /\ result[inbox[a].of].turn = t
      /\ Open
  BY AnchorTurn, ShownKept
<1>1. CASE boot = "up" /\ inbox[a].status = "pending"
  <2>1. \/ \A c \in Members(t) : Carrying(c) => Ready(c)
        \/ dpc = "failed" /\ InTodo(a)
    BY <1>0, <1>1 DEF Calm, Delivering, Whole
  <2>2. CASE dpc = "failed" /\ InTodo(a)
    <3>1. dpc' = "failed"
      <4>1. \/ UNCHANGED dpc \/ EndTick \/ Crash
        BY <2>2, Steps DEF StartTick, CloseScan, PickOldest, LookBusy, LookDead, LookReady,
           ClaimTurn, Slot, SlotGranted, SlotRefused, PasteAccepted, PasteFailed, Requeue
      <4>2. ~Crash
        BY DEF Crash
      <4>3. EndTick => Entries(todo) = {}
        BY DEF EndTick, Entries
      <4> QED BY <2>2, <4>1, <4>2, <4>3 DEF InTodo
    <3> QED BY <1>0, <2>2, <3>1, AnchorWaits
  <2> QED BY <2>1, <2>2, WholeKept
<1>2. CASE boot = "up" /\ inbox[a].status # "pending"
  <2>1. Replayed(a)
    <3>1. ~Requeued(a) /\ ~Undone(a) /\ ~Received(a)
      BY <1>2 DEF Requeued, Undone, Received
    <3>2. ~Written(a)
      BY DEF Written, WriteStatus
    <3> QED BY <1>0, <1>2, <3>1, <3>2, InboxMoves
  <2>2. WithMembers(t, "pending", "queued")
    BY <1>0, <2>1 DEF Replayed, Members
  <2>3. ASSUME NEW c \in Child, result'[c].turn = t, Carrying(c)'
        PROVE  Ready(c)'
    <3>1. CASE result[c].turn = t /\ asg[c].notice # 0
      <4> DEFINE n == asg[c].notice
      <4>1. n \in Notices /\ inbox[n].of = c /\ asg'[c].notice = n
        BY <3>1, NoticeIs, NoticeKept
      <4> HIDE DEF n
      <4>2. inbox'[n] = [inbox[n] EXCEPT !.status = "pending"]
        BY <2>2, <3>1, <4>1 DEF WithMembers, Members
      <4>3. inbox'[n].status = "pending"
        BY <4>1, <4>2, CalmTypes DEF InboxRow
      <4> QED BY <4>1, <4>3 DEF Ready
    <3> QED BY <1>0, <2>3, <3>1, MembersFrom DEF Ready
  <2> QED BY <2>3
<1>3. CASE boot # "up"
  <2>1. BootResults /\ boot = "requeue" /\ dpc = "idle"
    BY <1>3, RestartMoves DEF Calm, Delivering, Onward
  <2>2. ASSUME NEW c \in Child, result'[c].turn = t, Carrying(c)'
        PROVE  Ready(c)'
    <3>1. CASE result[c].turn = t /\ asg[c].notice # 0
      <4>1. Carrying(c) /\ asg'[c].notice = asg[c].notice /\ asg[c].notice \in Notices
        BY <2>2, <3>1, CarryStep, NoticeKept, NoticeIs
      <4>2. Ready(c) \/ asg[c].notice \in stale.notices
        BY <1>0, <2>1, <3>1, <4>1 DEF Calm, Delivering, Again
      <4>3. CASE Ready(c)
        BY <2>1, <3>1, <4>1, <4>3, ReadyKept
      <4>4. CASE asg[c].notice \in stale.notices
        <5> DEFINE n == asg[c].notice
        <5>1. n \in Notices /\ n \in stale.notices /\ asg'[c].notice = n
          BY <4>1, <4>4
        <5> HIDE DEF n
        <5>2. inbox'[n] = [inbox[n] EXCEPT !.status = "pending"]
          BY <2>1, <5>1 DEF BootResults
        <5>3. inbox'[n].status = "pending"
          BY <5>1, <5>2, CalmTypes DEF InboxRow
        <5> QED BY <5>1, <5>3 DEF Ready
      <4> QED BY <4>2, <4>3, <4>4
    <3> QED BY <1>0, <2>2, <3>1, MembersFrom DEF Ready
  <2> QED BY <2>2
<1> QED BY <1>1, <1>2, <1>3

(* A boundary whose anchor waits can be sealed whole.                       *)
LEMMA WholeStep ==
  ASSUME Calm, [Next]_vars, ~overtaken'
  PROVE  Whole'
<1> SUFFICES ASSUME Open', boot' = "up", NEW t \in Turns, turn'[t].kind = "handoff_result",
                    turn'[t].anchor # 0, inbox'[turn'[t].anchor].status = "pending"
             PROVE  \/ \A c \in Child : result'[c].turn = t /\ Carrying(c)' => Ready(c)'
                    \/ dpc' = "failed" /\ <<"inbox", turn'[t].anchor>> \in Entries(todo')
  BY DEF Whole, Members, InTodo
<1>0. /\ nt \in Nat /\ Turns = 1..MaxTurns /\ MaxTurns \in Nat
      /\ \A c \in Child : result[c].turn <= nt
  BY CalmTypes DEF Calm, Delivering, Onward
<1>1. CASE t \notin nt + 1..nt' /\ turn'[t].anchor = turn[t].anchor
  <2>1. turn[t].kind = "handoff_result"
    BY <1>1, CalmStep DEF TurnsKept, Kin
  <2> QED BY <1>1, <2>1, WholeOld
<1>2. CASE Grow
  <2>1. CASE t \in nt + 1..nt'
    <3>1. PICK c \in Child : asg'[c].notice = turn'[t].anchor /\ result'[c].turn = t
      BY <1>2, <2>1 DEF Grow
    <3>2. \A d \in Child : result'[d].turn = t => d = c
      BY <1>2, <2>1, <3>1 DEF Grow
    <3>3. Ready(c)'
      BY <3>1 DEF Ready
    <3> QED BY <3>2, <3>3
  <2> QED BY <1>1, <1>2, <2>1 DEF Grow
<1>3. CASE Rebuilds
  <2>0. Rebuild(LatestResume)
    BY <1>3 DEF Rebuilds, StartTick
  <2> DEFINE r == LatestResume
  <2> HIDE DEF r
  <2>1. /\ nt' = nt + Cardinality(Heirs(r)) /\ nt' \in Turns
        /\ \A u \in Turns : u \notin nt + 1..nt' =>
               turn'[u].anchor = IF u \in Heirs(r) THEN 0 ELSE turn[u].anchor
        /\ \A c \in Child : ~Moved(r, c) => result'[c] = result[c]
        /\ \A u \in Superseded(r) : \A n \in CarriedBy(u) :
               inbox'[n].status = "pending" <=> n \in Kept(u)
    BY <2>0, RebuildRows DEF r
  <2>2. CASE t \notin nt + 1..nt'
    BY <1>1, <2>1, <2>2
  <2>3. CASE t \in nt + 1..nt'
    <3>1. ASSUME NEW c \in Child, result'[c].turn = t, Carrying(c)'
          PROVE  Ready(c)'
      <4>1. Moved(r, c)
        BY <1>0, <2>1, <2>3, <3>1
      <4> DEFINE n == asg[c].notice
                 u == result[c].turn
      <4>2. u \in Superseded(r) /\ n \in Kept(u) /\ n \in CarriedBy(u)
        BY <4>1 DEF Moved, Heirs, Kept
      <4>3. inbox'[n].status = "pending"
        BY <2>1, <4>2
      <4>4. asg'[c].notice = n
        BY <4>1, NoticeKept DEF Moved
      <4> QED BY <4>3, <4>4 DEF Ready
    <3> QED BY <3>1
  <2> QED BY <2>2, <2>3
<1> QED BY <1>2, <1>3, GrowStep

(* A restart queues again all that was not shown.                           *)
LEMMA AgainStep ==
  ASSUME Calm, [Next]_vars, ~overtaken'
  PROVE  Again'
<1> SUFFICES ASSUME Open', boot' = "requeue", NEW c \in Child, asg'[c].notice # 0, Carrying(c)'
             PROVE  Ready(c)' \/ asg'[c].notice \in stale'.notices
  BY DEF Again
<1>1. CASE asg[c].notice = 0
  BY <1>1, NoticeKept DEF Ready
<1>2. CASE asg[c].notice # 0
  <2>1. Carrying(c) /\ asg'[c].notice = asg[c].notice /\ asg[c].notice \in Notices
    BY <1>2, CarryStep, NoticeKept, NoticeIs
  <2>2. CASE boot = "requeue" /\ stale' = stale
    <3>1. dpc = "idle" /\ Open
      BY <2>2, ShownKept DEF Calm, Delivering, Onward
    <3>2. Ready(c) \/ asg[c].notice \in stale.notices
      BY <1>2, <2>1, <2>2, <3>1 DEF Calm, Delivering, Again
    <3> QED BY <1>2, <2>1, <2>2, <3>1, <3>2, ReadyKept
  <2>3. CASE BootResults /\ boot = "results"
    <3>1. CASE inbox[asg[c].notice].status = "pending"
      <4>1. inbox' = inbox
        BY <2>3 DEF BootResults
      <4> QED BY <2>1, <3>1, <4>1 DEF Ready
    <3>2. CASE inbox[asg[c].notice].status # "pending"
      <4> DEFINE S == {d \in Child : asg[d].status \in {"queued", "delivered", "failed"}
                                     /\ asg[d].notice # 0}
      <4>1. stale' = [asgs |-> {d \in S : asg[d].status # "queued"},
                      notices |-> {asg[d].notice : d \in S} \ PendingNotices]
        BY <2>3 DEF BootResults
      <4>2. c \in S
        BY <1>2, <2>1 DEF Carrying, Carried
      <4>3. asg[c].notice \notin PendingNotices
        BY <3>2 DEF PendingNotices
      <4>4. stale'.notices = {asg[d].notice : d \in S} \ PendingNotices
        BY <4>1
      <4> HIDE DEF S
      <4> QED BY <2>1, <4>2, <4>3, <4>4
    <3> QED BY <3>1, <3>2
  <2> QED BY <2>2, <2>3, RestartMoves
<1> QED BY <1>1, <1>2

(* How the dispatcher gets where it has a batch in hand.                    *)
LEMMA HandMoves ==
  ASSUME Calm, [Next]_vars
  PROVE  /\ dpc' = "look" => PickOldest \/ (dpc = "look" /\ batch' = batch)
         /\ dpc' = "activated" =>
               LookReady \/ (dpc = "activated" /\ dturn' = dturn /\ batch' = batch)
         /\ dpc' \in {"slot", "paste", "undelivered", "deferred", "rejected"} =>
               \/ LookReady \/ ClaimTurn
               \/ (Slot \/ PasteFailed) /\ dturn' = dturn /\ batch' = batch
               \/ dpc' = dpc /\ dturn' = dturn /\ batch' = batch
<1>1. dpc' \in {"look", "activated", "slot", "paste", "undelivered", "deferred", "rejected"} =>
        UNCHANGED <<dpc, dturn, batch, todo>> \/ PickOldest \/ LookReady \/ ClaimTurn \/ Slot
        \/ PasteFailed
  BY Steps DEF StartTick, CloseScan, LookBusy, LookDead, PasteAccepted, Requeue, WriteStatus,
     ReadMark, Mark, EndTick, Crash, Idle
<1>2. LookReady => dpc' \in {"idle", "activated", "slot"}
  BY DEF LookReady, Idle
<1>3. ClaimTurn => dpc' \in {"idle", "slot"}
  BY DEF ClaimTurn, Idle
<1>4. PickOldest => dpc' \in {"idle", "look"}
  BY DEF PickOldest, Idle
<1>5. Slot => dpc' \in {"paste", "deferred", "rejected"} /\ dturn' = dturn /\ batch' = batch
  BY DEF Slot, SlotGranted, SlotRefused
<1>6. PasteFailed => dpc' = "undelivered" /\ dturn' = dturn /\ batch' = batch
  BY DEF PasteFailed
<1> QED BY <1>1, <1>2, <1>3, <1>4, <1>5, <1>6

(* The dispatcher looks at a turn whose anchor waits.                       *)
LEMMA LookStep ==
  ASSUME Calm, [Next]_vars, ~overtaken', dpc' = "look"
  PROVE  \E t \in Turns : /\ turn'[t].anchor # 0 /\ batch' = {turn'[t].anchor}
                          /\ Open' /\ turn'[t].state = "queued" =>
                                inbox'[turn'[t].anchor].status = "pending"
<1>1. CASE dpc = "look" /\ batch' = batch
  <2>1. PICK t \in Turns : /\ turn[t].anchor # 0 /\ batch = {turn[t].anchor}
                           /\ Open /\ turn[t].state = "queued" =>
                                 inbox[turn[t].anchor].status = "pending"
    BY <1>1, LookedAt
  <2> DEFINE a == turn[t].anchor
  <2>2. /\ t <= nt /\ a \in Notices /\ inbox[a].of \in Child /\ result[inbox[a].of].turn = t
        /\ turn'[t].anchor = a
    BY <1>1, <2>1, AnchorTurn, PlaceKept
  <2>3. boot = "up"
    BY <1>1 DEF Calm, Delivering, Onward
  <2>4. a # 0 /\ batch = {a} /\ (Open /\ turn[t].state = "queued" => inbox[a].status = "pending")
    BY <2>1
  <2> HIDE DEF a
  <2>5. ASSUME Open', turn'[t].state = "queued"
        PROVE  inbox'[a].status = "pending"
    <3>1. t \notin nt + 1..nt' /\ Open
      BY <2>2, <2>5, ShownKept, CalmTypes
    <3>2. QueuedBy(t)
      BY <2>5, <3>1, StateMoves
    <3>3. turn[t].state = "queued" \/ (Settle /\ lease = t /\ ValidTransport(t))
      BY <1>1, <2>3, <3>2 DEF QueuedBy, Requeue, RequeueExpired, BootUnadmitted
    <3>4. CASE turn[t].state = "queued"
      <4>1. inbox[a].status = "pending"
        BY <2>4, <3>1, <3>4
      <4>2. ~Received(a)
        BY <2>2, <2>5 DEF Received, Members
      <4>3. ~Written(a) /\ ~Requeued(a) /\ ~Undone(a)
        BY <1>1, <2>3, <2>5 DEF Written, WriteStatus, Requeued, Undone
      <4> QED BY <2>2, <4>1, <4>2, <4>3, InboxMoves DEF Replayed
    <3>5. CASE turn[t].state # "queued" /\ Settle /\ lease = t /\ ValidTransport(t)
      <4>1. \/ turn' = turn
            \/ wf' = [wf EXCEPT !.status = "owner_gate"]
            \/ WithMembers(t, "pending", "queued")
        BY <3>5 DEF Settle
      <4>2. wf' # [wf EXCEPT !.status = "owner_gate"]
        BY <2>5, CalmTypes DEF Open, TypeOK
      <4>3. WithMembers(t, "pending", "queued")
        BY <2>5, <3>5, <4>1, <4>2
      <4>4. inbox'[a] = [inbox[a] EXCEPT !.status = "pending"]
        BY <2>2, <4>3 DEF WithMembers, Members
      <4> QED BY <2>2, <4>4, CalmTypes DEF InboxRow
    <3> QED BY <3>3, <3>4, <3>5
  <2> QED BY <1>1, <2>2, <2>4, <2>5
<1>2. CASE PickOldest
  <2> DEFINE n == Oldest
  <2>1. n # 0 /\ batch' = {n} /\ inbox' = inbox
        /\ \/ TurnOf(n) # 0 /\ turn' = turn
           \/ Materializes(n) /\ Attach(inbox[n].of, n) /\ nt' # nt
    BY <1>2 DEF PickOldest, Idle, turnVars, noticeVars
  <2>2. n \in Notices /\ inbox[n].status = "pending"
    BY <2>1, OldestType DEF PendingNotices
  <2>3. n \in 0..MaxNotices /\ inbox[n].of \in Child
    BY <2>2, CalmTypes
  <2> HIDE DEF n
  <2>4. CASE TurnOf(n) # 0 /\ turn' = turn
    <3>1. {t \in Turns : turn[t].anchor = n} \in SUBSET (Nat \ {0})
      BY CalmTypes
    <3>2. TurnOf(n) \in Turns /\ turn[TurnOf(n)].anchor = n
      BY <2>4, <3>1, LeastOf DEF TurnOf
    <3> QED BY <2>1, <2>2, <2>4, <3>2
  <2>5. CASE Attach(inbox[n].of, n) /\ nt' # nt
    <3> DEFINE c == inbox[n].of
               r == NewTurn(BoundaryKind(c), n, BoundaryKey(c), 0)
    <3>1. r.anchor = n
      BY DEF NewTurn
    <3>2. nt' = nt + 1 /\ turn' = [turn EXCEPT ![nt + 1] = r] /\ nt' \in Turns
      BY <2>3, <2>5, AttachTurns, CalmTypes, CalmStep DEF TurnsKept
    <3>3. turn'[nt + 1].anchor = n /\ nt + 1 \in Turns
      <4> HIDE DEF r
      <4> QED BY <3>1, <3>2, CalmTypes
    <3> QED BY <2>1, <2>2, <3>3
  <2> QED BY <2>1, <2>4, <2>5
<1> QED BY <1>1, <1>2, HandMoves

(* The dispatcher's LookReady: the turn it activates, and for a boundary    *)
(* the batch it seals.                                                      *)
LEMMA ActivateStep ==
  ASSUME Calm, LookReady, dpc' \in {"activated", "slot"}
  PROVE  /\ dturn' \in Turns /\ turn'[dturn'].anchor # 0
         /\ turn'[dturn'].anchor = turn[dturn'].anchor
         /\ inbox' = inbox /\ asg' = asg /\ result' = result /\ shown' = shown
         /\ dpc' = "activated" => /\ batch' = {turn'[dturn'].anchor}
                                  /\ turn'[dturn'].kind = "assigned_result"
         /\ dpc' = "slot" => /\ batch' = SealedNotices(dturn') /\ Open
                             /\ turn[dturn'].kind = "handoff_result"
                             /\ inbox[turn[dturn'].anchor].status = "pending"
<1>1. dpc = "look"
  BY DEF LookReady
<1>2. PICK t \in Turns :
            /\ turn[t].anchor # 0 /\ batch = {turn[t].anchor} /\ TurnOf(Min(batch)) = t
            /\ Open /\ turn[t].state = "queued" => inbox[turn[t].anchor].status = "pending"
  BY <1>1, LookedAt
<1>3. /\ dturn' = t /\ Activatable(t)
      /\ IF turn[t].kind = "handoff_result"
         THEN turn' = Claimed(t) /\ batch' = SealedNotices(t) /\ dpc' = "slot"
         ELSE UNCHANGED <<turn, batch>> /\ dpc' = "activated"
      /\ inbox' = inbox /\ asg' = asg /\ result' = result /\ shown' = shown
  BY <1>2 DEF LookReady, Idle, noticeVars, paneVars
<1>4. turn[t].kind \in ResultKinds
  BY <1>2, AnchorTurn
<1>5. turn'[t].anchor = turn[t].anchor
  <2>1. turn[t] \in TurnRow /\ turn \in [Turns -> TurnRow]
    BY CalmTypes
  <2>2. turn' = Claimed(t) => turn'[t].anchor = turn[t].anchor
    BY <2>1 DEF Claimed, TurnRow
  <2> QED BY <1>3, <2>2
<1> QED BY <1>2, <1>3, <1>4, <1>5 DEF ResultKinds, Activatable

(* A turn that was activated with its notice carries an assigned result.    *)
LEMMA ActivatedStep ==
  ASSUME Calm, [Next]_vars, ~overtaken', dpc' = "activated"
  PROVE  /\ turn'[dturn'].anchor # 0 /\ batch' = {turn'[dturn'].anchor}
         /\ turn'[dturn'].kind = "assigned_result"
<1>1. CASE dpc = "activated" /\ dturn' = dturn /\ batch' = batch
  <2>1. /\ dturn \in Turns /\ turn[dturn].anchor # 0 /\ batch = {turn[dturn].anchor}
        /\ turn[dturn].kind = "assigned_result"
    BY <1>1, CalmTypes DEF Base, Ticking, Calm, Delivering, Aimed
  <2>2. dturn <= nt /\ dturn \notin nt + 1..nt'
    BY <2>1, AnchorTurn, CalmTypes
  <2>3. turn'[dturn].anchor = turn[dturn].anchor
    BY <1>1, <2>1, <2>2, PlaceKept
  <2>4. turn'[dturn].kind = turn[dturn].kind
    BY <2>1, <2>2, CalmStep DEF TurnsKept, Kin
  <2> QED BY <1>1, <2>1, <2>3, <2>4
<1> QED BY <1>1, HandMoves, ActivateStep

(* The batch in hand is of the turn that is in hand.                        *)
LEMMA HandStep ==
  ASSUME Calm, [Next]_vars, ~overtaken',
         dpc' \in {"slot", "paste", "undelivered", "deferred", "rejected"}
  PROVE  /\ dturn' \in Turns /\ turn'[dturn'].anchor \in batch'
         /\ \A n \in batch' : result'[inbox'[n].of].turn = dturn'
<1>1. CASE LookReady
  <2>1. dpc' = "slot"
    BY <1>1 DEF LookReady, Idle
  <2>2. /\ dturn' \in Turns /\ turn'[dturn'].anchor = turn[dturn'].anchor
        /\ turn[dturn'].anchor # 0 /\ inbox' = inbox /\ result' = result
        /\ batch' = SealedNotices(dturn') /\ inbox[turn[dturn'].anchor].status = "pending"
    BY <1>1, <2>1, ActivateStep
  <2>3. /\ turn[dturn'].anchor \in Notices /\ inbox[turn[dturn'].anchor].of \in Child
        /\ result[inbox[turn[dturn'].anchor].of].turn = dturn'
    BY <2>2, AnchorTurn
  <2> QED BY <2>2, <2>3 DEF SealedNotices, PendingNotices, Members
<1>2. CASE ClaimTurn
  <2>1. /\ dpc = "activated" /\ turn' = Claimed(dturn) /\ dturn' = dturn /\ batch' = batch
        /\ inbox' = inbox /\ result' = result
    BY <1>2 DEF ClaimTurn, Idle, noticeVars
  <2>2. dturn \in Turns /\ turn[dturn].anchor # 0 /\ batch = {turn[dturn].anchor}
    BY <2>1, CalmTypes DEF Base, Ticking, Calm, Delivering, Aimed
  <2>3. result[inbox[turn[dturn].anchor].of].turn = dturn
    BY <2>2, AnchorTurn
  <2>4. turn'[dturn].anchor = turn[dturn].anchor
    BY <2>1, <2>2, CalmTypes DEF Claimed, TurnRow
  <2> QED BY <2>1, <2>2, <2>3, <2>4
<1>3. CASE /\ dturn' = dturn /\ batch' = batch
           /\ dpc \in {"slot", "paste", "undelivered", "deferred", "rejected"}
  <2>1. /\ dturn \in Turns /\ turn[dturn].anchor \in batch
        /\ \A n \in batch : result[inbox[n].of].turn = dturn
    BY <1>3 DEF Calm, Delivering, Aimed
  <2>2. dturn # 0 /\ dpc # "idle"
    BY <1>3, <2>1, CalmTypes
  <2>3. dturn <= nt
    <3>1. inbox[turn[dturn].anchor].of \in Child
      BY <2>1, BatchIs
    <3> QED BY <2>1, <3>1 DEF Calm, Delivering, Onward
  <2>4. turn'[dturn].anchor = turn[dturn].anchor
    BY <2>1, <2>2, <2>3, PlaceKept
  <2>5. ASSUME NEW n \in batch PROVE result'[inbox'[n].of].turn = dturn
    <3>1. inbox'[n].of = inbox[n].of /\ inbox[n].of \in Child
      BY BatchIs, NoticeKept
    <3> QED BY <2>1, <2>2, <3>1, PlaceKept
  <2> QED BY <1>3, <2>1, <2>4, <2>5
<1>4. CASE Slot \/ PasteFailed
  BY <1>3, <1>4, HandMoves DEF Slot, SlotGranted, SlotRefused, PasteFailed
<1> QED BY <1>1, <1>2, <1>3, <1>4, HandMoves

(* The batch that is pasted covers its turn.                                *)
LEMMA CoveredStep ==
  ASSUME Calm, [Next]_vars, ~overtaken', dpc' \in {"slot", "paste"}
  PROVE  \A c \in Child : result'[c].turn = dturn' /\ Carrying(c)' =>
              c \in shown' \/ \E n \in batch' : inbox'[n].of = c
<1>1. CASE LookReady
  <2>1. dpc' = "slot" /\ dpc = "look"
    BY <1>1 DEF LookReady, Idle
  <2>2. /\ dturn' \in Turns /\ turn[dturn'].anchor # 0 /\ Open
        /\ inbox' = inbox /\ result' = result /\ asg' = asg /\ shown' = shown
        /\ batch' = SealedNotices(dturn') /\ turn[dturn'].kind = "handoff_result"
        /\ inbox[turn[dturn'].anchor].status = "pending"
    BY <1>1, <2>1, ActivateStep
  <2>3. boot = "up"
    BY <2>1 DEF Calm, Delivering, Onward
  <2>4. \A c \in Members(dturn') : Carrying(c) => Ready(c)
    BY <2>1, <2>2, <2>3 DEF Calm, Delivering, Whole
  <2>5. ASSUME NEW c \in Child, result[c].turn = dturn', Carrying(c)
        PROVE  c \in shown \/ \E n \in SealedNotices(dturn') : inbox[n].of = c
    <3>1. asg[c].notice # 0
      BY <2>2, <2>5, CalmTypes DEF Calm, Delivering, Placed
    <3>2. asg[c].notice \in Notices /\ inbox[asg[c].notice].of = c
      BY <3>1, NoticeIs
    <3> QED BY <2>4, <2>5, <3>2 DEF Ready, SealedNotices, PendingNotices, Members
  <2> QED BY <2>2, <2>5 DEF Carrying
<1>2. CASE ClaimTurn
  <2>1. /\ dpc = "activated" /\ dturn' = dturn /\ batch' = batch
        /\ inbox' = inbox /\ result' = result
    BY <1>2 DEF ClaimTurn, Idle, noticeVars
  <2>2. /\ dturn \in Turns /\ turn[dturn].anchor # 0 /\ batch = {turn[dturn].anchor}
        /\ turn[dturn].kind = "assigned_result"
    BY <2>1, CalmTypes DEF Base, Ticking, Calm, Delivering, Aimed
  <2>3. inbox[turn[dturn].anchor].of \in Members(dturn)
    BY <2>2, AnchorTurn DEF Members
  <2>4. \A c \in Members(dturn) : c = inbox[turn[dturn].anchor].of
    BY <2>2, <2>3 DEF Calm, Delivering, Placed
  <2> QED BY <2>1, <2>2, <2>4 DEF Members
<1>3. CASE dturn' = dturn /\ batch' = batch /\ dpc \in {"slot", "paste"}
  <2>1. /\ dturn \in Turns /\ turn[dturn].anchor \in batch /\ dturn <= wf.active
        /\ result[inbox[turn[dturn].anchor].of].turn = dturn /\ Covered(dturn)
    BY <1>3 DEF Calm, Delivering, Aimed, Onward
  <2>2. dturn <= nt
    <3>1. inbox[turn[dturn].anchor].of \in Child
      BY <2>1, BatchIs
    <3> QED BY <2>1, <3>1 DEF Calm, Delivering, Onward
  <2>3. ~(wf.active < dturn)
    <3>1. dturn \in Nat /\ wf.active \in Nat
      BY <2>1, CalmTypes, ActiveStep
    <3> QED BY <2>1, <3>1
  <2>4. ASSUME NEW c \in Child, result'[c].turn = dturn, Carrying(c)'
        PROVE  c \in shown' \/ \E n \in batch : inbox'[n].of = c
    <3>1. result[c].turn = dturn /\ asg[c].notice # 0
      BY <2>1, <2>2, <2>3, <2>4, MembersFrom
    <3>2. Carrying(c)
      BY <2>4, <3>1, CarryStep
    <3>3. c \in shown \/ \E n \in batch : inbox[n].of = c
      BY <2>1, <3>1, <3>2 DEF Covered, Members
    <3>4. \A n \in batch : inbox'[n].of = inbox[n].of
      BY BatchIs, NoticeKept
    <3> QED BY <3>3, <3>4, ShownKept
  <2> QED BY <1>3, <2>4
<1>4. CASE (Slot \/ PasteFailed) /\ dturn' = dturn /\ batch' = batch
  BY <1>3, <1>4 DEF Slot, SlotGranted, SlotRefused, PasteFailed
<1> QED BY <1>1, <1>2, <1>3, <1>4, HandMoves

(* The dispatcher's batch.                                                  *)
LEMMA AimedStep ==
  ASSUME Calm, [Next]_vars, ~overtaken'
  PROVE  Aimed'
BY LookStep, ActivatedStep, HandStep, CoveredStep DEF Aimed, Covered, Members

(* Initially nothing is delivered, and no turn carries a result.            *)
LEMMA DeliverInit ==
  ASSUME Init
  PROVE  DeliverInv
<1>1. OutcomeInv
  BY OutcomeInit
<1>2. /\ wf = [status |-> "open", active |-> 1] /\ nt = 1 /\ pasted = {1} /\ batch = {}
      /\ dpc = "idle" /\ todo = <<>> /\ boot = "up"
      /\ \A c \in Child : asg[c] = [status |-> "awaiting", notice |-> 0]
      /\ \A c \in Child : result[c] = [status |-> "awaiting", turn |-> 0]
      /\ turn = [[t \in Turns |-> NoTurn] EXCEPT ![1] = Admitted("external_input")]
  BY DEF Init
<1>3. Turns = 1..MaxTurns /\ MaxTurns \in Nat
  BY BoundAssumption DEF Turns
<1>4. \A t \in Turns : /\ turn[t].anchor = 0
                       /\ turn[t].kind \in {"none", "external_input"}
                       /\ t > 1 => turn[t].state = "none"
  <2>1. \A t \in Turns : turn[t] = IF t = 1 THEN Admitted("external_input") ELSE NoTurn
    BY <1>2, <1>3
  <2>2. Admitted("external_input").anchor = 0 /\ Admitted("external_input").kind = "external_input"
    BY DEF Admitted, NewTurn
  <2>3. NoTurn.anchor = 0 /\ NoTurn.kind = "none" /\ NoTurn.state = "none"
    BY DEF NoTurn, NewTurn
  <2>4. ASSUME NEW t \in Turns
        PROVE  /\ turn[t].anchor = 0 /\ turn[t].kind \in {"none", "external_input"}
               /\ t > 1 => turn[t].state = "none"
    BY <2>1, <2>2, <2>3, <1>3
  <2> QED BY <2>4
<1>5. \A c \in Child : ~Carrying(c)
  BY <1>2 DEF Carrying, Carried
<1>6. Onward
  BY <1>2, <1>3, <1>4 DEF Onward
<1>7. Placed
  <2>1. \A c \in Child : result[c].turn = 0
    BY <1>2
  <2> QED BY <1>4, <2>1 DEF Placed
<1>8. Aimed
  BY <1>2 DEF Aimed
<1>9. Listed /\ Failing /\ Told
  BY <1>2 DEF Listed, Failing, Told, Entries
<1>10. Whole /\ Again /\ Served
  BY <1>2, <1>4, <1>5 DEF Whole, Again, Served, Members
<1>11. DeliveredShown
  BY <1>2 DEF DeliveredShown
<1> QED BY <1>1, <1>6, <1>7, <1>8, <1>9, <1>10, <1>11 DEF DeliverInv, Delivering

(* The invariant on deliveries is inductive.                                *)
LEMMA DeliverStep ==
  ASSUME DeliverInv, [Next]_vars
  PROVE  DeliverInv'
<1>1. OutcomeInv'
  BY OutcomeStep DEF DeliverInv
<1>2. ASSUME ~overtaken'
      PROVE  Delivering'
  <2>1. ~overtaken
    BY <1>2, PaneStep DEF PaneKept, DeliverInv, OutcomeInv, NoticeInv
  <2>2. Calm
    BY <2>1 DEF DeliverInv, Calm
  <2>3. Onward' /\ Placed' /\ Aimed' /\ Listed' /\ Failing'
    BY <1>2, <2>2, OnwardStep, PlacedStep, AimedStep, ListedStep, FailingStep
  <2>4. Whole' /\ Again' /\ Served' /\ Told' /\ DeliveredShown'
    BY <1>2, <2>2, WholeStep, AgainStep, ServedStep, ToldStep, DeliveredStep
  <2> QED BY <2>3, <2>4 DEF Delivering
<1> QED BY <1>1, <1>2 DEF DeliverInv

(* What the parent may acknowledge, or has acknowledged, was in its pane:   *)
(* no batch, replay or receipt of a settled turn marks a result that it did *)
(* not show (claim_handoff_result_batch_for_inbox,                          *)
(* _restore_unreceipted_inbox_transport_for_replay,                         *)
(* _bind_receipted_provider_execution), unless a handler was overtaken.     *)
THEOREM OnlyShownIsDelivered == Spec => []DeliveredShown
<1>1. Init => DeliverInv
  BY DeliverInit
<1>2. DeliverInv /\ [Next]_vars => DeliverInv'
  BY DeliverStep
<1>3. DeliverInv => DeliveredShown
  BY DEF DeliverInv, Delivering, DeliveredShown
<1> QED BY <1>1, <1>2, <1>3, PTL DEF Spec

-----------------------------------------------------------------------------
(* No notice is orphaned: a turn that was sent and not answered is the one   *)
(* that is active and has the slot, so that a poll still decides on it.      *)

Unanswered(t) == turn[t].receipt = "none"
Decided(t) ==
    /\ turn[t].state \in {"claimed", "sent"} => wf.active = t
    /\ turn[t].state = "sent" => lease = t /\ dturn # t
    /\ turn[t].state = "claimed" /\ dpc \in {"paste", "delivered"} /\ dturn = t => lease = t
    /\ turn[t].state # "finished"
    /\ turn[t].state = "cancelled" => turn[t].retired
UnderWay == /\ \A t \in Turns : t <= nt => turn[t].state # "none"
            /\ Open => \A t \in Turns : Unanswered(t) => Decided(t)
(* The inductive invariant.                                                  *)
OrphanInv == DeliverInv /\ (~overtaken => UnderWay)

(* A row that needs nobody, and what a step does to a row: it leaves what    *)
(* matters alone, brings it to rest, closes it, claims it for the            *)
(* dispatcher, or records what the dispatcher has sent.                      *)
Rested(q) == \/ q.state = "queued"
             \/ q.state # "none" /\ q.receipt # "none"
             \/ q.state = "cancelled" /\ q.retired
Alike(p, q) == q.state = p.state /\ q.receipt = p.receipt /\ q.retired = p.retired
Given(t) == /\ LookReady \/ ClaimTurn
            /\ turn'[t].state = "claimed" /\ wf'.active = t /\ dpc' = "slot"
Recorded(t) == /\ EndTick /\ dpc = "delivered" /\ t = dturn
               /\ turn[t].state = "claimed" /\ turn'[t].state = "sent"
               /\ turn'[t].receipt = turn[t].receipt
RowMove(t) == \/ Alike(turn[t], turn'[t])
              \/ Rested(turn'[t])
              \/ ~Open' /\ turn'[t].state = "cancelled"
              \/ Given(t)
              \/ Recorded(t)

(* What the edits of a row mean.                                             *)
LEMMA RestedRows ==
  ASSUME NEW r \in TurnRow
  PROVE  /\ Rested([r EXCEPT !.state = "queued", !.claim = "none"])
         /\ Rested([r EXCEPT !.state = "queued", !.claim = "none", !.settled = TRUE])
         /\ Rested([r EXCEPT !.state = "queued", !.claim = "none", !.settled = FALSE])
         /\ Rested([r EXCEPT !.state = "queued"])
         /\ Rested([r EXCEPT !.receipt = "consumed", !.state = "sent", !.claim = "none",
                             !.settled = FALSE])
         /\ Rested([r EXCEPT !.state = "finished", !.receipt = "resumed"])
         /\ Alike(r, [r EXCEPT !.claim = "expired"])
         /\ Alike(r, [r EXCEPT !.settled = FALSE])
         /\ [r EXCEPT !.state = "cancelled", !.claim = "none", !.settled = FALSE].state = "cancelled"
         /\ [r EXCEPT !.state = "cancelled", !.claim = "none"].state = "cancelled"
BY DEF TurnRow, Rested, Alike

(* New rows are queued.                                                      *)
LEMMA NewRested ==
  ASSUME NEW k, NEW n, NEW key, NEW a
  PROVE  Rested(NewTurn(k, n, key, a))
BY DEF NewTurn, Rested

LEMMA NewRows ==
  ASSUME Calm, [Next]_vars, NEW t \in Turns, t \in nt + 1..nt'
  PROVE  Rested(turn'[t])
<1>0. TypeInv /\ turn \in [Turns -> TurnRow] /\ nt \in Nat /\ nn \in Nat /\ MaxNotices \in Nat
  BY CalmTypes
<1>n. nt' # nt
  BY <1>0
<1>1. ASSUME NEW c \in Child, NEW n \in 0..MaxNotices, Attach(c, n)
      PROVE  Rested(turn'[t])
  <2> DEFINE r == NewTurn(BoundaryKind(c), n, BoundaryKey(c), 0)
  <2>1. nt' = nt + 1 /\ turn' = [turn EXCEPT ![nt + 1] = r]
    BY <1>0, <1>1, <1>n, AttachTurns
  <2>2. Rested(r)
    BY NewRested
  <2> HIDE DEF r
  <2>3. t = nt + 1
    BY <1>0, <2>1
  <2> QED BY <1>0, <2>1, <2>2, <2>3
<1>2. ASSUME NEW c \in Child, NEW seen, NEW res, NEW refused, Notify(c, seen, res, refused)
      PROVE  Rested(turn'[t])
  <2>1. Attach(c, nn + 1) /\ nn < MaxNotices
    BY <1>2, <1>n DEF Notify, turnVars
  <2>2. nn + 1 \in 0..MaxNotices
    BY <1>0, <2>1
  <2> QED BY <1>1, <2>1, <2>2
<1>3. CASE PickOldest
  <2>1. PICK n : n = Oldest /\ n # 0 /\ Materializes(n) /\ Attach(inbox[n].of, n)
    BY <1>3, <1>n DEF PickOldest, turnVars
  <2>2. inbox[n].of \in Child /\ n \in 0..MaxNotices
    BY <1>0, <2>1, OldestType, CalmTypes DEF Materializes, Child
  <2> QED BY <1>1, <2>1, <2>2
<1>4. CASE ExitWrite
  <2> DEFINE c == leaving.child
  <2>1. c \in Child
    BY <1>4, CalmTypes DEF ExitWrite, TypeOK
  <2> HIDE DEF c
  <2>2. \E seen, res, refused : Notify(c, seen, res, refused)
    BY <1>4, <1>n DEF c, ExitWrite, LoseAssigned, Recover, Exhaust, Destroy, turnVars
  <2> QED BY <1>2, <2>1, <2>2
<1>5. CASE \E c \in Child : Submit(c)
  BY <1>2, <1>5 DEF Submit
<1>6. CASE StartTick
  <2>1. Rebuild(LatestResume)
    BY <1>6, <1>n DEF StartTick, turnVars
  <2> DEFINE r == LatestResume
  <2> HIDE DEF r
  <2>2. /\ nt' = nt + Cardinality(Heirs(r)) /\ nt' \in Turns
        /\ \A u \in Heirs(r) :
              turn'[HeirAt(r, u)] = NewTurn(turn[u].kind, Min(Kept(u)), 0, turn[u].attempts)
    BY <2>1, RebuildRows DEF r
  <2>3. \A h \in nt + 1..nt + Cardinality(Heirs(r)) : \E u \in Heirs(r) : HeirAt(r, u) = h
    BY <2>2, HeirsType
  <2>4. PICK u \in Heirs(r) : HeirAt(r, u) = t
    BY <2>2, <2>3
  <2> QED BY <2>2, <2>4, NewRested
<1>7. CASE BootTerminated
  <2> DEFINE k == IF Open THEN Cardinality(Terminated) ELSE 0
             x == nn + t - nt
             y == Nth(Terminated, t - nt)
  <2>1. /\ nt' = nt + k
        /\ turn' = [u \in Turns |-> IF u \in nt + 1..nt + k
                       THEN NewTurn("assigned_result", nn + u - nt, Nth(Terminated, u - nt), 0)
                       ELSE turn[u]]
    BY <1>7 DEF BootTerminated
  <2> HIDE DEF k
  <2>2. turn'[t] = NewTurn("assigned_result", x, y, 0)
    BY <2>1
  <2> HIDE DEF x, y
  <2> QED BY <2>2, NewRested
<1>8. ASSUME NEW u \in Turns, Resume(u)
      PROVE  Rested(turn'[t])
  <2>1. nt' = nt + 1
        /\ turn' = [turn EXCEPT ![u].state = "finished", ![u].receipt = "resumed",
                                ![nt + 1] = Admitted("execution_resume")]
    BY <1>8 DEF Resume
  <2>2. t = nt + 1
    BY <1>0, <2>1
  <2>3. turn'[t] = Admitted("execution_resume")
    BY <1>0, <2>1, <2>2
  <2> QED BY <2>3 DEF Admitted, NewTurn, Rested
<1> QED BY <1>n, <1>3, <1>4, <1>5, <1>6, <1>7, <1>8, Steps

(* What a step does to a row there is.                                       *)
LEMMA OldRows ==
  ASSUME Calm, [Next]_vars, NEW t \in Turns, t \notin nt + 1..nt'
  PROVE  RowMove(t)
<1>0. /\ turn \in [Turns -> TurnRow] /\ turn[t] \in TurnRow /\ nt \in Nat
      /\ \A u \in Turns : RowOK(turn[u])
      /\ wf \in [status : {"open", "completed", "cancelled", "owner_gate"}, active : Turns]
  BY CalmTypes DEF TypeInv, TypeOK
<1>1. turn'[t] = turn[t] => RowMove(t)
  BY DEF RowMove, Alike
<1>2. CASE PickOldest \/ ExitWrite \/ \E c \in Child : Submit(c)
  BY <1>1, <1>2, RowsRest
<1>3. CASE StartTick
  <2>1. CASE MustRebuild(LatestResume)
    <3>1. Rebuild(LatestResume)
      BY <1>3, <2>1 DEF StartTick
    <3> DEFINE r == LatestResume
               heirs == {u \in Superseded(r) : Kept(u) # {}}
    <3>2. t \in Superseded(r) =>
            turn'[t] = [turn[t] EXCEPT !.state = IF @ = "finished" THEN @ ELSE "cancelled",
                                       !.claim = "none", !.retired = TRUE,
                                       !.anchor = IF t \in heirs THEN 0 ELSE @]
      BY <3>1 DEF Rebuild
    <3> HIDE DEF r, heirs
    <3>3. t \notin Superseded(r) => turn'[t] = turn[t]
      BY <3>1, RebuildRows DEF r
    <3>4. CASE t \in Superseded(r)
      <4>1. /\ turn'[t].state = IF turn[t].state = "finished" THEN "finished" ELSE "cancelled"
            /\ turn'[t].retired = TRUE /\ turn'[t].receipt = turn[t].receipt
        BY <1>0, <3>2, <3>4 DEF TurnRow
      <4>2. turn[t].state = "finished" => turn[t].receipt # "none"
        BY <3>4 DEF Superseded, Pending
      <4> QED BY <4>1, <4>2 DEF RowMove, Rested
    <3> QED BY <1>1, <3>3, <3>4
  <2>2. CASE ~MustRebuild(LatestResume)
    BY <1>1, <1>3, <2>2 DEF StartTick, turnVars
  <2> QED BY <2>1, <2>2
<1>4. CASE LookReady
  <2> DEFINE u == TurnOf(Min(batch))
  <2>1. turn' = turn \/ (turn' = Claimed(u) /\ wf' = [wf EXCEPT !.active = u] /\ dpc' = "slot")
    BY <1>4 DEF LookReady
  <2> HIDE DEF u
  <2>2. CASE t = u /\ turn' = Claimed(u) /\ wf' = [wf EXCEPT !.active = u] /\ dpc' = "slot"
    <3>1. turn'[t].state = "claimed"
      BY <1>0, <2>2 DEF Claimed, TurnRow
    <3>2. wf'.active = t
      BY <1>0, <2>2
    <3> QED BY <1>4, <2>2, <3>1, <3>2 DEF RowMove, Given
  <2>3. CASE t # u /\ turn' = Claimed(u)
    <3>1. turn'[t] = turn[t]
      BY <1>0, <2>3 DEF Claimed
    <3> QED BY <1>1, <3>1
  <2> QED BY <1>1, <2>1, <2>2, <2>3
<1>5. CASE ClaimTurn
  <2>1. turn' = turn \/ (turn' = Claimed(dturn) /\ wf.active = dturn /\ dpc' = "slot")
    BY <1>5 DEF ClaimTurn
  <2>2. CASE t = dturn /\ turn' = Claimed(dturn) /\ wf.active = dturn /\ dpc' = "slot"
    <3>1. turn'[t].state = "claimed"
      BY <1>0, <2>2 DEF Claimed, TurnRow
    <3>2. wf' = wf
      BY <1>5 DEF ClaimTurn
    <3> QED BY <1>5, <2>2, <3>1, <3>2 DEF RowMove, Given
  <2>3. CASE t # dturn /\ turn' = Claimed(dturn)
    <3>1. turn'[t] = turn[t]
      BY <1>0, <2>3 DEF Claimed
    <3> QED BY <1>1, <3>1
  <2> QED BY <1>1, <2>1, <2>2, <2>3
<1>6. CASE Requeue
  <2> DEFINE b == [turn[dturn] EXCEPT !.state = "queued", !.claim = "none", !.settled = FALSE]
             x == [turn[dturn] EXCEPT !.state = "cancelled", !.claim = "none", !.settled = FALSE]
             d == [[turn EXCEPT ![dturn] = b] EXCEPT ![dturn].attempts = @ - 1]
  <2>1. \/ turn' = turn \/ turn' = [turn EXCEPT ![dturn] = b] \/ turn' = d
        \/ turn' = [turn EXCEPT ![dturn] = x] /\ wf' = [wf EXCEPT !.status = "owner_gate"]
    BY <1>6 DEF Requeue, Exhausted
  <2>2. CASE t # dturn
    <3>1. turn'[t] = turn[t]
      BY <1>0, <2>1, <2>2
    <3> QED BY <1>1, <3>1
  <2>3. CASE t = dturn
    <3>1. Rested(b) /\ x.state = "cancelled"
      BY <1>0, <2>3, RestedRows
    <3>2. turn' = d => turn'[t].state = "queued"
      BY <1>0, <2>3 DEF TurnRow
    <3>3. wf' = [wf EXCEPT !.status = "owner_gate"] => ~Open'
      BY <1>0 DEF Open
    <3> HIDE DEF b, x, d
    <3>4. turn' = [turn EXCEPT ![dturn] = b] => turn'[t] = b
      BY <1>0, <2>3
    <3>5. turn' = [turn EXCEPT ![dturn] = x] => turn'[t] = x
      BY <1>0, <2>3
    <3> QED BY <1>1, <2>1, <3>1, <3>2, <3>3, <3>4, <3>5 DEF RowMove, Rested
  <2> QED BY <2>2, <2>3
<1>7. CASE EndTick
  <2>1. \/ turn' = turn
        \/ /\ turn[dturn].state = "claimed" /\ dpc = "delivered"
           /\ turn' = [turn EXCEPT ![dturn].state = "sent", ![dturn].claim = "none",
                                   ![dturn].settled = FALSE]
    BY <1>7 DEF EndTick, MaySend, ClaimMatches
  <2>2. CASE t # dturn
    <3>1. turn'[t] = turn[t]
      BY <1>0, <2>1, <2>2
    <3> QED BY <1>1, <3>1
  <2>3. CASE t = dturn /\ turn' # turn
    <3>1. turn'[t].state = "sent" /\ turn'[t].receipt = turn[t].receipt
      BY <1>0, <2>1, <2>3 DEF TurnRow
    <3> QED BY <1>7, <2>1, <2>3, <3>1 DEF RowMove, Recorded
  <2> QED BY <1>1, <2>1, <2>2, <2>3
<1>8. CASE RequeueExpired
  <2>1. turn'[t] = IF turn[t].claim = "expired"
                   THEN [turn[t] EXCEPT !.state = "queued", !.claim = "none"] ELSE turn[t]
    BY <1>8 DEF RequeueExpired
  <2> QED BY <1>0, <1>1, <2>1, RestedRows DEF RowMove
<1>9. CASE Settle
  <2> DEFINE b == [turn[lease] EXCEPT !.state = "queued", !.claim = "none", !.settled = TRUE]
             x == [turn[lease] EXCEPT !.state = "cancelled", !.claim = "none", !.settled = FALSE]
             s == [turn[lease] EXCEPT !.settled = FALSE]
  <2>1. \/ turn' = turn
        \/ turn' = [turn EXCEPT ![lease] = b] \/ turn' = [turn EXCEPT ![lease] = s]
        \/ turn' = [turn EXCEPT ![lease] = x] /\ wf' = [wf EXCEPT !.status = "owner_gate"]
    BY <1>9 DEF Settle, Exhausted
  <2>2. t = lease => Rested(b) /\ x.state = "cancelled" /\ Alike(turn[t], s)
    BY <1>0, RestedRows
  <2> HIDE DEF b, x, s
  <2>3. CASE t # lease
    <3>1. turn'[t] = turn[t]
      BY <1>0, <2>1, <2>3
    <3> QED BY <1>1, <3>1
  <2>4. CASE t = lease
    <3>1. turn' = turn \/ turn'[t] \in {b, s} \/ (turn'[t] = x /\ wf' = [wf EXCEPT !.status = "owner_gate"])
      BY <1>0, <2>1, <2>4
    <3>2. wf' = [wf EXCEPT !.status = "owner_gate"] => ~Open'
      BY <1>0 DEF Open
    <3> QED BY <1>1, <2>2, <2>4, <3>1, <3>2 DEF RowMove
  <2> QED BY <2>3, <2>4
<1>10. CASE BootTerminated
  <2> DEFINE k == IF Open THEN Cardinality(Terminated) ELSE 0
  <2>1. /\ nt' = nt + k
        /\ turn' = [u \in Turns |-> IF u \in nt + 1..nt + k
                       THEN NewTurn("assigned_result", nn + u - nt, Nth(Terminated, u - nt), 0)
                       ELSE turn[u]]
    BY <1>10 DEF BootTerminated
  <2> HIDE DEF k
  <2>2. turn'[t] = turn[t]
    BY <2>1
  <2> QED BY <1>1, <2>2
<1>11. CASE BootUnadmitted
  <2> DEFINE b == [turn[wf.active] EXCEPT !.state = "queued"]
  <2>1. turn' = turn \/ turn' = [turn EXCEPT ![wf.active] = b]
    BY <1>11 DEF BootUnadmitted
  <2>2. t = wf.active => Rested(b)
    BY <1>0, RestedRows
  <2> HIDE DEF b
  <2>3. turn'[t] = turn[t] \/ (t = wf.active /\ turn'[t] = b)
    BY <1>0, <2>1
  <2> QED BY <1>1, <2>2, <2>3 DEF RowMove
<1>12. ASSUME NEW u \in Turns, ClaimExpires(u) \/ Admit(u)
       PROVE  RowMove(t)
  <2> DEFINE e == [turn[u] EXCEPT !.claim = "expired"]
             a == [turn[u] EXCEPT !.receipt = "consumed"]
             s == [turn[u] EXCEPT !.receipt = "consumed", !.state = "sent", !.claim = "none",
                                  !.settled = FALSE]
  <2>1. \/ turn' = [turn EXCEPT ![u] = e]
        \/ turn' = [turn EXCEPT ![u] = s]
        \/ turn' = [turn EXCEPT ![u] = a] /\ turn[u].state \in {"claimed", "sent"}
    BY <1>12 DEF ClaimExpires, Admit
  <2>2. t = u => /\ Alike(turn[t], e) /\ Rested(s)
                 /\ turn[u].state \in {"claimed", "sent"} => Rested(a)
    <3>1. a.state = turn[u].state /\ a.receipt = "consumed"
      BY <1>0 DEF TurnRow
    <3> QED BY <1>0, <3>1, RestedRows DEF Rested
  <2> HIDE DEF e, a, s
  <2>3. \/ turn'[t] = turn[t]
        \/ t = u /\ (turn'[t] \in {e, s} \/ (turn'[t] = a /\ turn[u].state \in {"claimed", "sent"}))
    BY <1>0, <2>1
  <2> QED BY <1>1, <2>2, <2>3 DEF RowMove
<1>13. ASSUME NEW u \in Turns, Resume(u)
       PROVE  RowMove(t)
  <2> DEFINE f == [turn[u] EXCEPT !.state = "finished", !.receipt = "resumed"]
  <2>1. /\ nt' = nt + 1
        /\ turn' = [[turn EXCEPT ![u] = f] EXCEPT ![nt + 1] = Admitted("execution_resume")]
    BY <1>13 DEF Resume
  <2>2. Rested(f)
    BY <1>0, RestedRows
  <2> HIDE DEF f
  <2>3. t # nt + 1
    BY <1>0, <2>1
  <2>4. turn'[t] = turn[t] \/ turn'[t] = f
    BY <1>0, <2>1, <2>3
  <2> QED BY <1>1, <2>2, <2>4 DEF RowMove
<1>14. ASSUME NEW status \in {"completed", "cancelled"}, Close(status)
       PROVE  RowMove(t)
  <2>1. turn'[t] = IF turn[t].state \in Pending
                   THEN [turn[t] EXCEPT !.state = "cancelled", !.claim = "none"] ELSE turn[t]
    BY <1>14 DEF Close
  <2>2. [turn[t] EXCEPT !.state = "cancelled", !.claim = "none"].state = "cancelled"
    BY <1>0 DEF TurnRow
  <2>3. ~Open'
    BY <1>0, <1>14 DEF Close, Open
  <2> QED BY <1>1, <2>1, <2>2, <2>3 DEF RowMove
<1> QED BY <1>1, <1>2, <1>3, <1>4, <1>5, <1>6, <1>7, <1>8, <1>9, <1>10, <1>11, <1>12, <1>13, <1>14,
           Steps

(* A workflow that was closed is not opened; the binding moves to a turn     *)
(* that the dispatcher may activate, or to the resume of an answered one.    *)
LEMMA OpenStays ==
  ASSUME Calm, [Next]_vars, Open'
  PROVE  /\ Open
         /\ \/ wf'.active = wf.active
            \/ LookReady /\ ~Unadmitted
            \/ \E u \in Turns : Resume(u)
<1>0. wf \in [status : {"open", "completed", "cancelled", "owner_gate"}, active : Turns]
  BY CalmTypes DEF TypeOK
<1>1. CASE wf' = wf
  BY <1>1 DEF Open
<1>2. CASE LookReady
  <2>1. CASE wf' = wf
    BY <1>1, <2>1
  <2>2. CASE wf' # wf
    <3> DEFINE u == TurnOf(Min(batch))
    <3>1. wf' = [wf EXCEPT !.active = u] /\ Activatable(u)
      BY <1>2, <2>2 DEF LookReady
    <3> HIDE DEF u
    <3>2. Open /\ (wf.active = u \/ ~Unadmitted) /\ wf'.active = u
      BY <1>0, <3>1 DEF Activatable
    <3> QED BY <1>2, <3>2
  <2> QED BY <2>1, <2>2
<1>3. CASE Requeue \/ Settle
  <2>1. wf' = wf \/ wf' = [wf EXCEPT !.status = "owner_gate"]
    BY <1>3 DEF Requeue, Settle
  <2>2. wf' # [wf EXCEPT !.status = "owner_gate"]
    BY <1>0 DEF Open
  <2> QED BY <1>1, <2>1, <2>2
<1>4. ASSUME NEW u \in Turns, Resume(u)
      PROVE  Open
  BY <1>4 DEF Resume
<1>5. ASSUME NEW status \in {"completed", "cancelled"}, Close(status)
      PROVE  FALSE
  BY <1>0, <1>5 DEF Close, Open
<1> QED BY <1>1, <1>2, <1>3, <1>4, <1>5, Steps

(* The turn of a tick is chosen once; it is pasted under the slot.           *)
LEMMA TickTurnMoves ==
  ASSUME Calm, [Next]_vars
  PROVE  /\ \/ dturn' \in {dturn, 0}
            \/ LookReady /\ turn[dturn'].state = "queued"
         /\ dpc' \in {"paste", "delivered"} =>
               \/ Slot /\ dpc' = "paste" /\ lease' = dturn /\ dturn' = dturn
               \/ dpc \in {"paste", "delivered"} /\ dturn' = dturn
<1>1. CASE UNCHANGED <<dpc, dturn, batch, todo>>
  BY <1>1
<1>2. CASE StartTick \/ CloseScan \/ LookDead \/ PasteAccepted \/ WriteStatus \/ ReadMark \/ Mark
           \/ PasteFailed \/ LookBusy \/ Crash \/ EndTick
  BY <1>2 DEF StartTick, CloseScan, LookDead, PasteAccepted, WriteStatus, ReadMark, Mark, PasteFailed,
     LookBusy, Crash, EndTick, Idle
<1>3. CASE PickOldest \/ ClaimTurn \/ Requeue
  BY <1>3 DEF PickOldest, ClaimTurn, Requeue, Idle
<1>4. CASE Slot
  BY <1>4 DEF Slot, SlotGranted, SlotRefused
<1>5. CASE LookReady
  <2> DEFINE u == TurnOf(Min(batch))
  <2>1. \/ dturn' = 0 /\ dpc' = "idle"
        \/ dturn' = u /\ turn[u].state = "queued" /\ dpc' \in {"slot", "activated"}
    BY <1>5 DEF LookReady, Activatable, Idle
  <2> QED BY <1>5, <2>1
<1> QED BY <1>1, <1>2, <1>3, <1>4, <1>5, Steps

(* Who takes the slot from a turn that is under way: nobody, as long as it   *)
(* stays so.                                                                 *)
LEMMA SlotKept ==
  ASSUME Calm, [Next]_vars, Open', NEW t \in Turns, Unanswered(t), Alike(turn[t], turn'[t]),
         turn[t].state \in {"claimed", "sent"}, wf.active = t, lease = t,
         turn[t].state = "sent" => dturn # t
  PROVE  lease' = t \/ (PasteFailed /\ turn[t].state = "claimed")
<1>0. /\ turn \in [Turns -> TurnRow] /\ turn[t] \in TurnRow /\ Open /\ t # 0
      /\ wf \in [status : {"open", "completed", "cancelled", "owner_gate"}, active : Turns]
  BY CalmTypes, OpenStays DEF TypeOK
<1>1. CASE Slot
  BY <1>0, <1>1 DEF Slot, SlotGranted, SlotRefused
<1>2. CASE PasteFailed
  BY <1>2 DEF PasteFailed
<1>3. CASE Settle
  <2> DEFINE b == [turn[t] EXCEPT !.state = "queued", !.claim = "none", !.settled = TRUE]
  <2>1. \/ wf' = [wf EXCEPT !.status = "owner_gate"]
        \/ turn' = [turn EXCEPT ![t] = b]
    BY <1>0, <1>3 DEF Settle, Unanswered
  <2>2. wf' # [wf EXCEPT !.status = "owner_gate"]
    BY <1>0 DEF Open
  <2>3. b.state = "queued"
    BY <1>0 DEF TurnRow
  <2> HIDE DEF b
  <2>4. turn'[t] = b
    BY <1>0, <2>1, <2>2
  <2> QED BY <2>3, <2>4 DEF Alike
<1>4. ASSUME NEW u \in Turns, Admit(u)
      PROVE  FALSE
  <2> DEFINE a == [turn[t] EXCEPT !.receipt = "consumed"]
             s == [turn[t] EXCEPT !.receipt = "consumed", !.state = "sent", !.claim = "none",
                                  !.settled = FALSE]
  <2>1. u = t
    BY <1>4 DEF Admit
  <2>2. turn' = [turn EXCEPT ![t] = a] \/ turn' = [turn EXCEPT ![t] = s]
    BY <1>4, <2>1 DEF Admit
  <2>3. a.receipt = "consumed" /\ s.receipt = "consumed"
    BY <1>0 DEF TurnRow
  <2> HIDE DEF a, s
  <2>4. turn'[t] \in {a, s}
    BY <1>0, <2>2
  <2> QED BY <2>3, <2>4 DEF Alike, Unanswered
<1>5. ASSUME NEW u \in Turns, Resume(u)
      PROVE  FALSE
  BY <1>5 DEF Resume, Unanswered
<1> QED BY <1>1, <1>2, <1>3, <1>4, <1>5, Steps

(* The invariant is inductive.                                               *)
LEMMA UnderWayStep ==
  ASSUME Calm, UnderWay, [Next]_vars, ~overtaken'
  PROVE  UnderWay'
<1>0. /\ turn \in [Turns -> TurnRow] /\ nt \in Nat /\ nt' \in Nat /\ nt <= nt'
      /\ Turns \subseteq Nat \ {0}
  BY CalmTypes, ActiveStep
<1>1. \A t \in Turns : RowMove(t)
  BY OldRows, NewRows DEF RowMove
<1>2. ASSUME NEW t \in Turns, t <= nt'
      PROVE  turn'[t].state # "none"
  <2>1. CASE t \in nt + 1..nt'
    BY <2>1, NewRows DEF Rested
  <2>2. CASE t \notin nt + 1..nt'
    <3>1. turn[t].state # "none"
      BY <1>0, <1>2, <2>2 DEF UnderWay
    <3> QED BY <1>1, <3>1 DEF RowMove, Alike, Rested, Given, Recorded
  <2> QED BY <2>1, <2>2
<1>3. ASSUME Open', NEW t \in Turns, Unanswered(t)'
      PROVE  Decided(t)'
  <2>1. Open /\ turn'[t].receipt = "none"
    BY <1>3, OpenStays DEF Unanswered
  <2>2. CASE Rested(turn'[t])
    BY <2>1, <2>2 DEF Rested, Decided
  <2>3. CASE Given(t)
    BY <2>3 DEF Given, Decided
  <2>4. CASE Recorded(t)
    <3>1. Unanswered(t) /\ Decided(t)
      BY <2>1, <2>4 DEF Recorded, Unanswered, UnderWay
    <3>2. wf.active = t /\ lease = t
      BY <2>4, <3>1 DEF Recorded, Decided
    <3>3. wf' = wf /\ lease' = lease /\ dturn' = 0
      BY <2>4 DEF Recorded, EndTick, Idle
    <3> QED BY <1>0, <2>4, <3>2, <3>3 DEF Recorded, Decided
  <2>5. CASE Alike(turn[t], turn'[t])
    <3>1. Unanswered(t) /\ Decided(t)
      BY <2>1, <2>5 DEF Alike, Unanswered, UnderWay
    <3>2. CASE turn[t].state \in {"claimed", "sent"}
      <4>1. wf.active = t
        BY <3>1, <3>2 DEF Decided
      <4>2. Unadmitted
        BY <3>1, <3>2, <4>1 DEF Unadmitted, Unanswered, Pending
      <4>3. ~\E u \in Turns : Resume(u)
        BY <3>1, <4>1 DEF Resume, Unanswered
      <4>4. wf'.active = t
        BY <1>3, <4>1, <4>2, <4>3, OpenStays
      <4>5. dturn' # t \/ dturn = t
        BY <1>0, <3>2, TickTurnMoves
      <4>6. ASSUME turn[t].state = "sent"
            PROVE  lease' = t /\ dturn' # t
        <5>1. lease = t /\ dturn # t
          BY <3>1, <4>6 DEF Decided
        <5> QED BY <1>3, <2>5, <3>1, <3>2, <4>1, <4>5, <4>6, <5>1, SlotKept
      <4>7. ASSUME turn[t].state = "claimed", dpc' \in {"paste", "delivered"}, dturn' = t
            PROVE  lease' = t
        <5>1. CASE Slot /\ lease' = dturn /\ dturn' = dturn
          BY <4>7, <5>1
        <5>2. CASE dpc \in {"paste", "delivered"} /\ dturn' = dturn
          <6>1. lease = t
            BY <3>1, <4>7, <5>2 DEF Decided
          <6>2. ~PasteFailed
            BY <4>7 DEF PasteFailed
          <6> QED BY <1>3, <2>5, <3>1, <3>2, <4>1, <4>7, <6>1, <6>2, SlotKept
        <5> QED BY <4>7, <5>1, <5>2, TickTurnMoves
      <4> QED BY <2>5, <3>2, <4>4, <4>6, <4>7 DEF Decided, Alike
    <3>3. CASE turn[t].state \notin {"claimed", "sent"}
      BY <2>5, <3>1, <3>3 DEF Decided, Alike
    <3> QED BY <3>2, <3>3
  <2> QED BY <1>1, <1>3, <2>2, <2>3, <2>4, <2>5 DEF RowMove
<1> QED BY <1>2, <1>3 DEF UnderWay

LEMMA OrphanInit == Init => OrphanInv
<1> SUFFICES ASSUME Init PROVE OrphanInv
  OBVIOUS
<1>1. DeliverInv
  BY DeliverInit
<1>2. nt = 1 /\ 1 \in Turns /\ Turns \subseteq Nat \ {0}
  BY BoundAssumption DEF Init, Turns
<1>3. \A t \in Turns : turn[t] = IF t = 1 THEN Admitted("external_input") ELSE NoTurn
  BY DEF Init
<1>4. /\ Admitted("external_input").state = "sent" /\ Admitted("external_input").receipt = "consumed"
      /\ NoTurn.state = "none"
  BY DEF Admitted, NoTurn, NewTurn
<1>5. \A t \in Turns : t <= nt => t = 1
  BY <1>2
<1> HIDE DEF Init
<1> QED BY <1>1, <1>3, <1>4, <1>5 DEF OrphanInv, UnderWay, Unanswered, Decided

LEMMA OrphanStep ==
  ASSUME OrphanInv, [Next]_vars
  PROVE  OrphanInv'
<1>1. DeliverInv'
  BY DeliverStep DEF OrphanInv
<1>2. ASSUME ~overtaken'
      PROVE  UnderWay'
  <2>1. ~overtaken
    BY <1>2, PaneStep DEF PaneKept, OrphanInv, DeliverInv, OutcomeInv, NoticeInv
  <2> QED BY <1>2, <2>1, UnderWayStep DEF OrphanInv, DeliverInv, Calm
<1> QED BY <1>1, <1>2 DEF OrphanInv

(* Between two ticks a notice that waits for an open parent is in a turn     *)
(* that will be dispatched, made or rebuilt, or that was sent and a poll     *)
(* decides on: requeue_workflow_turn, mark_workflow_turn_sent and            *)
(* requeue_unadmitted_workflow_turns_for_restart leave no turn sent without  *)
(* the slot.  The exception are turns admitted, or rebuilt without it.       *)
THEOREM NoneOrphaned == Spec => []NoOrphan
<1>1. OrphanInv => NoOrphan
  <2> SUFFICES ASSUME OrphanInv, BetweenTicks, NEW n \in Notices, Waits(n)
               PROVE  CanDeliver(n) \/ Spent(n)
    BY DEF NoOrphan
  <2>1. Calm /\ UnderWay /\ Open
    BY DEF OrphanInv, DeliverInv, BetweenTicks, Calm
  <2> DEFINE c == inbox[n].of
             t == result[c].turn
  <2>2. c \in Child
    BY <2>1, CalmTypes DEF Waits
  <2>3. t \in 0..MaxTurns /\ t <= nt
    BY <2>1, <2>2, CalmTypes DEF Calm, Delivering, Onward
  <2>4. CASE t = 0
    BY <2>4 DEF CanDeliver
  <2>5. CASE t # 0
    <3>1. t \in Turns /\ turn[t] \in TurnRow /\ turn[t].state # "none"
      BY <2>1, <2>3, <2>5, CalmTypes DEF UnderWay
    <3>2. CASE turn[t].receipt # "none"
      BY <2>5, <3>2 DEF Spent
    <3>3. CASE turn[t].receipt = "none"
      <4>1. Decided(t)
        BY <2>1, <3>1, <3>3 DEF UnderWay, Unanswered
      <4>2. turn[t].state \in {"queued", "claimed", "sent", "cancelled"}
        BY <3>1, <4>1 DEF TurnRow, Decided
      <4>3. lease = t \/ turn[t].state \in Pending \/ turn[t].retired
        BY <4>1, <4>2 DEF Decided, Pending
      <4> QED BY <2>5, <4>3 DEF CanDeliver, Spent
    <3> QED BY <3>2, <3>3
  <2> QED BY <2>4, <2>5
<1> QED BY <1>1, OrphanInit, OrphanStep, PTL DEF Spec

=============================================================================
