---------------------------- MODULE CanvasProofs ----------------------------
(* Proofs about the undo history of the canvas, for every limit, every       *)
(* topology and every set of names, ports and folds.                         *)
EXTENDS Canvas, SequenceTheorems, FiniteSetTheorems, WellFoundedInduction, TLAPS

\* A list, whatever is in it.
IsList(s) == \E S : s \in Seq(S)

\* The inductive invariant: the stacks are lists, and bounded together.
HistoryOK == IsList(past) /\ IsList(future) /\ HistoryBounded

\* The length of a list is a number.
LEMMA LenOfList ==
  ASSUME NEW s, IsList(s)
  PROVE  Len(s) \in Nat
  BY DEF IsList

\* A list stays one, and grows by one, when something is appended.
LEMMA AppendToList ==
  ASSUME NEW s, IsList(s), NEW x
  PROVE  /\ IsList(Append(s, x)) /\ Len(Append(s, x)) = Len(s) + 1
         /\ \A k \in 1..Len(s) : Append(s, x)[k] = s[k]
         /\ Append(s, x)[Len(s) + 1] = x
<1>1. PICK S : s \in Seq(S)
  BY DEF IsList
<1>2. s \in Seq(S \cup {x}) /\ x \in S \cup {x}
  BY <1>1
<1>3. /\ Append(s, x) \in Seq(S \cup {x}) /\ Len(Append(s, x)) = Len(s) + 1
      /\ \A k \in 1..Len(s) : Append(s, x)[k] = s[k]
      /\ Append(s, x)[Len(s) + 1] = x
  BY <1>2, AppendProperties
<1> QED
  BY <1>3 DEF IsList

\* What pushSnapshot makes of a stack within the limit is within the limit.
LEMMA PushedBounded ==
  ASSUME NEW s, IsList(s), Len(s) <= Limit
  PROVE  IsList(Pushed(s)) /\ Len(Pushed(s)) <= Limit
<1>1. IsList(Append(s, shown)) /\ Len(Append(s, shown)) = Len(s) + 1 /\ Len(s) \in Nat
  BY AppendToList, LenOfList
<1>2. CASE Len(s) < Limit
  BY <1>1, <1>2, HistoryAssumption DEF Pushed
<1>3. CASE ~(Len(s) < Limit)
  <2>1. Pushed(s) = Tail(Append(s, shown))
    BY <1>3 DEF Pushed
  <2>2. PICK S : Append(s, shown) \in Seq(S)
    BY <1>1 DEF IsList
  <2>3. Append(s, shown) # <<>>
    BY <1>1, <2>2
  <2>4. Tail(Append(s, shown)) \in Seq(S) /\ Len(Tail(Append(s, shown))) = Len(s)
    BY <1>1, <2>2, <2>3
  <2> QED
    BY <2>1, <2>4 DEF IsList
<1> QED
  BY <1>2, <1>3

\* pushSnapshot keeps the bound: the stack it lengthens is limited and the
\* other one is emptied.
LEMMA SnapshotsKeepOK ==
  ASSUME HistoryOK, NEW n, PushSnapshots(n)
  PROVE  HistoryOK'
<1>1. IsList(past) /\ Len(past) <= Limit
  BY HistoryAssumption DEF HistoryOK, HistoryBounded, IsList
<1>2. IsList(Pushed(past)) /\ Len(Pushed(past)) <= Limit
  BY <1>1, PushedBounded
<1>3. IsList(Pushed(Pushed(past))) /\ Len(Pushed(Pushed(past))) <= Limit
  BY <1>2, PushedBounded
<1>4. IsList(past') /\ Len(past') <= Limit /\ future' = <<>>
  BY <1>2, <1>3 DEF PushSnapshots
<1>5. IsList(future') /\ Len(future') = 0
  <2>1. <<>> \in Seq({})
    OBVIOUS
  <2> QED
    BY <1>4, <2>1 DEF IsList
<1>6. Len(past') \in Nat
  BY <1>4 DEF IsList
<1> QED
  BY <1>4, <1>5, <1>6, HistoryAssumption DEF HistoryOK, HistoryBounded

\* The top of a stack taken off.
LEMMA PopFromList ==
  ASSUME NEW s, IsList(s), s # <<>>
  PROVE  /\ Len(s) \in Nat \ {0}
         /\ IsList(SubSeq(s, 1, Len(s) - 1))
         /\ Len(SubSeq(s, 1, Len(s) - 1)) = Len(s) - 1
         /\ \A k \in 1..(Len(s) - 1) : SubSeq(s, 1, Len(s) - 1)[k] = s[k]
<1>1. PICK S : s \in Seq(S)
  BY DEF IsList
<1>2. Len(s) \in Nat \ {0}
  BY <1>1
<1>3. \A k \in 1..(Len(s) - 1) : s[k] \in S
  BY <1>1, <1>2
<1>4. /\ SubSeq(s, 1, Len(s) - 1) \in Seq(S) /\ Len(SubSeq(s, 1, Len(s) - 1)) = Len(s) - 1
      /\ \A k \in 1..(Len(s) - 1) : SubSeq(s, 1, Len(s) - 1)[k] = s[k]
  <2>1. /\ SubSeq(s, 1, Len(s) - 1) \in Seq(S)
        /\ Len(SubSeq(s, 1, Len(s) - 1)) =
             IF 1 <= Len(s) - 1 THEN Len(s) - 1 - 1 + 1 ELSE 0
        /\ \A k \in 1..(Len(s) - 1 - 1 + 1) : SubSeq(s, 1, Len(s) - 1)[k] = s[1 + k - 1]
    <3>1. 1 \in Int /\ Len(s) - 1 \in Int
      BY <1>2
    <3> QED
      BY <1>3, <3>1, SubSeqProperties
  <2>2. ASSUME NEW n \in Nat \ {0}
        PROVE  /\ n - 1 = IF 1 <= n - 1 THEN n - 1 - 1 + 1 ELSE 0
               /\ n - 1 - 1 + 1 = n - 1
               /\ \A k \in 1..(n - 1) : 1 + k - 1 = k
    OBVIOUS
  <2>3. /\ Len(s) - 1 = IF 1 <= Len(s) - 1 THEN Len(s) - 1 - 1 + 1 ELSE 0
        /\ Len(s) - 1 - 1 + 1 = Len(s) - 1
        /\ \A k \in 1..(Len(s) - 1) : 1 + k - 1 = k
    BY <1>2, <2>2, Zenon
  <2> QED
    BY <2>1, <2>3, Zenon
<1> QED
  BY <1>2, <1>4 DEF IsList

\* undo and redo move one snapshot from stack to stack.
LEMMA MoveKeepsOK ==
  ASSUME HistoryOK, undo \/ redo
  PROVE  HistoryOK'
<1>1. IsList(past) /\ IsList(future) /\ Len(past) + Len(future) <= Limit
  BY DEF HistoryOK, HistoryBounded
<1>2. Len(past) \in Nat /\ Len(future) \in Nat
  BY <1>1 DEF IsList
<1>3. CASE undo
  <2>1. IsList(past') /\ Len(past') = Len(past) - 1
    BY <1>1, <1>3, PopFromList DEF undo
  <2>2. IsList(future') /\ Len(future') = Len(future) + 1
    BY <1>1, <1>3, AppendToList DEF undo
  <2> QED
    BY <1>1, <1>2, <2>1, <2>2, HistoryAssumption DEF HistoryOK, HistoryBounded
<1>4. CASE redo
  <2>1. IsList(future') /\ Len(future') = Len(future) - 1
    BY <1>1, <1>4, PopFromList DEF redo
  <2>2. IsList(past') /\ Len(past') = Len(past) + 1
    BY <1>1, <1>4, AppendToList DEF redo
  <2> QED
    BY <1>1, <1>2, <2>1, <2>2, HistoryAssumption DEF HistoryOK, HistoryBounded
<1> QED
  BY <1>3, <1>4

\* Of the history, a step takes snapshots, undoes, redoes, or leaves the stacks.
LEMMA StepsOfTheHistory ==
  ASSUME Next
  PROVE  \/ \E n \in {1, 2} : PushSnapshots(n)
         \/ undo \/ redo
         \/ UNCHANGED <<past, future>>
<1>1. CASE Connect \/ ConnectGrow \/ Reconnect \/ SetEdgeKind \/ Drop \/ DragNode
  BY <1>1 DEF Connect, ConnectGrow, Reconnect, SetEdgeKind, Drop, DragNode, PushSnapshot
<1>2. CASE Delete
  <2>1. PICK ns \in SUBSET Ids(shown.nodes), es \in SUBSET shown.edges :
          \E n \in {1, 2} : PushSnapshots(n)
    BY <1>2 DEF Delete
  <2> QED
    BY <2>1
<1>3. CASE DragFold \/ FoldSelection \/ ToggleFold \/ \E n, x \in Name : Rename(n, x)
  BY <1>3 DEF DragFold, FoldSelection, ToggleFold, Rename, PushSnapshot
<1>4. CASE Undo \/ Redo
  BY <1>4 DEF Undo, Redo
<1>5. CASE DeleteFold \/ Save \/ Load \/ ViewLoad \/ CancelEdit
  BY <1>5 DEF DeleteFold, Save, Load, ViewLoad, CancelEdit, historyVars
<1> QED
  BY <1>1, <1>2, <1>3, <1>4, <1>5 DEF Next, FoldGesture

\* The inductive invariant holds throughout.
THEOREM HistoryAlwaysOK == Spec => []HistoryOK
<1>1. Init => HistoryOK
  <2>1. <<>> \in Seq({})
    OBVIOUS
  <2> QED
    BY <2>1, HistoryAssumption DEF Init, HistoryOK, HistoryBounded, IsList
<1>2. HistoryOK /\ [Next]_vars => HistoryOK'
  <2> SUFFICES ASSUME HistoryOK, [Next]_vars PROVE HistoryOK'
    OBVIOUS
  <2>1. CASE UNCHANGED <<past, future>>
    BY <2>1 DEF HistoryOK, HistoryBounded, IsList
  <2>2. CASE undo \/ redo
    BY <2>2, MoveKeepsOK
  <2>3. CASE \E n \in {1, 2} : PushSnapshots(n)
    BY <2>3, SnapshotsKeepOK
  <2>4. CASE UNCHANGED vars
    BY <2>1, <2>4 DEF vars, historyVars
  <2> QED
    BY <2>1, <2>2, <2>3, <2>4, StepsOfTheHistory
<1> QED
  BY <1>1, <1>2, PTL DEF Spec

\* history.ts: the undo and redo stacks together never exceed HISTORY_LIMIT,
\* although redo pushes without looking at it.
THEOREM HistoryStaysBounded == Spec => []HistoryBounded
<1>1. HistoryOK => HistoryBounded
  BY DEF HistoryOK
<1> QED
  BY <1>1, HistoryAlwaysOK, PTL

\* Undo puts the canvas at the bottom of what redo brings back: the timeline
\* from the oldest snapshot to the newest is as before.
LEMMA UndoMoves ==
  ASSUME IsList(past), IsList(future), undo
  PROVE  Timeline' = Timeline
<1> DEFINE p == Len(past)
           f == Len(future)
<1>1. p \in Nat \ {0} /\ f \in Nat
  BY PopFromList, LenOfList DEF undo
<1>2. Len(past') = p - 1 /\ \A k \in 1..(p - 1) : past'[k] = past[k]
  BY PopFromList DEF undo
<1>3. /\ Len(future') = f + 1 /\ future'[f + 1] = shown
      /\ \A k \in 1..f : future'[k] = future[k]
  BY AppendToList DEF undo
<1>4. shown' = past[p]
  BY DEF undo
<1> HIDE DEF p, f
<1>5. Timeline' = [k \in 1..(p + 1 + f) |->
                     IF k <= p - 1 THEN past'[k] ELSE IF k = p THEN shown'
                     ELSE future'[p + f + 2 - k]]
  <2>1. (p - 1) + 1 + (f + 1) = p + 1 + f /\ (p - 1) + 1 = p
    BY <1>1
  <2>2. \A k \in 1..(p + 1 + f) : (p - 1) + 1 + (f + 1) - k + 1 = p + f + 2 - k
    BY <1>1
  <2> QED
    BY <1>2, <1>3, <2>1, <2>2 DEF Timeline
<1>6. Timeline = [k \in 1..(p + 1 + f) |->
                    IF k <= p THEN past[k] ELSE IF k = p + 1 THEN shown
                    ELSE future[p + 1 + f - k + 1]]
  BY DEF Timeline, p, f
<1>7. ASSUME NEW k \in 1..(p + 1 + f)
      PROVE  (IF k <= p - 1 THEN past'[k] ELSE IF k = p THEN shown' ELSE future'[p + f + 2 - k])
           = (IF k <= p THEN past[k] ELSE IF k = p + 1 THEN shown ELSE future[p + 1 + f - k + 1])
  <2>1. CASE k <= p - 1
    BY <1>1, <1>2, <2>1
  <2>2. CASE k = p
    BY <1>1, <1>4, <2>2
  <2>3. CASE k = p + 1
    BY <1>1, <1>3, <2>3
  <2>4. CASE k > p + 1
    BY <1>1, <1>3, <2>4
  <2> QED
    BY <1>1, <2>1, <2>2, <2>3, <2>4
<1> QED
  BY <1>5, <1>6, <1>7, Zenon

\* Redo is the way back.
LEMMA RedoMoves ==
  ASSUME IsList(past), IsList(future), redo
  PROVE  Timeline' = Timeline
<1> DEFINE p == Len(past)
           f == Len(future)
<1>1. f \in Nat \ {0} /\ p \in Nat
  BY PopFromList, LenOfList DEF redo
<1>2. Len(future') = f - 1 /\ \A k \in 1..(f - 1) : future'[k] = future[k]
  BY PopFromList DEF redo
<1>3. /\ Len(past') = p + 1 /\ past'[p + 1] = shown
      /\ \A k \in 1..p : past'[k] = past[k]
  BY AppendToList DEF redo
<1>4. shown' = future[f]
  BY DEF redo
<1> HIDE DEF p, f
<1>5. Timeline' = [k \in 1..(p + 1 + f) |->
                     IF k <= p + 1 THEN past'[k] ELSE IF k = p + 2 THEN shown'
                     ELSE future'[p + f + 2 - k]]
  <2>1. (p + 1) + 1 + (f - 1) = p + 1 + f /\ (p + 1) + 1 = p + 2
    BY <1>1
  <2>2. \A k \in 1..(p + 1 + f) : (p + 1) + 1 + (f - 1) - k + 1 = p + f + 2 - k
    BY <1>1
  <2> QED
    BY <1>2, <1>3, <2>1, <2>2 DEF Timeline
<1>6. Timeline = [k \in 1..(p + 1 + f) |->
                    IF k <= p THEN past[k] ELSE IF k = p + 1 THEN shown
                    ELSE future[p + 1 + f - k + 1]]
  BY DEF Timeline, p, f
<1>7. ASSUME NEW k \in 1..(p + 1 + f)
      PROVE  (IF k <= p + 1 THEN past'[k] ELSE IF k = p + 2 THEN shown' ELSE future'[p + f + 2 - k])
           = (IF k <= p THEN past[k] ELSE IF k = p + 1 THEN shown ELSE future[p + 1 + f - k + 1])
  <2>1. CASE k <= p
    BY <1>1, <1>3, <2>1
  <2>2. CASE k = p + 1
    BY <1>1, <1>3, <2>2
  <2>3. CASE k = p + 2
    BY <1>1, <1>4, <2>3
  <2>4. CASE k > p + 2
    BY <1>1, <1>2, <2>4
  <2> QED
    BY <1>1, <2>1, <2>2, <2>3, <2>4
<1> QED
  BY <1>5, <1>6, <1>7, Zenon

\* However gestures, saves, loads, undo and redo alternate, undo and redo lose
\* nothing of the timeline.
THEOREM UndoLosesNothing == Spec => TimelineKept
<1>1. HistoryOK => [undo \/ redo => Timeline' = Timeline]_historyVars
  BY UndoMoves, RedoMoves DEF HistoryOK
<1> QED
  BY <1>1, HistoryAlwaysOK, PTL DEF TimelineKept

-----------------------------------------------------------------------------
(* What is on the canvas. *)

\* A set of numbers that is not empty has a least one.
LEMMA LeastNumber ==
  ASSUME NEW T \in SUBSET Nat, T # {}
  PROVE  \E n \in T : \A m \in T : n <= m
<1> DEFINE R == OpToRel(<, Nat)
<1>1. \A m, n \in Nat : <<m, n>> \in R <=> m < n
  BY DEF OpToRel
<1>2. IsWellFoundedOn(R, Nat)
  BY NatLessThanWellFounded
<1> HIDE DEF R
<1>3. PICK x \in T : \A y \in T : ~ (<<y, x>> \in R)
  BY <1>2, WFMin
<1>4. ASSUME NEW y \in T PROVE x <= y
  <2>1. x \in Nat /\ y \in Nat /\ ~ (y < x)
    BY <1>1, <1>3
  <2> QED
    BY <2>1
<1> QED
  BY <1>4

\* There is a free number among one more than are in use, so FirstFree finds one
\* (_on-connect.ts: the loop that counts up while the id is taken).
LEMMA FreeIsFree ==
  ASSUME NEW used, IsFiniteSet(used), NEW base
  PROVE  /\ FirstFree(used, base) \notin used
         /\ FirstFree(used, base) \in [base : {base}, n : Nat]
<1> DEFINE N == Cardinality(used) + 1
           At(k) == [base |-> base, n |-> k]
           T == {k \in 1..N : At(k) \notin used}
<1>1. Cardinality(used) \in Nat /\ N \in Nat \ {0} /\ ~ (N <= Cardinality(used))
  BY FS_CardinalityType
<1>2. IsFiniteSet(1..N) /\ Cardinality(1..N) = N
  <2>1. 1 \in Int /\ N \in Int /\ ~ (1 > N) /\ N - 1 + 1 = N
    BY <1>1
  <2> QED
    BY <2>1, FS_Interval
<1>3. T # {}
  <2> SUFFICES ASSUME \A k \in 1..N : At(k) \in used PROVE FALSE
    OBVIOUS
  <2> DEFINE f == [k \in 1..N |-> At(k)]
  <2>1. f \in Injection(1..N, used)
    BY DEF Injection, IsInjective
  <2> HIDE DEF f
  <2>2. Cardinality(1..N) <= Cardinality(used)
    BY <2>1, FS_Injection
  <2> QED
    BY <1>1, <1>2, <2>2
<1>4. T \in SUBSET Nat
  BY <1>1
<1>5. PICK k \in T : \A m \in T : k <= m
  BY <1>3, <1>4, LeastNumber
<1>6. /\ At(k) \in [base : {base}, n : 1..N]
      /\ At(k) \notin used
      /\ \A j \in 1..(At(k).n - 1) : [At(k) EXCEPT !.n = j] \in used
  <2>1. k \in 1..N /\ At(k) \notin used
    BY <1>5
  <2>2. ASSUME NEW j \in 1..(k - 1) PROVE At(j) \in used
    <3>1. j \in 1..N /\ ~ (k <= j)
      BY <1>1, <2>1
    <3> QED
      BY <1>5, <3>1
  <2> QED
    BY <2>1, <2>2
<1>7. /\ FirstFree(used, base) \in [base : {base}, n : 1..N]
      /\ FirstFree(used, base) \notin used
  BY <1>6 DEF FirstFree
<1>8. 1..N \subseteq Nat
  BY <1>1
<1> QED
  BY <1>7, <1>8

\* An edge of a canvas hangs together: what it has of nodes is there, and where it
\* ends at a node its handle is the one in its data.
Hangs(c, e) ==
  /\ e.source \in Name => e.source \in Ids(c.nodes) /\ e.sh = e.data.sh
  /\ e.target \in Name => /\ e.th = e.data.th
                          /\ \E n \in c.nodes : n.id = e.target /\ e.th \in n.inputs
  /\ Whole(c) => e.sh # None /\ e.th # None

\* Two edges are told apart, and share no label or input port that no file shares.
Compatible(d, e) ==
  d # e =>
    /\ d.id # e.id
    /\ d.data.label = e.data.label => e.data.label \in SharedLabel
    /\ d.target \in Name /\ <<d.target, d.th>> = <<e.target, e.th>> =>
         <<e.target, e.th>> \in SharedPort

\* What every canvas is like.
Good(c) ==
  /\ c \in CanvasSet /\ IsFiniteSet(c.edges)
  /\ \A n \in c.nodes : InPort \subseteq n.inputs
  /\ \A m, n \in c.nodes : m.id = n.id => m = n
  /\ \A e \in c.edges : Hangs(c, e)
  /\ \A d, e \in c.edges : Compatible(d, e)

GoodCanvases == {c \in CanvasSet : Good(c)}

\* The image of a finite set is finite.
LEMMA FiniteImage ==
  ASSUME NEW S, IsFiniteSet(S), NEW f, f = [x \in S |-> f[x]]
  PROVE  IsFiniteSet({f[x] : x \in S})
<1> DEFINE T == {f[x] : x \in S}
<1>1. f \in Surjection(S, T)
  BY DEF Surjection
<1> HIDE DEF T
<1>2. IsFiniteSet(T)
  BY <1>1, FS_Surjection
<1> QED
  BY <1>2 DEF T

\* The nodes, folds and edges that specToFlow makes of those of a spec.
DrawnNode(n) == [n EXCEPT !.inputs = IF @ = None THEN InPort ELSE @]
DrawnEdge(fs, e) ==
  [id |-> e.id, source |-> DrawnAt(fs, e.source), target |-> DrawnAt(fs, e.target),
   sh |-> IF HiddenIn(fs, e.source) = {} THEN e.sh ELSE None,
   th |-> IF HiddenIn(fs, e.target) = {} THEN e.th ELSE None,
   data |-> [sh |-> e.sh, th |-> e.th, kind |-> e.kind, label |-> e.label]]

\* A node is drawn as itself, with the ports it has.
LEMMA NodeDrawn ==
  ASSUME NEW n \in [id : Name, inputs : (SUBSET Ports) \cup {None}]
  PROVE  /\ DrawnNode(n) \in [id : Name, inputs : SUBSET Ports]
         /\ DrawnNode(n).id = n.id /\ DrawnNode(n).inputs = InputsOf(n)
<1>1. PICK i, p : i \in Name /\ p \in (SUBSET Ports) \cup {None} /\ n = [id |-> i, inputs |-> p]
  OBVIOUS
<1>2. InPort \in SUBSET Ports
  BY DEF Ports
<1>3. CASE p = None
  <2>1. DrawnNode(n) = [id |-> i, inputs |-> InPort] /\ InputsOf(n) = InPort
    BY <1>1, <1>3 DEF DrawnNode, InputsOf
  <2> QED
    BY <1>1, <1>2, <2>1
<1>4. CASE p # None
  <2>1. DrawnNode(n) = [id |-> i, inputs |-> p] /\ InputsOf(n) = p
    BY <1>1, <1>4 DEF DrawnNode, InputsOf
  <2> QED
    BY <1>1, <1>4, <2>1
<1> QED
  BY <1>3, <1>4

\* An end is drawn at itself, or at a fold that hides it.
LEMMA EndDrawn ==
  ASSUME NEW fs \in SUBSET Folds, NEW m \in Ends
  PROVE  /\ HiddenIn(fs, m) \subseteq FoldName
         /\ DrawnAt(fs, m) \in Ends
         /\ HiddenIn(fs, m) = {} => DrawnAt(fs, m) = m
         /\ DrawnAt(fs, m) \in Name => HiddenIn(fs, m) = {}
<1>1. HiddenIn(fs, m) \subseteq FoldName
  BY DEF HiddenIn, Folds
<1>2. CASE HiddenIn(fs, m) = {}
  BY <1>1, <1>2 DEF DrawnAt
<1>3. CASE HiddenIn(fs, m) # {}
  <2>1. DrawnAt(fs, m) \in HiddenIn(fs, m)
    BY <1>3 DEF DrawnAt
  <2> QED
    BY <1>1, <1>3, <2>1, CanvasAssumption DEF Ends
<1> QED
  BY <1>2, <1>3

\* An edge of a spec as it is drawn.
LEMMA EdgeDrawn ==
  ASSUME NEW s \in Specs, NEW fs \in SUBSET Folds, NEW x \in s.edges
  PROVE  DrawnEdge(fs, x) \in
           [id : Ids0, source : Ends, target : Ends,
            sh : OutPort \cup {None}, th : Ports \cup {None},
            data : [sh : OutPort, th : Ports, kind : Kind, label : Ids0]]
<1>1. x \in [id : Ids0, source : Ends, sh : OutPort, target : Ends, th : Ports,
             kind : Kind, label : Ids0]
  BY DEF Specs
<1>2. DrawnAt(fs, x.source) \in Ends /\ DrawnAt(fs, x.target) \in Ends
  BY <1>1, EndDrawn
<1>3. [sh |-> x.sh, th |-> x.th, kind |-> x.kind, label |-> x.label]
        \in [sh : OutPort, th : Ports, kind : Kind, label : Ids0]
  BY <1>1
<1>4. /\ (IF HiddenIn(fs, x.source) = {} THEN x.sh ELSE None) \in OutPort \cup {None}
      /\ (IF HiddenIn(fs, x.target) = {} THEN x.th ELSE None) \in Ports \cup {None}
  BY <1>1
<1>5. x.id \in Ids0
  BY <1>1
<1> HIDE DEF Ends, Ports, Ids0
<1> QED
  BY <1>2, <1>3, <1>4, <1>5 DEF DrawnEdge

\* The canvas of a spec, from the nodes and edges it draws.
LEMMA FlowOf ==
  ASSUME NEW s, NEW fs
  PROVE  /\ specToFlow(s, fs) =
              [nodes |-> {DrawnNode(n) : n \in {x \in s.nodes : HiddenIn(fs, x.id) = {}}},
               folds |-> {[id |-> f.id, collapsed |-> f.collapsed] : f \in fs},
               edges |-> specToFlow(s, fs).edges]
         /\ \A n \in s.nodes : HiddenIn(fs, n.id) = {} => DrawnNode(n) \in specToFlow(s, fs).nodes
         /\ \A n \in specToFlow(s, fs).nodes :
              \E x \in s.nodes : n = DrawnNode(x)
         /\ \A e \in specToFlow(s, fs).edges :
              \E x \in s.edges : e = DrawnEdge(fs, x)
  BY DEF specToFlow, DrawnNode, DrawnEdge

\* Where no fold is collapsed, none hides anything.
LEMMA WholeHidesNothing ==
  ASSUME NEW s, NEW fs, Whole(specToFlow(s, fs)), NEW m, fs \subseteq Folds
  PROVE  HiddenIn(fs, m) = {}
<1>1. specToFlow(s, fs).folds = {[id |-> f.id, collapsed |-> f.collapsed] : f \in fs}
  BY DEF specToFlow
<1>2. ASSUME NEW f \in fs PROVE ~ f.collapsed
  <2> DEFINE r == [id |-> f.id, collapsed |-> f.collapsed]
  <2>1. r \in specToFlow(s, fs).folds
    BY <1>1
  <2>2. ~ r.collapsed
    BY <2>1 DEF Whole
  <2>3. r.collapsed = f.collapsed
    OBVIOUS
  <2> HIDE DEF r
  <2> QED
    BY <2>2, <2>3, Zenon
<1> QED
  BY <1>2 DEF HiddenIn

\* The edges drawn are finitely many.
LEMMA DrawnFinite ==
  ASSUME NEW s \in Specs, IsFiniteSet(s.edges), NEW fs
  PROVE  IsFiniteSet(specToFlow(s, fs).edges)
<1> DEFINE f == [x \in s.edges |-> DrawnEdge(fs, x)]
<1>1. IsFiniteSet({f[x] : x \in s.edges})
  <2>1. f = [x \in s.edges |-> f[x]]
    OBVIOUS
  <2> HIDE DEF f
  <2> QED
    BY <2>1, FiniteImage
<1>2. specToFlow(s, fs).edges \in SUBSET {f[x] : x \in s.edges}
  BY FlowOf
<1> HIDE DEF f
<1> QED
  BY <1>1, <1>2, FS_Subset

\* An edge that specToFlow draws hangs together with what else it draws.
LEMMA DrawnHangs ==
  ASSUME NEW s, IsSpec(s), NEW fs \in SUBSET Folds, NEW e \in specToFlow(s, fs).edges
  PROVE  Hangs(specToFlow(s, fs), e)
<1> DEFINE c == specToFlow(s, fs)
<1>1. PICK x \in s.edges : e = DrawnEdge(fs, x)
  BY FlowOf
<1>2. /\ s \in Specs
      /\ x.source \in Name => x.source \in Ids(s.nodes)
      /\ x.target \in Name => \E n \in s.nodes : n.id = x.target /\ x.th \in InputsOf(n)
  BY DEF IsSpec
<1>3. /\ x.source \in Ends /\ x.target \in Ends /\ x.sh \in OutPort /\ x.th \in Ports
      /\ x.sh # None /\ x.th # None
  BY <1>2, CanvasAssumption DEF Specs
<1>4. /\ e.source = DrawnAt(fs, x.source) /\ e.target = DrawnAt(fs, x.target)
      /\ e.sh = IF HiddenIn(fs, x.source) = {} THEN x.sh ELSE None
      /\ e.th = IF HiddenIn(fs, x.target) = {} THEN x.th ELSE None
      /\ e.data.sh = x.sh /\ e.data.th = x.th
  BY <1>1 DEF DrawnEdge
<1>5. \A n \in s.nodes : n \in [id : Name, inputs : (SUBSET Ports) \cup {None}]
  BY <1>2 DEF Specs
<1>6. ASSUME e.source \in Name
      PROVE  e.source \in Ids(c.nodes) /\ e.sh = e.data.sh
  <2>1. HiddenIn(fs, x.source) = {} /\ e.source = x.source
    BY <1>3, <1>4, <1>6, EndDrawn
  <2>2. PICK n \in s.nodes : n.id = x.source
    BY <1>2, <1>6, <2>1 DEF Ids
  <2>3. DrawnNode(n) \in c.nodes
    BY <2>1, <2>2, FlowOf
  <2>4. DrawnNode(n).id = n.id
    BY <1>5, NodeDrawn
  <2> QED
    BY <1>4, <2>1, <2>2, <2>3, <2>4 DEF Ids
<1>7. ASSUME e.target \in Name
      PROVE  e.th = e.data.th /\ \E n \in c.nodes : n.id = e.target /\ e.th \in n.inputs
  <2>1. HiddenIn(fs, x.target) = {} /\ e.target = x.target
    BY <1>3, <1>4, <1>7, EndDrawn
  <2>2. PICK n \in s.nodes : n.id = x.target /\ x.th \in InputsOf(n)
    BY <1>2, <1>7, <2>1
  <2>3. DrawnNode(n) \in c.nodes
    BY <2>1, <2>2, FlowOf
  <2>4. DrawnNode(n).id = n.id /\ DrawnNode(n).inputs = InputsOf(n)
    BY <1>5, NodeDrawn
  <2> QED
    BY <1>4, <2>1, <2>2, <2>3, <2>4
<1>8. ASSUME Whole(c) PROVE e.sh # None /\ e.th # None
  <2>1. HiddenIn(fs, x.source) = {} /\ HiddenIn(fs, x.target) = {}
    BY <1>8, WholeHidesNothing
  <2> QED
    BY <1>3, <1>4, <2>1
<1> QED
  BY <1>6, <1>7, <1>8 DEF Hangs

\* Whatever a spec and folds are, the canvas drawn of them is as it should be.
LEMMA DrawnIsGood ==
  ASSUME NEW s, IsSpec(s), NEW fs \in SUBSET Folds
  PROVE  specToFlow(s, fs) \in GoodCanvases
<1> DEFINE c == specToFlow(s, fs)
<1>1. /\ s \in Specs /\ IsFiniteSet(s.edges)
      /\ \A n \in s.nodes : InPort \subseteq InputsOf(n)
      /\ \A m, n \in s.nodes : m.id = n.id => m = n
      /\ \A d, e \in s.edges : d # e =>
           /\ d.id # e.id
           /\ d.label = e.label => e.label \in SharedLabel
           /\ d.target \in Name /\ <<d.target, d.th>> = <<e.target, e.th>> =>
                <<e.target, e.th>> \in SharedPort
  BY DEF IsSpec
<1>2. \A n \in s.nodes : n \in [id : Name, inputs : (SUBSET Ports) \cup {None}]
  BY <1>1 DEF Specs
<1>3. \A n \in s.nodes : /\ DrawnNode(n) \in [id : Name, inputs : SUBSET Ports]
                         /\ DrawnNode(n).id = n.id /\ DrawnNode(n).inputs = InputsOf(n)
  BY <1>2, NodeDrawn
<1>4. c \in CanvasSet
  <2>1. c.nodes \in SUBSET [id : Name, inputs : SUBSET Ports]
    BY <1>3, FlowOf
  <2>2. c.edges \in SUBSET [id : Ids0, source : Ends, target : Ends,
                            sh : OutPort \cup {None}, th : Ports \cup {None},
                            data : [sh : OutPort, th : Ports, kind : Kind, label : Ids0]]
    BY <1>1, FlowOf, EdgeDrawn
  <2>3. c.folds \in SUBSET [id : FoldName, collapsed : BOOLEAN]
    <3>1. ASSUME NEW f \in fs
          PROVE  [id |-> f.id, collapsed |-> f.collapsed] \in [id : FoldName, collapsed : BOOLEAN]
      <4>1. f \in [id : FoldName, members : SUBSET Ends, collapsed : BOOLEAN]
        BY DEF Folds
      <4>2. f.id \in FoldName /\ f.collapsed \in BOOLEAN
        BY <4>1
      <4> QED
        BY <4>2
    <3>2. c.folds = {[id |-> f.id, collapsed |-> f.collapsed] : f \in fs}
      BY DEF specToFlow
    <3> HIDE DEF c
    <3> QED
      BY <3>1, <3>2
  <2>4. c = [nodes |-> c.nodes, folds |-> c.folds, edges |-> c.edges]
    <3>1. PICK N, F, E : c = [nodes |-> N, folds |-> F, edges |-> E]
      BY DEF specToFlow
    <3> HIDE DEF c
    <3> QED
      BY <3>1
  <2> HIDE DEF c
  <2> QED
    BY <2>1, <2>2, <2>3, <2>4 DEF CanvasSet
<1>5. IsFiniteSet(c.edges)
  BY <1>1, DrawnFinite
<1>6. ASSUME NEW n \in c.nodes PROVE InPort \subseteq n.inputs
  BY <1>1, <1>3, FlowOf
<1>7. ASSUME NEW m \in c.nodes, NEW n \in c.nodes, m.id = n.id PROVE m = n
  <2>1. PICK x \in s.nodes : m = DrawnNode(x)
    BY FlowOf
  <2>2. PICK y \in s.nodes : n = DrawnNode(y)
    BY FlowOf
  <2> QED
    BY <1>1, <1>3, <1>7, <2>1, <2>2
<1>8. \A e \in c.edges : Hangs(c, e)
  BY DrawnHangs
<1>9. ASSUME NEW d \in c.edges, NEW e \in c.edges PROVE Compatible(d, e)
  <2>1. PICK x \in s.edges : d = DrawnEdge(fs, x)
    BY FlowOf
  <2>2. PICK y \in s.edges : e = DrawnEdge(fs, y)
    BY FlowOf
  <2>3. x.target \in Ends /\ y.target \in Ends
    BY <1>1 DEF Specs
  <2>4. /\ d.id = x.id /\ d.data.label = x.label /\ d.target = DrawnAt(fs, x.target)
        /\ d.th = IF HiddenIn(fs, x.target) = {} THEN x.th ELSE None
        /\ e.id = y.id /\ e.data.label = y.label /\ e.target = DrawnAt(fs, y.target)
        /\ e.th = IF HiddenIn(fs, y.target) = {} THEN y.th ELSE None
    BY <2>1, <2>2 DEF DrawnEdge
  <2>5. d # e => d.id # e.id /\ (d.data.label = e.data.label => e.data.label \in SharedLabel)
    BY <1>1, <2>1, <2>2, <2>4
  <2>6. d # e /\ d.target \in Name /\ d.target = e.target /\ d.th = e.th =>
          <<e.target, e.th>> \in SharedPort
    <3> SUFFICES ASSUME x # y, d.target \in Name, d.target = e.target, d.th = e.th
                 PROVE  <<e.target, e.th>> \in SharedPort
      BY <2>1, <2>2
    <3>1. HiddenIn(fs, x.target) = {} /\ d.target = x.target
      BY <2>3, <2>4, EndDrawn
    <3>2. HiddenIn(fs, y.target) = {} /\ e.target = y.target
      BY <2>3, <2>4, EndDrawn
    <3>3. x.target \in Name /\ x.target = y.target /\ x.th = y.th /\ y.target = e.target /\ y.th = e.th
      BY <2>4, <3>1, <3>2
    <3> QED
      BY <1>1, <3>3
  <2> QED
    BY <2>5, <2>6 DEF Compatible
<1> HIDE DEF c
<1>10. Good(c)
  BY <1>4, <1>5, <1>6, <1>7, <1>8, <1>9 DEF Good
<1>11. c \in GoodCanvases
  BY <1>4, <1>10 DEF GoodCanvases
<1> QED
  BY <1>11 DEF c

\* The nodes and edges that flowToSpec makes of those of a canvas.
SavedNode(n) == [n EXCEPT !.inputs = IF @ = {} THEN None ELSE @]
SavedEdge(e) ==
  [id |-> e.id, source |-> e.source, sh |-> e.data.sh, target |-> e.target,
   th |-> e.data.th, kind |-> e.data.kind, label |-> e.data.label]

\* Saved, a node has the ports it had.
LEMMA NodeSaved ==
  ASSUME NEW n \in [id : Name, inputs : SUBSET Ports], InPort \subseteq n.inputs
  PROVE  /\ SavedNode(n) \in [id : Name, inputs : (SUBSET Ports) \cup {None}]
         /\ SavedNode(n).id = n.id /\ InputsOf(SavedNode(n)) = n.inputs
<1>1. PICK i, p : i \in Name /\ p \in SUBSET Ports /\ n = [id |-> i, inputs |-> p]
  OBVIOUS
<1>2. p # None
  BY <1>1, CanvasAssumption
<1>3. CASE p = {}
  <2>1. SavedNode(n) = [id |-> i, inputs |-> None] /\ InPort = {}
    BY <1>1, <1>3 DEF SavedNode
  <2>2. InputsOf([id |-> i, inputs |-> None]) = InPort
    BY DEF InputsOf
  <2> QED
    BY <1>1, <1>3, <2>1, <2>2
<1>4. CASE p # {}
  <2>1. SavedNode(n) = [id |-> i, inputs |-> p]
    BY <1>1, <1>4 DEF SavedNode
  <2>2. InputsOf([id |-> i, inputs |-> p]) = p
    BY <1>2 DEF InputsOf
  <2> QED
    BY <1>1, <2>1, <2>2
<1> QED
  BY <1>3, <1>4

\* What a canvas is saved as is a spec that can be drawn again.
LEMMA SavedIsSpec ==
  ASSUME NEW c \in GoodCanvases
  PROVE  IsSpec(flowToSpec(c))
<1> DEFINE s == flowToSpec(c)
<1>1. /\ c \in CanvasSet /\ IsFiniteSet(c.edges)
      /\ \A n \in c.nodes : InPort \subseteq n.inputs
      /\ \A m, n \in c.nodes : m.id = n.id => m = n
      /\ \A e \in c.edges : Hangs(c, e)
      /\ \A d, e \in c.edges : Compatible(d, e)
  BY DEF Good, GoodCanvases
<1>2. /\ s = [nodes |-> {SavedNode(n) : n \in c.nodes}, edges |-> {SavedEdge(e) : e \in c.edges}]
      /\ s.nodes = {SavedNode(n) : n \in c.nodes} /\ s.edges = {SavedEdge(e) : e \in c.edges}
  BY DEF flowToSpec, SavedNode, SavedEdge
<1> HIDE DEF s
<1>3. \A n \in c.nodes : n \in [id : Name, inputs : SUBSET Ports]
  BY <1>1 DEF CanvasSet
<1>4. \A n \in c.nodes : /\ SavedNode(n) \in [id : Name, inputs : (SUBSET Ports) \cup {None}]
                         /\ SavedNode(n).id = n.id /\ InputsOf(SavedNode(n)) = n.inputs
  BY <1>1, <1>3, NodeSaved
<1>5. \A e \in c.edges :
        e \in [id : Ids0, source : Ends, target : Ends,
               sh : OutPort \cup {None}, th : Ports \cup {None},
               data : [sh : OutPort, th : Ports, kind : Kind, label : Ids0]]
  BY <1>1 DEF CanvasSet
<1>6. ASSUME NEW e \in c.edges
      PROVE  SavedEdge(e) \in [id : Ids0, source : Ends, sh : OutPort, target : Ends,
                               th : Ports, kind : Kind, label : Ids0]
  <2>1. /\ e.id \in Ids0 /\ e.source \in Ends /\ e.target \in Ends
        /\ e.data \in [sh : OutPort, th : Ports, kind : Kind, label : Ids0]
    <3> HIDE DEF Ids0, Ends, Ports
    <3> QED
      BY <1>5
  <2>2. e.data.sh \in OutPort /\ e.data.th \in Ports /\ e.data.kind \in Kind
        /\ e.data.label \in Ids0
    <3> HIDE DEF Ids0, Ends, Ports
    <3> QED
      BY <2>1
  <2> HIDE DEF Ids0, Ends, Ports
  <2> QED
    BY <2>1, <2>2 DEF SavedEdge
<1>7. s \in Specs
  BY <1>2, <1>4, <1>6 DEF Specs
<1>8. IsFiniteSet(s.edges)
  <2> DEFINE f == [x \in c.edges |-> SavedEdge(x)]
  <2>1. f = [x \in c.edges |-> f[x]] /\ s.edges = {f[x] : x \in c.edges}
    BY <1>2
  <2> HIDE DEF f
  <2> QED
    BY <1>1, <2>1, FiniteImage
<1>9. ASSUME NEW n \in s.nodes PROVE InPort \subseteq InputsOf(n)
  BY <1>1, <1>2, <1>4
<1>10. ASSUME NEW m \in s.nodes, NEW n \in s.nodes, m.id = n.id PROVE m = n
  BY <1>1, <1>2, <1>4, <1>10
<1>11. ASSUME NEW x \in s.edges
       PROVE  /\ x.source \in Name => x.source \in Ids(s.nodes)
              /\ x.target \in Name =>
                   \E n \in s.nodes : n.id = x.target /\ x.th \in InputsOf(n)
  <2>1. PICK e \in c.edges : x = SavedEdge(e)
    BY <1>2
  <2>2. Hangs(c, e) /\ x.source = e.source /\ x.target = e.target /\ x.th = e.data.th
    BY <1>1, <2>1 DEF SavedEdge
  <2>3. ASSUME x.source \in Name PROVE x.source \in Ids(s.nodes)
    <3>1. PICK n \in c.nodes : n.id = e.source
      BY <2>2, <2>3 DEF Hangs, Ids
    <3> QED
      BY <1>2, <1>4, <2>2, <3>1 DEF Ids
  <2>4. ASSUME x.target \in Name
        PROVE  \E n \in s.nodes : n.id = x.target /\ x.th \in InputsOf(n)
    <3>1. PICK n \in c.nodes : n.id = e.target /\ e.data.th \in n.inputs
      BY <2>2, <2>4 DEF Hangs
    <3> QED
      BY <1>2, <1>4, <2>2, <3>1
  <2> QED
    BY <2>3, <2>4
<1>12. ASSUME NEW x \in s.edges, NEW y \in s.edges
       PROVE  x # y => /\ x.id # y.id
                       /\ x.label = y.label => y.label \in SharedLabel
                       /\ x.target \in Name /\ <<x.target, x.th>> = <<y.target, y.th>> =>
                            <<y.target, y.th>> \in SharedPort
  <2>1. PICK d \in c.edges : x = SavedEdge(d)
    BY <1>2
  <2>2. PICK e \in c.edges : y = SavedEdge(e)
    BY <1>2
  <2>3. /\ x.id = d.id /\ x.label = d.data.label /\ x.target = d.target /\ x.th = d.data.th
        /\ y.id = e.id /\ y.label = e.data.label /\ y.target = e.target /\ y.th = e.data.th
    BY <2>1, <2>2 DEF SavedEdge
  <2>4. /\ d # e => /\ d.id # e.id
                    /\ d.data.label = e.data.label => e.data.label \in SharedLabel
                    /\ d.target \in Name /\ d.target = e.target /\ d.th = e.th =>
                         <<e.target, e.th>> \in SharedPort
        /\ d.target \in Name => d.th = d.data.th
        /\ e.target \in Name => e.th = e.data.th
    BY <1>1 DEF Compatible, Hangs
  <2> SUFFICES ASSUME x # y
               PROVE  /\ x.id # y.id
                      /\ x.label = y.label => y.label \in SharedLabel
                      /\ x.target \in Name /\ <<x.target, x.th>> = <<y.target, y.th>> =>
                           <<y.target, y.th>> \in SharedPort
    OBVIOUS
  <2>5. d # e
    BY <2>1, <2>2
  <2>6. x.id # y.id /\ (x.label = y.label => y.label \in SharedLabel)
    BY <2>3, <2>4, <2>5
  <2>7. ASSUME x.target \in Name, x.target = y.target, x.th = y.th
        PROVE  <<y.target, y.th>> \in SharedPort
    <3>1. d.target \in Name /\ e.target \in Name /\ d.target = e.target
      BY <2>3, <2>7
    <3>2. d.th = e.th /\ e.th = y.th
      BY <2>3, <2>4, <2>7, <3>1
    <3>3. <<e.target, e.th>> \in SharedPort
      BY <2>4, <2>5, <3>1, <3>2
    <3> QED
      BY <2>3, <3>2, <3>3
  <2> QED
    BY <2>6, <2>7
<1>13. IsSpec(s)
  BY <1>7, <1>8, <1>9, <1>10, <1>11, <1>12 DEF IsSpec
<1> QED
  BY <1>13 DEF s

-----------------------------------------------------------------------------
(* What a gesture changes of a canvas. *)

NodeSet == [id : Name, inputs : SUBSET Ports]
EdgeSet == [id : Ids0, source : Ends, target : Ends,
            sh : OutPort \cup {None}, th : Ports \cup {None},
            data : [sh : OutPort, th : Ports, kind : Kind, label : Ids0]]
MarkSet == [id : FoldName, collapsed : BOOLEAN]

\* The parts of a canvas.
LEMMA PartsOf ==
  ASSUME NEW c \in CanvasSet
  PROVE  \E M \in SUBSET NodeSet, F \in SUBSET MarkSet, D \in SUBSET EdgeSet :
           /\ c = [nodes |-> M, folds |-> F, edges |-> D]
           /\ c.nodes = M /\ c.folds = F /\ c.edges = D
<1>1. CanvasSet = [nodes : SUBSET NodeSet, folds : SUBSET MarkSet, edges : SUBSET EdgeSet]
  BY DEF CanvasSet, NodeSet, MarkSet, EdgeSet
<1> HIDE DEF NodeSet, MarkSet, EdgeSet
<1> QED
  BY <1>1

\* A canvas with other edges, and one with other nodes.
LEMMA EdgesReplaced ==
  ASSUME NEW c \in CanvasSet, NEW E \in SUBSET EdgeSet
  PROVE  /\ [c EXCEPT !.edges = E] \in CanvasSet
         /\ [c EXCEPT !.edges = E].nodes = c.nodes
         /\ [c EXCEPT !.edges = E].edges = E
         /\ [c EXCEPT !.edges = E].folds = c.folds
<1>1. PICK M \in SUBSET NodeSet, F \in SUBSET MarkSet, D \in SUBSET EdgeSet :
        /\ c = [nodes |-> M, folds |-> F, edges |-> D]
        /\ c.nodes = M /\ c.folds = F /\ c.edges = D
  BY PartsOf, Zenon
<1> DEFINE d == [nodes |-> M, folds |-> F, edges |-> E]
<1>2. [c EXCEPT !.edges = E] = d
  BY <1>1
<1>3. d \in CanvasSet
  BY <1>1 DEF CanvasSet, NodeSet, MarkSet, EdgeSet
<1>4. d.nodes = M /\ d.folds = F /\ d.edges = E
  OBVIOUS
<1> HIDE DEF d
<1> QED
  BY <1>1, <1>2, <1>3, <1>4, Zenon

LEMMA NodesReplaced ==
  ASSUME NEW c \in CanvasSet, NEW N \in SUBSET NodeSet
  PROVE  /\ [c EXCEPT !.nodes = N] \in CanvasSet
         /\ [c EXCEPT !.nodes = N].nodes = N
         /\ [c EXCEPT !.nodes = N].edges = c.edges
         /\ [c EXCEPT !.nodes = N].folds = c.folds
<1>1. PICK M \in SUBSET NodeSet, F \in SUBSET MarkSet, D \in SUBSET EdgeSet :
        /\ c = [nodes |-> M, folds |-> F, edges |-> D]
        /\ c.nodes = M /\ c.folds = F /\ c.edges = D
  BY PartsOf, Zenon
<1> DEFINE d == [nodes |-> N, folds |-> F, edges |-> D]
<1>2. [c EXCEPT !.nodes = N] = d
  BY <1>1
<1>3. d \in CanvasSet
  BY <1>1 DEF CanvasSet, NodeSet, MarkSet, EdgeSet
<1>4. d.nodes = N /\ d.folds = F /\ d.edges = D
  OBVIOUS
<1> HIDE DEF d
<1> QED
  BY <1>1, <1>2, <1>3, <1>4, Zenon

\* Less of a canvas is good if the edges that stay keep their nodes.
LEMMA LessIsGood ==
  ASSUME NEW c \in GoodCanvases, NEW d \in CanvasSet,
         d.nodes \subseteq c.nodes, d.edges \subseteq c.edges, d.folds = c.folds,
         \A e \in d.edges, n \in c.nodes : n.id \in {e.source, e.target} => n \in d.nodes
  PROVE  d \in GoodCanvases
<1>1. Good(c)
  BY DEF GoodCanvases
<1>2. IsFiniteSet(d.edges)
  BY <1>1, FS_Subset DEF Good
<1>3. /\ \A n \in d.nodes : InPort \subseteq n.inputs
      /\ \A m, n \in d.nodes : m.id = n.id => m = n
      /\ \A x, y \in d.edges : Compatible(x, y)
  BY <1>1 DEF Good
<1>4. Whole(d) <=> Whole(c)
  BY DEF Whole
<1>5. ASSUME NEW e \in d.edges PROVE Hangs(d, e)
  <2>1. Hangs(c, e)
    BY <1>1 DEF Good
  <2> QED
    BY <1>4, <2>1 DEF Hangs, Ids
<1> QED
  BY <1>2, <1>3, <1>5 DEF Good, GoodCanvases

\* An edge can be added that hangs together and fits to the others.
LEMMA MoreEdgesAreGood ==
  ASSUME NEW c \in GoodCanvases, NEW d \in CanvasSet, NEW x,
         d.nodes = c.nodes, d.edges = c.edges \cup {x}, d.folds = c.folds,
         Hangs(c, x), \A e \in c.edges : Compatible(e, x) /\ Compatible(x, e)
  PROVE  d \in GoodCanvases
<1>1. Good(c)
  BY DEF GoodCanvases
<1>2. IsFiniteSet(d.edges)
  BY <1>1, FS_AddElement DEF Good
<1>3. /\ \A n \in d.nodes : InPort \subseteq n.inputs
      /\ \A m, n \in d.nodes : m.id = n.id => m = n
  BY <1>1 DEF Good
<1>4. Whole(d) <=> Whole(c)
  BY DEF Whole
<1>5. ASSUME NEW e \in d.edges PROVE Hangs(d, e)
  <2>1. Hangs(c, e)
    BY <1>1 DEF Good
  <2> QED
    BY <1>4, <2>1 DEF Hangs, Ids
<1>6. Compatible(x, x)
  BY DEF Compatible
<1>7. \A y, z \in d.edges : Compatible(y, z)
  BY <1>1, <1>6 DEF Good
<1> QED
  BY <1>2, <1>3, <1>5, <1>7 DEF Good, GoodCanvases

\* A node can be added that has the ports of its type and an id of its own.
LEMMA MoreNodesAreGood ==
  ASSUME NEW c \in GoodCanvases, NEW d \in CanvasSet, NEW x,
         d.nodes = c.nodes \cup {x}, d.edges = c.edges, d.folds = c.folds,
         x.id \notin Ids(c.nodes), InPort \subseteq x.inputs
  PROVE  d \in GoodCanvases
<1>1. Good(c)
  BY DEF GoodCanvases
<1>2. \A n \in d.nodes : InPort \subseteq n.inputs
  BY <1>1 DEF Good
<1>3. \A m, n \in d.nodes : m.id = n.id => m = n
  BY <1>1 DEF Good, Ids
<1>4. Whole(d) <=> Whole(c)
  BY DEF Whole
<1>5. ASSUME NEW e \in d.edges PROVE Hangs(d, e)
  <2>1. Hangs(c, e)
    BY <1>1 DEF Good
  <2> QED
    BY <1>4, <2>1 DEF Hangs, Ids
<1> QED
  BY <1>1, <1>2, <1>3, <1>5 DEF Good, GoodCanvases

\* A node can be given another port.
LEMMA MorePortsAreGood ==
  ASSUME NEW c \in GoodCanvases, NEW d \in CanvasSet, NEW t \in c.nodes, NEW u, NEW th,
         u.id = t.id, u.inputs = t.inputs \cup {th},
         d.nodes = (c.nodes \ {t}) \cup {u}, d.edges = c.edges, d.folds = c.folds
  PROVE  d \in GoodCanvases
<1>1. Good(c)
  BY DEF GoodCanvases
<1>2. \A n \in d.nodes : InPort \subseteq n.inputs
  BY <1>1 DEF Good
<1>3. \A m, n \in d.nodes : m.id = n.id => m = n
  BY <1>1 DEF Good
<1>4. Whole(d) <=> Whole(c)
  BY DEF Whole
<1>5. \A n \in c.nodes : \E m \in d.nodes : m.id = n.id /\ n.inputs \subseteq m.inputs
  <2> SUFFICES ASSUME NEW n \in c.nodes
               PROVE  \E m \in d.nodes : m.id = n.id /\ n.inputs \subseteq m.inputs
    OBVIOUS
  <2>1. CASE n = t
    BY <2>1
  <2>2. CASE n # t
    BY <2>2
  <2> QED
    BY <2>1, <2>2
<1>6. ASSUME NEW e \in d.edges PROVE Hangs(d, e)
  <2>1. Hangs(c, e)
    BY <1>1 DEF Good
  <2>2. e.source \in Name => e.source \in Ids(d.nodes) /\ e.sh = e.data.sh
    BY <1>5, <2>1 DEF Hangs, Ids
  <2>3. e.target \in Name => /\ e.th = e.data.th
                             /\ \E n \in d.nodes : n.id = e.target /\ e.th \in n.inputs
    BY <1>5, <2>1 DEF Hangs
  <2> QED
    BY <1>4, <2>1, <2>2, <2>3 DEF Hangs
<1> QED
  BY <1>1, <1>2, <1>3, <1>6 DEF Good, GoodCanvases

\* An edge between two nodes has the ends and the data it is given.
LEMMA EdgeOfIs ==
  ASSUME NEW id \in Ids0, NEW label \in Ids0,
         NEW s \in Name, NEW sh \in OutPort, NEW t \in Name, NEW th \in Ports,
         NEW x, x = EdgeOf(id, label, s, sh, t, th)
  PROVE  /\ x \in EdgeSet /\ x.id = id /\ x.data.label = label
         /\ x.source = s /\ x.sh = sh /\ x.target = t /\ x.th = th
         /\ x.data.sh = sh /\ x.data.th = th
<1> DEFINE data == [sh |-> sh, th |-> th, kind |-> PortKind, label |-> label]
<1>1. s \in Ends /\ t \in Ends /\ PortKind \in Kind
  BY CanvasAssumption DEF Ends
<1> HIDE DEF Ports, Ids0, Ends
<1>2. data \in [sh : OutPort, th : Ports, kind : Kind, label : Ids0]
  BY <1>1
<1>3. data.sh = sh /\ data.th = th /\ data.label = label
  OBVIOUS
<1>4. x = [id |-> id, source |-> s, target |-> t, sh |-> sh, th |-> th, data |-> data]
  BY DEF EdgeOf
<1> HIDE DEF data
<1> QED
  BY <1>1, <1>2, <1>3, <1>4 DEF EdgeSet

\* The edge that a gesture makes: it joins the ports asked for, and its id and
\* label are those of no other edge.
LEMMA NewEdgeIs ==
  ASSUME shown \in GoodCanvases,
         NEW s \in Name, NEW sh \in OutPort, NEW t \in Name, NEW th \in Ports,
         NEW x, x = NewEdge(s, sh, t, th)
  PROVE  /\ x \in EdgeSet
         /\ x.source = s /\ x.sh = sh /\ x.target = t /\ x.th = th
         /\ x.data.sh = sh /\ x.data.th = th
         /\ \A e \in shown.edges : x.id # e.id /\ x.data.label # e.data.label
<1> DEFINE base == <<s, sh, t, th>>
           id == FirstFree(Ids(shown.edges), base)
           labels == {e.data.label : e \in shown.edges}
           label == FirstFree(labels, base)
<1>1. IsFiniteSet(shown.edges)
  BY DEF GoodCanvases, Good
<1>2. IsFiniteSet(Ids(shown.edges))
  <2> DEFINE f == [e \in shown.edges |-> e.id]
  <2>1. f = [e \in shown.edges |-> f[e]] /\ Ids(shown.edges) = {f[e] : e \in shown.edges}
    BY DEF Ids
  <2> HIDE DEF f
  <2> QED
    BY <1>1, <2>1, FiniteImage
<1>3. IsFiniteSet(labels)
  <2> DEFINE f == [e \in shown.edges |-> e.data.label]
  <2>1. f = [e \in shown.edges |-> f[e]] /\ labels = {f[e] : e \in shown.edges}
    OBVIOUS
  <2> HIDE DEF f, labels
  <2> QED
    BY <1>1, <2>1, FiniteImage
<1>4. base \in Name \X OutPort \X Name \X Ports
  OBVIOUS
<1>5. \A e \in shown.edges : e.data.label \in labels
  OBVIOUS
<1> HIDE DEF base, labels
<1>6. id \notin Ids(shown.edges) /\ id \in Ids0
  BY <1>2, <1>4, FreeIsFree DEF Ids0
<1>7. label \notin labels /\ label \in Ids0
  BY <1>3, <1>4, FreeIsFree DEF Ids0
<1>8. x = EdgeOf(id, label, s, sh, t, th)
  BY DEF NewEdge, base, labels
<1> HIDE DEF id, label
<1>9. /\ x \in EdgeSet /\ x.id = id /\ x.data.label = label
      /\ x.source = s /\ x.sh = sh /\ x.target = t /\ x.th = th
      /\ x.data.sh = sh /\ x.data.th = th
  BY <1>6, <1>7, <1>8, EdgeOfIs
<1> QED
  BY <1>5, <1>6, <1>7, <1>9 DEF Ids

\* The names of the nodes of a canvas are names of nodes, and their ports are ports.
LEMMA NodesOfGood ==
  ASSUME NEW c \in GoodCanvases
  PROVE  /\ c \in CanvasSet /\ Ids(c.nodes) \subseteq Name
         /\ \A n \in c.nodes : n \in NodeSet /\ n.id \in Name /\ n.inputs \subseteq Ports
         /\ \A e \in c.edges : e \in EdgeSet
         /\ \A m, n \in c.nodes : m.id = n.id => m = n
         /\ \A n \in c.nodes : InPort \subseteq n.inputs
         /\ \A e \in c.edges : Hangs(c, e)
         /\ \A d, e \in c.edges : Compatible(d, e)
<1>1. Good(c) /\ c \in CanvasSet
  BY DEF GoodCanvases
<1>2. \A n \in c.nodes : n \in NodeSet
  BY <1>1 DEF CanvasSet, NodeSet
<1>3. \A n \in c.nodes : n.id \in Name /\ n.inputs \subseteq Ports
  BY <1>2 DEF NodeSet
<1>4. \A e \in c.edges : e \in EdgeSet
  BY <1>1 DEF CanvasSet, EdgeSet
<1> QED
  BY <1>1, <1>2, <1>3, <1>4 DEF Good, Ids

\* Connect: the port asked for is there and free.
LEMMA ConnectKeeps ==
  ASSUME shown \in GoodCanvases, Connect
  PROVE  shown' \in GoodCanvases
<1>1. PICK s \in Ids(shown.nodes), t \in shown.nodes, sh \in OutPort :
        \E th \in t.inputs :
          /\ isValidConnection(t.id, th)
          /\ shown' = [shown EXCEPT !.edges = @ \cup {NewEdge(s, sh, t.id, th)}]
  BY DEF Connect
<1>2. PICK th \in t.inputs :
          /\ isValidConnection(t.id, th)
          /\ shown' = [shown EXCEPT !.edges = @ \cup {NewEdge(s, sh, t.id, th)}]
  BY <1>1
<1>3. s \in Name /\ t.id \in Name /\ th \in Ports /\ shown \in CanvasSet
  BY NodesOfGood
<1> DEFINE x == NewEdge(s, sh, t.id, th)
<1>4. /\ x \in EdgeSet
      /\ x.source = s /\ x.sh = sh /\ x.target = t.id /\ x.th = th
      /\ x.data.sh = sh /\ x.data.th = th
      /\ \A e \in shown.edges : x.id # e.id /\ x.data.label # e.data.label
  BY <1>3, NewEdgeIs
<1> HIDE DEF x
<1>5. /\ shown' \in CanvasSet /\ shown'.nodes = shown.nodes
      /\ shown'.edges = shown.edges \cup {x} /\ shown'.folds = shown.folds
  <2>1. shown.nodes \in SUBSET NodeSet /\ shown.edges \cup {x} \in SUBSET EdgeSet
    BY <1>4, NodesOfGood
  <2> DEFINE E == shown.edges \cup {x}
  <2>2. shown' = [shown EXCEPT !.edges = E]
    BY <1>2 DEF x
  <2>3. E \in SUBSET EdgeSet /\ shown \in CanvasSet
    BY <1>3, <2>1
  <2> HIDE DEF E
  <2>4. shown' \in CanvasSet /\ shown'.nodes = shown.nodes /\ shown'.edges = E /\ shown'.folds = shown.folds
    BY <2>2, <2>3, EdgesReplaced
  <2> QED
    BY <2>4 DEF E
<1>6. Hangs(shown, x)
  <2>1. sh # None /\ th # None
    BY <1>3, CanvasAssumption
  <2> QED
    BY <1>4, <2>1 DEF Hangs
<1>7. \A e \in shown.edges : Compatible(e, x) /\ Compatible(x, e)
  BY <1>2, <1>4 DEF Compatible, isValidConnection
<1> QED
  BY <1>5, <1>6, <1>7, MoreEdgesAreGood

\* ConnectGrow: nothing can end at a port that was not there.
LEMMA ConnectGrowKeeps ==
  ASSUME shown \in GoodCanvases, ConnectGrow
  PROVE  shown' \in GoodCanvases
<1>1. PICK s \in Ids(shown.nodes), t \in shown.nodes, sh \in OutPort :
        \E th \in GrownPort \ t.inputs :
          shown' = [shown EXCEPT
                      !.nodes = (@ \ {t}) \cup {[t EXCEPT !.inputs = @ \cup {th}]},
                      !.edges = @ \cup {NewEdge(s, sh, t.id, th)}]
  BY DEF ConnectGrow
<1> PICK th \in GrownPort \ t.inputs :
          shown' = [shown EXCEPT
                      !.nodes = (@ \ {t}) \cup {[t EXCEPT !.inputs = @ \cup {th}]},
                      !.edges = @ \cup {NewEdge(s, sh, t.id, th)}]
  BY <1>1
<1>2. /\ s \in Name /\ t.id \in Name /\ th \in Ports /\ shown \in CanvasSet
      /\ t \in NodeSet /\ t.inputs \subseteq Ports
  BY NodesOfGood DEF Ports
<1> DEFINE x == NewEdge(s, sh, t.id, th)
           u == [t EXCEPT !.inputs = @ \cup {th}]
           N == (shown.nodes \ {t}) \cup {u}
           E == shown.edges \cup {x}
           d == [shown EXCEPT !.nodes = N]
<1>3. /\ x \in EdgeSet
      /\ x.source = s /\ x.sh = sh /\ x.target = t.id /\ x.th = th
      /\ x.data.sh = sh /\ x.data.th = th
      /\ \A e \in shown.edges : x.id # e.id /\ x.data.label # e.data.label
  BY <1>2, NewEdgeIs
<1>4. u.id = t.id /\ u.inputs = t.inputs \cup {th} /\ u \in NodeSet
  <2>1. PICK i \in Name, p \in SUBSET Ports : t = [id |-> i, inputs |-> p]
    BY <1>2 DEF NodeSet
  <2>2. u = [id |-> i, inputs |-> p \cup {th}] /\ t.id = i /\ t.inputs = p
    BY <2>1
  <2>3. p \cup {th} \in SUBSET Ports
    BY <1>2
  <2> HIDE DEF u
  <2> QED
    BY <2>2, <2>3 DEF NodeSet
<1>5. shown' = [shown EXCEPT !.nodes = N, !.edges = E]
  OBVIOUS
<1> HIDE DEF x, u
<1>6. N \in SUBSET NodeSet /\ E \in SUBSET EdgeSet
  BY <1>3, <1>4, NodesOfGood
<1>7. N = (shown.nodes \ {t}) \cup {u} /\ E = shown.edges \cup {x}
  OBVIOUS
<1> HIDE DEF N, E
<1>8. /\ d \in CanvasSet /\ d.nodes = N /\ d.edges = shown.edges /\ d.folds = shown.folds
  BY <1>2, <1>6, NodesReplaced, Zenon
<1>9. /\ shown' \in CanvasSet /\ shown'.nodes = N /\ shown'.edges = E /\ shown'.folds = shown.folds
  <2>1. shown' = [d EXCEPT !.edges = E]
    BY <1>5
  <2> HIDE DEF d
  <2> DEFINE f == [d EXCEPT !.edges = E]
  <2>2. shown' = f
    BY <2>1
  <2>3. f \in CanvasSet /\ f.nodes = N /\ f.edges = E /\ f.folds = shown.folds
    <3>1. f \in CanvasSet /\ f.nodes = d.nodes /\ f.edges = E /\ f.folds = d.folds
      BY <1>6, <1>8, EdgesReplaced, Zenon
    <3> HIDE DEF f
    <3> QED
      BY <1>8, <3>1
  <2> HIDE DEF f
  <2> QED
    BY <2>2, <2>3
<1> HIDE DEF d
<1>10. d \in GoodCanvases
  BY <1>4, <1>7, <1>8, MorePortsAreGood
<1>11. Hangs(d, x)
  <2>1. sh # None /\ th # None
    BY <1>2, CanvasAssumption
  <2>2. s \in Ids(d.nodes)
    <3>1. PICK n \in shown.nodes : n.id = s
      BY DEF Ids
    <3>2. CASE n = t
      BY <1>4, <1>7, <1>8, <3>1, <3>2 DEF Ids
    <3>3. CASE n # t
      BY <1>7, <1>8, <3>1, <3>3 DEF Ids
    <3> QED
      BY <3>2, <3>3
  <2>3. u \in d.nodes /\ u.id = t.id /\ th \in u.inputs
    BY <1>4, <1>7, <1>8
  <2> QED
    BY <1>3, <2>1, <2>2, <2>3 DEF Hangs
<1>12. ASSUME NEW e \in shown.edges PROVE ~ (e.target = t.id /\ e.th = th)
  <2> SUFFICES ASSUME e.target = t.id, e.th = th PROVE FALSE
    OBVIOUS
  <2>1. Hangs(shown, e)
    BY NodesOfGood
  <2>2. PICK n \in shown.nodes : n.id = t.id /\ th \in n.inputs
    BY <1>2, <2>1 DEF Hangs
  <2>3. n = t
    BY <2>2, NodesOfGood
  <2> QED
    BY <2>2, <2>3
<1>13. \A e \in d.edges : Compatible(e, x) /\ Compatible(x, e)
  BY <1>3, <1>8, <1>12 DEF Compatible
<1> QED
  BY <1>7, <1>8, <1>9, <1>10, <1>11, <1>13, MoreEdgesAreGood

\* An edge replaced by one with its id and label that hangs together, and ends at
\* a free port or where it ended.
LEMMA EdgeChanged ==
  ASSUME shown \in GoodCanvases, NEW e \in shown.edges, NEW x \in EdgeSet,
         shown' = [shown EXCEPT !.edges = (@ \ {e}) \cup {x}],
         x.id = e.id, x.data.label = e.data.label, Hangs(shown, x),
         \/ x.target = e.target /\ x.th = e.th
         \/ \A y \in shown.edges : ~ (y.target = x.target /\ y.th = x.th)
  PROVE  shown' \in GoodCanvases
<1> DEFINE R == shown.edges \ {e}
           E == R \cup {x}
           d == [shown EXCEPT !.edges = R]
<1>1. shown \in CanvasSet /\ R \in SUBSET EdgeSet /\ E \in SUBSET EdgeSet
  BY NodesOfGood
<1>2. shown' = [shown EXCEPT !.edges = E]
  OBVIOUS
<1>3. R = shown.edges \ {e} /\ E = R \cup {x}
  OBVIOUS
<1> HIDE DEF R, E
<1>4. d \in CanvasSet /\ d.nodes = shown.nodes /\ d.edges = R /\ d.folds = shown.folds
  BY <1>1, EdgesReplaced, Zenon
<1>5. /\ shown' \in CanvasSet /\ shown'.nodes = shown.nodes /\ shown'.edges = E
      /\ shown'.folds = shown.folds
  <2> DEFINE f == [shown EXCEPT !.edges = E]
  <2>1. f \in CanvasSet /\ f.nodes = shown.nodes /\ f.edges = E /\ f.folds = shown.folds
    BY <1>1, EdgesReplaced, Zenon
  <2>2. shown' = f
    BY <1>2
  <2> HIDE DEF f
  <2> QED
    BY <2>1, <2>2
<1> HIDE DEF d
<1>6. d \in GoodCanvases
  BY <1>3, <1>4, LessIsGood
<1>7. Hangs(d, x)
  <2>1. Whole(d) <=> Whole(shown)
    BY <1>4 DEF Whole
  <2> QED
    BY <1>4, <2>1 DEF Hangs
<1>8. ASSUME NEW y \in d.edges PROVE Compatible(y, x) /\ Compatible(x, y)
  <2>1. y \in shown.edges /\ y # e
    BY <1>3, <1>4
  <2>2. Compatible(y, e) /\ Compatible(e, y)
    BY <2>1, NodesOfGood
  <2>3. y.id # x.id /\ (y.data.label = x.data.label => x.data.label \in SharedLabel)
    BY <2>1, <2>2 DEF Compatible
  <2>4. y.target \in Name /\ y.target = x.target /\ y.th = x.th => <<x.target, x.th>> \in SharedPort
    BY <2>1, <2>2 DEF Compatible
  <2> QED
    BY <2>3, <2>4 DEF Compatible
<1> QED
  BY <1>3, <1>4, <1>5, <1>6, <1>7, <1>8, MoreEdgesAreGood

\* Reconnect: the edge moves to a free port, or to a port that was its own.
LEMMA ReconnectKeeps ==
  ASSUME shown \in GoodCanvases, Reconnect
  PROVE  shown' \in GoodCanvases
<1>1. PICK e \in shown.edges, s \in Ids(shown.nodes), t \in Ids(shown.nodes),
           sh \in OutPort, th \in InPort :
        /\ <<s, sh>> = <<e.source, e.sh>> \/ <<t, th>> = <<e.target, e.th>>
        /\ isValidConnection(t, th)
        /\ shown' = [shown EXCEPT !.edges = (@ \ {e}) \cup
                                             {EdgeOf(e.id, e.data.label, s, sh, t, th)}]
  BY DEF Reconnect
<1> DEFINE x == EdgeOf(e.id, e.data.label, s, sh, t, th)
<1>2. e \in EdgeSet /\ s \in Name /\ t \in Name /\ th \in Ports
  BY NodesOfGood DEF Ports
<1>3. e.id \in Ids0 /\ e.data.label \in Ids0
  <2>1. e.id \in Ids0 /\ e.data \in [sh : OutPort, th : Ports, kind : Kind, label : Ids0]
    <3> HIDE DEF Ids0, Ends, Ports
    <3> QED
      BY <1>2 DEF EdgeSet
  <2> HIDE DEF Ids0, Ports
  <2> QED
    BY <2>1
<1>4. x = EdgeOf(e.id, e.data.label, s, sh, t, th)
  OBVIOUS
<1> HIDE DEF x
<1>5. /\ x.id = e.id /\ x.data.label = e.data.label /\ x.source = s /\ x.target = t
      /\ x.sh = sh /\ x.th = th /\ x.data.sh = sh /\ x.data.th = th
      /\ x \in EdgeSet
  BY <1>2, <1>3, <1>4, EdgeOfIs
<1>6. Hangs(shown, x)
  <2>1. sh # None /\ th # None
    BY <1>2, CanvasAssumption
  <2>2. PICK n \in shown.nodes : n.id = t
    BY DEF Ids
  <2>3. th \in n.inputs
    BY NodesOfGood
  <2> QED
    BY <1>5, <2>1, <2>2, <2>3 DEF Hangs
<1>7. \A y \in shown.edges : ~ (y.target = x.target /\ y.th = x.th)
  BY <1>1, <1>5 DEF isValidConnection
<1>8. shown' = [shown EXCEPT !.edges = (@ \ {e}) \cup {x}]
  BY <1>1 DEF x
<1> QED
  BY <1>5, <1>6, <1>7, <1>8, EdgeChanged

\* SetEdgeKind: the edge stays where it is.
LEMMA SetEdgeKindKeeps ==
  ASSUME shown \in GoodCanvases, SetEdgeKind
  PROVE  shown' \in GoodCanvases
<1>1. PICK e \in shown.edges, k \in Kind :
        shown' = [shown EXCEPT !.edges = (@ \ {e}) \cup {[e EXCEPT !.data.kind = k]}]
  BY DEF SetEdgeKind
<1> DEFINE x == [e EXCEPT !.data.kind = k]
<1>2. e \in EdgeSet
  BY NodesOfGood
<1>3. PICK i \in Ids0, a \in Ends, b \in Ends, h \in OutPort \cup {None}, m \in Ports \cup {None},
           v \in [sh : OutPort, th : Ports, kind : Kind, label : Ids0] :
        e = [id |-> i, source |-> a, target |-> b, sh |-> h, th |-> m, data |-> v]
  <2> HIDE DEF Ids0, Ends, Ports
  <2> QED
    BY <1>2 DEF EdgeSet
<1>4. PICK p \in OutPort, q \in Ports, r \in Kind, l \in Ids0 :
        v = [sh |-> p, th |-> q, kind |-> r, label |-> l]
  <2> HIDE DEF Ids0, Ports
  <2> QED
    OBVIOUS
<1>5. x = [id |-> i, source |-> a, target |-> b, sh |-> h, th |-> m,
           data |-> [sh |-> p, th |-> q, kind |-> k, label |-> l]]
  BY <1>3, <1>4
<1> HIDE DEF x
<1>6. /\ x.id = e.id /\ x.data.label = e.data.label
      /\ x.source = e.source /\ x.target = e.target /\ x.sh = e.sh /\ x.th = e.th
      /\ x.data.sh = e.data.sh /\ x.data.th = e.data.th
  BY <1>3, <1>4, <1>5
<1>7. x \in EdgeSet
  <2> HIDE DEF Ids0, Ends, Ports
  <2>1. [sh |-> p, th |-> q, kind |-> k, label |-> l]
          \in [sh : OutPort, th : Ports, kind : Kind, label : Ids0]
    OBVIOUS
  <2> QED
    BY <1>5, <2>1 DEF EdgeSet
<1>8. Hangs(shown, e)
  BY NodesOfGood
<1>9. Hangs(shown, x)
  BY <1>6, <1>8 DEF Hangs
<1>10. shown' = [shown EXCEPT !.edges = (@ \ {e}) \cup {x}]
  BY <1>1 DEF x
<1> QED
  BY <1>6, <1>7, <1>9, <1>10, EdgeChanged

\* Drop: the node's id is new.
LEMMA DropKeeps ==
  ASSUME shown \in GoodCanvases, Drop
  PROVE  shown' \in GoodCanvases
<1>1. PICK i \in Name \ Ids(shown.nodes) :
        shown' = [shown EXCEPT !.nodes = @ \cup {[id |-> i, inputs |-> InPort]}]
  BY DEF Drop
<1> DEFINE x == [id |-> i, inputs |-> InPort]
           N == shown.nodes \cup {x}
           d == [shown EXCEPT !.nodes = N]
<1>2. x \in NodeSet /\ x.id = i /\ x.inputs = InPort
  BY DEF NodeSet, Ports
<1>3. shown \in CanvasSet /\ shown' = d
  BY <1>1, NodesOfGood
<1> HIDE DEF x
<1>4. N \in SUBSET NodeSet /\ N = shown.nodes \cup {x}
  BY <1>2, NodesOfGood
<1> HIDE DEF N
<1>5. d \in CanvasSet /\ d.nodes = N /\ d.edges = shown.edges /\ d.folds = shown.folds
  BY <1>3, <1>4, NodesReplaced, Zenon
<1> HIDE DEF d
<1>6. d \in GoodCanvases
  BY <1>2, <1>4, <1>5, MoreNodesAreGood
<1> QED
  BY <1>3, <1>6

\* Delete: the edges of a deleted node go with it.
LEMMA DeleteKeeps ==
  ASSUME shown \in GoodCanvases, Delete
  PROVE  shown' \in GoodCanvases
<1>1. PICK ns \in SUBSET Ids(shown.nodes), es \in SUBSET shown.edges :
        shown' = [shown EXCEPT
                    !.nodes = {n \in @ : n.id \notin ns},
                    !.edges = @ \ (es \cup {e \in shown.edges : {e.source, e.target} \cap ns # {}})]
  BY DEF Delete
<1> DEFINE N == {n \in shown.nodes : n.id \notin ns}
           E == shown.edges \ (es \cup {e \in shown.edges : {e.source, e.target} \cap ns # {}})
           d == [shown EXCEPT !.nodes = N]
           f == [d EXCEPT !.edges = E]
<1>2. shown \in CanvasSet /\ N \in SUBSET NodeSet /\ E \in SUBSET EdgeSet
  BY NodesOfGood
<1>3. shown' = f
  BY <1>1
<1>4. /\ N \subseteq shown.nodes /\ E \subseteq shown.edges
      /\ \A e \in E, n \in shown.nodes : n.id \in {e.source, e.target} => n \in N
  OBVIOUS
<1> HIDE DEF N, E
<1>5. d \in CanvasSet /\ d.nodes = N /\ d.edges = shown.edges /\ d.folds = shown.folds
  BY <1>2, NodesReplaced, Zenon
<1> HIDE DEF d
<1>6. f \in CanvasSet /\ f.nodes = d.nodes /\ f.edges = E /\ f.folds = d.folds
  BY <1>2, <1>5, EdgesReplaced, Zenon
<1> HIDE DEF f
<1>7. f \in GoodCanvases
  BY <1>4, <1>5, <1>6, LessIsGood
<1> QED
  BY <1>3, <1>7

-----------------------------------------------------------------------------
(* The inductive invariant of the canvas. *)

\* Every canvas, on the screen or on a stack, is good, and so are the specs
\* that the canvas is drawn from and saved to.
CanvasOK ==
  /\ shown \in GoodCanvases /\ past \in Seq(GoodCanvases) /\ future \in Seq(GoodCanvases)
  /\ IsSpec(lastSpec) /\ IsSpec(saved)
  /\ folds \subseteq Folds
  /\ viewFolds \in (SUBSET FoldName) \cup {None}
  /\ synced \in BOOLEAN /\ dirty \in BOOLEAN

\* pushSnapshot keeps a stack of good canvases one.
LEMMA PushedGood ==
  ASSUME shown \in GoodCanvases, NEW s \in Seq(GoodCanvases)
  PROVE  Pushed(s) \in Seq(GoodCanvases)
<1>1. Append(s, shown) \in Seq(GoodCanvases) /\ Append(s, shown) # <<>>
  BY AppendProperties
<1>2. Tail(Append(s, shown)) \in Seq(GoodCanvases)
  BY <1>1
<1> QED
  BY <1>1, <1>2 DEF Pushed

\* What is taken off a stack, and what is left of it.
LEMMA PoppedGood ==
  ASSUME NEW S, NEW s \in Seq(S), s # <<>>
  PROVE  s[Len(s)] \in S /\ SubSeq(s, 1, Len(s) - 1) \in Seq(S)
<1>1. Len(s) \in Nat /\ Len(s) # 0
  BY EmptySeq
<1> DEFINE n == Len(s)
<1>2. n \in 1..n /\ 1 \in Int /\ n - 1 \in Int /\ \A k \in 1..(n - 1) : k \in 1..n
  BY <1>1
<1> HIDE DEF n
<1>3. \A k \in 1..n : s[k] \in S
  BY DEF n
<1>4. SubSeq(s, 1, n - 1) \in Seq(S)
  BY <1>2, <1>3, SubSeqProperties
<1> QED
  BY <1>2, <1>3, <1>4 DEF n

\* Whatever a step does to the stacks, good canvases are on them.
LEMMA StacksKeep ==
  ASSUME CanvasOK, Next
  PROVE  past' \in Seq(GoodCanvases) /\ future' \in Seq(GoodCanvases)
<1>1. shown \in GoodCanvases /\ past \in Seq(GoodCanvases) /\ future \in Seq(GoodCanvases)
  BY DEF CanvasOK
<1>2. CASE \E n \in {1, 2} : PushSnapshots(n)
  <2>1. Pushed(past) \in Seq(GoodCanvases)
    BY <1>1, PushedGood
  <2>2. Pushed(Pushed(past)) \in Seq(GoodCanvases)
    BY <1>1, <2>1, PushedGood
  <2>3. <<>> \in Seq(GoodCanvases)
    OBVIOUS
  <2> QED
    BY <1>2, <2>1, <2>2, <2>3 DEF PushSnapshots
<1>3. CASE undo
  <2>1. past' \in Seq(GoodCanvases)
    BY <1>1, <1>3, PoppedGood DEF undo
  <2>2. Append(future, shown) \in Seq(GoodCanvases)
    BY <1>1, AppendProperties
  <2> QED
    BY <1>3, <2>1, <2>2 DEF undo
<1>4. CASE redo
  <2>1. future' \in Seq(GoodCanvases)
    BY <1>1, <1>4, PoppedGood DEF redo
  <2>2. Append(past, shown) \in Seq(GoodCanvases)
    BY <1>1, AppendProperties
  <2> QED
    BY <1>4, <2>1, <2>2 DEF redo
<1>5. CASE UNCHANGED <<past, future>>
  BY <1>1, <1>5
<1> QED
  BY <1>2, <1>3, <1>4, <1>5, StepsOfTheHistory

\* What undo and redo show was shown before.
LEMMA UndoKeeps ==
  ASSUME CanvasOK, undo \/ redo
  PROVE  shown' \in GoodCanvases
<1>1. CASE undo
  BY <1>1, PoppedGood DEF undo, CanvasOK
<1>2. CASE redo
  BY <1>2, PoppedGood DEF redo, CanvasOK
<1> QED
  BY <1>1, <1>2

\* A spec stays one when another editor adds a node to it.
LEMMA LoadedIsSpec ==
  ASSUME NEW s, IsSpec(s), NEW i \in Name \ Ids(s.nodes),
         NEW t, t = [s EXCEPT !.nodes = @ \cup {[id |-> i, inputs |-> None]}]
  PROVE  IsSpec(t)
<1> DEFINE x == [id |-> i, inputs |-> None]
           NS == [id : Name, inputs : (SUBSET Ports) \cup {None}]
           ES == [id : Ids0, source : Ends, sh : OutPort, target : Ends, th : Ports,
                  kind : Kind, label : Ids0]
<1>1. /\ s \in Specs /\ IsFiniteSet(s.edges)
      /\ \A n \in s.nodes : InPort \subseteq InputsOf(n)
      /\ \A m, n \in s.nodes : m.id = n.id => m = n
      /\ \A e \in s.edges :
           /\ e.source \in Name => e.source \in Ids(s.nodes)
           /\ e.target \in Name => \E n \in s.nodes : n.id = e.target /\ e.th \in InputsOf(n)
      /\ \A d, e \in s.edges : d # e =>
           /\ d.id # e.id
           /\ d.label = e.label => e.label \in SharedLabel
           /\ d.target \in Name /\ <<d.target, d.th>> = <<e.target, e.th>> =>
                <<e.target, e.th>> \in SharedPort
  BY DEF IsSpec
<1>2. x \in NS /\ x.id = i /\ x.inputs = None
  OBVIOUS
<1>3. InputsOf(x) = InPort
  BY DEF InputsOf
<1>4. Specs = [nodes : SUBSET NS, edges : SUBSET ES]
  BY DEF Specs
<1> HIDE DEF NS, ES, x
<1>5. PICK N \in SUBSET NS, E \in SUBSET ES : s = [nodes |-> N, edges |-> E]
  BY <1>1, <1>4
<1>6. s.nodes = N /\ s.edges = E
  BY <1>5
<1>7. t = [nodes |-> N \cup {x}, edges |-> E]
  BY <1>5 DEF x
<1>8. t \in Specs /\ t.nodes = N \cup {x} /\ t.edges = E
  <2> DEFINE M == N \cup {x}
  <2>1. M \in SUBSET NS
    BY <1>2, <1>5
  <2>2. t = [nodes |-> M, edges |-> E]
    BY <1>7
  <2> HIDE DEF M
  <2>3. t \in Specs /\ t.nodes = M /\ t.edges = E
    BY <1>4, <1>5, <2>1, <2>2
  <2> QED
    BY <2>3 DEF M
<1>9. \A n \in t.nodes : InPort \subseteq InputsOf(n)
  BY <1>1, <1>3, <1>6, <1>8
<1>10. \A m, n \in t.nodes : m.id = n.id => m = n
  BY <1>1, <1>2, <1>6, <1>8 DEF Ids
<1>11. \A e \in t.edges :
         /\ e.source \in Name => e.source \in Ids(t.nodes)
         /\ e.target \in Name => \E n \in t.nodes : n.id = e.target /\ e.th \in InputsOf(n)
  BY <1>1, <1>6, <1>8 DEF Ids
<1>12. /\ IsFiniteSet(t.edges)
       /\ \A d, e \in t.edges : d # e =>
            /\ d.id # e.id
            /\ d.label = e.label => e.label \in SharedLabel
            /\ d.target \in Name /\ <<d.target, d.th>> = <<e.target, e.th>> =>
                 <<e.target, e.th>> \in SharedPort
  <2>1. t.edges = s.edges
    BY <1>6, <1>8
  <2> QED
    BY <1>1, <2>1, Zenon
<1> QED
  BY <1>8, <1>9, <1>10, <1>11, <1>12, Zenon DEF IsSpec

\* Gestures on nodes and edges change nothing but the canvas.
LEMMA EditsKeep ==
  ASSUME CanvasOK, Connect \/ ConnectGrow \/ Reconnect \/ SetEdgeKind \/ Drop \/ Delete
  PROVE  shown' \in GoodCanvases /\ Edited
<1>1. shown \in GoodCanvases
  BY DEF CanvasOK
<1>2. CASE Connect
  BY <1>1, <1>2, ConnectKeeps DEF Connect
<1>3. CASE ConnectGrow
  BY <1>1, <1>3, ConnectGrowKeeps DEF ConnectGrow
<1>4. CASE Reconnect
  BY <1>1, <1>4, ReconnectKeeps DEF Reconnect
<1>5. CASE SetEdgeKind
  BY <1>1, <1>5, SetEdgeKindKeeps DEF SetEdgeKind
<1>6. CASE Drop
  BY <1>1, <1>6, DropKeeps DEF Drop
<1>7. CASE Delete
  BY <1>1, <1>7, DeleteKeeps DEF Delete
<1> QED
  BY <1>2, <1>3, <1>4, <1>5, <1>6, <1>7

\* A rerender draws what a canvas is saved as.
LEMMA RerenderKeeps ==
  ASSUME CanvasOK, rerender
  PROVE  shown' \in GoodCanvases /\ IsSpec(lastSpec')
<1>1. IsSpec(flowToSpec(shown)) /\ folds \in SUBSET Folds
  BY SavedIsSpec DEF CanvasOK
<1>2. specToFlow(flowToSpec(shown), folds) \in GoodCanvases
  BY <1>1, DrawnIsGood
<1> QED
  BY <1>1, <1>2 DEF rerender

\* A rebuild draws the spec of the last load.
LEMMA RebuildKeeps ==
  ASSUME CanvasOK, rebuildFlow, folds' \subseteq Folds
  PROVE  shown' \in GoodCanvases
<1>1. IsSpec(lastSpec) /\ folds' \in SUBSET Folds
  BY DEF CanvasOK
<1> QED
  BY <1>1, DrawnIsGood DEF rebuildFlow

\* A new fold has what is on the canvas for its members.
LEMMA FoldSelectionKeeps ==
  ASSUME CanvasOK, FoldSelection
  PROVE  shown' \in GoodCanvases /\ folds' \subseteq Folds
<1> DEFINE members == Selected \cap (Ids(shown.nodes) \cup Ids(shown.folds))
           free == members \ UNION {f.members : f \in folds}
<1>1. createFold(members)
  BY DEF FoldSelection
<1>2. free \in SUBSET Ends
  <2>1. Ids(shown.nodes) \subseteq Ends
    BY NodesOfGood DEF CanvasOK, Ends
  <2>2. shown.folds \subseteq MarkSet
    <3>1. shown \in CanvasSet
      BY DEF CanvasOK, GoodCanvases
    <3> QED
      BY <3>1, PartsOf
  <2>3. Ids(shown.folds) \subseteq Ends
    BY <2>2 DEF MarkSet, Ids, Ends
  <2> QED
    BY <2>1, <2>3
<1> HIDE DEF members
<1>3. folds \subseteq Folds /\ shown \in GoodCanvases
  BY DEF CanvasOK
<1>4. CASE folds' = folds /\ shown' = shown
  BY <1>3, <1>4
<1>5. CASE /\ \E x \in FoldName \ Ids(folds) :
                folds' = folds \cup {[id |-> x, members |-> free, collapsed |-> TRUE]}
           /\ rebuildFlow
  <2>1. PICK x \in FoldName \ Ids(folds) :
          folds' = folds \cup {[id |-> x, members |-> free, collapsed |-> TRUE]}
    BY <1>5
  <2> HIDE DEF free
  <2>2. [id |-> x, members |-> free, collapsed |-> TRUE] \in Folds
    <3> HIDE DEF Ends
    <3> QED
      BY <1>2 DEF Folds
  <2>3. folds' \subseteq Folds
    BY <1>3, <2>1, <2>2
  <2> QED
    BY <1>5, <2>3, RebuildKeeps
<1> QED
  BY <1>1, <1>4, <1>5 DEF createFold

\* Toggled, a fold is still a fold.
LEMMA ToggleFoldKeeps ==
  ASSUME CanvasOK, ToggleFold
  PROVE  shown' \in GoodCanvases /\ folds' \subseteq Folds
<1>1. PICK g \in folds : folds' = (folds \ {g}) \cup {[g EXCEPT !.collapsed = ~@]}
  BY DEF ToggleFold, toggleFoldCollapse
<1>2. folds \subseteq Folds /\ g \in Folds
  BY DEF CanvasOK
<1>3. [g EXCEPT !.collapsed = ~@] \in Folds
  <2>1. PICK i \in FoldName, p \in SUBSET Ends, b \in BOOLEAN :
          g = [id |-> i, members |-> p, collapsed |-> b]
    <3> HIDE DEF Ends
    <3> QED
      BY <1>2 DEF Folds
  <2>2. [g EXCEPT !.collapsed = ~@] = [id |-> i, members |-> p, collapsed |-> ~b]
    BY <2>1
  <2>3. (~b) \in BOOLEAN
    OBVIOUS
  <2> HIDE DEF Ends
  <2> QED
    BY <2>1, <2>2, <2>3 DEF Folds
<1>4. folds' \subseteq Folds
  BY <1>1, <1>2, <1>3
<1> QED
  BY <1>4, RebuildKeeps DEF ToggleFold

\* Another editor's spec is one that can be drawn, and is drawn with the folds.
LEMMA LoadKeeps ==
  ASSUME CanvasOK, Load
  PROVE  shown' \in GoodCanvases /\ IsSpec(lastSpec') /\ IsSpec(saved')
<1>1. ASSUME \E x \in Name \ Ids(saved.nodes) :
               saved' = [saved EXCEPT !.nodes = @ \cup {[id |-> x, inputs |-> None]}]
      PROVE  IsSpec(saved')
  BY <1>1, LoadedIsSpec DEF CanvasOK
<1>2. IsSpec(saved')
  BY <1>1, CanvasAssumption DEF Load
<1>3. specToFlow(saved', folds) \in GoodCanvases
  <2>1. folds \in SUBSET Folds
    BY DEF CanvasOK
  <2> QED
    BY <1>2, <2>1, DrawnIsGood
<1> QED
  BY <1>2, <1>3 DEF Load, CanvasOK

\* No step leaves the invariant.
LEMMA CanvasStep ==
  ASSUME CanvasOK, Next
  PROVE  CanvasOK'
<1>1. past' \in Seq(GoodCanvases) /\ future' \in Seq(GoodCanvases)
  BY StacksKeep
<1>2. /\ shown \in GoodCanvases /\ IsSpec(lastSpec) /\ IsSpec(saved) /\ folds \subseteq Folds
      /\ viewFolds \in (SUBSET FoldName) \cup {None}
      /\ synced \in BOOLEAN /\ dirty \in BOOLEAN
  BY DEF CanvasOK
<1>3. CASE Connect \/ ConnectGrow \/ Reconnect \/ SetEdgeKind \/ Drop \/ Delete
  BY <1>1, <1>2, <1>3, EditsKeep DEF CanvasOK, Edited
<1>4. CASE DragNode
  BY <1>1, <1>2, <1>4 DEF CanvasOK, DragNode, Edited
<1>5. CASE DragFold
  BY <1>1, <1>2, <1>5 DEF CanvasOK, DragFold
<1>6. CASE CancelEdit
  BY <1>1, <1>2, <1>6, RerenderKeeps DEF CanvasOK, CancelEdit
<1>7. CASE \E n, x \in Name : Rename(n, x)
  BY <1>1, <1>2, <1>7, RerenderKeeps DEF CanvasOK, Rename
<1>8. CASE FoldSelection
  <2>1. UNCHANGED <<lastSpec, viewFolds, synced, dirty, saved>>
    BY <1>8 DEF FoldSelection
  <2> QED
    BY <1>1, <1>2, <1>8, <2>1, FoldSelectionKeeps DEF CanvasOK
<1>9. CASE ToggleFold
  <2>1. UNCHANGED <<lastSpec, viewFolds, synced, dirty, saved>>
    BY <1>9 DEF ToggleFold
  <2> QED
    BY <1>1, <1>2, <1>9, <2>1, ToggleFoldKeeps DEF CanvasOK
<1>10. CASE DeleteFold
  <2>1. /\ UNCHANGED <<lastSpec, folds, synced, dirty, saved>> /\ rebuildFlow
        /\ viewFolds # None /\ \E fs : viewFolds' = viewFolds \ fs
    BY <1>10 DEF DeleteFold
  <2>2. viewFolds' \in SUBSET FoldName
    BY <1>2, <2>1
  <2>3. shown' \in GoodCanvases
    BY <1>2, <2>1, RebuildKeeps
  <2> QED
    BY <1>1, <1>2, <2>1, <2>2, <2>3 DEF CanvasOK
<1>11. CASE Undo \/ Redo
  <2>1. UNCHANGED <<lastSpec, folds, viewFolds, synced, dirty, saved>> /\ (undo \/ redo)
    BY <1>11 DEF Undo, Redo
  <2> QED
    BY <1>1, <1>2, <2>1, UndoKeeps DEF CanvasOK
<1>12. CASE Save
  <2>1. /\ UNCHANGED <<shown, lastSpec, folds, viewFolds, synced>> /\ dirty' = FALSE
        /\ saved' = saved \/ saved' = flowToSpec(shown)
    BY <1>12 DEF Save, historyVars
  <2>2. IsSpec(saved')
    BY <1>2, <2>1, SavedIsSpec
  <2> QED
    BY <1>1, <1>2, <2>1, <2>2 DEF CanvasOK
<1>13. CASE Load
  <2>1. UNCHANGED <<folds, viewFolds, synced, dirty>>
    BY <1>13 DEF Load
  <2> QED
    BY <1>1, <1>2, <1>13, <2>1, LoadKeeps DEF CanvasOK
<1>14. CASE ViewLoad
  <2>1. /\ folds' \in Folds0 /\ rebuildFlow /\ synced' = TRUE
        /\ viewFolds' = None \/ viewFolds' = Ids(folds')
        /\ UNCHANGED <<lastSpec, dirty, saved>>
    BY <1>14 DEF ViewLoad
  <2>2. folds' \subseteq Folds
    BY <2>1, CanvasAssumption
  <2>3. Ids(folds') \subseteq FoldName
    BY <2>2 DEF Ids, Folds
  <2>4. shown' \in GoodCanvases
    BY <2>1, <2>2, RebuildKeeps
  <2>5. viewFolds' \in (SUBSET FoldName) \cup {None}
    BY <2>1, <2>3
  <2> QED
    BY <1>1, <1>2, <2>1, <2>2, <2>4, <2>5 DEF CanvasOK
<1> QED
  BY <1>3, <1>4, <1>5, <1>6, <1>7, <1>8, <1>9, <1>10, <1>11, <1>12, <1>13, <1>14
     DEF Next, FoldGesture

\* The inductive invariant holds throughout.
THEOREM CanvasAlwaysOK == Spec => []CanvasOK
<1>1. Init => CanvasOK
  <2> SUFFICES ASSUME Init PROVE CanvasOK
    OBVIOUS
  <2>1. IsSpec(saved) /\ {} \in SUBSET Folds
    BY CanvasAssumption DEF Init
  <2>2. specToFlow(saved, {}) \in GoodCanvases
    BY <2>1, DrawnIsGood
  <2>3. <<>> \in Seq(GoodCanvases)
    OBVIOUS
  <2> QED
    BY <2>1, <2>2, <2>3 DEF Init, CanvasOK
<1>2. CanvasOK /\ [Next]_vars => CanvasOK'
  <2> SUFFICES ASSUME CanvasOK, [Next]_vars PROVE CanvasOK'
    OBVIOUS
  <2>1. CASE Next
    BY <2>1, CanvasStep
  <2>2. CASE UNCHANGED vars
    BY <2>2 DEF CanvasOK, vars, historyVars
  <2> QED
    BY <2>1, <2>2
<1> QED
  BY <1>1, <1>2, PTL DEF Spec

\* Every canvas there is, shown or kept, is a good one.
LEMMA AllGood ==
  ASSUME CanvasOK
  PROVE  \A c \in Canvases : c \in CanvasSet /\ Good(c)
<1>1. /\ \A k \in DOMAIN past : past[k] \in GoodCanvases
      /\ \A k \in DOMAIN future : future[k] \in GoodCanvases
  BY DEF CanvasOK
<1>2. \A c \in Canvases : c \in GoodCanvases
  BY <1>1 DEF CanvasOK, Canvases
<1> QED
  BY <1>2 DEF GoodCanvases

\* Every variable keeps its type; a canvas without collapsed folds has every
\* handle of every edge, whatever was folded before (spec-to-flow.ts:120-131).
THEOREM CanvasTypes == Spec => []TypeOK
<1>1. CanvasOK => TypeOK
  <2> SUFFICES ASSUME CanvasOK PROVE TypeOK
    OBVIOUS
  <2>1. \A c \in Canvases : Whole(c) => \A e \in c.edges : e.sh # None /\ e.th # None
    BY AllGood DEF Good, Hangs
  <2>2. \A c \in Canvases : c \in CanvasSet
    BY AllGood
  <2> QED
    BY <2>1, <2>2 DEF TypeOK, CanvasOK
<1> QED
  BY <1>1, CanvasAlwaysOK, PTL

\* Whatever is edited, folded, undone and loaded: an edge between two nodes joins
\* nodes and ports that are there, for any topology and any folds, so that the
\* validation of the file (parse-meta.ts:47-71) has nothing to object to.
THEOREM EdgesAlwaysJoin == Spec => []EdgesJoin
<1>1. CanvasOK => EdgesJoin
  <2> SUFFICES ASSUME CanvasOK, NEW c \in Canvases, NEW e \in c.edges,
                      {e.source, e.target} \subseteq Name
               PROVE  /\ e.source \in Ids(c.nodes) /\ e.sh \in OutPort
                      /\ \E n \in c.nodes : n.id = e.target /\ e.th \in n.inputs
    BY DEF EdgesJoin
  <2>1. c \in CanvasSet /\ Hangs(c, e)
    BY AllGood DEF Good
  <2>2. e.data \in [sh : OutPort, th : Ports, kind : Kind, label : Ids0]
    <3>1. e \in EdgeSet
      BY <2>1 DEF CanvasSet, EdgeSet
    <3> HIDE DEF Ids0, Ends, Ports
    <3> QED
      BY <3>1 DEF EdgeSet
  <2>3. e.data.sh \in OutPort
    <3> HIDE DEF Ids0, Ports
    <3> QED
      BY <2>2
  <2> QED
    BY <2>1, <2>3 DEF Hangs
<1> QED
  BY <1>1, CanvasAlwaysOK, PTL

\* Two senders share an input port of a node only if two share it in a file that is
\* loaded, although connecting, reconnecting, folding and undoing ask each in its own
\* way (_use-edge-handlers.ts:17-19): for any files, also those with several edges at
\* a port, which parseSpec accepts.
THEOREM OneSenderAlways == Spec => []OneSender
<1>1. CanvasOK => OneSender
  BY AllGood DEF OneSender, Good, Compatible
<1> QED
  BY <1>1, CanvasAlwaysOK, PTL

\* Ids of nodes and ids and labels of edges are never given twice, however many
\* were deleted, undone and made again (_on-connect.ts:75-87), but for the labels that
\* two edges of a loaded file share.
THEOREM AlwaysDistinct == Spec => []Distinct
<1>1. CanvasOK => Distinct
  BY AllGood DEF Distinct, Good, Compatible
<1> QED
  BY <1>1, CanvasAlwaysOK, PTL
=============================================================================
