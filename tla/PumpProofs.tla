----------------------------- MODULE PumpProofs -----------------------------
(* Proofs about the trace events on the canvas, for any nodes, drawings,     *)
(* events and bounds.                                                        *)
EXTENDS Pump, WellFoundedInduction, TLAPS

-----------------------------------------------------------------------------
(* Numbers, and what is computed update by update or event by event.         *)

\* A set of numbers that is not empty has a least one.
LEMMA LeastNumber ==
  ASSUME NEW T \in SUBSET Nat, T # {}
  PROVE  \E n \in T : \A m \in T : n <= m
<1> DEFINE R == OpToRel(<, Nat)
<1>1. \A m, n \in Nat : <<m, n>> \in R <=> m < n
  BY DEF OpToRel
<1>2. IsWellFoundedOn(R, Nat)
  BY NatLessThanWellFounded
<1> HIDE DEF R
<1>3. PICK x \in T : \A y \in T : ~ (<<y, x>> \in R)
  BY <1>2, WFMin
<1>4. ASSUME NEW y \in T PROVE x <= y
  <2>1. x \in Nat /\ y \in Nat /\ ~ (y < x)
    BY <1>1, <1>3
  <2> QED
    BY <2>1
<1> QED
  BY <1>4

\* f gives the states from `state` through the first n updates of q.
Runs(f, state, q, n) ==
  f = [k \in 0..n |-> IF k = 0 THEN state ELSE Applied(f[k - 1], q[k])]

\* The function that After computes exists.
LEMMA AfterExists ==
  ASSUME NEW state, NEW q, NEW n \in Nat
  PROVE  \E f : Runs(f, state, q, n)
<1> DEFINE T == {m \in Nat : ~ \E f : Runs(f, state, q, m)}
<1> SUFFICES ASSUME T # {} PROVE FALSE
  OBVIOUS
<1>1. PICK m \in T : \A j \in T : m <= j
  BY LeastNumber
<1>2. m \in Nat
  BY <1>1
<1>3. CASE m = 0
  <2>1. Runs([k \in 0..0 |-> state], state, q, 0)
    BY DEF Runs
  <2>2. QED
    BY <1>1, <1>3, <2>1
<1>4. CASE m # 0
  <2>1. m - 1 \in Nat /\ m - 1 \notin T
    BY <1>1, <1>2, <1>4
  <2>2. PICK g : Runs(g, state, q, m - 1)
    BY <2>1
  <2> DEFINE f == [k \in 0..m |-> IF k < m THEN g[k] ELSE Applied(g[m - 1], q[m])]
  <2>3. ASSUME NEW k \in 0..m
        PROVE  f[k] = IF k = 0 THEN state ELSE Applied(f[k - 1], q[k])
    <3>1. CASE k = 0
      BY <1>2, <1>4, <2>2, <3>1 DEF Runs
    <3>2. CASE k # 0 /\ k < m
      <4>1. k \in 0..(m - 1) /\ k - 1 \in 0..m /\ k - 1 < m
        BY <1>2, <3>2
      <4>2. f[k] = g[k] /\ f[k - 1] = g[k - 1]
        BY <3>2, <4>1
      <4>3. g[k] = Applied(g[k - 1], q[k])
        BY <2>2, <3>2, <4>1 DEF Runs
      <4>4. QED
        BY <3>2, <4>2, <4>3
    <3>3. CASE k = m
      <4>1. f[m] = Applied(g[m - 1], q[m]) /\ f[m - 1] = g[m - 1]
        BY <1>2, <1>4
      <4>2. QED
        BY <1>4, <3>3, <4>1
    <3>4. QED
      BY <1>2, <3>1, <3>2, <3>3
  <2>4. f = [k \in 0..m |-> f[k]]
    OBVIOUS
  <2> HIDE DEF f
  <2>5. Runs(f, state, q, m)
    BY <2>3, <2>4 DEF Runs
  <2>6. QED
    BY <1>1, <2>5
<1>5. QED
  BY <1>3, <1>4

\* What After computes, as a function of the number of updates applied.
LEMMA AfterRuns ==
  ASSUME NEW state, NEW q, Len(q) \in Nat
  PROVE  \E f : Runs(f, state, q, Len(q)) /\ After(state, q) = f[Len(q)]
<1> DEFINE after == CHOOSE f : Runs(f, state, q, Len(q))
<1>1. Runs(after, state, q, Len(q))
  BY AfterExists
<1>2. After(state, q) = after[Len(q)]
  BY DEF After, Runs
<1> HIDE DEF after
<1>3. QED
  BY <1>1, <1>2

\* Nothing to apply changes nothing.
LEMMA AfterNone ==
  ASSUME NEW state
  PROVE  After(state, <<>>) = state
<1>1. Len(<<>>) = 0
  OBVIOUS
<1>2. PICK f : Runs(f, state, <<>>, Len(<<>>)) /\ After(state, <<>>) = f[Len(<<>>)]
  BY <1>1, AfterRuns
<1>3. f[0] = state
  BY <1>1, <1>2 DEF Runs
<1>4. QED
  BY <1>1, <1>2, <1>3

\* One update more is applied to the result of those before.
LEMMA AfterOneMore ==
  ASSUME NEW state, NEW S, NEW q \in Seq(S), NEW u \in S
  PROVE  After(state, Append(q, u)) = Applied(After(state, q), u)
<1> DEFINE n == Len(q)
           r == Append(q, u)
<1>1. n \in Nat /\ Len(r) = n + 1 /\ r[n + 1] = u /\ \A k \in 1..n : r[k] = q[k]
  OBVIOUS
<1>2. PICK f : Runs(f, state, q, n) /\ After(state, q) = f[n]
  BY <1>1, AfterRuns
<1>3. PICK g : Runs(g, state, r, Len(r)) /\ After(state, r) = g[Len(r)]
  <2>1. Len(r) \in Nat
    BY <1>1
  <2> HIDE DEF r
  <2>2. QED
    BY <2>1, AfterRuns
<1> HIDE DEF n, r
<1>4. \A k \in 0..n : g[k] = f[k]
  <2> DEFINE T == {k \in 0..n : g[k] # f[k]}
  <2> SUFFICES ASSUME T # {} PROVE FALSE
    OBVIOUS
  <2>1. T \in SUBSET Nat
    BY <1>1
  <2>2. PICK k \in T : \A j \in T : k <= j
    BY <2>1, LeastNumber
  <2>3. k \in 0..n /\ g[k] # f[k]
    BY <2>2
  <2>4. k # 0
    BY <1>1, <1>2, <1>3, <2>3 DEF Runs
  <2>5. k - 1 \in 0..n /\ k - 1 \notin T
    BY <1>1, <2>2, <2>3, <2>4
  <2>6. g[k - 1] = f[k - 1]
    BY <2>5
  <2>7. g[k] = Applied(g[k - 1], r[k]) /\ f[k] = Applied(f[k - 1], q[k]) /\ r[k] = q[k]
    BY <1>1, <1>2, <1>3, <2>3, <2>4 DEF Runs
  <2>8. QED
    BY <2>3, <2>6, <2>7
<1>5. g[n + 1] = Applied(g[n], u)
  BY <1>1, <1>3 DEF Runs
<1>6. After(state, r) = Applied(After(state, q), u)
  <2>1. After(state, q) = f[n] /\ g[n] = f[n]
    BY <1>1, <1>2, <1>4
  <2>2. After(state, r) = g[n + 1]
    BY <1>1, <1>3
  <2>3. QED
    BY <1>5, <2>1, <2>2
<1>7. QED
  BY <1>6 DEF r

\* f gives what the loop over the first n events of q has put out.
Collects(f, em, q, n) ==
  f = [k \in 0..n |-> IF k = 0 THEN <<>> ELSE Resolved(f[k - 1], q[k], em)]

\* The function that Resolve computes exists.
LEMMA ResolveExists ==
  ASSUME NEW em, NEW q, NEW n \in Nat
  PROVE  \E f : Collects(f, em, q, n)
<1> DEFINE T == {m \in Nat : ~ \E f : Collects(f, em, q, m)}
<1> SUFFICES ASSUME T # {} PROVE FALSE
  OBVIOUS
<1>1. PICK m \in T : \A j \in T : m <= j
  BY LeastNumber
<1>2. m \in Nat
  BY <1>1
<1>3. CASE m = 0
  <2>1. Collects([k \in 0..0 |-> <<>>], em, q, 0)
    BY DEF Collects
  <2>2. QED
    BY <1>1, <1>3, <2>1
<1>4. CASE m # 0
  <2>1. m - 1 \in Nat /\ m - 1 \notin T
    BY <1>1, <1>2, <1>4
  <2>2. PICK g : Collects(g, em, q, m - 1)
    BY <2>1
  <2> DEFINE f == [k \in 0..m |-> IF k < m THEN g[k] ELSE Resolved(g[m - 1], q[m], em)]
  <2>3. ASSUME NEW k \in 0..m
        PROVE  f[k] = IF k = 0 THEN <<>> ELSE Resolved(f[k - 1], q[k], em)
    <3>1. CASE k = 0
      BY <1>2, <1>4, <2>2, <3>1 DEF Collects
    <3>2. CASE k # 0 /\ k < m
      <4>1. k \in 0..(m - 1) /\ k - 1 \in 0..m /\ k - 1 < m
        BY <1>2, <3>2
      <4>2. f[k] = g[k] /\ f[k - 1] = g[k - 1]
        BY <3>2, <4>1
      <4>3. g[k] = Resolved(g[k - 1], q[k], em)
        BY <2>2, <3>2, <4>1 DEF Collects
      <4>4. QED
        BY <3>2, <4>2, <4>3
    <3>3. CASE k = m
      <4>1. f[m] = Resolved(g[m - 1], q[m], em) /\ f[m - 1] = g[m - 1]
        BY <1>2, <1>4
      <4>2. QED
        BY <1>4, <3>3, <4>1
    <3>4. QED
      BY <1>2, <3>1, <3>2, <3>3
  <2>4. f = [k \in 0..m |-> f[k]]
    OBVIOUS
  <2> HIDE DEF f
  <2>5. Collects(f, em, q, m)
    BY <2>3, <2>4 DEF Collects
  <2>6. QED
    BY <1>1, <2>5
<1>5. QED
  BY <1>3, <1>4

\* What Resolve computes, as a function of the number of events.
LEMMA ResolveCollects ==
  ASSUME NEW em, NEW q, Len(q) \in Nat
  PROVE  \E f : Collects(f, em, q, Len(q)) /\ Resolve(q, em) = f[Len(q)]
<1> DEFINE out == CHOOSE f : Collects(f, em, q, Len(q))
<1>1. Collects(out, em, q, Len(q))
  BY ResolveExists
<1>2. Resolve(q, em) = out[Len(q)]
  BY DEF Resolve, Collects
<1> HIDE DEF out
<1>3. QED
  BY <1>1, <1>2

\* Nothing to resolve gives nothing.
LEMMA ResolveNone ==
  ASSUME NEW em
  PROVE  Resolve(<<>>, em) = <<>>
<1>1. Len(<<>>) = 0
  OBVIOUS
<1>2. PICK f : Collects(f, em, <<>>, Len(<<>>)) /\ Resolve(<<>>, em) = f[Len(<<>>)]
  BY <1>1, ResolveCollects
<1>3. f[0] = <<>>
  BY <1>1, <1>2 DEF Collects
<1>4. QED
  BY <1>1, <1>2, <1>3

\* One event more is put behind what was resolved before.
LEMMA ResolveOneMore ==
  ASSUME NEW em, NEW S, NEW q \in Seq(S), NEW u \in S
  PROVE  Resolve(Append(q, u), em) = Resolved(Resolve(q, em), u, em)
<1> DEFINE n == Len(q)
           r == Append(q, u)
<1>1. n \in Nat /\ Len(r) = n + 1 /\ r[n + 1] = u /\ \A k \in 1..n : r[k] = q[k]
  OBVIOUS
<1>2. PICK f : Collects(f, em, q, n) /\ Resolve(q, em) = f[n]
  BY <1>1, ResolveCollects
<1>3. PICK g : Collects(g, em, r, Len(r)) /\ Resolve(r, em) = g[Len(r)]
  <2>1. Len(r) \in Nat
    BY <1>1
  <2> HIDE DEF r
  <2>2. QED
    BY <2>1, ResolveCollects
<1> HIDE DEF n, r
<1>4. \A k \in 0..n : g[k] = f[k]
  <2> DEFINE T == {k \in 0..n : g[k] # f[k]}
  <2> SUFFICES ASSUME T # {} PROVE FALSE
    OBVIOUS
  <2>1. T \in SUBSET Nat
    BY <1>1
  <2>2. PICK k \in T : \A j \in T : k <= j
    BY <2>1, LeastNumber
  <2>3. k \in 0..n /\ g[k] # f[k]
    BY <2>2
  <2>4. k # 0
    BY <1>1, <1>2, <1>3, <2>3 DEF Collects
  <2>5. k - 1 \in 0..n /\ k - 1 \notin T
    BY <1>1, <2>2, <2>3, <2>4
  <2>6. g[k - 1] = f[k - 1]
    BY <2>5
  <2>7. g[k] = Resolved(g[k - 1], r[k], em) /\ f[k] = Resolved(f[k - 1], q[k], em) /\ r[k] = q[k]
    BY <1>1, <1>2, <1>3, <2>3, <2>4 DEF Collects
  <2>8. QED
    BY <2>3, <2>6, <2>7
<1>5. g[n + 1] = Resolved(g[n], u, em)
  BY <1>1, <1>3 DEF Collects
<1>6. Resolve(r, em) = Resolved(Resolve(q, em), u, em)
  <2>1. Resolve(q, em) = f[n] /\ g[n] = f[n]
    BY <1>1, <1>2, <1>4
  <2>2. Resolve(r, em) = g[n + 1]
    BY <1>1, <1>3
  <2>3. QED
    BY <1>5, <2>1, <2>2
<1>7. QED
  BY <1>6 DEF r

\* f gives what is left of the first n events of q.
Leaves(f, d, q, n) ==
  f = [k \in 0..n |-> IF k = 0 THEN <<>> ELSE Shown(f[k - 1], q[k], d)]

\* The function that Unfolded computes exists.
LEMMA UnfoldedExists ==
  ASSUME NEW d, NEW q, NEW n \in Nat
  PROVE  \E f : Leaves(f, d, q, n)
<1> DEFINE T == {m \in Nat : ~ \E f : Leaves(f, d, q, m)}
<1> SUFFICES ASSUME T # {} PROVE FALSE
  OBVIOUS
<1>1. PICK m \in T : \A j \in T : m <= j
  BY LeastNumber
<1>2. m \in Nat
  BY <1>1
<1>3. CASE m = 0
  <2>1. Leaves([k \in 0..0 |-> <<>>], d, q, 0)
    BY DEF Leaves
  <2>2. QED
    BY <1>1, <1>3, <2>1
<1>4. CASE m # 0
  <2>1. m - 1 \in Nat /\ m - 1 \notin T
    BY <1>1, <1>2, <1>4
  <2>2. PICK g : Leaves(g, d, q, m - 1)
    BY <2>1
  <2> DEFINE f == [k \in 0..m |-> IF k < m THEN g[k] ELSE Shown(g[m - 1], q[m], d)]
  <2>3. ASSUME NEW k \in 0..m
        PROVE  f[k] = IF k = 0 THEN <<>> ELSE Shown(f[k - 1], q[k], d)
    <3>1. CASE k = 0
      BY <1>2, <1>4, <2>2, <3>1 DEF Leaves
    <3>2. CASE k # 0 /\ k < m
      <4>1. k \in 0..(m - 1) /\ k - 1 \in 0..m /\ k - 1 < m
        BY <1>2, <3>2
      <4>2. f[k] = g[k] /\ f[k - 1] = g[k - 1]
        BY <3>2, <4>1
      <4>3. g[k] = Shown(g[k - 1], q[k], d)
        BY <2>2, <3>2, <4>1 DEF Leaves
      <4>4. QED
        BY <3>2, <4>2, <4>3
    <3>3. CASE k = m
      <4>1. f[m] = Shown(g[m - 1], q[m], d) /\ f[m - 1] = g[m - 1]
        BY <1>2, <1>4
      <4>2. QED
        BY <1>4, <3>3, <4>1
    <3>4. QED
      BY <1>2, <3>1, <3>2, <3>3
  <2>4. f = [k \in 0..m |-> f[k]]
    OBVIOUS
  <2> HIDE DEF f
  <2>5. Leaves(f, d, q, m)
    BY <2>3, <2>4 DEF Leaves
  <2>6. QED
    BY <1>1, <2>5
<1>5. QED
  BY <1>3, <1>4

\* What Unfolded leaves, as a function of the number of events.
LEMMA ResolveLeaves ==
  ASSUME NEW d, NEW q, Len(q) \in Nat
  PROVE  \E f : Leaves(f, d, q, Len(q)) /\ Unfolded(q, d) = f[Len(q)]
<1> DEFINE out == CHOOSE f : Leaves(f, d, q, Len(q))
<1>1. Leaves(out, d, q, Len(q))
  BY UnfoldedExists
<1>2. Unfolded(q, d) = out[Len(q)]
  BY DEF Unfolded, Leaves
<1> HIDE DEF out
<1>3. QED
  BY <1>1, <1>2

\* Of nothing, nothing is left.
LEMMA UnfoldedNone ==
  ASSUME NEW d
  PROVE  Unfolded(<<>>, d) = <<>>
<1>1. Len(<<>>) = 0
  OBVIOUS
<1>2. PICK f : Leaves(f, d, <<>>, Len(<<>>)) /\ Unfolded(<<>>, d) = f[Len(<<>>)]
  BY <1>1, ResolveLeaves
<1>3. f[0] = <<>>
  BY <1>1, <1>2 DEF Leaves
<1>4. QED
  BY <1>1, <1>2, <1>3

\* One event more is put behind what was left before, or left out.
LEMMA UnfoldedOneMore ==
  ASSUME NEW d, NEW S, NEW q \in Seq(S), NEW u \in S
  PROVE  Unfolded(Append(q, u), d) = Shown(Unfolded(q, d), u, d)
<1> DEFINE n == Len(q)
           r == Append(q, u)
<1>1. n \in Nat /\ Len(r) = n + 1 /\ r[n + 1] = u /\ \A k \in 1..n : r[k] = q[k]
  OBVIOUS
<1>2. PICK f : Leaves(f, d, q, n) /\ Unfolded(q, d) = f[n]
  BY <1>1, ResolveLeaves
<1>3. PICK g : Leaves(g, d, r, Len(r)) /\ Unfolded(r, d) = g[Len(r)]
  <2>1. Len(r) \in Nat
    BY <1>1
  <2> HIDE DEF r
  <2>2. QED
    BY <2>1, ResolveLeaves
<1> HIDE DEF n, r
<1>4. \A k \in 0..n : g[k] = f[k]
  <2> DEFINE T == {k \in 0..n : g[k] # f[k]}
  <2> SUFFICES ASSUME T # {} PROVE FALSE
    OBVIOUS
  <2>1. T \in SUBSET Nat
    BY <1>1
  <2>2. PICK k \in T : \A j \in T : k <= j
    BY <2>1, LeastNumber
  <2>3. k \in 0..n /\ g[k] # f[k]
    BY <2>2
  <2>4. k # 0
    BY <1>1, <1>2, <1>3, <2>3 DEF Leaves
  <2>5. k - 1 \in 0..n /\ k - 1 \notin T
    BY <1>1, <2>2, <2>3, <2>4
  <2>6. g[k - 1] = f[k - 1]
    BY <2>5
  <2>7. g[k] = Shown(g[k - 1], r[k], d) /\ f[k] = Shown(f[k - 1], q[k], d) /\ r[k] = q[k]
    BY <1>1, <1>2, <1>3, <2>3, <2>4 DEF Leaves
  <2>8. QED
    BY <2>3, <2>6, <2>7
<1>5. g[n + 1] = Shown(g[n], u, d)
  BY <1>1, <1>3 DEF Leaves
<1>6. Unfolded(r, d) = Shown(Unfolded(q, d), u, d)
  <2>1. Unfolded(q, d) = f[n] /\ g[n] = f[n]
    BY <1>1, <1>2, <1>4
  <2>2. Unfolded(r, d) = g[n + 1]
    BY <1>1, <1>3
  <2>3. QED
    BY <1>5, <2>1, <2>2
<1>7. QED
  BY <1>6 DEF r

-----------------------------------------------------------------------------
(* What is on the canvas, and what may be queued.                            *)

Edge     == UNION {{d.spec[k] : k \in DOMAIN d.spec} : d \in Drawings}
Specs    == UNION {[D -> Edge] : D \in UNION {SUBSET (1..n) : n \in Nat}}
Canvases == [spec : Specs, fold : [Node -> Fold \cup {None}]]
Marks    == Mark \cup {None}

\* A canvas and the marks that a rendering may show: nothing absent is marked.
Picture == {p \in [drawing : Canvases, marks : [Item -> Marks]] :
              \A x \in Item \ On(p.drawing) : p.marks[x] = None}

MarkUpdate   == [kind : {"mark"}, item : Item, new : Mark]
DeleteUpdate == [kind : {"delete"}, item : EdgeId]
SetUpdate    == {u \in [kind : {"set"}, drawing : Canvases, marks : [Item -> Marks]] :
                   [drawing |-> u.drawing, marks |-> u.marks] \in Picture}
Update       == MarkUpdate \cup DeleteUpdate \cup SetUpdate

\* Edges join nodes, under ids of edges.
LEMMA EdgeFields ==
  ASSUME NEW e \in Edge
  PROVE  e.id \in EdgeId /\ e.source \in Node /\ e.target \in Node
<1>1. PICK d \in Drawings : \E k \in DOMAIN d.spec : e = d.spec[k]
  BY DEF Edge
<1>2. PICK k \in DOMAIN d.spec : e = d.spec[k]
  BY <1>1
<1>3. {e.source, e.target} \subseteq Node
  BY <1>2, PumpAssumption
<1>4. e.id \in {d.spec[j].id : j \in DOMAIN d.spec}
  BY <1>2
<1>5. QED
  BY <1>3, <1>4 DEF EdgeId

\* The edges of a spec are at places with a last one.
LEMMA SpecFields ==
  ASSUME NEW s \in Specs
  PROVE  /\ s = [k \in DOMAIN s |-> s[k]]
         /\ \E n \in Nat : DOMAIN s \subseteq 1..n
         /\ \A k \in DOMAIN s : s[k] \in Edge
<1>1. PICK D \in UNION {SUBSET (1..n) : n \in Nat} : s \in [D -> Edge]
  BY DEF Specs
<1>2. PICK n \in Nat : D \in SUBSET (1..n)
  BY <1>1
<1>3. DOMAIN s = D
  BY <1>1
<1>4. QED
  BY <1>1, <1>2, <1>3

\* What makes a spec.
LEMMA MakesSpec ==
  ASSUME NEW n \in Nat, NEW D \in SUBSET (1..n), NEW s \in [D -> Edge]
  PROVE  s \in Specs
<1>1. D \in UNION {SUBSET (1..m) : m \in Nat}
  OBVIOUS
<1>2. QED
  BY <1>1 DEF Specs

\* What a load draws is a canvas.
LEMMA DrawingsAreCanvases == Drawings \subseteq Canvases
<1> SUFFICES ASSUME NEW d \in Drawings PROVE d \in Canvases
  OBVIOUS
<1>1. /\ d = [spec |-> d.spec, fold |-> d.fold] /\ d.fold \in [Node -> Fold \cup {None}]
      /\ d.spec \in Seq({d.spec[k] : k \in DOMAIN d.spec})
  BY PumpAssumption
<1> DEFINE s == d.spec
<1>2. \A k \in DOMAIN s : s[k] \in Edge
  BY DEF Edge
<1>3. s \in Seq({s[k] : k \in DOMAIN s})
  BY <1>1
<1> HIDE DEF s
<1>4. Len(s) \in Nat /\ DOMAIN s = 1..Len(s) /\ s = [k \in 1..Len(s) |-> s[k]]
  BY <1>3
<1>5. s \in [1..Len(s) -> Edge]
  BY <1>2, <1>4
<1>6. s \in Specs
  BY <1>4, <1>5, MakesSpec
<1>7. QED
  BY <1>1, <1>6 DEF Canvases, s

\* What is on a canvas can be marked.
LEMMA OnIsItems ==
  ASSUME NEW d \in Canvases
  PROVE  On(d) \subseteq Item /\ IdsIn(Flow(d)) \subseteq EdgeId
<1>1. d.spec \in Specs
  BY DEF Canvases
<1>2. ASSUME NEW k \in DOMAIN Flow(d) PROVE Flow(d)[k].id \in EdgeId
  <2>1. k \in DOMAIN d.spec /\ Flow(d)[k].id = d.spec[k].id
    BY DEF Flow
  <2>2. QED
    BY <1>1, <2>1, SpecFields, EdgeFields
<1>3. IdsIn(Flow(d)) \subseteq EdgeId
  BY <1>2 DEF IdsIn
<1>4. QED
  BY <1>3 DEF On, Item

\* Without takes one edge away and leaves the rest where it is.
LEMMA WithoutIt ==
  ASSUME NEW d \in Canvases, NEW x
  PROVE  /\ Without(d, x) \in Canvases
         /\ On(Without(d, x)) \subseteq On(d) /\ On(d) \subseteq On(Without(d, x)) \cup {x}
<1> DEFINE K == {k \in DOMAIN d.spec : d.spec[k].id # x}
           s == [k \in K |-> d.spec[k]]
           w == [spec |-> s, fold |-> d.fold]
<1>1. d = [spec |-> d.spec, fold |-> d.fold] /\ d.spec \in Specs
      /\ d.fold \in [Node -> Fold \cup {None}]
  BY DEF Canvases
<1>2. Without(d, x) = w
  <2>1. Without(d, x) = [d EXCEPT !.spec = s]
    BY DEF Without
  <2> HIDE DEF s
  <2>2. QED
    BY <1>1, <2>1
<1>3. s \in Specs
  <2>1. PICK n \in Nat : DOMAIN d.spec \subseteq 1..n
    BY <1>1, SpecFields
  <2>2. s \in [K -> Edge]
    BY <1>1, SpecFields
  <2>3. K \in SUBSET (1..n)
    BY <2>1
  <2> HIDE DEF s, K
  <2>4. QED
    BY <2>2, <2>3, MakesSpec
<1>4. w \in Canvases
  BY <1>1, <1>3 DEF Canvases
<1>5. DOMAIN s = K /\ \A k \in K : s[k] = d.spec[k]
  OBVIOUS
<1>6. w.spec = s /\ w.fold = d.fold
  OBVIOUS
<1> HIDE DEF s, w
<1>7. /\ DOMAIN Flow(w) = {k \in DOMAIN Flow(d) : d.spec[k].id # x}
      /\ \A k \in DOMAIN Flow(w) : Flow(w)[k].id = d.spec[k].id
      /\ \A k \in DOMAIN Flow(d) : Flow(d)[k].id = d.spec[k].id
  <2>1. DOMAIN Flow(w) = {k \in K : \/ w.fold[s[k].source] = None
                                    \/ w.fold[s[k].source] # w.fold[s[k].target]}
    BY <1>5, <1>6 DEF Flow
  <2>2. DOMAIN Flow(d) = {k \in DOMAIN d.spec : \/ d.fold[d.spec[k].source] = None
                                                \/ d.fold[d.spec[k].source] # d.fold[d.spec[k].target]}
    BY DEF Flow
  <2>3. DOMAIN Flow(w) = {k \in DOMAIN Flow(d) : d.spec[k].id # x}
    BY <1>5, <1>6, <2>1, <2>2
  <2>4. \A k \in DOMAIN Flow(w) : Flow(w)[k].id = d.spec[k].id
    BY <1>5, <1>6 DEF Flow
  <2>5. \A k \in DOMAIN Flow(d) : Flow(d)[k].id = d.spec[k].id
    BY DEF Flow
  <2>6. QED
    BY <2>3, <2>4, <2>5
<1>8. Hidden(w) = Hidden(d)
  BY <1>6 DEF Hidden
<1>9. IdsIn(Flow(w)) \subseteq IdsIn(Flow(d)) /\ IdsIn(Flow(d)) \subseteq IdsIn(Flow(w)) \cup {x}
  BY <1>7 DEF IdsIn
<1>10. QED
  BY <1>2, <1>4, <1>8, <1>9 DEF On

\* What there is to a picture.
LEMMA InPicture ==
  ASSUME NEW p \in Picture
  PROVE  /\ p = [drawing |-> p.drawing, marks |-> p.marks]
         /\ p.drawing \in Canvases /\ p.marks \in [Item -> Marks]
         /\ \A x \in Item \ On(p.drawing) : p.marks[x] = None
  BY DEF Picture

\* What makes a picture.
LEMMA MakesPicture ==
  ASSUME NEW d \in Canvases, NEW ms \in [Item -> Marks],
         \A x \in Item \ On(d) : ms[x] = None
  PROVE  [drawing |-> d, marks |-> ms] \in Picture
  BY DEF Picture

\* A mark on what is there changes this mark and nothing else; on what is not,
\* nothing.
LEMMA AppliedMark ==
  ASSUME NEW p \in Picture, NEW u \in MarkUpdate
  PROVE  /\ Applied(p, u) \in Picture /\ Applied(p, u).drawing = p.drawing
         /\ Applied(p, u).marks = IF u.item \in On(p.drawing)
                                  THEN [p.marks EXCEPT ![u.item] = u.new] ELSE p.marks
<1>1. u.kind = "mark" /\ u.item \in Item /\ u.new \in Marks
  BY DEF MarkUpdate, Marks
<1>2. /\ p.drawing \in Canvases /\ p.marks \in [Item -> Marks]
      /\ \A x \in Item \ On(p.drawing) : p.marks[x] = None
      /\ p = [drawing |-> p.drawing, marks |-> p.marks]
  BY InPicture
<1> DEFINE ms == [p.marks EXCEPT ![u.item] = u.new]
<1>3. CASE u.item \in On(p.drawing)
  <2>1. [p EXCEPT !.marks[u.item] = u.new] = [drawing |-> p.drawing, marks |-> ms]
    BY <1>2
  <2>2. Applied(p, u) = [drawing |-> p.drawing, marks |-> ms]
    BY <1>1, <1>3, <2>1 DEF Applied
  <2>3. ms \in [Item -> Marks]
    BY <1>1, <1>2
  <2>4. \A x \in Item \ On(p.drawing) : ms[x] = None
    BY <1>2, <1>3
  <2> HIDE DEF ms
  <2>5. [drawing |-> p.drawing, marks |-> ms] \in Picture
    BY <1>2, <2>3, <2>4, MakesPicture
  <2>6. Applied(p, u) \in Picture /\ Applied(p, u).drawing = p.drawing /\ Applied(p, u).marks = ms
    BY <2>2, <2>5
  <2>7. QED
    BY <1>3, <2>6 DEF ms
<1>4. CASE u.item \notin On(p.drawing)
  <2>1. Applied(p, u) = p
    BY <1>1, <1>4 DEF Applied
  <2>2. QED
    BY <1>4, <2>1
<1>5. QED
  BY <1>3, <1>4

\* A deleted edge leaves no mark.
LEMMA AppliedDelete ==
  ASSUME NEW p \in Picture, NEW u \in DeleteUpdate
  PROVE  /\ Applied(p, u) \in Picture
         /\ On(Applied(p, u).drawing) \subseteq On(p.drawing)
         /\ Applied(p, u).marks = [p.marks EXCEPT ![u.item] = None]
<1>1. u.kind = "delete" /\ u.item \in Item
  BY DEF DeleteUpdate, Item
<1>2. /\ p.drawing \in Canvases /\ p.marks \in [Item -> Marks]
      /\ \A x \in Item \ On(p.drawing) : p.marks[x] = None
      /\ p = [drawing |-> p.drawing, marks |-> p.marks]
  BY InPicture
<1> DEFINE ms == [p.marks EXCEPT ![u.item] = None]
           d == Without(p.drawing, u.item)
<1>3. d \in Canvases /\ On(d) \subseteq On(p.drawing) /\ On(p.drawing) \subseteq On(d) \cup {u.item}
  BY <1>2, WithoutIt
<1>4. ms \in [Item -> Marks] /\ \A x \in Item \ On(d) : ms[x] = None
  BY <1>1, <1>2, <1>3 DEF Marks
<1>5. Applied(p, u) = [p EXCEPT !.drawing = Without(@, u.item), !.marks[u.item] = None]
  BY <1>1 DEF Applied
<1>6. [p EXCEPT !.drawing = Without(@, u.item), !.marks[u.item] = None]
        = [drawing |-> d, marks |-> ms]
  <2> DEFINE a == p.drawing
             b == p.marks
             q == [p EXCEPT !.drawing = d]
  <2>1. p = [drawing |-> a, marks |-> b]
    BY <1>2
  <2>2. [p EXCEPT !.drawing = Without(@, u.item), !.marks[u.item] = None]
          = [q EXCEPT !.marks[u.item] = None]
    OBVIOUS
  <2> HIDE DEF a, b, d
  <2>3. q = [drawing |-> d, marks |-> b]
    BY <2>1
  <2> HIDE DEF q
  <2>4. [q EXCEPT !.marks[u.item] = None] = [drawing |-> d, marks |-> [b EXCEPT ![u.item] = None]]
    BY <2>3
  <2>5. QED
    BY <2>2, <2>4 DEF b
<1> HIDE DEF ms, d
<1>7. [drawing |-> d, marks |-> ms] \in Picture
  BY <1>3, <1>4, MakesPicture
<1>8. Applied(p, u) \in Picture /\ On(Applied(p, u).drawing) \subseteq On(p.drawing)
      /\ Applied(p, u).marks = ms
  BY <1>3, <1>5, <1>6, <1>7
<1>9. QED
  BY <1>8 DEF ms

\* What is set replaces everything.
LEMMA AppliedSet ==
  ASSUME NEW p, NEW u \in SetUpdate
  PROVE  /\ Applied(p, u) \in Picture
         /\ Applied(p, u).drawing = u.drawing /\ Applied(p, u).marks = u.marks
<1>1. u.kind = "set" /\ [drawing |-> u.drawing, marks |-> u.marks] \in Picture
  BY DEF SetUpdate
<1>2. Applied(p, u) = [drawing |-> u.drawing, marks |-> u.marks]
  BY <1>1 DEF Applied
<1>3. QED
  BY <1>1, <1>2

\* The first and the last place of a list are places of it.
LEMMA EndsOfPlaces ==
  ASSUME NEW n \in Nat, NEW P \in SUBSET (1..n), P # {}
  PROVE  Min(P) \in P /\ Max(P) \in P
<1>1. Min(P) \in P
  <2>1. P \in SUBSET Nat
    OBVIOUS
  <2>2. \E a \in P : \A b \in P : a <= b
    BY <2>1, LeastNumber
  <2>3. QED
    BY <2>2 DEF Min
<1>2. Max(P) \in P
  <2> DEFINE T == {n - k : k \in P}
  <2>1. T \in SUBSET Nat /\ T # {}
    <3>1. \A k \in P : n - k \in Nat
      OBVIOUS
    <3>2. T \in SUBSET Nat
      BY <3>1
    <3>3. PICK k \in P : TRUE
      OBVIOUS
    <3>4. n - k \in T
      BY <3>3
    <3>5. QED
      BY <3>2, <3>4
  <2> HIDE DEF T
  <2>2. PICK d \in T : \A e \in T : d <= e
    BY <2>1, LeastNumber
  <2>3. PICK a \in P : d = n - a
    BY <2>2 DEF T
  <2>4. ASSUME NEW b \in P PROVE a >= b
    <3>1. n - b \in T
      BY DEF T
    <3>2. n - a <= n - b
      BY <2>2, <2>3, <3>1
    <3>3. a \in Nat /\ b \in Nat
      OBVIOUS
    <3>4. QED
      BY <3>2, <3>3
  <2>5. \E x \in P : \A y \in P : x >= y
    BY <2>4
  <2>6. QED
    BY <2>5 DEF Max
<1>3. QED
  BY <1>1, <1>2

\* The places of the edges of a spec that leave the port an event names.
Places(spec, ev) == {k \in DOMAIN spec : spec[k].source = ev.node /\ spec[k].port = ev.port}

\* The pump looks among the edges on the canvas, and finds those of the spec, unless
\* the node is in a collapsed fold: then it finds none.
LEMMA FoundInSpec ==
  ASSUME drawing \in Canvases, NEW ev \in Event
  PROVE  /\ Found(ev) = IF ev.node \in Hidden(drawing) THEN {} ELSE Places(drawing.spec, ev)
         /\ \A k \in Found(ev) : edges[k].id = drawing.spec[k].id /\ edges[k].id \in EdgeId
<1> DEFINE s == drawing.spec
           f == drawing.fold
<1>1. s \in Specs /\ f \in [Node -> Fold \cup {None}]
  BY DEF Canvases
<1>2. \A k \in DOMAIN s : s[k].id \in EdgeId /\ s[k].source \in Node /\ s[k].target \in Node
  BY <1>1, SpecFields, EdgeFields
<1>3. ev.node \in Node /\ None \notin Fold /\ Node \cap Fold = {}
  BY PumpAssumption
<1>4. DOMAIN edges = {k \in DOMAIN s : f[s[k].source] = None \/ f[s[k].source] # f[s[k].target]}
  BY DEF edges, Flow
<1>5. ASSUME NEW k \in DOMAIN edges
      PROVE  /\ k \in DOMAIN s /\ edges[k].id = s[k].id
             /\ edges[k].source = IF f[s[k].source] # None THEN f[s[k].source] ELSE s[k].source
             /\ edges[k].port = IF f[s[k].source] = None THEN s[k].port ELSE None
  BY DEF edges, Flow, End
<1>6. ev.node \in Hidden(drawing) <=> f[ev.node] # None
  BY <1>3 DEF Hidden
<1> HIDE DEF s, f
<1>7. ASSUME NEW k \in Found(ev)
      PROVE  k \in DOMAIN s /\ s[k].source = ev.node /\ s[k].port = ev.port /\ f[ev.node] = None
  <2>1. k \in DOMAIN edges /\ edges[k].source = ev.node /\ edges[k].port = ev.port
    BY DEF Found
  <2>2. f[s[k].source] = None
    <3>1. s[k].source \in Node /\ f[s[k].source] \in Fold \cup {None}
      BY <1>1, <1>2, <1>5, <2>1
    <3>2. QED
      BY <1>3, <1>5, <2>1, <3>1
  <2>3. QED
    BY <1>5, <2>1, <2>2
<1>8. ASSUME NEW k \in DOMAIN s, s[k].source = ev.node, s[k].port = ev.port, f[ev.node] = None
      PROVE  k \in Found(ev)
  <2>1. k \in DOMAIN edges
    BY <1>4, <1>8
  <2>2. edges[k].source = ev.node /\ edges[k].port = ev.port
    BY <1>5, <1>8, <2>1
  <2>3. QED
    BY <2>1, <2>2 DEF Found
<1>9. Found(ev) = IF f[ev.node] # None THEN {} ELSE Places(s, ev)
  BY <1>7, <1>8 DEF Places
<1>10. \A k \in Found(ev) : k \in DOMAIN edges
  BY DEF Found
<1>11. \A k \in Found(ev) : edges[k].id = s[k].id /\ edges[k].id \in EdgeId
  BY <1>2, <1>5, <1>7, <1>10
<1>12. QED
  BY <1>6, <1>9, <1>11 DEF s

\* The map has an edge for a port just when the spec has one, and it is of this port.
LEMMA MappedInSpec ==
  ASSUME NEW s \in Specs, NEW ev \in Event
  PROVE  LET p == <<ev.node, ev.port>> IN
         /\ p \in DOMAIN EdgeMap(s) <=> Places(s, ev) # {}
         /\ p \in DOMAIN EdgeMap(s) =>
              \E k \in Places(s, ev) : EdgeMap(s)[p] = s[k].id /\ s[k].id \in EdgeId
<1> DEFINE p == <<ev.node, ev.port>>
           port(k) == <<s[k].source, s[k].port>>
           P == {k \in DOMAIN s : port(k) = p}
<1>1. P = Places(s, ev)
  BY DEF Places
<1>2. EdgeMap(s) = [q \in {port(k) : k \in DOMAIN s} |-> s[Max({k \in DOMAIN s : port(k) = q})].id]
  BY DEF EdgeMap
<1>3. DOMAIN EdgeMap(s) = {port(k) : k \in DOMAIN s}
  BY <1>2
<1>4. p \in DOMAIN EdgeMap(s) <=> P # {}
  <2> HIDE DEF p, port
  <2>1. QED
    BY <1>3
<1>5. ASSUME p \in DOMAIN EdgeMap(s)
      PROVE  Max(P) \in P /\ EdgeMap(s)[p] = s[Max(P)].id
  <2>1. PICK n \in Nat : DOMAIN s \subseteq 1..n
    BY SpecFields
  <2>2. P \in SUBSET (1..n) /\ P # {}
    BY <1>4, <1>5, <2>1
  <2>3. Max(P) \in P
    <3> HIDE DEF P
    <3>1. QED
      BY <2>2, EndsOfPlaces
  <2>4. EdgeMap(s)[p] = s[Max(P)].id
    <3> HIDE DEF p, port
    <3>1. QED
      BY <1>2, <1>3, <1>5
  <2>5. QED
    BY <2>3, <2>4
<1>6. \A k \in P : s[k].id \in EdgeId
  BY SpecFields, EdgeFields
<1> HIDE DEF P
<1>7. QED
  BY <1>1, <1>4, <1>5, <1>6

-----------------------------------------------------------------------------
(* The invariant.  What TypeOK says of the hooks is kept only because what   *)
(* is animated is not among what was cut off, and ShowsTheLast holds of a    *)
(* rendering because it already holds of the one that is due.                *)

Step == 0..(MaxEvents - 1)
Placed == [ev : Event, edge : EdgeId \cup {None}]

Typed ==
  /\ [drawing |-> drawing, marks |-> mark] \in Picture
  /\ queue \in Seq(Update)
  /\ seen \in [Item -> Step \cup {None}]
  /\ kept \in Picture \cup {None}
  /\ acts \in 0..MaxActs /\ run \in 1..(acts + 1)
  /\ raw \in Seq(Event) /\ Len(raw) <= MaxEvents
  /\ last \in [Item -> Marks]

\* The rendering that is due shows the last marks.
Due ==
  /\ Rendered \in Picture
  /\ \A x \in On(Rendered.drawing) : Rendered.marks[x] = last[x]

\* What the hooks know is there, and what is animated is so for its mark.
Hooked ==
  /\ lit \subseteq Present /\ ticking \subseteq Present /\ cut \subseteq lit
  /\ cut \cap ticking = {}
  /\ \A x \in Item \ Present : seen[x] = None
  /\ \A x \in ticking : mark[x] # None /\ seen[x] = mark[x].step

\* What the resolver makes of the events so far, and what is left of it without
\* the sends of hidden nodes.
Resolution == Resolve(raw, EdgeMap(drawing.spec))
Visible    == Unfolded(Resolution, drawing)

\* What the resolver makes of the events so far is what was drawn, as long as
\* the drawing is the one that the run began with; then also the rendering that is
\* due has it, as it does when nothing but marks is queued.
Agreed ==
  /\ steady \in BOOLEAN
  /\ steady \/ (\A k \in DOMAIN queue : queue[k].kind = "mark") => Rendered.drawing = drawing
  /\ drawn \in Seq(Placed)
  /\ steady => Resolution \in Seq(Placed) /\ Visible \in Seq(Placed) /\ AgreesWithResolve

PumpOK == Typed /\ Due /\ Hooked /\ Agreed

-----------------------------------------------------------------------------
(* What the handlers queue.                                                  *)

\* One more update is queued, and the rendering that is due has it applied.
LEMMA Enqueued ==
  ASSUME Typed, NEW u \in Update, queue' = Append(queue, u), drawing' = drawing, mark' = mark
  PROVE  /\ queue' \in Seq(Update) /\ Rendered' = Applied(Rendered, u)
         /\ (\A k \in DOMAIN queue' : queue'[k].kind = "mark") =>
              u.kind = "mark" /\ \A k \in DOMAIN queue : queue[k].kind = "mark"
<1>1. queue \in Seq(Update)
  BY DEF Typed
<1>2. Rendered' = Applied(Rendered, u)
  BY <1>1, AfterOneMore DEF Rendered
<1>3. /\ queue' \in Seq(Update) /\ Len(queue) \in Nat /\ DOMAIN queue = 1..Len(queue)
      /\ DOMAIN queue' = 1..(Len(queue) + 1) /\ queue'[Len(queue) + 1] = u
      /\ \A k \in 1..Len(queue) : queue'[k] = queue[k]
  BY <1>1
<1>4. ASSUME \A k \in DOMAIN queue' : queue'[k].kind = "mark"
      PROVE  u.kind = "mark" /\ \A k \in DOMAIN queue : queue[k].kind = "mark"
  <2>1. Len(queue) + 1 \in DOMAIN queue' /\ \A k \in DOMAIN queue : k \in DOMAIN queue'
    BY <1>3
  <2>2. QED
    BY <1>3, <1>4, <2>1
<1>5. QED
  BY <1>2, <1>3, <1>4

\* An item gets a mark, which is then its last one.
LEMMA Marked ==
  ASSUME Typed, Due, NEW x \in Item, NEW m \in Mark, Put(x, m),
         last' = [last EXCEPT ![x] = m], drawing' = drawing, mark' = mark
  PROVE  /\ queue' \in Seq(Update) /\ last' \in [Item -> Marks] /\ Due'
         /\ Rendered'.drawing = Rendered.drawing
         /\ (\A k \in DOMAIN queue' : queue'[k].kind = "mark") =>
              \A k \in DOMAIN queue : queue[k].kind = "mark"
<1> DEFINE u == [kind |-> "mark", item |-> x, new |-> m]
<1>1. u \in MarkUpdate /\ u.item = x /\ u.new = m /\ queue' = Append(queue, u)
  BY DEF MarkUpdate, Put
<1> HIDE DEF u
<1>2. u \in Update
  BY <1>1 DEF Update
<1>3. /\ queue' \in Seq(Update) /\ Rendered' = Applied(Rendered, u)
      /\ (\A k \in DOMAIN queue' : queue'[k].kind = "mark") =>
           \A k \in DOMAIN queue : queue[k].kind = "mark"
  BY <1>1, <1>2, Enqueued
<1> DEFINE p == Rendered
<1>4. p \in Picture /\ \A y \in On(p.drawing) : p.marks[y] = last[y]
  BY DEF Due
<1>5. /\ p.drawing \in Canvases /\ p.marks \in [Item -> Marks]
  BY <1>4, InPicture
<1>6. On(p.drawing) \subseteq Item
  BY <1>5, OnIsItems DEF Item
<1>7. last \in [Item -> Marks]
  BY DEF Typed
<1>8. last' \in [Item -> Marks]
  BY <1>7 DEF Marks
<1> DEFINE r == Applied(Rendered, u)
<1>9. /\ r \in Picture /\ r.drawing = p.drawing
      /\ r.marks = IF u.item \in On(p.drawing)
                   THEN [p.marks EXCEPT ![u.item] = u.new] ELSE p.marks
  BY <1>1, <1>4, AppliedMark
<1> HIDE DEF r, p
<1>10. \A y \in On(r.drawing) : r.marks[y] = last'[y]
  BY <1>1, <1>4, <1>5, <1>6, <1>7, <1>9
<1>11. Rendered' = r /\ p = Rendered
  BY <1>3 DEF r, p
<1>12. Due'
  BY <1>9, <1>10, <1>11 DEF Due
<1>13. QED
  BY <1>3, <1>8, <1>9, <1>11, <1>12

\* Two lists of placed events that agree.
AgreeOn(d, t, s) ==
  /\ Len(d) = Len(t)
  /\ \A k \in DOMAIN d :
       /\ d[k].ev = t[k].ev
       /\ d[k].edge = t[k].edge \/ OfOnePort(s, d[k].ev, d[k].edge, t[k].edge)

\* They still do when the same event is put behind both.
LEMMA AgreeOneMore ==
  ASSUME NEW d \in Seq(Placed), NEW t \in Seq(Placed), NEW s, AgreeOn(d, t, s),
         NEW x \in Placed, NEW y \in Placed, x.ev = y.ev,
         x.edge = y.edge \/ OfOnePort(s, x.ev, x.edge, y.edge)
  PROVE  AgreeOn(Append(d, x), Append(t, y), s)
<1> DEFINE d2 == Append(d, x)
           t2 == Append(t, y)
           n == Len(d)
<1>1. n \in Nat /\ Len(t) = n /\ DOMAIN d = 1..n
  BY DEF AgreeOn
<1>2. /\ Len(d2) = n + 1 /\ Len(t2) = n + 1 /\ DOMAIN d2 = 1..(n + 1)
      /\ d2[n + 1] = x /\ t2[n + 1] = y
      /\ \A k \in 1..n : d2[k] = d[k] /\ t2[k] = t[k]
  BY <1>1
<1> HIDE DEF d2, t2, n
<1>3. ASSUME NEW k \in 1..n
      PROVE  /\ d2[k].ev = t2[k].ev
             /\ d2[k].edge = t2[k].edge \/ OfOnePort(s, d2[k].ev, d2[k].edge, t2[k].edge)
  <2>1. d2[k] = d[k] /\ t2[k] = t[k] /\ k \in DOMAIN d
    BY <1>1, <1>2
  <2>2. QED
    BY <2>1 DEF AgreeOn
<1>4. ASSUME NEW k \in DOMAIN d2 PROVE k \in 1..n \/ k = n + 1
  BY <1>1, <1>2
<1>5. AgreeOn(d2, t2, s)
  BY <1>2, <1>3, <1>4 DEF AgreeOn
<1>6. QED
  BY <1>5 DEF d2, t2

\* AgreesWithResolve in these words.
LEMMA Agrees == AgreesWithResolve <=> (steady => AgreeOn(drawn, Visible, drawing.spec))
BY DEF AgreesWithResolve, AgreeOn, Visible, Resolution

\* An event is placed by the pump: x is the edge of the first one found.
\* The resolver places it too, on an edge of the same port.
LEMMA PlacedOnce ==
  ASSUME Typed, Agreed, NEW ev \in Event, raw' = Append(raw, ev),
         drawing' = drawing, steady' = steady,
         NEW x, \/ ev.kind # "send" /\ x = None
                \/ ev.kind = "send" /\ Found(ev) # {} /\ x = edges[Min(Found(ev))].id,
         drawn' = Append(drawn, [ev |-> ev, edge |-> x])
  PROVE  /\ drawn' \in Seq(Placed)
         /\ steady' => Resolution' \in Seq(Placed) /\ Visible' \in Seq(Placed) /\ AgreesWithResolve'
<1> DEFINE s == drawing.spec
           em == EdgeMap(s)
           p == <<ev.node, ev.port>>
           y == IF ev.kind = "send" THEN em[p] ELSE None
           d == [ev |-> ev, edge |-> x]
           e == [ev |-> ev, edge |-> y]
<1>1. drawing \in Canvases /\ s \in Specs /\ raw \in Seq(Event) /\ drawn \in Seq(Placed)
  BY InPicture DEF Typed, Agreed, Canvases
<1>2. ASSUME ev.kind = "send"
      PROVE  /\ ev.node \notin Hidden(drawing) /\ p \in DOMAIN em
             /\ \E a, b \in Places(s, ev) :
                  x = s[a].id /\ y = s[b].id /\ x \in EdgeId /\ y \in EdgeId
  <2>1. Found(ev) # {} /\ x = edges[Min(Found(ev))].id
    BY <1>2
  <2>2. /\ ev.node \notin Hidden(drawing) /\ Found(ev) = Places(s, ev)
        /\ \A k \in Found(ev) : edges[k].id = s[k].id /\ edges[k].id \in EdgeId
    BY <1>1, <2>1, FoundInSpec
  <2>3. PICK n \in Nat : DOMAIN s \subseteq 1..n
    BY <1>1, SpecFields
  <2>4. Found(ev) \in SUBSET (1..n)
    BY <2>2, <2>3 DEF Places
  <2>5. Min(Found(ev)) \in Found(ev)
    BY <2>1, <2>4, EndsOfPlaces
  <2>6. p \in DOMAIN em /\ \E b \in Places(s, ev) : em[p] = s[b].id /\ s[b].id \in EdgeId
    BY <1>1, <2>1, <2>2, MappedInSpec
  <2>7. QED
    BY <1>2, <2>1, <2>2, <2>5, <2>6
<1>3. x \in EdgeId \cup {None} /\ y \in EdgeId \cup {None}
  BY <1>2
<1>4. x = y \/ OfOnePort(s, ev, x, y)
  BY <1>2 DEF OfOnePort, Places
<1>5. Resolve(raw', em) = Append(Resolution, e)
  <2>1. Resolve(raw', em) = Resolved(Resolution, ev, em)
    BY <1>1, ResolveOneMore DEF Resolution
  <2>2. QED
    BY <1>2, <2>1 DEF Resolved
<1> HIDE DEF y
<1>6. /\ d \in Placed /\ e \in Placed /\ d.ev = ev /\ e.ev = ev /\ d.edge = x /\ e.edge = y
  BY <1>3 DEF Placed
<1>7. drawn' = Append(drawn, d)
  OBVIOUS
<1> HIDE DEF d, e
<1>8. drawn' \in Seq(Placed)
  BY <1>1, <1>6, <1>7
<1>9. Resolution' = Append(Resolution, e) /\ Visible' = Unfolded(Append(Resolution, e), drawing)
  <2>1. Resolution' = Resolve(raw', EdgeMap(drawing.spec))
    BY DEF Resolution
  <2>2. Visible' = Unfolded(Resolution', drawing)
    BY DEF Visible
  <2>3. QED
    BY <1>5, <2>1, <2>2
<1>10. ASSUME steady
       PROVE  Resolution' \in Seq(Placed) /\ Visible' \in Seq(Placed)
              /\ AgreeOn(drawn', Visible', s)
  <2>1. Resolution \in Seq(Placed) /\ Visible \in Seq(Placed) /\ AgreeOn(drawn, Visible, s)
    BY <1>10, Agrees DEF Agreed
  <2>2. Visible' = Shown(Visible, e, drawing)
    BY <1>6, <1>9, <2>1, UnfoldedOneMore DEF Visible
  <2>3. Visible' = Append(Visible, e)
    BY <1>2, <1>6, <2>2 DEF Shown
  <2>4. AgreeOn(Append(drawn, d), Append(Visible, e), s)
    BY <1>1, <1>4, <1>6, <2>1, AgreeOneMore
  <2>5. QED
    BY <1>6, <1>7, <1>9, <2>1, <2>3, <2>4
<1>11. (steady => AgreeOn(drawn, Visible, drawing.spec))' => AgreesWithResolve'
  BY Agrees, PTL
<1>12. steady' => Resolution' \in Seq(Placed) /\ Visible' \in Seq(Placed) /\ AgreesWithResolve'
  BY <1>10, <1>11
<1>13. QED
  BY <1>8, <1>12

\* A send that the pump skips is dropped by the resolver, or of a hidden node.
LEMMA SkippedOnce ==
  ASSUME Typed, Agreed, NEW ev \in Event, raw' = Append(raw, ev),
         drawing' = drawing, steady' = steady, drawn' = drawn,
         ev.kind = "send", Found(ev) = {}
  PROVE  /\ drawn' \in Seq(Placed)
         /\ steady' => Resolution' \in Seq(Placed) /\ Visible' \in Seq(Placed) /\ AgreesWithResolve'
<1> DEFINE s == drawing.spec
           em == EdgeMap(s)
           p == <<ev.node, ev.port>>
           e == [ev |-> ev, edge |-> em[p]]
<1>1. drawing \in Canvases /\ s \in Specs /\ raw \in Seq(Event) /\ drawn \in Seq(Placed)
  BY InPicture DEF Typed, Agreed, Canvases
<1>2. p \in DOMAIN em => ev.node \in Hidden(drawing) /\ em[p] \in EdgeId
  BY <1>1, FoundInSpec, MappedInSpec
<1>3. Resolution' = Resolved(Resolution, ev, em) /\ Visible' = Unfolded(Resolution', drawing)
  <2>1. Resolution' = Resolve(raw', EdgeMap(drawing.spec))
    BY DEF Resolution
  <2>2. Resolve(raw', em) = Resolved(Resolution, ev, em)
    BY <1>1, ResolveOneMore DEF Resolution
  <2>3. Visible' = Unfolded(Resolution', drawing)
    BY DEF Visible
  <2>4. QED
    BY <2>1, <2>2, <2>3
<1>4. ASSUME steady
      PROVE  Resolution' \in Seq(Placed) /\ Visible' = Visible
  <2>1. Resolution \in Seq(Placed) /\ Visible \in Seq(Placed)
    BY <1>4 DEF Agreed
  <2>2. CASE p \notin DOMAIN em
    <3>1. Resolution' = Resolution
      BY <1>3, <2>2 DEF Resolved
    <3>2. QED
      BY <1>3, <2>1, <3>1 DEF Visible
  <2>3. CASE p \in DOMAIN em
    <3>1. Resolution' = Append(Resolution, e)
      BY <1>3, <2>3 DEF Resolved
    <3>2. e \in Placed /\ e.ev = ev
      BY <1>2, <2>3 DEF Placed
    <3> HIDE DEF e
    <3>3. Visible' = Shown(Visible, e, drawing)
      BY <1>3, <2>1, <3>1, <3>2, UnfoldedOneMore DEF Visible
    <3>4. Visible' = Visible
      BY <1>2, <2>3, <3>2, <3>3 DEF Shown
    <3>5. QED
      BY <2>1, <3>1, <3>2, <3>4
  <2>4. QED
    BY <2>2, <2>3
<1>5. (steady => AgreeOn(drawn, Visible, drawing.spec))' => AgreesWithResolve'
  BY Agrees, PTL
<1>6. steady => Visible \in Seq(Placed) /\ AgreeOn(drawn, Visible, s)
  BY Agrees DEF Agreed
<1>7. QED
  BY <1>1, <1>4, <1>5, <1>6

-----------------------------------------------------------------------------
(* The steps.                                                                *)

\* Nothing of the hooks changes when only handlers run.
LEMMA HookedFrame ==
  ASSUME Hooked, UNCHANGED <<drawing, mark, hooks, cut>>
  PROVE  Hooked'
  BY DEF Hooked, hooks, Present, IdsIn

\* The bounds of what the user does.
LEMMA Acted ==
  ASSUME Typed, Act, run' \in {run, run + 1}
  PROVE  acts' \in 0..MaxActs /\ run' \in 1..(acts' + 1)
  BY PumpAssumption DEF Typed, Act

\* A trace event.
LEMMA TraceEventOK ==
  ASSUME PumpOK, NEW ev \in Event, TraceEvent(ev)
  PROVE  PumpOK'
<1> DEFINE m == [step |-> Len(raw), run |-> run]
           e == edges[Min(Found(ev))]
<1>1. /\ Len(raw) < MaxEvents /\ raw' = Append(raw, ev)
      /\ UNCHANGED <<drawing, mark, hooks, kept, run, acts, steady, cut>>
      /\ \/ /\ ev.kind = "recv"
            /\ drawn' = Append(drawn, [ev |-> ev, edge |-> None]) /\ UNCHANGED <<queue, last>>
         \/ /\ ev.kind = "fire"
            /\ drawn' = Append(drawn, [ev |-> ev, edge |-> None])
            /\ Put(ev.node, m) /\ last' = [last EXCEPT ![ev.node] = m]
         \/ /\ ev.kind = "send" /\ Found(ev) # {}
            /\ drawn' = Append(drawn, [ev |-> ev, edge |-> e.id])
            /\ Put(e.id, m) /\ last' = [last EXCEPT ![e.id] = m]
         \/ /\ ev.kind = "send" /\ Found(ev) = {}
            /\ UNCHANGED <<drawn, queue, last>>
  BY DEF TraceEvent
<1>2. Typed /\ Due /\ Hooked /\ Agreed
  BY DEF PumpOK
<1>3. Hooked'
  BY <1>1, <1>2, HookedFrame
<1>4. raw' \in Seq(Event) /\ Len(raw') <= MaxEvents
  BY <1>1, <1>2, PumpAssumption DEF Typed
<1>5. m \in Mark
  <2>1. Len(raw) \in 0..(MaxEvents - 1)
    BY <1>1, <1>2, PumpAssumption DEF Typed
  <2>2. run \in 1..(MaxActs + 1)
    BY <1>2, PumpAssumption DEF Typed
  <2>3. QED
    BY <2>1, <2>2 DEF Mark
<1>6. drawing \in Canvases
  BY <1>2, InPicture DEF Typed
<1>7. ASSUME Found(ev) # {} PROVE e.id \in Item
  <2>1. PICK n \in Nat : DOMAIN drawing.spec \subseteq 1..n
    BY <1>6, SpecFields DEF Canvases
  <2>2. /\ Found(ev) \subseteq Places(drawing.spec, ev)
        /\ \A k \in Found(ev) : edges[k].id \in EdgeId
    BY <1>6, FoundInSpec
  <2>3. Found(ev) \in SUBSET (1..n)
    BY <2>1, <2>2 DEF Places
  <2>4. Min(Found(ev)) \in Found(ev)
    BY <1>7, <2>3, EndsOfPlaces
  <2>5. QED
    BY <2>2, <2>4 DEF Item
<1> HIDE DEF m
<1>8. /\ queue' \in Seq(Update) /\ last' \in [Item -> Marks] /\ Due'
      /\ Rendered'.drawing = Rendered.drawing
      /\ (\A k \in DOMAIN queue' : queue'[k].kind = "mark") =>
           \A k \in DOMAIN queue : queue[k].kind = "mark"
  <2>1. CASE UNCHANGED <<queue, last>>
    <3>1. Rendered' = Rendered
      BY <1>1, <2>1 DEF Rendered
    <3>2. QED
      BY <1>2, <2>1, <3>1 DEF Due, Typed, IdsIn
  <2>2. CASE ev.kind = "fire"
    <3>1. ev.node \in Item
      BY PumpAssumption DEF Item
    <3>2. Put(ev.node, m) /\ last' = [last EXCEPT ![ev.node] = m]
      BY <1>1, <2>2
    <3>3. QED
      BY <1>1, <1>2, <1>5, <3>1, <3>2, Marked
  <2>3. CASE ev.kind = "send" /\ Found(ev) # {}
    <3>1. Put(e.id, m) /\ last' = [last EXCEPT ![e.id] = m]
      BY <1>1, <2>3
    <3> HIDE DEF e
    <3>2. QED
      BY <1>1, <1>2, <1>5, <1>7, <2>3, <3>1, Marked
  <2>4. QED
    BY <1>1, <2>1, <2>2, <2>3
<1>9. Typed'
  BY <1>1, <1>2, <1>4, <1>8 DEF Typed, hooks
<1>10. /\ drawn' \in Seq(Placed)
       /\ steady' => Resolution' \in Seq(Placed) /\ Visible' \in Seq(Placed) /\ AgreesWithResolve'
  <2>1. CASE ev.kind # "send"
    <3>1. drawn' = Append(drawn, [ev |-> ev, edge |-> None])
      BY <1>1, <2>1
    <3>2. QED
      BY <1>1, <1>2, <2>1, <3>1, PlacedOnce
  <2>2. CASE ev.kind = "send" /\ Found(ev) # {}
    <3>1. drawn' = Append(drawn, [ev |-> ev, edge |-> e.id])
      BY <1>1, <2>2
    <3>2. e.id = edges[Min(Found(ev))].id
      OBVIOUS
    <3> HIDE DEF e
    <3>3. QED
      BY <1>1, <1>2, <2>2, <3>1, <3>2, PlacedOnce
  <2>3. CASE ev.kind = "send" /\ Found(ev) = {}
    <3>1. drawn' = drawn
      BY <1>1, <2>3
    <3>2. QED
      BY <1>1, <1>2, <2>3, <3>1, SkippedOnce
  <2>4. QED
    BY <2>1, <2>2, <2>3
<1>11. Agreed'
  BY <1>1, <1>2, <1>8, <1>10 DEF Agreed
<1>12. QED
  BY <1>3, <1>8, <1>9, <1>11 DEF PumpOK

\* Another run.
LEMMA NewRunOK ==
  ASSUME PumpOK, NewRun
  PROVE  PumpOK'
<1>1. /\ Act /\ run' = run + 1 /\ raw' = <<>> /\ drawn' = <<>>
      /\ steady' = \A k \in DOMAIN queue : queue[k].kind = "mark"
      /\ UNCHANGED <<drawing, mark, queue, hooks, kept, last, cut>>
  BY DEF NewRun
<1>2. Typed /\ Due /\ Hooked /\ Agreed
  BY DEF PumpOK
<1>3. Hooked'
  BY <1>1, <1>2, HookedFrame
<1>4. acts' \in 0..MaxActs /\ run' \in 1..(acts' + 1)
  BY <1>1, <1>2, Acted
<1>5. raw' \in Seq(Event) /\ Len(raw') <= MaxEvents /\ drawn' \in Seq(Placed)
  BY <1>1, PumpAssumption
<1>6. Typed'
  BY <1>1, <1>2, <1>4, <1>5 DEF Typed, hooks
<1>7. Rendered' = Rendered
  BY <1>1 DEF Rendered
<1>8. Due'
  BY <1>1, <1>2, <1>7 DEF Due, IdsIn
<1>9. Resolution' = <<>> /\ Visible' = <<>>
  <2>1. Resolution' = Resolve(raw', EdgeMap(drawing'.spec)) /\ Visible' = Unfolded(Resolution', drawing')
    BY DEF Resolution, Visible
  <2>2. QED
    BY <1>1, <2>1, ResolveNone, UnfoldedNone
<1>10. Resolution' \in Seq(Placed) /\ Visible' \in Seq(Placed) /\ AgreesWithResolve'
  <2>1. DOMAIN drawn' = {} /\ Len(drawn') = Len(Visible')
    BY <1>1, <1>9
  <2>2. AgreeOn(drawn', Visible', drawing'.spec)
    BY <2>1 DEF AgreeOn
  <2>3. (steady => AgreeOn(drawn, Visible, drawing.spec))' => AgreesWithResolve'
    BY Agrees, PTL
  <2>4. QED
    BY <1>9, <2>2, <2>3
<1>11. steady' \in BOOLEAN
  BY <1>1
<1>12. steady' \/ (\A k \in DOMAIN queue' : queue'[k].kind = "mark")
         => Rendered'.drawing = drawing'
  BY <1>1, <1>2, <1>7 DEF Agreed
<1>13. Agreed'
  BY <1>5, <1>10, <1>11, <1>12 DEF Agreed
<1>14. QED
  BY <1>3, <1>6, <1>8, <1>13 DEF PumpOK

\* A gesture that queues something other than marks, and the canvas it will
\* show with the marks it leaves.
LEMMA GestureOK ==
  ASSUME PumpOK, Act, NEW u \in Update, queue' = Append(queue, u), u.kind # "mark",
         UNCHANGED <<drawing, mark, hooks, run, raw, drawn, cut>>,
         kept' \in Picture \cup {None},
         last' \in [Item -> Marks],
         Applied(Rendered, u) \in Picture,
         \A x \in On(Applied(Rendered, u).drawing) :
            Applied(Rendered, u).marks[x] = last'[x],
         steady' \in BOOLEAN,
         steady' => steady /\ Applied(Rendered, u).drawing = drawing
  PROVE  PumpOK'
<1>1. Typed /\ Due /\ Hooked /\ Agreed
  BY DEF PumpOK
<1>2. Hooked'
  BY <1>1, HookedFrame
<1>3. /\ queue' \in Seq(Update) /\ Rendered' = Applied(Rendered, u)
      /\ ~ \A k \in DOMAIN queue' : queue'[k].kind = "mark"
  BY <1>1, Enqueued
<1>4. Typed'
  BY <1>1, <1>3, Acted DEF Typed, hooks
<1>5. Due'
  BY <1>3 DEF Due
<1>6. steady' => Resolution' \in Seq(Placed) /\ Visible' \in Seq(Placed) /\ AgreesWithResolve'
  BY <1>1 DEF Agreed, AgreesWithResolve, Resolution, Visible
<1>7. Agreed'
  BY <1>1, <1>3, <1>6 DEF Agreed
<1>8. QED
  BY <1>2, <1>4, <1>5, <1>7 DEF PumpOK

\* Everything is drawn anew.
LEMMA RedrawOK ==
  ASSUME PumpOK, Redraw
  PROVE  PumpOK'
<1>1. PICK d \in Drawings :
        /\ queue' = Append(queue, [kind |-> "set", drawing |-> d, marks |-> Unmarked])
        /\ steady' = (steady /\ d = drawing)
  BY DEF Redraw
<1>2. Act /\ last' = Unmarked /\ UNCHANGED <<drawing, mark, hooks, kept, run, raw, drawn, cut>>
  BY DEF Redraw
<1>3. Typed /\ Agreed
  BY DEF PumpOK
<1>4. d \in Canvases /\ Unmarked \in [Item -> Marks] /\ \A x \in Item : Unmarked[x] = None
  BY DrawingsAreCanvases DEF Unmarked, Marks
<1> DEFINE u == [kind |-> "set", drawing |-> d, marks |-> Unmarked]
<1>5. [drawing |-> d, marks |-> Unmarked] \in Picture
  BY <1>4, MakesPicture
<1>6. u \in SetUpdate /\ u.kind = "set" /\ u.drawing = d /\ u.marks = Unmarked
  BY <1>4, <1>5 DEF SetUpdate
<1>7. queue' = Append(queue, u)
  BY <1>1
<1> HIDE DEF u
<1>8. /\ Applied(Rendered, u) \in Picture
      /\ Applied(Rendered, u).drawing = d /\ Applied(Rendered, u).marks = Unmarked
  BY <1>6, AppliedSet
<1>9. steady' \in BOOLEAN /\ (steady' => steady /\ d = drawing)
  BY <1>1, <1>3 DEF Agreed
<1>10. kept' \in Picture \cup {None} /\ last' \in [Item -> Marks]
  BY <1>2, <1>3, <1>4 DEF Typed
<1>11. u \in Update
  BY <1>6 DEF Update
<1>12. QED
  BY <1>2, <1>6, <1>7, <1>8, <1>9, <1>10, <1>11, GestureOK

\* An edge is deleted.
LEMMA DeleteOK ==
  ASSUME PumpOK, Delete
  PROVE  PumpOK'
<1>1. PICK x \in IdsIn(edges) :
        /\ queue' = Append(queue, [kind |-> "delete", item |-> x])
        /\ last' = [last EXCEPT ![x] = None]
  BY DEF Delete
<1>2. /\ Act /\ kept' = [drawing |-> drawing, marks |-> mark] /\ steady' = FALSE
      /\ UNCHANGED <<drawing, mark, hooks, run, raw, drawn, cut>>
  BY DEF Delete
<1>3. Typed /\ Due
  BY DEF PumpOK
<1>4. x \in EdgeId /\ x \in Item
  BY <1>3, OnIsItems, InPicture DEF Typed, Item, edges
<1> DEFINE u == [kind |-> "delete", item |-> x]
           p == Rendered
           r == Applied(Rendered, u)
<1>5. u \in DeleteUpdate /\ u.kind = "delete" /\ u.item = x /\ queue' = Append(queue, u)
  BY <1>1, <1>4 DEF DeleteUpdate
<1> HIDE DEF u
<1>6. /\ p \in Picture /\ p.drawing \in Canvases /\ p.marks \in [Item -> Marks]
      /\ \A y \in On(p.drawing) : p.marks[y] = last[y]
  BY <1>3, InPicture DEF Due
<1>7. /\ r \in Picture /\ On(r.drawing) \subseteq On(p.drawing)
      /\ r.marks = [p.marks EXCEPT ![x] = None]
  BY <1>5, <1>6, AppliedDelete
<1>8. last \in [Item -> Marks] /\ last' \in [Item -> Marks]
  BY <1>1, <1>3 DEF Typed, Marks
<1>9. On(r.drawing) \subseteq Item
  BY <1>6, <1>7, OnIsItems
<1> HIDE DEF p
<1>10. \A y \in On(r.drawing) : r.marks[y] = last'[y]
  <2> HIDE DEF r
  <2>1. QED
    BY <1>1, <1>6, <1>7, <1>8, <1>9
<1>11. kept' \in Picture \cup {None}
  BY <1>2, <1>3 DEF Typed
<1>12. u \in Update
  BY <1>5 DEF Update
<1>13. QED
  BY <1>2, <1>5, <1>7, <1>8, <1>10, <1>11, <1>12, GestureOK

\* A deletion is undone.
LEMMA UndoOK ==
  ASSUME PumpOK, Undo
  PROVE  PumpOK'
<1>1. /\ Act /\ kept # None /\ last' = kept.marks /\ kept' = None /\ steady' = FALSE
      /\ queue' = Append(queue, [kind |-> "set", drawing |-> kept.drawing, marks |-> kept.marks])
      /\ UNCHANGED <<drawing, mark, hooks, run, raw, drawn, cut>>
  BY DEF Undo
<1>2. kept \in Picture
  BY <1>1 DEF PumpOK, Typed
<1>3. /\ kept.drawing \in Canvases /\ kept.marks \in [Item -> Marks]
      /\ [drawing |-> kept.drawing, marks |-> kept.marks] \in Picture
  BY <1>2, InPicture
<1> DEFINE u == [kind |-> "set", drawing |-> kept.drawing, marks |-> kept.marks]
<1>4. u \in SetUpdate /\ u.kind = "set" /\ u.drawing = kept.drawing /\ u.marks = kept.marks
  BY <1>3 DEF SetUpdate
<1>5. queue' = Append(queue, u)
  BY <1>1
<1> HIDE DEF u
<1>6. /\ Applied(Rendered, u) \in Picture /\ Applied(Rendered, u).marks = last'
  BY <1>1, <1>4, AppliedSet
<1>7. u \in Update
  BY <1>4 DEF Update
<1>8. QED
  BY <1>1, <1>3, <1>4, <1>5, <1>6, <1>7, GestureOK

\* A rendering, and what the hooks make of it.
LEMMA RenderOK ==
  ASSUME PumpOK, Render
  PROVE  PumpOK'
<1>1. Typed /\ Due /\ Hooked /\ Agreed
  BY DEF PumpOK
<1> DEFINE R == Rendered
           gone == On(drawing) \ On(R.drawing)
           changed == {x \in On(R.drawing) :
                         Dependency(x, mark[x]) # Dependency(x, R.marks[x])}
           started == {x \in changed : Starts(x, R.marks[x])}
<1>2. /\ queue' = <<>> /\ drawing' = R.drawing /\ mark' = R.marks
      /\ seen' = [x \in Item |-> IF x \in started THEN R.marks[x].step
                                 ELSE IF x \in gone THEN None ELSE seen[x]]
      /\ ticking' = (ticking \ (changed \cup gone)) \cup started
      /\ lit' = (lit \ gone) \cup (started \cap Node)
      /\ cut' = (cut \cup {x \in lit \cap changed : ~Fresh(x, R.marks[x])})
                  \ ({x \in changed : Fresh(x, R.marks[x])} \cup gone)
      /\ UNCHANGED <<kept, run, acts, tale, last>>
  BY DEF Render
<1>3. /\ R \in Picture /\ R = [drawing |-> R.drawing, marks |-> R.marks]
      /\ R.drawing \in Canvases /\ R.marks \in [Item -> Marks]
      /\ \A x \in Item \ On(R.drawing) : R.marks[x] = None
      /\ \A x \in On(R.drawing) : R.marks[x] = last[x]
  <2>1. R \in Picture
    BY <1>1 DEF Due
  <2> HIDE DEF R
  <2>2. R = [drawing |-> R.drawing, marks |-> R.marks] /\ R.drawing \in Canvases
        /\ R.marks \in [Item -> Marks]
        /\ \A x \in Item \ On(R.drawing) : R.marks[x] = None
    BY <2>1, InPicture
  <2>3. QED
    BY <1>1, <2>1, <2>2 DEF Due, R
<1>4. Rendered' = R
  <2>1. Rendered' = After([drawing |-> drawing', marks |-> mark'], <<>>)
    BY <1>2 DEF Rendered
  <2>2. Rendered' = [drawing |-> drawing', marks |-> mark']
    BY <2>1, AfterNone
  <2>3. [drawing |-> drawing', marks |-> mark'] = [drawing |-> R.drawing, marks |-> R.marks]
    BY <1>2
  <2> HIDE DEF R
  <2>4. QED
    BY <1>3, <2>2, <2>3
<1> HIDE DEF R
<1>5. On(R.drawing) \subseteq Item
  BY <1>3, OnIsItems
<1>6. Present = On(drawing) /\ Present' = On(R.drawing)
  BY <1>2 DEF Present, IdsIn
<1>7. ASSUME NEW x \in started
      PROVE  /\ x \in On(R.drawing) /\ x \in changed
             /\ Fresh(x, R.marks[x]) /\ R.marks[x] # None
             /\ R.marks[x].step \in Step
  <2>1. Fresh(x, R.marks[x]) /\ R.marks[x] # None
    BY DEF Starts, Fresh
  <2>2. R.marks[x] \in Mark
    BY <1>3, <1>5, <2>1 DEF Marks
  <2>3. QED
    BY <2>1, <2>2 DEF Mark, Step
<1>8. ASSUME NEW x \in ticking, x \notin changed, x \notin gone
      PROVE  /\ x \in On(R.drawing)
             /\ R.marks[x] # None /\ seen[x] = R.marks[x].step
  <2>1. x \in On(R.drawing) /\ mark[x] # None /\ seen[x] = mark[x].step
    BY <1>1, <1>6, <1>8 DEF Hooked
  <2>2. Dependency(x, mark[x]) = Dependency(x, R.marks[x])
    BY <1>8, <2>1
  <2>3. x \in Item /\ mark[x] \in Marks
    BY <1>1, <1>5, <2>1, InPicture DEF Typed
  <2>4. mark[x].step # None
    BY <2>1, <2>3, PumpAssumption DEF Marks, Mark
  <2>5. QED
    BY <2>1, <2>2, <2>4 DEF Dependency
<1>9. \A x \in changed : x \in On(R.drawing)
  OBVIOUS
<1>10. \A x \in changed : x \in started <=> Fresh(x, R.marks[x])
  BY DEF Starts
<1>11. \A x \in gone : x \in On(drawing) /\ x \notin On(R.drawing)
  OBVIOUS
<1>12. \A x \in On(drawing) : x \in On(R.drawing) \/ x \in gone
  OBVIOUS
<1>13. \A x \in started : x \in changed
  OBVIOUS
<1> HIDE DEF gone, changed, started
<1>14. seen' \in [Item -> Step \cup {None}]
  <2>1. seen \in [Item -> Step \cup {None}]
    BY <1>1 DEF Typed
  <2>2. QED
    BY <1>2, <1>7, <2>1
<1>15. Typed'
  <2>1. queue' \in Seq(Update)
    BY <1>2
  <2>2. [drawing |-> drawing', marks |-> mark'] \in Picture
    BY <1>2, <1>3
  <2>3. QED
    BY <1>1, <1>2, <1>14, <2>1, <2>2 DEF Typed, tale
<1>16. Due'
  BY <1>2, <1>3, <1>4 DEF Due, IdsIn
<1>17. Hooked'
  <2>1. lit' \subseteq Present'
    BY <1>1, <1>2, <1>6, <1>7, <1>12 DEF Hooked
  <2>2. ticking' \subseteq Present'
    BY <1>2, <1>6, <1>7, <1>8
  <2>3. cut' \subseteq lit'
    BY <1>1, <1>2 DEF Hooked
  <2>4. ASSUME NEW x \in cut', x \in ticking' PROVE FALSE
    <3>1. x \notin gone /\ ~ (x \in changed /\ Fresh(x, R.marks[x]))
      BY <1>2, <2>4
    <3>2. x \notin started
      BY <1>10, <1>13, <3>1
    <3>3. x \in ticking /\ x \notin changed
      BY <1>2, <2>4, <3>2
    <3>4. x \in cut
      BY <1>2, <2>4, <3>3
    <3>5. QED
      BY <1>1, <3>3, <3>4 DEF Hooked
  <2>5. ASSUME NEW x \in Item \ Present' PROVE seen'[x] = None
    <3>1. x \notin started
      BY <1>6, <1>7, <2>5
    <3>2. x \in gone \/ x \notin Present
      BY <1>6, <1>12, <2>5
    <3>3. QED
      BY <1>1, <1>2, <3>1, <3>2 DEF Hooked
  <2>6. ASSUME NEW x \in ticking' PROVE mark'[x] # None /\ seen'[x] = mark'[x].step
    <3>1. x \in Item
      BY <1>5, <1>6, <2>2
    <3>2. CASE x \in started
      BY <1>2, <1>7, <3>1, <3>2
    <3>3. CASE x \notin started
      <4>1. x \in ticking /\ x \notin changed /\ x \notin gone
        BY <1>2, <3>3
      <4>2. R.marks[x] # None /\ seen[x] = R.marks[x].step
        BY <1>8, <4>1
      <4>3. QED
        BY <1>2, <3>1, <3>3, <4>1, <4>2
    <3>4. QED
      BY <3>2, <3>3
  <2>7. cut' \cap ticking' = {}
    BY <2>4
  <2>8. QED
    BY <2>1, <2>2, <2>3, <2>5, <2>6, <2>7 DEF Hooked
<1>18. Agreed'
  <2>1. steady' = steady /\ raw' = raw /\ drawn' = drawn
    BY <1>2 DEF tale
  <2>2. Rendered'.drawing = drawing'
    BY <1>2, <1>4
  <2>3. steady => drawing' = drawing
    BY <1>1, <1>2 DEF Agreed, R
  <2>4. steady' => Resolution' \in Seq(Placed) /\ Visible' \in Seq(Placed) /\ AgreesWithResolve'
    BY <1>1, <2>1, <2>3 DEF Agreed, AgreesWithResolve, Resolution, Visible
  <2>5. QED
    BY <1>1, <2>1, <2>2, <2>4 DEF Agreed
<1>19. QED
  BY <1>15, <1>16, <1>17, <1>18 DEF PumpOK

\* The frames and the end of an animation.
LEMMA AnimationOK ==
  ASSUME PumpOK, NEW x \in Item, Frame(x) \/ Over(x)
  PROVE  PumpOK'
<1>1. Typed /\ Due /\ Hooked /\ Agreed
  BY DEF PumpOK
<1>2. /\ x \in ticking
      /\ UNCHANGED <<drawing, mark, queue, seen, kept, run, acts, tale, last, cut>>
      /\ \/ lit' = lit \cup {x} /\ ticking' = ticking
         \/ ticking' = ticking \ {x} /\ lit' = lit \ {x}
  BY DEF Frame, Over
<1>3. Rendered' = Rendered
  BY <1>2 DEF Rendered
<1>4. Typed' /\ Due'
  BY <1>1, <1>2, <1>3 DEF Typed, Due, IdsIn, tale
<1>5. Present' = Present
  BY <1>2 DEF Present, IdsIn
<1>6. Hooked'
  BY <1>1, <1>2, <1>5 DEF Hooked
<1>7. raw' = raw /\ drawn' = drawn /\ steady' = steady /\ queue' = queue /\ drawing' = drawing
  BY <1>2 DEF tale
<1>8. /\ AgreesWithResolve' <=> AgreesWithResolve
      /\ Resolution' = Resolution /\ Visible' = Visible
  BY <1>7 DEF AgreesWithResolve, Resolution, Visible
<1>9. Agreed'
  BY <1>1, <1>3, <1>7, <1>8 DEF Agreed
<1>10. QED
  BY <1>4, <1>6, <1>9 DEF PumpOK

\* At the start a drawing is shown without marks, and nothing is queued.
LEMMA InitOK ==
  ASSUME Init
  PROVE  PumpOK
<1>1. /\ drawing \in Drawings /\ mark = Unmarked /\ queue = <<>>
      /\ seen = [x \in Item |-> None] /\ lit = {} /\ ticking = {}
      /\ kept = None /\ run = 1 /\ acts = 0
      /\ raw = <<>> /\ drawn = <<>> /\ steady = TRUE
      /\ last = Unmarked /\ cut = {}
  BY DEF Init
<1>2. drawing \in Canvases /\ Unmarked \in [Item -> Marks] /\ \A x \in Item : Unmarked[x] = None
  BY <1>1, DrawingsAreCanvases DEF Unmarked, Marks
<1>3. [drawing |-> drawing, marks |-> mark] \in Picture
  BY <1>1, <1>2, MakesPicture
<1>4. Rendered = [drawing |-> drawing, marks |-> mark]
  BY <1>1, AfterNone DEF Rendered
<1>5. Typed
  <2>1. Len(<<>>) <= MaxEvents /\ 0 \in 0..MaxActs /\ 1 \in 1..(0 + 1)
    BY PumpAssumption
  <2>2. queue \in Seq(Update) /\ raw \in Seq(Event)
    BY <1>1
  <2>3. seen \in [Item -> Step \cup {None}]
    BY <1>1
  <2>4. QED
    BY <1>1, <1>2, <1>3, <2>1, <2>2, <2>3 DEF Typed
<1>6. Due
  <2>1. On(drawing) \subseteq Item
    BY <1>2, OnIsItems
  <2>2. QED
    BY <1>1, <1>2, <1>3, <1>4, <2>1 DEF Due
<1>7. Hooked
  BY <1>1 DEF Hooked
<1>8. Resolution = <<>> /\ Visible = <<>>
  <2>1. Resolution = <<>>
    BY <1>1, ResolveNone DEF Resolution
  <2>2. QED
    BY <2>1, UnfoldedNone DEF Visible
<1>9. AgreesWithResolve
  <2>1. DOMAIN drawn = {} /\ Len(drawn) = Len(Visible)
    BY <1>1, <1>8
  <2>2. AgreeOn(drawn, Visible, drawing.spec)
    BY <2>1 DEF AgreeOn
  <2>3. QED
    BY <2>2, Agrees
<1>10. Agreed
  <2>1. Rendered.drawing = drawing
    BY <1>4
  <2>2. drawn \in Seq(Placed) /\ Resolution \in Seq(Placed) /\ Visible \in Seq(Placed)
    <3>1. <<>> \in Seq(Placed)
      OBVIOUS
    <3>2. drawn = <<>>
      BY <1>1
    <3>3. QED
      BY <1>8, <3>1, <3>2, Zenon
  <2>3. steady \in BOOLEAN
    BY <1>1
  <2>4. QED
    BY <1>9, <2>1, <2>2, <2>3 DEF Agreed
<1>11. QED
  BY <1>5, <1>6, <1>7, <1>10 DEF PumpOK

-----------------------------------------------------------------------------
(* The theorems.                                                             *)

\* The invariant holds whatever is traced, run, drawn, deleted, undone and
\* rendered, in any order.
THEOREM PumpIsOK == Spec => []PumpOK
<1>1. Init => PumpOK
  BY InitOK
<1>2. PumpOK /\ [Next]_vars => PumpOK'
  <2> SUFFICES ASSUME PumpOK, [Next]_vars PROVE PumpOK'
    OBVIOUS
  <2>1. CASE UNCHANGED vars
    <3>1. UNCHANGED <<drawing, mark, queue, seen, lit, ticking, kept, run, acts,
                      raw, drawn, steady, last, cut>>
      BY <2>1 DEF vars, hooks, tale
    <3>2. Rendered' = Rendered
      BY <3>1 DEF Rendered
    <3>3. Typed' /\ Due' /\ Hooked'
      BY <3>1, <3>2 DEF PumpOK, Typed, Due, Hooked, Present, IdsIn
    <3>4. /\ AgreesWithResolve' <=> AgreesWithResolve
          /\ Resolution' = Resolution /\ Visible' = Visible
      BY <3>1 DEF AgreesWithResolve, Resolution, Visible
    <3>5. Agreed'
      BY <3>1, <3>2, <3>4 DEF PumpOK, Agreed
    <3>6. QED
      BY <3>3, <3>5 DEF PumpOK
  <2>2. QED
    BY <2>1, TraceEventOK, NewRunOK, RedrawOK, DeleteOK, UndoOK, RenderOK, AnimationOK
       DEF Next
<1>3. QED
  BY <1>1, <1>2, PTL DEF Spec

\* Only what is on the canvas is marked, lit or animated, and what was cut off is
\* still lit.
THEOREM PumpTypes == Spec => []TypeOK
<1>1. PumpOK => TypeOK
  <2> SUFFICES ASSUME PumpOK PROVE TypeOK
    OBVIOUS
  <2>1. mark \in [Item -> Marks] /\ seen \in [Item -> Step \cup {None}]
        /\ \A x \in Item \ Present : mark[x] = None
    BY InPicture DEF PumpOK, Typed, Present
  <2>2. QED
    BY <2>1 DEF PumpOK, Hooked, TypeOK, Marks, Step
<1>2. QED
  BY <1>1, PumpIsOK, PTL

\* A rendering shows every item with the last mark it was given, although the
\* marks were queued one by one among deletions and redraws, and what is animated
\* is so for the mark that is shown.
THEOREM LastMarksShown == Spec => []ShowsTheLast
<1>1. PumpOK => ShowsTheLast
  <2> SUFFICES ASSUME PumpOK PROVE ShowsTheLast
    OBVIOUS
  <2>1. ASSUME queue = <<>>, NEW x \in Present PROVE mark[x] = last[x]
    <3>1. Rendered = [drawing |-> drawing, marks |-> mark]
      BY <2>1, AfterNone DEF Rendered
    <3>2. QED
      BY <2>1, <3>1 DEF PumpOK, Due, Present
  <2>2. QED
    BY <2>1 DEF PumpOK, Hooked, ShowsTheLast
<1>2. QED
  BY <1>1, PumpIsOK, PTL

\* The pump, which looks among the edges on the canvas, and the resolver, which looks
\* in the spec, place the same events in the same order, on the same edge or on edges
\* of one port, for every list of events, spec and collapsed folds, but for the sends
\* of nodes in a collapsed fold: those only the resolver places.
THEOREM PumpResolves == Spec => []AgreesWithResolve
<1>1. PumpOK => AgreesWithResolve
  BY DEF PumpOK, Agreed, AgreesWithResolve
<1>2. QED
  BY <1>1, PumpIsOK, PTL
=============================================================================
