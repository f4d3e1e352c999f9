--------------------------- MODULE RecorderProofs ---------------------------
(* Proofs about the trace recorder, for any number of nodes, of events and   *)
(* of callers of Close, and for a channel of any capacity.                   *)
EXTENDS Recorder, FiniteSetTheorems, WellFoundedInduction, TLAPS

\* A line of standard output.
Line == [events : Seq(Events), print : BOOLEAN]

\* Which nodes still run, and what the drain goroutine has in hand.
Phases ==
  /\ \A e \in Emitter : node[e] = "returned" <=> emitted[e] = Burst
  /\ closed => \A e \in Emitter : node[e] = "returned"
  /\ drain = "write" => events # <<>>
  /\ drain = "done" => closed /\ ch = <<>>

\* The closing call waits for the drain goroutine.
CloseWaited ==
  owner # Nobody => /\ owner \in Closer /\ closed
                    /\ closer[owner] \in {"waiting", "returned"}
                    /\ closer[owner] = "returned" => drain = "done" /\ ch = <<>>

\* A closed channel has an owner, and only the owner waits.
ClosersOK ==
  /\ closed => owner # Nobody
  /\ \A c \in Closer : closer[c] = "waiting" => c = owner

RecorderOK == TypeOK /\ NoPanic /\ Phases /\ CloseWaited /\ ClosersOK

\* The goroutines are there, no one has closed, and there is something to emit.
LEMMA InitOK ==
  Init => RecorderOK
<1> SUFFICES ASSUME Init PROVE RecorderOK
  OBVIOUS
<1>1. TypeOK
  <2>1. <<>> \in Seq(Events) /\ Len(<<>>) <= Buf /\ <<>> \in Seq(Line)
    BY RecorderAssumption
  <2>2. node \in [Emitter -> {"print", "emit", "returned"}] /\ emitted \in [Emitter -> 0..Burst]
    BY RecorderAssumption DEF Init, StartPc
  <2> QED
    BY <2>1, <2>2 DEF Init, TypeOK, Line
<1>2. Phases
  BY RecorderAssumption DEF Init, Phases, StartPc
<1> QED
  BY <1>1, <1>2 DEF Init, RecorderOK, NoPanic, CloseWaited, ClosersOK

\* A node prints before it emits: only the output changes.
LEMMA PrintfOK ==
  ASSUME RecorderOK, NEW e \in Emitter, Printf(e)
  PROVE  RecorderOK'
<1> USE DEF RecorderOK, Printf, recVars
<1>1. [events |-> partial, print |-> TRUE] \in Line
  BY DEF TypeOK, Line
<1>2. TypeOK'
  <2>1. Append(lines, [events |-> partial, print |-> TRUE]) \in Seq(Line) /\ <<>> \in Seq(Events)
    BY <1>1 DEF TypeOK, Line
  <2> QED
    BY <2>1 DEF TypeOK, Line, Events
<1>3. Phases'
  BY DEF Phases, TypeOK
<1> QED
  BY <1>2, <1>3 DEF NoPanic, CloseWaited, ClosersOK

\* Who still emits has not returned, so the channel is open; the event fits.
LEMMA EmitOK ==
  ASSUME RecorderOK, NEW e \in Emitter, Emit(e)
  PROVE  RecorderOK'
<1> USE DEF RecorderOK
<1>1. ~closed
  BY DEF Emit, Phases
<1>2. /\ Len(ch) < Buf /\ ch' = Append(ch, Event(e, emitted[e] + 1))
      /\ emitted' = [emitted EXCEPT ![e] = @ + 1]
      /\ node' = [node EXCEPT ![e] = IF emitted'[e] = Burst THEN "returned" ELSE StartPc]
      /\ UNCHANGED <<closed, owner, closer, drain, events, partial, lines, panicked>>
  BY <1>1 DEF Emit, outVars
<1>3. emitted[e] \in Nat /\ emitted[e] < Burst
  <2>1. emitted[e] # Burst
    BY DEF Emit, Phases
  <2> QED
    BY <2>1, RecorderAssumption DEF TypeOK
<1>4. Event(e, emitted[e] + 1) \in Events
  <2>1. emitted[e] + 1 \in 1..Burst
    BY <1>3, RecorderAssumption
  <2> QED
    BY <2>1 DEF Events
<1>5. ch' \in Seq(Events) /\ Len(ch') <= Buf
  BY <1>2, <1>4, RecorderAssumption DEF TypeOK
<1>6. emitted' \in [Emitter -> 0..Burst] /\ emitted'[e] = emitted[e] + 1
  BY <1>2, <1>3, RecorderAssumption DEF TypeOK
<1>7. TypeOK'
  BY <1>2, <1>5, <1>6 DEF TypeOK, StartPc, Events
<1>8. Phases'
  <2>1. \A f \in Emitter : node'[f] = "returned" <=> emitted'[f] = Burst
    BY <1>2, <1>6 DEF Phases, TypeOK, StartPc
  <2> QED
    BY <2>1, <1>1, <1>2 DEF Phases
<1> QED
  BY <1>1, <1>2, <1>7, <1>8 DEF NoPanic, CloseWaited, ClosersOK

\* The drain goroutine: it has an event in hand between Record and WriteEvent, and
\* leaves only when the channel is closed and empty.
LEMMA DrainOK ==
  ASSUME RecorderOK, Drain
  PROVE  RecorderOK'
<1> USE DEF RecorderOK
<1>1. CASE Record
  <2>1. /\ Head(ch) \in Events /\ Tail(ch) \in Seq(Events) /\ Len(Tail(ch)) <= Buf
        /\ Append(events, Head(ch)) \in Seq(Events) /\ Append(events, Head(ch)) # <<>>
    BY <1>1, RecorderAssumption DEF Record, TypeOK
  <2>2. TypeOK'
    BY <1>1, <2>1 DEF Record, TypeOK, Events, Event, outVars
  <2> QED
    BY <1>1, <2>1, <2>2 DEF Record, outVars, Phases, NoPanic, CloseWaited, ClosersOK
<1>2. CASE WriteEvent
  <2>1. events # <<>>
    BY <1>2 DEF WriteEvent, Phases
  <2>2. Append(partial, events[Len(events)]) \in Seq(Events)
    BY <2>1 DEF TypeOK
  <2>3. TypeOK'
    BY <1>2, <2>2 DEF WriteEvent, TypeOK, Events
  <2> QED
    BY <1>2, <2>3 DEF WriteEvent, Phases, NoPanic, CloseWaited, ClosersOK
<1>3. CASE WriteNewline
  <2>1. [events |-> partial, print |-> FALSE] \in Line
    BY DEF TypeOK, Line
  <2>2. TypeOK'
    <3>1. Append(lines, [events |-> partial, print |-> FALSE]) \in Seq(Line) /\ <<>> \in Seq(Events)
      BY <2>1 DEF TypeOK, Line
    <3> QED
      BY <1>3, <3>1 DEF WriteNewline, TypeOK, Line, Events
  <2> QED
    BY <1>3, <2>2 DEF WriteNewline, Phases, NoPanic, CloseWaited, ClosersOK
<1>4. CASE DrainDone
  <2>1. TypeOK'
    BY <1>4 DEF DrainDone, TypeOK, Events, outVars
  <2> QED
    BY <1>4, <2>1 DEF DrainDone, outVars, Phases, NoPanic, CloseWaited, ClosersOK
<1> QED
  BY <1>1, <1>2, <1>3, <1>4 DEF Drain

\* Close is called when all nodes have returned; its first caller finds the
\* channel open, a later one leaves it alone.
LEMMA CallCloseOK ==
  ASSUME RecorderOK, NEW c \in Closer, CallClose(c)
  PROVE  RecorderOK'
<1> USE DEF RecorderOK, CallClose, AlreadyClosed, outVars
<1>1. closer[c] = "idle" /\ c # Nobody
  BY RecorderAssumption
<1>2. TypeOK'
  <2>1. /\ closer' \in [Closer -> {"idle", "waiting", "returned"}]
        /\ owner' \in Closer \cup {Nobody}
    BY DEF TypeOK
  <2>2. ~panicked' /\ closed' \in BOOLEAN
    BY DEF NoPanic, TypeOK
  <2> QED
    BY <2>1, <2>2 DEF TypeOK, Events
<1>3. CASE closed
  <2>1. owner # c
    BY <1>1, <1>3 DEF CloseWaited
  <2>2. closer' = [closer EXCEPT ![c] = "returned"] /\ UNCHANGED <<closed, owner, panicked>>
    BY <1>3
  <2>3. NoPanic' /\ Phases'
    BY <2>2 DEF NoPanic, Phases
  <2>4. CloseWaited' /\ ClosersOK'
    BY <2>1, <2>2 DEF CloseWaited, ClosersOK, TypeOK
  <2> QED
    BY <1>2, <2>3, <2>4
<1>4. CASE ~closed
  <2>1. closer' = [closer EXCEPT ![c] = "waiting"] /\ closed' = TRUE /\ owner' = c
    BY <1>4
  <2>2. owner = Nobody
    BY <1>4 DEF CloseWaited
  <2>3. NoPanic' /\ Phases'
    BY <1>4 DEF NoPanic, Phases
  <2>4. CloseWaited' /\ ClosersOK'
    BY <1>1, <2>1, <2>2, RecorderAssumption DEF CloseWaited, ClosersOK, TypeOK
  <2> QED
    BY <1>2, <2>3, <2>4
<1> QED
  BY <1>3, <1>4

\* A call that waits comes back when the drain goroutine has left.
LEMMA CloseReturnsOK ==
  ASSUME RecorderOK, NEW c \in Closer, CloseReturns(c)
  PROVE  RecorderOK'
<1> USE DEF RecorderOK, CloseReturns, recVars, outVars
<1>1. TypeOK'
  BY DEF TypeOK, Events
<1>2. ch = <<>>
  BY DEF Phases
<1>3. CloseWaited' /\ ClosersOK'
  BY <1>2 DEF CloseWaited, ClosersOK, TypeOK
<1> QED
  BY <1>1, <1>3 DEF NoPanic, Phases

\* RecorderOK is inductive.
LEMMA StepOK ==
  ASSUME RecorderOK, [Next]_vars
  PROVE  RecorderOK'
<1>1. CASE UNCHANGED vars
  BY <1>1 DEF RecorderOK, vars, recVars, TypeOK, Events, NoPanic, Phases, CloseWaited,
              ClosersOK
<1>2. CASE Stopped
  BY <1>1, <1>2 DEF Stopped
<1>3. CASE \E e \in Emitter : Printf(e) \/ Emit(e)
  BY <1>3, PrintfOK, EmitOK
<1>4. CASE Drain
  BY <1>4, DrainOK
<1>5. CASE \E c \in Closer : CallClose(c) \/ CloseReturns(c)
  BY <1>5, CallCloseOK, CloseReturnsOK
<1> QED
  BY <1>1, <1>2, <1>3, <1>4, <1>5 DEF Next

-----------------------------------------------------------------------------
(* The order of events.                                                      *)

\* An event taken from the channel and kept is still where it was.
LEMMA Moved ==
  ASSUME NEW S, NEW s \in Seq(S), NEW t \in Seq(S), t # <<>>
  PROVE  Append(s, Head(t)) \o Tail(t) = s \o t
  OBVIOUS

\* An event is the number of one emitter.
LEMMA EventsAre ==
  /\ \A e, k : Event(e, k)[2] = e /\ Event(e, k)[3] = k
  /\ \A ev \in Events : /\ ev[2] \in Emitter /\ ev[3] \in 1..Burst
                        /\ ev = Event(ev[2], ev[3])
  BY DEF Event, Events

\* Every step but the emission of an event leaves the sequence as it is.
LEMMA SeenOr ==
  ASSUME TypeOK, [Next]_vars
  PROVE  \/ events' \o ch' = events \o ch /\ emitted' = emitted
         \/ \E e \in Emitter : /\ Emit(e) /\ ~closed /\ events' = events
                               /\ ch' = Append(ch, Event(e, emitted[e] + 1))
                               /\ emitted' = [emitted EXCEPT ![e] = @ + 1]
<1> USE DEF recVars, outVars
<1>1. CASE Record
  <2>1. events' = Append(events, Head(ch)) /\ ch' = Tail(ch) /\ ch # <<>> /\ emitted' = emitted
    BY <1>1 DEF Record
  <2> QED
    BY <2>1, Moved DEF TypeOK
<1>2. ASSUME NEW e \in Emitter, Emit(e)
      PROVE  \/ UNCHANGED <<events, ch, emitted>>
             \/ /\ ~closed /\ events' = events
                /\ ch' = Append(ch, Event(e, emitted[e] + 1))
                /\ emitted' = [emitted EXCEPT ![e] = @ + 1]
  BY <1>2 DEF Emit
<1>3. ASSUME NEW e \in Emitter, Printf(e) PROVE UNCHANGED <<events, ch, emitted>>
  BY <1>3 DEF Printf
<1>4. CASE WriteEvent \/ WriteNewline \/ DrainDone
  BY <1>4 DEF WriteEvent, WriteNewline, DrainDone
<1>5. ASSUME NEW c \in Closer, CallClose(c) \/ CloseReturns(c)
      PROVE  UNCHANGED <<events, ch, emitted>>
  BY <1>5 DEF CallClose, CloseReturns
<1>6. CASE UNCHANGED vars
  BY <1>6 DEF vars
<1> QED
  BY <1>1, <1>2, <1>3, <1>4, <1>5, <1>6 DEF Next, Drain, Stopped

\* The order is kept: an emitted event is the next of its node, and last.
LEMMA OrderStep ==
  ASSUME RecorderOK, RecorderOK', PerNodeOrder, [Next]_vars
  PROVE  PerNodeOrder'
<1> DEFINE seen == events \o ch
<1>1. seen \in Seq(Events) /\ emitted \in [Emitter -> 0..Burst]
  BY DEF RecorderOK, TypeOK
<1>2. CASE seen' = seen /\ emitted' = emitted
  BY <1>2 DEF PerNodeOrder
<1>3. ASSUME NEW e \in Emitter, events' = events,
             ch' = Append(ch, Event(e, emitted[e] + 1)),
             emitted' = [emitted EXCEPT ![e] = @ + 1]
      PROVE  PerNodeOrder'
  <2>1. PICK ev : ev = Event(e, emitted[e] + 1)
    OBVIOUS
  <2>2. seen' = Append(seen, ev) /\ Len(seen) \in Nat
    BY <1>3, <2>1, SMTT(30) DEF RecorderOK, TypeOK
  <2>3. /\ emitted[e] \in Nat /\ emitted'[e] = emitted[e] + 1 /\ emitted'[e] \in 0..Burst
        /\ \A f \in Emitter : f # e => emitted'[f] = emitted[f]
    BY <1>1, <1>3, RecorderAssumption DEF RecorderOK, TypeOK
  <2>4. ev[2] = e /\ ev[3] = emitted[e] + 1
    BY <2>1, EventsAre
  <2> DEFINE now == Append(seen, ev)
  <2>5. /\ Len(now) = Len(seen) + 1 /\ now[Len(seen) + 1] = ev
        /\ \A i \in 1..Len(seen) : now[i] = seen[i]
    BY <1>1, <2>2
  <2>6. /\ \A f \in Emitter, k \in 1..Burst :
             k <= emitted[f] <=> \E i \in 1..Len(seen) : seen[i] = Event(f, k)
        /\ \A i, j \in 1..Len(seen) :
             i < j /\ seen[i][2] = seen[j][2] => seen[i][3] < seen[j][3]
    BY Zenon DEF PerNodeOrder
  <2>7. \A i \in 1..Len(seen) : seen[i] \in Events
    BY <1>1
  <2> HIDE DEF seen, now
  <2>8. ASSUME NEW f \in Emitter, NEW k \in 1..Burst
        PROVE  k <= emitted'[f] <=> \E i \in 1..Len(now) : now[i] = Event(f, k)
    <3>1. (\E i \in 1..Len(now) : now[i] = Event(f, k))
            <=> (\E i \in 1..Len(seen) : seen[i] = Event(f, k)) \/ ev = Event(f, k)
      BY <2>2, <2>5
    <3>2. ev = Event(f, k) <=> f = e /\ k = emitted[e] + 1
      BY <2>1, <2>4, EventsAre
    <3>3. k <= emitted'[f] <=> k <= emitted[f] \/ (f = e /\ k = emitted[e] + 1)
      BY <1>1, <2>3
    <3> QED
      BY <2>6, <3>1, <3>2, <3>3
  <2>9. ASSUME NEW i \in 1..Len(now), NEW j \in 1..Len(now), i < j, now[i][2] = now[j][2]
        PROVE  now[i][3] < now[j][3]
    <3>1. i \in 1..Len(seen) /\ now[i] = seen[i]
      BY <2>2, <2>5, <2>9
    <3>2. CASE j \in 1..Len(seen)
      BY <2>5, <2>6, <2>9, <3>1, <3>2
    <3>3. CASE j = Len(seen) + 1
      <4>1. seen[i] \in Events /\ seen[i][2] = e
        BY <2>4, <2>5, <2>9, <2>7, <3>1, <3>3
      <4>2. seen[i][3] \in 1..Burst /\ seen[i] = Event(e, seen[i][3])
        BY <4>1, EventsAre
      <4>3. seen[i][3] <= emitted[e]
        BY <2>6, <3>1, <4>2
      <4>4. now[i][3] = seen[i][3] /\ now[j][3] = emitted[e] + 1
        BY <2>4, <2>5, <3>1, <3>3
      <4> QED
        BY <2>3, <4>2, <4>3, <4>4
    <3> QED
      BY <2>2, <2>5, <3>2, <3>3
  <2>10. (events \o ch)' = now
    BY <2>2 DEF seen, now
  <2> QED
    BY <2>8, <2>9, <2>10 DEF PerNodeOrder
<1> QED
  BY <1>2, <1>3, SeenOr DEF RecorderOK

-----------------------------------------------------------------------------
(* What is on standard output.                                               *)

\* A set of numbers that is not empty has a least one.
LEMMA LeastNumber ==
  ASSUME NEW T \in SUBSET Nat, T # {}
  PROVE  \E n \in T : \A m \in T : n <= m
<1> DEFINE R == OpToRel(<, Nat)
<1>1. \A m, n \in Nat : <<m, n>> \in R <=> m < n
  BY DEF OpToRel
<1>2. IsWellFoundedOn(R, Nat)
  BY NatLessThanWellFounded
<1> HIDE DEF R
<1>3. PICK x \in T : \A y \in T : ~ (<<y, x>> \in R)
  BY <1>2, WFMin
<1>4. ASSUME NEW y \in T PROVE x <= y
  <2>1. x \in Nat /\ y \in Nat /\ ~ (y < x)
    BY <1>1, <1>3
  <2> QED
    BY <2>1
<1> QED
  BY <1>4

\* f gives the events on the first lines, for each number of lines up to n.
Collects(f, ls, n) ==
  f = [k \in 0..n |-> IF k = 0 THEN <<>> ELSE f[k - 1] \o ls[k].events]

\* The function that Streamed computes exists.
LEMMA CollectsExists ==
  ASSUME NEW ls, NEW n \in Nat
  PROVE  \E f : Collects(f, ls, n)
<1> DEFINE T == {m \in Nat : ~ \E f : Collects(f, ls, m)}
<1> SUFFICES ASSUME T # {} PROVE FALSE
  OBVIOUS
<1>1. PICK m \in T : \A j \in T : m <= j
  BY LeastNumber
<1>2. m \in Nat
  BY <1>1
<1>3. CASE m = 0
  <2>1. Collects([k \in 0..0 |-> <<>>], ls, 0)
    BY DEF Collects
  <2> QED
    BY <1>1, <1>3, <2>1
<1>4. CASE m # 0
  <2>1. m - 1 \in Nat /\ m - 1 \notin T
    BY <1>1, <1>2, <1>4
  <2>2. PICK g : Collects(g, ls, m - 1)
    BY <2>1
  <2>3. \A k \in 0..(m - 1) : g[k] = IF k = 0 THEN <<>> ELSE g[k - 1] \o ls[k].events
    BY <2>2 DEF Collects
  <2> DEFINE f == [k \in 0..m |-> IF k < m THEN g[k] ELSE g[m - 1] \o ls[m].events]
  <2>4. ASSUME NEW k \in 0..m
        PROVE  f[k] = IF k = 0 THEN <<>> ELSE f[k - 1] \o ls[k].events
    <3>1. CASE k < m
      <4>1. k \in 0..(m - 1) /\ f[k] = g[k]
        BY <1>2, <3>1
      <4>2. k # 0 => k - 1 \in 0..m /\ k - 1 < m
        BY <1>2, <3>1
      <4>3. k # 0 => f[k - 1] = g[k - 1]
        BY <4>2
      <4> QED
        BY <2>3, <4>1, <4>3
    <3>2. CASE k = m
      <4>1. m \in 0..m /\ m - 1 \in 0..m /\ m - 1 < m /\ ~(m < m)
        BY <1>2, <1>4
      <4>2. f[m] = g[m - 1] \o ls[m].events /\ f[m - 1] = g[m - 1]
        BY <4>1
      <4> QED
        BY <1>4, <3>2, <4>2
    <3> QED
      BY <1>2, <3>1, <3>2
  <2>5. f = [k \in 0..m |-> f[k]]
    OBVIOUS
  <2> HIDE DEF f
  <2>6. Collects(f, ls, m)
    BY <2>4, <2>5 DEF Collects
  <2> QED
    BY <1>1, <2>6
<1> QED
  BY <1>3, <1>4

\* What Streamed computes, as a function of the number of lines.
LEMMA StreamedIs ==
  ASSUME NEW ls, Len(ls) \in Nat
  PROVE  \E f : Collects(f, ls, Len(ls)) /\ Streamed(ls) = f[Len(ls)]
<1> DEFINE upTo == CHOOSE f : Collects(f, ls, Len(ls))
<1>1. Collects(upTo, ls, Len(ls))
  BY CollectsExists
<1>2. Streamed(ls) = upTo[Len(ls)]
  BY DEF Streamed, Collects
<1> HIDE DEF upTo
<1> QED
  BY <1>1, <1>2

\* Nothing is on no line.
LEMMA StreamedNone ==
  Streamed(<<>>) = <<>>
<1>1. Len(<<>>) = 0
  OBVIOUS
<1>2. PICK f : Collects(f, <<>>, Len(<<>>)) /\ Streamed(<<>>) = f[Len(<<>>)]
  BY <1>1, StreamedIs
<1>3. f[0] = <<>>
  BY <1>1, <1>2 DEF Collects
<1> QED
  BY <1>1, <1>2, <1>3

\* One line more puts its events behind the others.
LEMMA StreamedOneMore ==
  ASSUME NEW ls \in Seq(Line), NEW line \in Line
  PROVE  Streamed(Append(ls, line)) = Streamed(ls) \o line.events
<1> DEFINE n == Len(ls)
           r == Append(ls, line)
<1>1. n \in Nat /\ Len(r) = n + 1 /\ r[n + 1] = line /\ \A k \in 1..n : r[k] = ls[k]
  OBVIOUS
<1>2. PICK f : Collects(f, ls, n) /\ Streamed(ls) = f[n]
  BY <1>1, StreamedIs
<1>3. PICK g : Collects(g, r, Len(r)) /\ Streamed(r) = g[Len(r)]
  <2>1. Len(r) \in Nat
    BY <1>1
  <2> HIDE DEF r
  <2> QED
    BY <2>1, StreamedIs
<1> HIDE DEF n, r
<1>4. \A k \in 0..n : g[k] = f[k]
  <2> DEFINE T == {k \in 0..n : g[k] # f[k]}
  <2> SUFFICES ASSUME T # {} PROVE FALSE
    OBVIOUS
  <2>1. T \in SUBSET Nat
    BY <1>1
  <2>2. PICK k \in T : \A j \in T : k <= j
    BY <2>1, LeastNumber
  <2>3. k \in 0..n /\ g[k] # f[k]
    BY <2>2
  <2>4. k # 0
    BY <1>1, <1>2, <1>3, <2>3, SMTT(30) DEF Collects
  <2>5. k - 1 \in 0..n /\ k - 1 \notin T
    BY <1>1, <2>2, <2>3, <2>4
  <2>6. g[k - 1] = f[k - 1]
    BY <2>5
  <2>7. g[k] = g[k - 1] \o r[k].events
    <3>1. k \in 0..(n + 1) /\ Collects(g, r, n + 1)
      BY <1>1, <1>3, <2>3
    <3> QED
      BY <2>4, <3>1 DEF Collects
  <2>8. f[k] = f[k - 1] \o ls[k].events
    BY <1>2, <2>3, <2>4 DEF Collects
  <2>9. r[k] = ls[k]
    BY <1>1, <2>3, <2>4
  <2> QED
    BY <2>3, <2>6, <2>7, <2>8, <2>9
<1>5. g[n + 1] = g[n] \o r[n + 1].events
  <2>1. Collects(g, r, n + 1)
    BY <1>1, <1>3
  <2>2. n + 1 \in 0..(n + 1) /\ n + 1 # 0 /\ (n + 1) - 1 = n
    BY <1>1
  <2>3. \A k \in 0..(n + 1) : g[k] = IF k = 0 THEN <<>> ELSE g[k - 1] \o r[k].events
    BY <2>1 DEF Collects
  <2> QED
    BY <2>2, <2>3
<1>6. g[n] = f[n]
  BY <1>1, <1>4
<1>7. Streamed(r) = Streamed(ls) \o line.events
  BY <1>1, <1>2, <1>3, <1>5, <1>6
<1> QED
  BY <1>7 DEF n, r

\* What is on a list of lines is a list of events.
LEMMA StreamedType ==
  ASSUME NEW ls \in Seq(Line)
  PROVE  Streamed(ls) \in Seq(Events)
<1> DEFINE n == Len(ls)
<1>1. n \in Nat /\ \A k \in 1..n : ls[k].events \in Seq(Events)
  <2>1. n \in Nat /\ \A k \in 1..n : ls[k] \in Line
    OBVIOUS
  <2> QED
    BY <2>1 DEF Line
<1>2. PICK f : Collects(f, ls, n) /\ Streamed(ls) = f[n]
  BY <1>1, StreamedIs
<1> HIDE DEF n
<1> DEFINE T == {k \in 0..n : f[k] \notin Seq(Events)}
<1>3. T = {}
  <2> SUFFICES ASSUME T # {} PROVE FALSE
    OBVIOUS
  <2>1. T \in SUBSET Nat
    BY <1>1
  <2>2. PICK k \in T : \A j \in T : k <= j
    BY <2>1, LeastNumber
  <2>3. k \in 0..n /\ f[k] \notin Seq(Events)
    BY <2>2
  <2>4. k # 0
    BY <1>1, <1>2, <2>3 DEF Collects
  <2>5. k - 1 \in 0..n /\ k - 1 \notin T
    BY <1>1, <2>2, <2>3, <2>4
  <2>6. f[k - 1] \in Seq(Events) /\ ls[k].events \in Seq(Events)
    BY <1>1, <2>3, <2>4, <2>5
  <2>7. f[k] = f[k - 1] \o ls[k].events
    BY <1>2, <2>3, <2>4 DEF Collects
  <2> QED
    BY <2>3, <2>6, <2>7
<1> QED
  BY <1>1, <1>2, <1>3

\* The drain goroutine has written every event it has kept but the one in its hand.
StreamOK ==
  LET written == Streamed(lines) \o partial
  IN  /\ drain # "write" => written = events
      /\ drain = "write" => Append(written, events[Len(events)]) = events

\* A line is ended with what is on it, whoever ends it: nothing more is written.
LEMMA LineEnded ==
  ASSUME TypeOK, NEW b \in BOOLEAN, partial' = <<>>,
         lines' = Append(lines, [events |-> partial, print |-> b])
  PROVE  Streamed(lines') \o partial' = Streamed(lines) \o partial
<1> DEFINE line == [events |-> partial, print |-> b]
<1>1. line \in Line /\ line.events = partial /\ lines \in Seq(Line) /\ partial \in Seq(Events)
  BY DEF TypeOK, Line
<1> HIDE DEF line
<1>2. Streamed(lines') = Streamed(lines) \o partial
  BY <1>1, StreamedOneMore DEF line
<1>3. Streamed(lines) \o partial \in Seq(Events)
  BY <1>1, StreamedType
<1> QED
  BY <1>2, <1>3

\* Every step keeps the stream and the record together: Record takes an event into
\* hand, WriteEvent writes it behind all the others.
LEMMA StreamStep ==
  ASSUME RecorderOK, StreamOK, [Next]_vars
  PROVE  StreamOK'
<1> USE DEF recVars, outVars
<1>1. /\ lines \in Seq(Line) /\ partial \in Seq(Events) /\ events \in Seq(Events)
      /\ Streamed(lines) \in Seq(Events)
  <2>1. lines \in Seq(Line) /\ partial \in Seq(Events) /\ events \in Seq(Events)
    BY DEF RecorderOK, TypeOK, Line
  <2> QED
    BY <2>1, StreamedType
<1> DEFINE written == Streamed(lines) \o partial
<1>2. CASE Record
  <2>1. /\ drain = "range" /\ drain' = "write" /\ lines' = lines /\ partial' = partial
        /\ events' = Append(events, Head(ch)) /\ Head(ch) \in Events
    BY <1>2 DEF Record, RecorderOK, TypeOK
  <2>2. written = events
    BY <2>1 DEF StreamOK
  <2>3. events'[Len(events')] = Head(ch)
    BY <1>1, <2>1
  <2> QED
    BY <2>1, <2>2, <2>3 DEF StreamOK
<1>3. CASE WriteEvent
  <2>1. /\ drain = "write" /\ drain' = "newline" /\ lines' = lines /\ events' = events
        /\ partial' = Append(partial, events[Len(events)])
    BY <1>3 DEF WriteEvent
  <2>2. Append(written, events[Len(events)]) = events
    BY <2>1 DEF StreamOK
  <2>3. events[Len(events)] \in Events
    <3>1. events # <<>>
      BY <2>1 DEF RecorderOK, Phases
    <3> QED
      BY <1>1, <3>1
  <2>4. Streamed(lines) \o Append(partial, events[Len(events)])
          = Append(written, events[Len(events)])
    BY <1>1, <2>3
  <2> QED
    BY <2>1, <2>2, <2>4 DEF StreamOK
<1>4. CASE WriteNewline
  <2>1. Streamed(lines') \o partial' = written
    BY <1>4, LineEnded DEF WriteNewline, RecorderOK
  <2> QED
    BY <1>4, <2>1 DEF WriteNewline, StreamOK
<1>5. ASSUME NEW e \in Emitter, Printf(e) PROVE StreamOK'
  <2>1. Streamed(lines') \o partial' = written
    BY <1>5, LineEnded DEF Printf, RecorderOK
  <2> QED
    BY <1>5, <2>1 DEF Printf, StreamOK
<1>6. CASE DrainDone
  BY <1>6 DEF DrainDone, StreamOK
<1>7. ASSUME NEW e \in Emitter, Emit(e) PROVE StreamOK'
  BY <1>7 DEF Emit, StreamOK
<1>8. ASSUME NEW c \in Closer, CallClose(c) \/ CloseReturns(c) PROVE StreamOK'
  BY <1>8 DEF CallClose, CloseReturns, StreamOK
<1>9. CASE UNCHANGED vars
  BY <1>9 DEF vars, StreamOK
<1> QED
  BY <1>2, <1>3, <1>4, <1>5, <1>6, <1>7, <1>8, <1>9 DEF Next, Drain, Stopped

\* When every event is in the record, once, the record has as many as there are.
LEMMA Counted ==
  ASSUME RecorderOK, PerNodeOrder, ch = <<>>, \A e \in Emitter : emitted[e] = Burst
  PROVE  Len(events) = Burst * Cardinality(Emitter)
<1> DEFINE N == Len(events)
           f == [j \in 1..N |-> <<events[j][2], events[j][3]>>]
           T == Emitter \X (1..Burst)
<1>1. events \in Seq(Events) /\ N \in Nat /\ events \o ch = events /\ Burst \in Nat \ {0}
  BY RecorderAssumption DEF RecorderOK, TypeOK
<1>2. \A j \in 1..N : events[j] \in Events
  BY <1>1
<1> HIDE DEF N
<1>3. f \in [1..N -> T]
  BY <1>2, EventsAre
<1>4. \A j, k \in 1..N : j < k => f[j] # f[k]
  <2>1. \A j, k \in 1..N : j < k /\ events[j][2] = events[k][2]
                             => events[j][3] < events[k][3]
    BY <1>1 DEF PerNodeOrder, N
  <2>2. \A j \in 1..N : events[j][3] \in Nat
    BY <1>2, EventsAre
  <2> QED
    BY <2>1, <2>2
<1>5. \A x \in T : \E j \in 1..N : f[j] = x
  <2> TAKE x \in T
  <2>1. PICK e \in Emitter, k \in 1..Burst : x = <<e, k>>
    OBVIOUS
  <2>2. k <= emitted[e]
    BY <1>1
  <2>3. PICK j \in 1..N : events[j] = Event(e, k)
    BY <1>1, <2>2 DEF PerNodeOrder, N
  <2>4. f[j] = <<e, k>>
    BY <2>3, EventsAre
  <2> QED
    BY <2>1, <2>4
<1>6. \A j, k \in 1..N : f[j] = f[k] => j = k
  <2> SUFFICES ASSUME NEW j \in 1..N, NEW k \in 1..N, f[j] = f[k], j # k PROVE FALSE
    OBVIOUS
  <2>1. j < k \/ k < j
    BY <1>1
  <2> QED
    BY <1>4, <2>1
<1> HIDE DEF f, T
<1>7. ExistsBijection(1..N, T)
  BY <1>3, <1>5, <1>6 DEF ExistsBijection, Bijection, Injection, Surjection, IsInjective
<1>8. IsFiniteSet(1..N) /\ Cardinality(1..N) = N
  BY <1>1, FS_Interval
<1>9. Cardinality(T) = N
  BY <1>7, <1>8, FS_Bijection
<1>10. IsFiniteSet(1..Burst) /\ Cardinality(1..Burst) = Burst
  BY <1>1, FS_Interval
<1>11. Cardinality(T) = Cardinality(Emitter) * Burst /\ Cardinality(Emitter) \in Nat
  BY <1>10, RecorderAssumption, FS_Product, FS_CardinalityType DEF T
<1>12. Burst * Cardinality(Emitter) = Cardinality(Emitter) * Burst
  BY <1>1, <1>11
<1> QED
  BY <1>9, <1>11, <1>12 DEF N

\* Events are a prefix of themselves with or without one event more.
LEMMA PrefixOfMore ==
  \A s \in Seq(Events) : IsPrefix(s, s) /\ \A x \in Events : IsPrefix(s, Append(s, x))
<1> TAKE s \in Seq(Events)
<1>1. IsPrefix(s, s)
  BY DEF IsPrefix
<1>2. ASSUME NEW x \in Events PROVE IsPrefix(s, Append(s, x))
  <2> DEFINE r == Append(s, x)
  <2>1. /\ r \in Seq(Events) /\ Len(s) \in Nat /\ Len(r) = Len(s) + 1
        /\ \A k \in 1..Len(s) : r[k] = s[k]
    OBVIOUS
  <2> HIDE DEF r
  <2>2. /\ SubSeq(r, 1, Len(s)) \in Seq(Events) /\ Len(SubSeq(r, 1, Len(s))) = Len(s)
        /\ \A k \in 1..Len(s) : SubSeq(r, 1, Len(s))[k] = r[k]
    BY <2>1
  <2>3. SubSeq(r, 1, Len(s)) = s
    BY <2>1, <2>2
  <2>4. SubSeq(s, 1, Len(s)) = s
    OBVIOUS
  <2> QED
    BY <2>1, <2>3, <2>4 DEF IsPrefix, r
<1> QED
  BY <1>1, <1>2

\* The stream and the record agree, and are complete when Close has returned.
LEMMA StreamMatches ==
  ASSUME RecorderOK, PerNodeOrder, StreamOK
  PROVE  StreamMatchesRecord
<1> DEFINE written == Streamed(lines) \o partial
<1>1. written \in Seq(Events) /\ events \in Seq(Events)
  <2>1. lines \in Seq(Line) /\ partial \in Seq(Events) /\ events \in Seq(Events)
    BY DEF RecorderOK, TypeOK, Line
  <2> QED
    BY <2>1, StreamedType
<1>2. drain # "write" => written = events
  BY DEF StreamOK
<1> HIDE DEF written
<1>3. IsPrefix(written, events)
  <2>1. CASE drain # "write"
    BY <1>1, <1>2, <2>1, PrefixOfMore
  <2>2. CASE drain = "write"
    <3>1. events # <<>> /\ Append(written, events[Len(events)]) = events
      BY <2>2 DEF RecorderOK, Phases, StreamOK, written
    <3>2. events[Len(events)] \in Events
      BY <1>1, <3>1
    <3>3. IsPrefix(written, Append(written, events[Len(events)]))
      BY <1>1, <3>2, PrefixOfMore
    <3> QED
      BY <3>1, <3>3
  <2> QED
    BY <2>1, <2>2
<1>4. ASSUME owner # Nobody, closer[owner] = "returned"
      PROVE  Len(written) = Burst * Cardinality(Emitter)
  <2>1. closed /\ drain = "done" /\ ch = <<>>
    BY <1>4 DEF RecorderOK, CloseWaited
  <2>2. \A e \in Emitter : emitted[e] = Burst
    BY <2>1 DEF RecorderOK, Phases
  <2> QED
    BY <1>2, <2>1, <2>2, Counted
<1> QED
  BY <1>2, <1>3, <1>4 DEF StreamMatchesRecord, written

\* It holds in every reachable state.
LEMMA AlwaysOK ==
  Spec => []RecorderOK
<1>1. Init => RecorderOK
  BY InitOK
<1>2. RecorderOK /\ [Next]_vars => RecorderOK'
  BY StepOK
<1> QED
  BY <1>1, <1>2, PTL DEF Spec

\* Every variable keeps its type, and the channel its capacity.
THEOREM RecorderTypes ==
  Spec => []TypeOK
<1>1. RecorderOK => TypeOK
  BY DEF RecorderOK
<1> QED
  BY <1>1, AlwaysOK, PTL

\* However many nodes there are and however often Close is called: no event is
\* sent on the closed channel, and it is closed once (Trace.go:124-139).
THEOREM NeverPanics ==
  Spec => []NoPanic
<1>1. RecorderOK => NoPanic
  BY DEF RecorderOK
<1> QED
  BY <1>1, AlwaysOK, PTL

\* When the call of Close that closed the channel has returned, nothing waits in
\* the channel and the drain goroutine is gone (Trace.go:48-50).
THEOREM CloseDrains ==
  Spec => [](owner # Nobody /\ closer[owner] = "returned" => drain = "done" /\ ch = <<>>)
<1>1. RecorderOK => (owner # Nobody /\ closer[owner] = "returned"
                       => drain = "done" /\ ch = <<>>)
  BY DEF RecorderOK, CloseWaited
<1> QED
  BY <1>1, AlwaysOK, PTL

\* No event is lost, repeated or overtaken between a node and the record, for any
\* number of nodes and any capacity of the channel (Trace.go:64-87).
THEOREM OrderedPerNode ==
  Spec => []PerNodeOrder
<1>1. Init => PerNodeOrder
  <2> SUFFICES ASSUME Init PROVE PerNodeOrder
    OBVIOUS
  <2>1. events \o ch = <<>> /\ Len(<<>>) = 0 /\ \A e \in Emitter : emitted[e] = 0
    BY DEF Init
  <2> QED
    BY <2>1, RecorderAssumption DEF PerNodeOrder
<1>2. RecorderOK /\ RecorderOK' /\ PerNodeOrder /\ [Next]_vars => PerNodeOrder'
  BY OrderStep
<1> QED
  BY <1>1, <1>2, AlwaysOK, PTL DEF Spec

\* When the call of Close that closed the channel has returned, every event that
\* any node emitted has been recorded (Trace.go:48-50).
THEOREM EverythingRecorded ==
  Spec => [](owner # Nobody /\ closer[owner] = "returned" =>
               \A ev \in Events : \E i \in 1..Len(events) : events[i] = ev)
<1>1. ASSUME RecorderOK, PerNodeOrder, owner # Nobody, closer[owner] = "returned",
             NEW ev \in Events
      PROVE  \E i \in 1..Len(events) : events[i] = ev
  <2>1. closed /\ ch = <<>>
    BY <1>1 DEF RecorderOK, CloseWaited
  <2>2. events \o ch = events
    BY <1>1, <2>1 DEF RecorderOK, TypeOK
  <2>3. PICK e \in Emitter, k \in 1..Burst : ev = Event(e, k)
    BY DEF Events
  <2>4. k <= emitted[e]
    BY <1>1, <2>1, RecorderAssumption DEF RecorderOK, Phases
  <2> QED
    BY <1>1, <2>2, <2>3, <2>4 DEF PerNodeOrder
<1>2. RecorderOK /\ PerNodeOrder =>
        (owner # Nobody /\ closer[owner] = "returned" =>
           \A ev \in Events : \E i \in 1..Len(events) : events[i] = ev)
  BY <1>1
<1> QED
  BY <1>2, AlwaysOK, OrderedPerNode, PTL

\* The live stream and the record agree, for any number of nodes and events and any
\* capacity, whatever the nodes print; when the call of Close that closed the
\* channel has returned, everything emitted is on both (Trace.go:48-50, 191-203).
THEOREM StreamIsTheRecord ==
  Spec => []StreamMatchesRecord
<1>1. Init => StreamOK
  <2> SUFFICES ASSUME Init PROVE StreamOK
    OBVIOUS
  <2>1. lines = <<>> /\ partial = <<>> /\ events = <<>> /\ drain = "range"
    BY DEF Init
  <2>2. <<>> \o <<>> = <<>>
    OBVIOUS
  <2> QED
    BY <2>1, <2>2, StreamedNone DEF StreamOK
<1>2. RecorderOK /\ StreamOK /\ [Next]_vars => StreamOK'
  BY StreamStep
<1>3. RecorderOK /\ PerNodeOrder /\ StreamOK => StreamMatchesRecord
  BY StreamMatches
<1> QED
  BY <1>1, <1>2, <1>3, AlwaysOK, OrderedPerNode, PTL DEF Spec
=============================================================================
