-------------------------------- MODULE Pump --------------------------------
(***************************************************************************)
(* Trace events on the canvas.  The pump puts a mark on the node that      *)
(* fired and on the edge that a value was sent over (lastFire, pulse).     *)
(* The next rendering shows the marks, and the hooks of nodes and edges    *)
(* light them up when they see a new one: a node flashes until a timer     *)
(* runs out, an edge is animated frame by frame.                           *)
(*                                                                         *)
(* A rendering includes its effects, of which notifyRFState is one, so     *)
(* that rfGetEdges returns the edges of the last rendering.  What is drawn *)
(* is not the spec: a collapsed fold hides its members.  Also here:        *)
(* Trace.Resolve, which finds the edge of a send in a spec.                *)
(***************************************************************************)
EXTENDS Integers, Sequences, FiniteSetsExt

CONSTANTS
  Node, Fold,
  Drawings,    \* what may be drawn: [spec, fold], the edges of the spec, numbered
               \* in their order, and the collapsed fold that a node is in, or None
  Event,       \* what the nodes emit: [kind, node, port]
  MaxEvents,   \* bound on the events of a run
  MaxActs,     \* bound on what the user and other editors do
  None

ASSUME PumpAssumption ==
  /\ None \notin Nat \cup Fold /\ Node \cap Fold = {}
  /\ MaxEvents \in Nat /\ MaxActs \in Nat
  /\ \A ev \in Event : ev.node \in Node /\ ev.kind \in {"recv", "fire", "send"}
  /\ \A d \in Drawings :
       /\ d = [spec |-> d.spec, fold |-> d.fold] /\ d.fold \in [Node -> Fold \cup {None}]
       /\ d.spec \in Seq({d.spec[k] : k \in DOMAIN d.spec})
       /\ \A k \in DOMAIN d.spec : {d.spec[k].source, d.spec[k].target} \subseteq Node
       \* no two edges of a canvas share an id (module Canvas: Distinct)
       /\ \A j, k \in DOMAIN d.spec : d.spec[j].id = d.spec[k].id => j = k

EdgeId == UNION {{d.spec[k].id : k \in DOMAIN d.spec} : d \in Drawings}
Item   == Node \cup EdgeId   \* what can be marked

VARIABLES
  drawing,  \* what was rendered last: a drawing, less the edges deleted since
  mark,     \* item -> its mark as rendered last: [step, run] of an event, or None
  queue,    \* updates of nodes and edges that React has not rendered yet
  seen,     \* item -> prev.current of a node, lastPulseStep.current of an edge
  lit,      \* nodes that flash, edges with a pulse drawn on them
  ticking,  \* items with a timer or an animation frame pending
  kept,     \* the drawing and marks on top of the undo stack, or None
  run, acts,
  raw,      \* the events of this run
  drawn,    \* those the pump did not skip, with the edge of a send
  steady,   \* the drawing is the one that this run began with
  last,     \* item -> the mark put on it last, None once it was redrawn
  cut       \* lit items whose mark was replaced while they were animated

hooks == <<seen, lit, ticking>>
tale  == <<raw, drawn, steady>>
vars  == <<drawing, mark, queue, hooks, kept, run, acts, tale, last, cut>>

Unmarked  == [i \in Item |-> None]
IdsIn(es) == {es[k].id : k \in DOMAIN es}

\* Where an edge that ends at node n ends on the canvas.
End(d, n) == IF d.fold[n] # None THEN d.fold[n] ELSE n

\* specToFlow: an edge inside one collapsed fold is left out, one that leaves or
\* enters a fold is led there, and at its port no longer.
Flow(d) ==
  [k \in {k \in DOMAIN d.spec : \/ d.fold[d.spec[k].source] = None
                                \/ d.fold[d.spec[k].source] # d.fold[d.spec[k].target]} |->
     LET e == d.spec[k]
     IN  [id |-> e.id, source |-> End(d, e.source), target |-> End(d, e.target),
          port |-> IF d.fold[e.source] = None THEN e.port ELSE None]]

edges == Flow(drawing)

Hidden(d) == {n \in Node : d.fold[n] # None}

\* What of a drawing is there to be marked.
On(d) == (Node \ Hidden(d)) \cup IdsIn(Flow(d))

\* The drawing without the edge x.
Without(d, x) ==
  [d EXCEPT !.spec = [k \in {k \in DOMAIN d.spec : d.spec[k].id # x} |-> d.spec[k]]]

Init ==
  /\ drawing \in Drawings /\ mark = Unmarked /\ queue = <<>>
  /\ seen = [i \in Item |-> None] /\ lit = {} /\ ticking = {}
  /\ kept = None /\ run = 1 /\ acts = 0
  /\ raw = <<>> /\ drawn = <<>> /\ steady = TRUE
  /\ last = Unmarked /\ cut = {}

-----------------------------------------------------------------------------
(* handleTraceEvent. *)

\* A mistake: the edge is looked up by its source alone.
FoundBySource(ev) == {k \in DOMAIN edges : edges[k].source = ev.node}

\* The edges among which a send is looked up; the first one is taken.
Found(ev) == {k \in DOMAIN edges : edges[k].source = ev.node /\ edges[k].port = ev.port}

\* A mistake: the update is computed from what is rendered, not from what is queued.
PutOnRendered(i, m) == queue' = <<[kind |-> "mark", item |-> i, new |-> m]>>

\* rfSetNodes or rfSetEdges with a function of the state.
Put(i, m) == queue' = Append(queue, [kind |-> "mark", item |-> i, new |-> m])

TraceEvent(ev) ==
  LET m == [step |-> Len(raw), run |-> run]
      Draws(edge) == drawn' = Append(drawn, [ev |-> ev, edge |-> edge])
      Marks(i) == Put(i, m) /\ last' = [last EXCEPT ![i] = m]
  IN /\ Len(raw) < MaxEvents
     /\ raw' = Append(raw, ev)
     /\ \/ /\ ev.kind = "recv"   \* lastRecv, which nothing shows
           /\ Draws(None) /\ UNCHANGED <<queue, last>>
        \/ /\ ev.kind = "fire"
           /\ Draws(None) /\ Marks(ev.node)
        \/ /\ ev.kind = "send" /\ Found(ev) # {}
           /\ LET e == edges[Min(Found(ev))] IN Draws(e.id) /\ Marks(e.id)
        \/ /\ ev.kind = "send" /\ Found(ev) = {}
           /\ UNCHANGED <<drawn, queue, last>>
     /\ UNCHANGED <<drawing, mark, hooks, kept, run, acts, steady, cut>>

-----------------------------------------------------------------------------
(* Another run, and what handlers of Canvas do to the marks. *)

Act == acts < MaxActs /\ acts' = acts + 1

\* The next run numbers its events from 0 again.
NewRun ==
  /\ Act
  /\ run' = run + 1
  /\ raw' = <<>> /\ drawn' = <<>>
  /\ steady' = \A k \in DOMAIN queue : queue[k].kind = "mark"
  /\ UNCHANGED <<drawing, mark, queue, hooks, kept, last, cut>>

\* load, view-load, a fold, an inline edit: everything is made anew from a
\* spec and the folds, without marks.
Redraw ==
  /\ Act
  /\ \E d \in Drawings :
       /\ queue' = Append(queue, [kind |-> "set", drawing |-> d, marks |-> Unmarked])
       /\ steady' = (steady /\ d = drawing)
  /\ last' = Unmarked
  /\ UNCHANGED <<drawing, mark, hooks, kept, run, raw, drawn, cut>>

\* An edge is deleted; the rest keeps its marks.
Delete ==
  /\ Act
  /\ kept' = [drawing |-> drawing, marks |-> mark]
  /\ \E x \in IdsIn(edges) :
       /\ queue' = Append(queue, [kind |-> "delete", item |-> x])
       /\ last' = [last EXCEPT ![x] = None]
  /\ steady' = FALSE
  /\ UNCHANGED <<drawing, mark, hooks, run, raw, drawn, cut>>

\* undo brings the marks back that there were when the snapshot was taken.
Undo ==
  /\ Act /\ kept # None
  /\ queue' = Append(queue, [kind |-> "set", drawing |-> kept.drawing, marks |-> kept.marks])
  /\ last' = kept.marks
  /\ kept' = None /\ steady' = FALSE
  /\ UNCHANGED <<drawing, mark, hooks, run, raw, drawn, cut>>

-----------------------------------------------------------------------------
(* Rendering, and the hooks. *)

\* A mistake: a deleted edge leaves its mark behind.
AppliedHalf(state, u) ==
  CASE u.kind = "mark" -> [state EXCEPT !.marks[u.item] = u.new]
    [] u.kind = "delete" -> [state EXCEPT !.drawing = Without(@, u.item)]
    [] u.kind = "set" -> [drawing |-> u.drawing, marks |-> u.marks]

\* One queued update applied to [drawing, marks]; a mark for what is gone or
\* hidden finds nothing to change.
Applied(state, u) ==
  CASE u.kind = "mark" ->
         IF u.item \in On(state.drawing)
         THEN [state EXCEPT !.marks[u.item] = u.new] ELSE state
    [] u.kind = "delete" ->
         [state EXCEPT !.drawing = Without(@, u.item), !.marks[u.item] = None]
    [] u.kind = "set" -> [drawing |-> u.drawing, marks |-> u.marks]

\* What the effect of an item depends on: a node's lastFire is a number, an
\* edge's pulse an object.
Dependency(i, m) == IF i \in Node /\ m # None THEN m.step ELSE m

\* A mark, and not of the step that the item showed last.
Fresh(i, m) == m # None /\ m.step # seen[i]

\* A mistake: what is lit already is left alone.
StartsIfDark(i, m) == Fresh(i, m) /\ i \notin lit

\* The effect returns early unless the mark is fresh.
Starts(i, m) == Fresh(i, m)

\* A state after a list of updates, applied in order.
After(state, updates) ==
  LET after[k \in 0..Len(updates)] ==
        IF k = 0 THEN state ELSE Applied(after[k - 1], updates[k])
  IN after[Len(updates)]

\* The canvas after the queued updates.
Rendered == After([drawing |-> drawing, marks |-> mark], queue)

\* The effects whose dependency changed are cleaned up, which stops timer or
\* frame, and run.  A new edge, or a node no longer hidden, has a new hook.
\* (\E makes TLC evaluate each value once.)
Render ==
  \E next \in {Rendered} : \E gone \in {On(drawing) \ On(next.drawing)},
     changed \in {{i \in On(next.drawing) :
                     Dependency(i, mark[i]) # Dependency(i, next.marks[i])}} :
  \E started \in {{i \in changed : Starts(i, next.marks[i])}} :
     /\ queue # <<>> /\ queue' = <<>>
     /\ drawing' = next.drawing /\ mark' = next.marks
     /\ seen' = [i \in Item |-> IF i \in started THEN next.marks[i].step
                                ELSE IF i \in gone THEN None ELSE seen[i]]
     /\ ticking' = (ticking \ (changed \cup gone)) \cup started
     /\ lit' = (lit \ gone) \cup (started \cap Node)
     /\ cut' = (cut \cup {i \in lit \cap changed : ~Fresh(i, next.marks[i])})
                 \ ({i \in changed : Fresh(i, next.marks[i])} \cup gone)
     /\ UNCHANGED <<kept, run, acts, tale, last>>

\* The first frames of a pulse draw it.
Frame(e) ==
  /\ e \in ticking \ Node /\ lit' = lit \cup {e}
  /\ UNCHANGED <<drawing, mark, queue, seen, ticking, kept, run, acts, tale, last, cut>>

\* FLASH_MS or PULSE_DURATION_MS are over.
Over(i) ==
  /\ i \in ticking
  /\ ticking' = ticking \ {i} /\ lit' = lit \ {i}
  /\ UNCHANGED <<drawing, mark, queue, seen, kept, run, acts, tale, last, cut>>

Next ==
  \/ \E ev \in Event : TraceEvent(ev)
  \/ NewRun
  \/ Redraw \/ Delete \/ Undo
  \/ Render
  \/ \E i \in Item : Frame(i) \/ Over(i)

Spec == Init /\ [][Next]_vars

\* React renders what is queued (only Render empties the queue), and timers run out.
FairSpec == Spec /\ WF_queue(queue' = <<>>) /\ WF_vars(\E i \in Item : Over(i))

-----------------------------------------------------------------------------
(* Trace.Resolve. *)

\* BuildEdgeMap: of the edges of a port the last one in the spec.
EdgeMap(spec) ==
  LET port(k) == <<spec[k].source, spec[k].port>>
  IN  [p \in {port(k) : k \in DOMAIN spec} |->
         spec[Max({k \in DOMAIN spec : port(k) = p})].id]

\* One event: a send without an edge is dropped, the others are kept.  The place
\* in the result is the new step.
Resolved(out, ev, em) ==
  IF ev.kind # "send" THEN Append(out, [ev |-> ev, edge |-> None])
  ELSE IF <<ev.node, ev.port>> \in DOMAIN em
       THEN Append(out, [ev |-> ev, edge |-> em[<<ev.node, ev.port>>]])
       ELSE out

Resolve(events, em) ==
  LET out[k \in 0..Len(events)] ==
        IF k = 0 THEN <<>> ELSE Resolved(out[k - 1], events[k], em)
  IN out[Len(events)]

-----------------------------------------------------------------------------
(* Properties. *)

Mark == [step : 0..(MaxEvents - 1), run : 1..(MaxActs + 1)]
Present == On(drawing)

\* Every variable has its type, and only what is on the canvas is marked, lit
\* or animated.
TypeOK ==
  /\ \A i \in Item : mark[i] \in Mark \cup {None} /\ seen[i] \in 0..(MaxEvents - 1) \cup {None}
  /\ lit \cup ticking \subseteq Present /\ cut \subseteq lit
  /\ \A i \in Item \ Present : mark[i] = None /\ seen[i] = None

\* However many events, gestures and redraws one rendering gathers: it shows
\* each item with its last mark, and an item is animated for the mark it shows
\* (pump.ts:3-4 speaks of the current state, which only the update sees).
ShowsTheLast ==
  /\ queue = <<>> => \A i \in Present : mark[i] = last[i]
  /\ \A i \in ticking : mark[i] # None /\ seen[i] = mark[i].step

\* A resolved trace less the sends of nodes in a collapsed fold.
Shown(out, r, d) ==
  IF r.ev.kind = "send" /\ r.ev.node \in Hidden(d) THEN out ELSE Append(out, r)

Unfolded(trace, d) ==
  LET out[k \in 0..Len(trace)] ==
        IF k = 0 THEN <<>> ELSE Shown(out[k - 1], trace[k], d)
  IN out[Len(trace)]

\* Two edges of the port that an event names.
OfOnePort(spec, ev, x, y) ==
  \E a, b \in DOMAIN spec :
    /\ x = spec[a].id /\ spec[a].source = ev.node /\ spec[a].port = ev.port
    /\ y = spec[b].id /\ spec[b].source = ev.node /\ spec[b].port = ev.port

\* What the pump finds among the edges on the canvas, and Resolve finds in the spec
\* that the canvas was drawn from, in the order of the events: the same events, on
\* the same edge or on edges of one port (Resolve.go:10-16).  But the pump skips the
\* sends of nodes in a collapsed fold, whose edges are led elsewhere or left out, and
\* Resolve keeps them.
AgreesWithResolve ==
  steady =>
    LET there == Unfolded(Resolve(raw, EdgeMap(drawing.spec)), drawing)
    IN  /\ Len(drawn) = Len(there)
        /\ \A k \in DOMAIN drawn :
             /\ drawn[k].ev = there[k].ev
             /\ \/ drawn[k].edge = there[k].edge
                \/ OfOnePort(drawing.spec, drawn[k].ev, drawn[k].edge, there[k].edge)

\* use-fire-flash.ts:1, SubstrateEdge.tsx:3: a flash ends after 400 ms and a pulse
\* after 600 ms; when the events are over nothing stays lit, unless its mark was
\* taken away, or replaced by one of the same step, while it was animated.
AnimationsEnd == <>[](lit \subseteq cut)
=============================================================================
