------------------------------- MODULE Canvas -------------------------------
(***************************************************************************)
(* The canvas on which the user edits a topology: React Flow's nodes and   *)
(* edges are the truth, made from a spec when one is loaded (specToFlow)   *)
(* and turned back into a spec when it is saved (flowToSpec).  Folds hide  *)
(* their members behind a placeholder.  Every gesture is a handler that    *)
(* runs to its end, with the rendering it causes, before the next one.     *)
(*                                                                         *)
(* DocSync has the messages between canvas and file; here a save reaches   *)
(* the file at once.  Left out: positions, sublabels, notes and styles,    *)
(* and every data field that is only carried along; nodes of one type      *)
(* stand for all of them.                                                  *)
(***************************************************************************)
EXTENDS History, FiniteSets

CONSTANTS
  Name,            \* ids of nodes
  FoldName,        \* ids of folds, apart from the nodes'
  InPort, OutPort, \* the ports that the type of node declares
  GrownPort,       \* names for the input ports the user adds
  Kind,            \* kinds of edges
  PortKind,        \* the kind of the type's ports
  Files,           \* specs that the file may start with, or an outside edit put there
  Folds0,          \* the folds its viewer state may have
  Selected,        \* lastSelectionIds there, which only view-load sets
  MaxActs,         \* bound on gestures and outside edits
  None

VARIABLES
  lastSpec,   \* lastSpec.current: the spec loaded last
  folds,      \* _folds
  viewFolds,  \* the ids of viewerState.folds, the other copy
  synced,     \* the viewer state has been loaded (lastViewSyncedText)
  dirty,      \* a save is scheduled
  saved,      \* the spec in the file
  acts        \* how many acts there were

vars == <<historyVars, lastSpec, folds, viewFolds, synced, dirty, saved, acts>>

-----------------------------------------------------------------------------
(* A spec is [nodes, edges]: nodes [id, inputs], where inputs is None if the *)
(* node has those of its type; edges [id, source, sh, target, th, kind,      *)
(* label].  Ids and labels of edges are the four they join and a number.     *)

Ids(items) == {x.id : x \in items}

Ends     == Name \cup FoldName
Ports    == InPort \cup GrownPort
Ids0     == [base : Name \X OutPort \X Name \X Ports, n : Nat]
Specs    == [nodes : SUBSET [id : Name, inputs : (SUBSET Ports) \cup {None}],
             edges : SUBSET [id : Ids0, source : Ends, sh : OutPort, target : Ends, th : Ports,
                             kind : Kind, label : Ids0]]
Folds    == [id : FoldName, members : SUBSET Ends, collapsed : BOOLEAN]

InputsOf(n) == IF n.inputs = None THEN InPort ELSE n.inputs

\* Input ports with more than one edge, and labels of more than one, in a file:
\* parseSpec accepts both.
SharedPort ==
  {p \in Name \X Ports : \E f \in Files : \E d, e \in f.edges :
     d # e /\ p = <<d.target, d.th>> /\ p = <<e.target, e.th>>}
SharedLabel ==
  {x \in Ids0 : \E f \in Files : \E d, e \in f.edges : d # e /\ x = d.label /\ x = e.label}

\* A spec whose nodes have at least the ports of their type, whose edges that end at
\* nodes end at ports they have, whose ids tell nodes and edges apart, and which
\* shares no port or label that no file shares.
IsSpec(s) ==
  /\ s \in Specs /\ IsFiniteSet(s.edges)
  /\ \A n \in s.nodes : InPort \subseteq InputsOf(n)
  /\ \A m, n \in s.nodes : m.id = n.id => m = n
  /\ \A e \in s.edges :
       /\ e.source \in Name => e.source \in Ids(s.nodes)
       /\ e.target \in Name => \E n \in s.nodes : n.id = e.target /\ e.th \in InputsOf(n)
  /\ \A d, e \in s.edges : d # e =>
       /\ d.id # e.id
       /\ d.label = e.label => e.label \in SharedLabel
       /\ d.target \in Name /\ <<d.target, d.th>> = <<e.target, e.th>> =>
            <<e.target, e.th>> \in SharedPort

\* Of two edges of a file nothing is asked but their ids.
ASSUME CanvasAssumption ==
  /\ Name \cap FoldName = {} /\ None \notin OutPort \cup Ports
  /\ \A ports \in SUBSET Ports : ports # None
  /\ PortKind \in Kind
  /\ \A f \in Files : IsSpec(f)
  /\ \A fs \in Folds0 : fs \subseteq Folds

\* A mistake: the fold need not be collapsed, as in the map for frames (foldOf).
FoldOf(fs, m) == {f.id : f \in {g \in fs : m \in g.members}}

\* The collapsed fold a node is in (one, since no fold takes a node of another).
HiddenIn(fs, m) == {f.id : f \in {g \in fs : g.collapsed /\ m \in g.members}}

\* An end of an edge as it is drawn.
DrawnAt(fs, m) == IF HiddenIn(fs, m) = {} THEN m ELSE CHOOSE f \in HiddenIn(fs, m) : TRUE

\* An edge that lost its handle keeps it in its data.
specToFlow(spec, fs) ==
  [nodes |-> {[n EXCEPT !.inputs = IF @ = None THEN InPort ELSE @] :
                n \in {x \in spec.nodes : HiddenIn(fs, x.id) = {}}},
   folds |-> {[id |-> f.id, collapsed |-> f.collapsed] : f \in fs},
   edges |-> {[id |-> e.id, source |-> DrawnAt(fs, e.source), target |-> DrawnAt(fs, e.target),
               sh |-> IF HiddenIn(fs, e.source) = {} THEN e.sh ELSE None,
               th |-> IF HiddenIn(fs, e.target) = {} THEN e.th ELSE None,
               data |-> [sh |-> e.sh, th |-> e.th, kind |-> e.kind, label |-> e.label]] :
                e \in {x \in spec.edges : \/ HiddenIn(fs, x.source) = {}
                                          \/ HiddenIn(fs, x.source) # HiddenIn(fs, x.target)}}]

\* Fold placeholders are skipped; the ends of an edge are those drawn.
flowToSpec(flow) ==
  [nodes |-> {[n EXCEPT !.inputs = IF @ = {} THEN None ELSE @] : n \in flow.nodes},
   edges |-> {[id |-> e.id, source |-> e.source, sh |-> e.data.sh, target |-> e.target,
               th |-> e.data.th, kind |-> e.data.kind, label |-> e.data.label] :
                e \in flow.edges}]

\* Each edge joins ports that exist, of nodes that exist; no port of these
\* nodes is required and none has an initial slot.
validatePorts(spec) ==
  \A e \in spec.edges :
    /\ e.source \in Ids(spec.nodes) /\ e.sh \in OutPort
    /\ \E n \in spec.nodes :
         n.id = e.target /\ e.th \in InputsOf(n)

\* The spec has been loaded, its viewer state not yet.
Init ==
  /\ saved \in Files /\ validatePorts(saved) /\ lastSpec = saved
  /\ folds = {} /\ viewFolds = None /\ synced = FALSE
  /\ shown = specToFlow(lastSpec, folds)
  /\ past = <<>> /\ future = <<>>
  /\ dirty = FALSE /\ acts = 0

-----------------------------------------------------------------------------
(* Gestures on nodes and edges. *)

Act == acts < MaxActs /\ acts' = acts + 1

\* scheduleSave, and what an edit leaves alone until then.
Edited == /\ dirty' = TRUE
          /\ UNCHANGED <<lastSpec, folds, viewFolds, synced, saved>>

\* A mistake: the number is the count of edges between these ports.
CountUsed(used, base) ==
  [base |-> base, n |-> 1 + Cardinality({e \in shown.edges :
     <<e.source, e.sh, e.target, e.th>> = base})]

\* An id or label for what base describes, with the first free number.
FirstFree(used, base) ==
  CHOOSE x \in [base : {base}, n : 1..(Cardinality(used) + 1)] :
    /\ x \notin used
    /\ \A k \in 1..(x.n - 1) : [x EXCEPT !.n = k] \in used

\* An edge of the ports' kind between two nodes.
EdgeOf(id, label, s, sh, t, th) ==
  [id |-> id, source |-> s, target |-> t, sh |-> sh, th |-> th,
   data |-> [sh |-> sh, th |-> th, kind |-> PortKind, label |-> label]]

NewEdge(s, sh, t, th) ==
  EdgeOf(FirstFree(Ids(shown.edges), <<s, sh, t, th>>),
         FirstFree({e.data.label : e \in shown.edges}, <<s, sh, t, th>>),
         s, sh, t, th)

\* A mistake: any connection will do.
AnyConnection(t, th) == TRUE

\* The input port has no edge yet; React Flow asks before either handler runs.
isValidConnection(t, th) == ~\E e \in shown.edges : e.target = t /\ e.th = th

Connect ==
  /\ Act
  /\ \E s \in Ids(shown.nodes), t \in shown.nodes, sh \in OutPort : \E th \in t.inputs :
       /\ isValidConnection(t.id, th)
       /\ shown' = [shown EXCEPT !.edges = @ \cup {NewEdge(s, sh, t.id, th)}]
  /\ PushSnapshot
  /\ Edited

\* A drop on a handle of the rim of a node adds a port to it.  The handler knows
\* these handles; the component that draws them (PortRim) is not used today.
ConnectGrow ==
  /\ Act
  /\ \E s \in Ids(shown.nodes), t \in shown.nodes, sh \in OutPort : \E th \in GrownPort \ t.inputs :
       shown' = [shown EXCEPT
                   !.nodes = (@ \ {t}) \cup {[t EXCEPT !.inputs = @ \cup {th}]},
                   !.edges = @ \cup {NewEdge(s, sh, t.id, th)}]
  /\ PushSnapshot
  /\ Edited

\* One end of an edge is dragged to another port, of those the type declares;
\* id and label stay.
Reconnect ==
  /\ Act
  /\ \E e \in shown.edges, s, t \in Ids(shown.nodes), sh \in OutPort, th \in InPort :
       /\ <<s, sh>> = <<e.source, e.sh>> \/ <<t, th>> = <<e.target, e.th>>
       /\ isValidConnection(t, th)
       /\ shown' = [shown EXCEPT !.edges = (@ \ {e}) \cup
                                            {EdgeOf(e.id, e.data.label, s, sh, t, th)}]
  /\ PushSnapshot
  /\ Edited

\* setEdgeKind; setEdgeLane does the same to the lane.
SetEdgeKind ==
  /\ Act
  /\ \E e \in shown.edges, k \in Kind :
       shown' = [shown EXCEPT !.edges = (@ \ {e}) \cup {[e EXCEPT !.data.kind = k]}]
  /\ PushSnapshot
  /\ Edited

\* A node from the palette gets an id that nothing on the canvas has.
Drop ==
  /\ Act
  /\ \E x \in Name \ Ids(shown.nodes) :
       shown' = [shown EXCEPT !.nodes = @ \cup {[id |-> x, inputs |-> InPort]}]
  /\ PushSnapshot
  /\ Edited

\* applyRename, asked for its verdict on a copy: what else it renames is lost.
\* Nodes that a fold hides are not in the copy.
Accepted(x) == x \notin Ids(shown.nodes)

\* rerenderFromRF: what the last rendering showed becomes the spec, drawn anew.
rerender == /\ lastSpec' = flowToSpec(shown)
            /\ shown' = specToFlow(lastSpec', folds)

\* beginRenameNodeId with an accepted name.  It queues updates of the node and
\* its edges for React, and the rerender that ends every edit, which reads the
\* canvas before React has run them, then replaces what they would yield.
Rename(n, x) ==
  /\ Act
  /\ n \in Ids(shown.nodes) /\ Accepted(x)
  /\ PushSnapshot
  /\ rerender
  /\ dirty' = TRUE
  /\ UNCHANGED <<folds, viewFolds, synced, saved>>

\* An edit that is cancelled, refused, or leaves the name as it was.
CancelEdit ==
  /\ Act /\ shown.nodes # {}
  /\ rerender
  /\ UNCHANGED <<past, future, folds, viewFolds, synced, dirty, saved>>

\* A mistake: the edges of a deleted node stay.
DeleteNodesOnly ==
  /\ Act
  /\ \E ns \in SUBSET Ids(shown.nodes) :
       ns # {} /\ shown' = [shown EXCEPT !.nodes = {n \in @ : n.id \notin ns}]
  /\ PushSnapshot
  /\ Edited

\* React Flow reports the deleted nodes and, in a call of its own, the deleted
\* edges, those of the nodes included: each takes a snapshot.
Delete ==
  /\ Act
  /\ \E ns \in SUBSET Ids(shown.nodes), es \in SUBSET shown.edges :
       LET cut == es \cup {e \in shown.edges : {e.source, e.target} \cap ns # {}}
       IN /\ ns # {} \/ cut # {}
          /\ shown' = [shown EXCEPT !.nodes = {n \in @ : n.id \notin ns}, !.edges = @ \ cut]
          /\ PushSnapshots(IF ns # {} /\ cut # {} THEN 2 ELSE 1)
  /\ Edited

\* Of a drag the spec sees a snapshot and a save.
DragNode == Act /\ shown.nodes # {} /\ PushSnapshot /\ Edited /\ UNCHANGED shown

\* The drag of a fold, which only a collapsed one allows, is a snapshot and a
\* view save.
DragFold ==
  /\ Act
  /\ \E f \in shown.folds : f.collapsed
  /\ PushSnapshot
  /\ UNCHANGED <<shown, lastSpec, folds, viewFolds, synced, dirty, saved>>

-----------------------------------------------------------------------------
(* Folds. *)

\* rebuildFlow: drawn again, from the spec of the last load.
rebuildFlow == shown' = specToFlow(lastSpec, folds')

\* What is in a fold already is not taken into another; one node is no fold.
createFold(members) ==
  LET free == members \ UNION {f.members : f \in folds}
  IN \/ /\ Cardinality(free) >= 2
        /\ \E x \in FoldName \ Ids(folds) :
             folds' = folds \cup {[id |-> x, members |-> free, collapsed |-> TRUE]}
        /\ rebuildFlow
     \/ /\ Cardinality(free) < 2
        /\ UNCHANGED <<folds, shown>>

\* Two selected nodes or more, of those shown; the snapshot is taken before
\* the fold may be refused.
FoldSelection ==
  LET members == Selected \cap (Ids(shown.nodes) \cup Ids(shown.folds))
  IN /\ Act /\ synced /\ Cardinality(members) >= 2
     /\ PushSnapshot
     /\ createFold(members)
     /\ UNCHANGED <<lastSpec, viewFolds, synced, dirty, saved>>

toggleFoldCollapse(g) == folds' = (folds \ {g}) \cup {[g EXCEPT !.collapsed = ~@]}

\* A placeholder or the tab of an expanded fold is double-clicked.
ToggleFold ==
  /\ Act
  /\ \E g \in folds : g.id \in Ids(shown.folds) /\ toggleFoldCollapse(g)
  /\ PushSnapshot
  /\ rebuildFlow
  /\ UNCHANGED <<lastSpec, viewFolds, synced, dirty, saved>>

\* Deleted is the copy in viewerState; the canvas is drawn from the other one.
DeleteFold ==
  /\ Act /\ viewFolds # None
  /\ \E fs \in SUBSET Ids(shown.folds) : fs # {} /\ viewFolds' = viewFolds \ fs
  /\ UNCHANGED <<past, future, lastSpec, folds, synced, dirty, saved>>
  /\ rebuildFlow

-----------------------------------------------------------------------------
(* Undo, saving and loading. *)

Undo == Act /\ undo /\ UNCHANGED <<lastSpec, folds, viewFolds, synced, dirty, saved>>
Redo == Act /\ redo /\ UNCHANGED <<lastSpec, folds, viewFolds, synced, dirty, saved>>

\* performSave: an empty canvas is taken for one that is not there yet.
Save ==
  /\ dirty
  /\ dirty' = FALSE
  /\ saved' = IF shown.nodes = {} /\ shown.folds = {} /\ shown.edges = {} THEN saved
              ELSE flowToSpec(shown)
  /\ UNCHANGED <<historyVars, lastSpec, folds, viewFolds, synced, acts>>

\* Another editor adds a node to the file, or puts another file in its place, and
\* the host sends it: it is drawn if it is valid, with the history as it was.
Load ==
  /\ Act
  /\ \/ \E x \in Name \ Ids(saved.nodes) :
          saved' = [saved EXCEPT !.nodes = @ \cup {[id |-> x, inputs |-> None]}]
     \/ saved' \in Files
  /\ \/ validatePorts(saved') /\ lastSpec' = saved' /\ shown' = specToFlow(saved', folds)
     \/ ~validatePorts(saved') /\ UNCHANGED <<lastSpec, shown>>
  /\ UNCHANGED <<past, future, folds, viewFolds, synced, dirty>>

\* The viewer state follows the spec, some time later: both copies of the folds
\* are its, and the canvas is drawn again from the spec of the load.
ViewLoad ==
  /\ ~synced /\ synced' = TRUE
  /\ folds' \in Folds0
  /\ viewFolds' = IF folds' = {} THEN None ELSE Ids(folds')
  /\ rebuildFlow
  /\ UNCHANGED <<past, future, lastSpec, dirty, saved, acts>>

FoldGesture == FoldSelection \/ ToggleFold

Next ==
  \/ Connect \/ ConnectGrow \/ Reconnect \/ SetEdgeKind
  \/ Drop \/ Delete \/ DragNode \/ DragFold
  \/ CancelEdit \/ \E n, x \in Name : Rename(n, x)
  \/ FoldGesture \/ DeleteFold
  \/ Undo \/ Redo \/ Save \/ Load \/ ViewLoad

Spec == Init /\ [][Next]_vars

-----------------------------------------------------------------------------
(* Properties. *)

CanvasSet ==
  [nodes : SUBSET [id : Name, inputs : SUBSET Ports],
   folds : SUBSET [id : FoldName, collapsed : BOOLEAN],
   edges : SUBSET [id : Ids0, source : Ends, target : Ends,
                   sh : OutPort \cup {None}, th : Ports \cup {None},
                   data : [sh : OutPort, th : Ports, kind : Kind, label : Ids0]]]

\* What is on the screen or an undo or redo away from it.
Canvases == {shown} \cup {past[k] : k \in DOMAIN past} \cup {future[k] : k \in DOMAIN future}

\* No fold of a canvas hides anything.
Whole(c) == \A g \in c.folds : ~g.collapsed

\* Every variable has its type; an end or handle is that of a fold or missing
\* only where a fold is collapsed (spec-to-flow.ts:120-131).
TypeOK ==
  /\ \A c \in Canvases :
       /\ c \in CanvasSet
       /\ Whole(c) => \A e \in c.edges : e.sh # None /\ e.th # None
  /\ folds \subseteq Folds
  /\ viewFolds \in (SUBSET FoldName) \cup {None}
  /\ synced \in BOOLEAN /\ dirty \in BOOLEAN

\* Whatever is edited, folded, deleted, undone and redone: an edge between two
\* nodes joins nodes that are on the canvas and ports they have.  parse-meta.ts:
\* 47-71 would refuse a file with any other edge, and the whole file with it.
EdgesJoin ==
  \A c \in Canvases : \A e \in c.edges : {e.source, e.target} \subseteq Name =>
    /\ e.source \in Ids(c.nodes) /\ e.sh \in OutPort
    /\ \E n \in c.nodes : n.id = e.target /\ e.th \in n.inputs

\* _use-edge-handlers.ts:17-19: two senders never share an input port of a node,
\* unless two share this port in a file that is loaded.
OneSender ==
  \A c \in Canvases : \A d, e \in c.edges :
    d # e /\ d.target \in Name /\ <<d.target, d.th>> = <<e.target, e.th>> =>
      <<e.target, e.th>> \in SharedPort

\* The ids of nodes, and the ids and labels of edges, tell them apart, but for labels
\* that two edges of a loaded file share: the loader makes one channel per label
\* (_on-connect.ts:75-87).
Distinct ==
  \A c \in Canvases :
    /\ \A m, n \in c.nodes : m.id = n.id => m = n
    /\ \A d, e \in c.edges : d # e =>
         d.id # e.id /\ (d.data.label = e.data.label => e.data.label \in SharedLabel)

\* _use-host-messages.ts:16-18: after an inline edit commits, React Flow's state
\* is already updated, so an accepted new name is on the canvas then.
RenameTakesEffect ==
  [][\A n, x \in Name : Rename(n, x) => x \in Ids(shown'.nodes)]_vars

\* fold.ts:4-6: creating or toggling a fold never changes the spec.
FoldsLeaveSpec == [][FoldGesture => flowToSpec(shown') = flowToSpec(shown)]_vars
=============================================================================
