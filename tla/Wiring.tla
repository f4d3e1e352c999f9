------------------------------ MODULE Wiring -------------------------------
(***************************************************************************)
(* LoadTopology: from a topology file to nodes wired by one-place          *)
(* channels.  The file is already parsed JSON here: a sequence of nodes    *)
(* and a sequence of edges.  Each phase of the function is an action, and  *)
(* priming is one action per port, because a send on a full channel blocks *)
(* the loader for good.                                                    *)
(***************************************************************************)
EXTENDS Integers, Sequences, FiniteSetsExt

CONSTANTS
  Specs,   \* the topologies to load
  None     \* an empty channel

ASSUME WiringAssumption ==
  \A s \in Specs : /\ Len(s.nodes) \in Nat /\ DOMAIN s.nodes = 1..Len(s.nodes)
                   /\ Len(s.edges) \in Nat /\ DOMAIN s.edges = 1..Len(s.edges)

\* What each kind registers: the channel fields of its struct, the receiving
\* ones and the sending ones each in field order.
One(name)  == [name |-> name, dir |-> "out"]
Many(name) == [name |-> name, dir |-> "multi"]
Registry ==
  [Input            |-> [in |-> <<>>, out |-> << One("ToReadGate") >>],
   ReadGate         |-> [in |-> <<"FromInput", "FromChainInhibitor">>,
                         out |-> << One("ToChainInhibitor") >>],
   ChainInhibitor   |-> [in |-> <<"FromPrevChainInhibitorNode">>,
                         out |-> << Many("ToNext") >>],
   InhibitRightGate |-> [in |-> <<"FromLeft", "FromRight">>,
                         out |-> << One("ToPassed") >>]]

VARIABLES
  spec,      \* the file being loaded
  phase,     \* how far LoadTopology is
  edgeChan,  \* label -> channel (a channel is named by the edge it was made for)
  inbound,   \* <<node, port>> -> label
  outbound,  \* <<node, port>> -> labels, in spec order (see Outbound)
  buf,       \* channel -> value or None
  todo,      \* priming sends left to do: <<number of the node, number of the input>>
  ins, outs  \* channels of each built node, in port order

vars == <<spec, phase, edgeChan, inbound, outbound, buf, todo, ins, outs>>

Labels(s)   == {s.edges[k].label : k \in DOMAIN s.edges}
InPorts(n)  == Registry[n.type].in
OutPorts(n) == Registry[n.type].out

Origin(e) == <<e.source, e.sourceHandle>>
Goal(e)   == <<e.target, e.targetHandle>>
From(s, port) == {k \in DOMAIN s.edges : Origin(s.edges[k]) = port}
Into(s, port) == {k \in DOMAIN s.edges : Goal(s.edges[k]) = port}

\* A mistake: the data block wins over the top-level initialSlots.
InitSlotsDataWins(n) == [p \in DOMAIN n.data \cup DOMAIN n.slots |->
                          IF p \in DOMAIN n.data THEN n.data[p] ELSE n.slots[p]]

\* nodeInitSlots: data.initialSlots overridden by the top-level initialSlots.
InitSlots(n) == [p \in DOMAIN n.data \cup DOMAIN n.slots |->
                   IF p \in DOMAIN n.slots THEN n.slots[p] ELSE n.data[p]]

\* The inputs that have an initial slot; other slots are no business of priming.
Primes(s) ==
  UNION {{<<k, p>> : p \in {p \in DOMAIN InPorts(s.nodes[k]) :
                              InPorts(s.nodes[k])[p] \in DOMAIN InitSlots(s.nodes[k])}} :
           k \in DOMAIN s.nodes}

\* A mistake: one channel per source port instead of one per edge.
AllocatedPerSource(s) ==
  [l \in Labels(s) |->
     <<"edge", Max(UNION {From(s, Origin(s.edges[k])) :
                            k \in {k \in DOMAIN s.edges : s.edges[k].label = l}})>>]

\* make(chan int, 1) per edge; the map keeps the last one made for a label.
Allocated(s) ==
  [l \in Labels(s) |->
     <<"edge", Max({k \in DOMAIN s.edges : s.edges[k].label = l})>>]

\* inbound keeps the last edge into a port.
Inbound(s) == [port \in {Goal(s.edges[k]) : k \in DOMAIN s.edges} |->
                 s.edges[Max(Into(s, port))].label]

\* outbound keeps all edges out of a port.  A list of one entry per edge is a
\* function of the edges' numbers here: their order is the order of the list.
Outbound(s) == [port \in {Origin(s.edges[k]) : k \in DOMAIN s.edges} |->
                  [k \in From(s, port) |-> s.edges[k].label]]

\* The channels reflectBuild sets on the fields of node k: a port without an
\* edge gets a dead end, a single output the first of its edges, a fan-out
\* all of them (none at all when it has no edge).
Dead(k, name) == <<"dead", k, name>>

InChans(s, k, chans, inb) ==
  [p \in DOMAIN InPorts(s.nodes[k]) |->
     LET name == InPorts(s.nodes[k])[p]
         port == <<s.nodes[k].id, name>>
     IN  IF port \in DOMAIN inb THEN chans[inb[port]] ELSE Dead(k, name)]

\* A mistake: the fan-out field gets the first of its edges only.
OutChansFirst(s, k, chans, outb) ==
  [p \in DOMAIN OutPorts(s.nodes[k]) |->
     LET name == OutPorts(s.nodes[k])[p].name
         port == <<s.nodes[k].id, name>>
     IN  IF port \in DOMAIN outb
         THEN [j \in {Min(DOMAIN outb[port])} |-> chans[outb[port][j]]]
         ELSE [j \in {0} |-> Dead(k, name)]]

OutChans(s, k, chans, outb) ==
  [p \in DOMAIN OutPorts(s.nodes[k]) |->
     LET name  == OutPorts(s.nodes[k])[p].name
         multi == OutPorts(s.nodes[k])[p].dir = "multi"
         port  == <<s.nodes[k].id, name>>
         bound == IF port \notin DOMAIN outb THEN {}
                  ELSE IF multi THEN DOMAIN outb[port] ELSE {Min(DOMAIN outb[port])}
     IN  IF bound = {} /\ ~multi THEN [j \in {0} |-> Dead(k, name)]
         ELSE [j \in bound |-> chans[outb[port][j]]]]

\* Data-tagged fields: HeldValue and Init come from the data block alone.
HeldValue(n) == IF n.type = "ChainInhibitor" /\ "held" \in DOMAIN n.data
                THEN n.data["held"] ELSE 0
InitValues(n) == IF n.type = "Input" THEN n.init ELSE <<>>

-----------------------------------------------------------------------------
Empty == [x \in {} |-> None]

Init ==
  /\ spec \in Specs
  /\ phase = "kinds"
  /\ edgeChan = Empty /\ inbound = Empty /\ outbound = Empty /\ buf = Empty
  /\ todo = {} /\ ins = Empty /\ outs = Empty

Fail == phase' = "error"

\* An unknown kind is refused before anything is allocated.
ValidateKinds ==
  /\ phase = "kinds"
  /\ IF \A k \in DOMAIN spec.nodes : spec.nodes[k].type \in DOMAIN Registry
     THEN phase' = "alloc" ELSE Fail
  /\ UNCHANGED <<spec, edgeChan, inbound, outbound, buf, todo, ins, outs>>

\* One channel per edge, keyed by the edge's label, which may not be empty.
AllocChans ==
  /\ phase = "alloc"
  /\ IF "" \in Labels(spec)
     THEN Fail /\ UNCHANGED <<edgeChan, buf>>
     ELSE /\ phase' = "bind"
          /\ edgeChan' = Allocated(spec)
          /\ buf' = [c \in {Allocated(spec)[l] : l \in Labels(spec)} |-> None]
  /\ UNCHANGED <<spec, inbound, outbound, todo, ins, outs>>

BindEdges ==
  /\ phase = "bind"
  /\ inbound' = Inbound(spec)
  /\ outbound' = Outbound(spec)
  /\ todo' = Primes(spec)
  /\ phase' = "prime"
  /\ UNCHANGED <<spec, edgeChan, buf, ins, outs>>

\* The priming loops go through the nodes, and each through its inputs, in order.
NextToPrime(k, p) ==
  /\ <<k, p>> \in todo
  /\ \A d \in todo : k < d[1] \/ (k = d[1] /\ p <= d[2])

\* A mistake: a slot without an inbound edge is waited for, not refused.
PrimePortWaits ==
  /\ phase = "prime"
  /\ \E d \in todo :
       LET n    == spec.nodes[d[1]]
           name == InPorts(n)[d[2]]
           c    == edgeChan[inbound[<<n.id, name>>]]
       IN  /\ NextToPrime(d[1], d[2])
           /\ <<n.id, name>> \in DOMAIN inbound /\ buf[c] = None
           /\ buf' = [buf EXCEPT ![c] = InitSlots(n)[name]]
           /\ todo' = todo \ {d}
  /\ UNCHANGED <<spec, phase, edgeChan, inbound, outbound, ins, outs>>

\* edgeChan[label] <- slotVal: refused without an inbound edge, and blocked
\* while the channel is full, which nothing can empty yet.
PrimePort ==
  /\ phase = "prime"
  /\ \E d \in todo :
       LET n    == spec.nodes[d[1]]
           name == InPorts(n)[d[2]]
           c    == edgeChan[inbound[<<n.id, name>>]]
       IN  /\ NextToPrime(d[1], d[2])
           /\ IF <<n.id, name>> \notin DOMAIN inbound
              THEN Fail /\ UNCHANGED <<buf, todo>>
              ELSE /\ buf[c] = None
                   /\ buf' = [buf EXCEPT ![c] = InitSlots(n)[name]]
                   /\ todo' = todo \ {d}
                   /\ UNCHANGED phase
  /\ UNCHANGED <<spec, edgeChan, inbound, outbound, ins, outs>>

\* Port bindings and reflectBuild, for every node in spec order.
BuildNodes ==
  /\ phase = "prime" /\ todo = {}
  /\ phase' = "loaded"
  /\ ins'  = [k \in DOMAIN spec.nodes |-> InChans(spec, k, edgeChan, inbound)]
  /\ outs' = [k \in DOMAIN spec.nodes |-> OutChans(spec, k, edgeChan, outbound)]
  /\ UNCHANGED <<spec, edgeChan, inbound, outbound, buf, todo>>

Returned == phase \in {"loaded", "error"} /\ UNCHANGED vars

Next == ValidateKinds \/ AllocChans \/ BindEdges \/ PrimePort \/ BuildNodes
        \/ Returned

Spec == Init /\ [][Next]_vars
LiveSpec == Spec /\ WF_vars(Next)

-----------------------------------------------------------------------------
(* Properties. *)

Loaded == phase = "loaded"

\* Two things the maps of the loader take for granted and nothing checks: the
\* labels of the edges, and the ids of the nodes, tell them apart.
UniqueLabels(s) ==
  \A j, k \in DOMAIN s.edges : s.edges[j].label = s.edges[k].label => j = k
UniqueIds(s) ==
  \A j, k \in DOMAIN s.nodes : s.nodes[j].id = s.nodes[k].id => j = k
Keyed(s) == UniqueLabels(s) /\ UniqueIds(s)

\* The ports of a node, as the loader sees it: names that are no port of the
\* node's kind bind nothing.
HasInput(n, name)  == \E p \in DOMAIN InPorts(n) : InPorts(n)[p] = name
HasOutput(n, name) == \E p \in DOMAIN OutPorts(n) : OutPorts(n)[p].name = name

\* Edges join nodes and ports that exist.
PortsExist(s) ==
  \A k \in DOMAIN s.edges :
    LET e == s.edges[k]
    IN  /\ \E a \in DOMAIN s.nodes : /\ s.nodes[a].id = e.source
                                     /\ HasOutput(s.nodes[a], e.sourceHandle)
        /\ \E b \in DOMAIN s.nodes : /\ s.nodes[b].id = e.target
                                     /\ HasInput(s.nodes[b], e.targetHandle)

\* One edge into an input, one edge out of a single output.
OneEdgePerPort(s) ==
  \A j, k \in DOMAIN s.edges : j # k =>
    /\ Goal(s.edges[j]) # Goal(s.edges[k])
    /\ s.edges[j].sourceHandle # "ToNext" => Origin(s.edges[j]) # Origin(s.edges[k])

\* A topology without the mistakes the loader does not look for.
WellWired(s) == Keyed(s) /\ PortsExist(s) /\ OneEdgePerPort(s)

\* Where the channels of a loaded topology ended up: <<node, port, entry>> and
\* <<node, port>>, by number.
OutEnds == UNION {UNION {{<<k, p, j>> : j \in DOMAIN outs[k][p]} :
                           p \in DOMAIN outs[k]} : k \in DOMAIN outs}
InEnds  == UNION {{<<k, p>> : p \in DOMAIN ins[k]} : k \in DOMAIN ins}
Writers(c) == {w \in OutEnds : outs[w[1]][w[2]][w[3]] = c}
Readers(c) == {r \in InEnds : ins[r[1]][r[2]] = c}
EndsAt(ends, id) == \E x \in ends : ends = {x} /\ spec.nodes[x[1]].id = id

\* Each edge is one channel that its source node alone writes, once per firing,
\* and its target node alone reads.
EveryEdgeWired ==
  \A k \in DOMAIN spec.edges :
    /\ EndsAt(Writers(<<"edge", k>>), spec.edges[k].source)
    /\ EndsAt(Readers(<<"edge", k>>), spec.edges[k].target)

\* In a well-wired topology every edge becomes such a channel (loader.go:94-124).
EveryEdgeIsAWire == Loaded /\ WellWired(spec) => EveryEdgeWired

\* With labels and ids of their own no two ports ever share a channel, wherever
\* the edges lead: a value reaches one reader and has one writer.
NoSharedChannel ==
  (Loaded /\ Keyed(spec)) =>
    \A c \in DOMAIN buf : /\ \A x, y \in Writers(c) : x = y
                          /\ \A x, y \in Readers(c) : x = y

\* The value the file asks for in an input: the top-level slot goes first.
Asked(n, name) == IF name \in DOMAIN n.slots THEN n.slots[name]
                  ELSE IF name \in DOMAIN n.data THEN n.data[name]
                  ELSE None

\* When the nodes start, a channel holds a value exactly if the port that
\* reads it has an initial slot, and it is that value (loader.go:114-134).
PrimedAsAsked ==
  (Loaded /\ Keyed(spec)) =>
    \A r \in InEnds :
      LET c == ins[r[1]][r[2]]  n == spec.nodes[r[1]]
      IN  c \in DOMAIN buf => buf[c] = Asked(n, InPorts(n)[r[2]])

\* With labels and ids of their own the loader always comes to an end.
LoadEnds == Keyed(spec) ~> phase \in {"loaded", "error"}
=============================================================================
