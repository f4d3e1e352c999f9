---------------------------- MODULE WiringProofs ----------------------------
(* Proofs about LoadTopology and the editor's schema, for every topology:    *)
(* any number of nodes and edges, and every mistake a file can have.         *)
EXTENDS Schema, WellFoundedInduction, TLAPS

-----------------------------------------------------------------------------
(* Sets of numbers.                                                          *)

\* A set of numbers that is not empty has a least one.
LEMMA LeastNumber ==
  ASSUME NEW T \in SUBSET Nat, T # {}
  PROVE  \E n \in T : \A m \in T : n <= m
<1> DEFINE R == OpToRel(<, Nat)
<1>1. \A m, n \in Nat : <<m, n>> \in R <=> m < n
  BY DEF OpToRel
<1>2. IsWellFoundedOn(R, Nat)
  BY NatLessThanWellFounded
<1> HIDE DEF R
<1>3. PICK x \in T : \A y \in T : ~ (<<y, x>> \in R)
  BY <1>2, WFMin
<1>4. ASSUME NEW y \in T PROVE x <= y
  <2>1. x \in Nat /\ y \in Nat /\ ~ (y < x)
    BY <1>1, <1>3
  <2> QED
    BY <2>1
<1> QED
  BY <1>4

\* The least and the greatest of some of the numbers 1..n.
LEMMA Ends ==
  ASSUME NEW n \in Nat, NEW T \in SUBSET (1..n), T # {}
  PROVE  /\ Min(T) \in T /\ \A m \in T : Min(T) <= m
         /\ Max(T) \in T /\ \A m \in T : m <= Max(T)
<1>1. \E x \in T : \A m \in T : x <= m
  BY LeastNumber
<1>2. \E x \in T : \A m \in T : x >= m
  <2> DEFINE U == {n - m : m \in T}
  <2>1. U \in SUBSET Nat /\ U # {}
    <3>1. ASSUME NEW m \in T PROVE n - m \in Nat
      OBVIOUS
    <3>2. PICK m \in T : TRUE
      OBVIOUS
    <3>3. QED
      BY <3>1, <3>2
  <2>2. PICK u \in U : \A v \in U : u <= v
    BY <2>1, LeastNumber
  <2>3. PICK x \in T : u = n - x
    BY <2>2
  <2>4. ASSUME NEW m \in T PROVE x >= m
    <3>1. u <= n - m
      BY <2>2
    <3>2. QED
      BY <2>3, <3>1
  <2>5. QED
    BY <2>4
<1>3. Min(T) \in T /\ \A m \in T : Min(T) <= m
  BY <1>1 DEF Min
<1>4. Max(T) \in T /\ \A m \in T : m <= Max(T)
  <2>1. Max(T) \in T /\ \A m \in T : Max(T) >= m
    BY <1>2 DEF Max
  <2>2. QED
    BY <2>1
<1>5. QED
  BY <1>3, <1>4

\* The least and the greatest of a single number.
LEMMA EndsOfOne ==
  ASSUME NEW k \in Int
  PROVE  Min({k}) = k /\ Max({k}) = k
<1>1. (\E x \in {k} : \A m \in {k} : x <= m) /\ (\E x \in {k} : \A m \in {k} : x >= m)
  OBVIOUS
<1>2. QED
  BY <1>1 DEF Min, Max

-----------------------------------------------------------------------------
(* What the registered kinds have in common.                                 *)

Kinds == {"Input", "ReadGate", "ChainInhibitor", "InhibitRightGate"}

\* The kinds that are registered, one by one.
LEMMA Registered ==
  /\ DOMAIN Registry = Kinds
  /\ Registry["Input"] = [in |-> <<>>, out |-> << One("ToReadGate") >>]
  /\ Registry["ReadGate"] = [in |-> <<"FromInput", "FromChainInhibitor">>,
                             out |-> << One("ToChainInhibitor") >>]
  /\ Registry["ChainInhibitor"] = [in |-> <<"FromPrevChainInhibitorNode">>,
                                   out |-> << Many("ToNext") >>]
  /\ Registry["InhibitRightGate"] = [in |-> <<"FromLeft", "FromRight">>,
                                     out |-> << One("ToPassed") >>]
  BY DEF Registry, Kinds

\* A port name stands for one input of a node.
LEMMA InputsDiffer ==
  ASSUME NEW n, n.type \in DOMAIN Registry,
         NEW p \in DOMAIN InPorts(n), NEW q \in DOMAIN InPorts(n),
         InPorts(n)[p] = InPorts(n)[q]
  PROVE  p = q
<1>1. CASE n.type = "Input"
  BY <1>1, Registered DEF InPorts
<1>2. CASE n.type = "ReadGate"
  BY <1>2, Registered DEF InPorts
<1>3. CASE n.type = "ChainInhibitor"
  BY <1>3, Registered DEF InPorts
<1>4. CASE n.type = "InhibitRightGate"
  BY <1>4, Registered DEF InPorts
<1>5. QED
  BY <1>1, <1>2, <1>3, <1>4, Registered DEF Kinds

\* Inputs are numbered.
LEMMA InputNumbers ==
  ASSUME NEW n, n.type \in DOMAIN Registry
  PROVE  DOMAIN InPorts(n) \subseteq Nat
<1>1. CASE n.type = "Input"
  BY <1>1, Registered DEF InPorts
<1>2. CASE n.type = "ReadGate"
  BY <1>2, Registered DEF InPorts
<1>3. CASE n.type = "ChainInhibitor"
  BY <1>3, Registered DEF InPorts
<1>4. CASE n.type = "InhibitRightGate"
  BY <1>4, Registered DEF InPorts
<1>5. QED
  BY <1>1, <1>2, <1>3, <1>4, Registered DEF Kinds

\* Every kind has one output: a fan-out is called ToNext, a single one is not.
LEMMA OneOutput ==
  ASSUME NEW n, n.type \in DOMAIN Registry
  PROVE  /\ DOMAIN OutPorts(n) = {1}
         /\ OutPorts(n)[1].dir = "multi" <=> OutPorts(n)[1].name = "ToNext"
<1>1. CASE n.type = "Input"
  BY <1>1, Registered DEF OutPorts, One
<1>2. CASE n.type = "ReadGate"
  BY <1>2, Registered DEF OutPorts, One
<1>3. CASE n.type = "ChainInhibitor"
  BY <1>3, Registered DEF OutPorts, Many
<1>4. CASE n.type = "InhibitRightGate"
  BY <1>4, Registered DEF OutPorts, One
<1>5. QED
  BY <1>1, <1>2, <1>3, <1>4, Registered DEF Kinds

-----------------------------------------------------------------------------
(* What the maps of the loader hold, for a topology s.                       *)

\* Nodes and edges are numbered.
LEMMA Numbered ==
  ASSUME NEW s \in Specs
  PROVE  /\ Len(s.nodes) \in Nat /\ DOMAIN s.nodes = 1..Len(s.nodes)
         /\ Len(s.edges) \in Nat /\ DOMAIN s.edges = 1..Len(s.edges)
  BY WiringAssumption

\* The channel of an edge whose label is its own is the one made for it.
LEMMA ChannelOfEdge ==
  ASSUME NEW s \in Specs, UniqueLabels(s), NEW k \in DOMAIN s.edges
  PROVE  /\ s.edges[k].label \in Labels(s)
         /\ Allocated(s)[s.edges[k].label] = <<"edge", k>>
<1>1. s.edges[k].label \in Labels(s)
  BY DEF Labels
<1>2. {j \in DOMAIN s.edges : s.edges[j].label = s.edges[k].label} = {k}
  BY DEF UniqueLabels
<1>3. Max({k}) = k
  <2>1. k \in Int
    BY Numbered
  <2>2. QED
    BY <2>1, EndsOfOne
<1>4. QED
  BY <1>1, <1>2, <1>3 DEF Allocated

\* Some of the edges of s, at least one: which are first and last.
LEMMA FirstAndLast ==
  ASSUME NEW s \in Specs, NEW T \in SUBSET DOMAIN s.edges, T # {}
  PROVE  /\ Min(T) \in T /\ \A m \in T : Min(T) <= m
         /\ Max(T) \in T /\ \A m \in T : m <= Max(T)
<1>1. Len(s.edges) \in Nat /\ T \in SUBSET (1..Len(s.edges))
  BY Numbered
<1>2. QED
  BY <1>1, Ends

\* An input with an edge is bound to the channel of an edge into it.
LEMMA BoundInput ==
  ASSUME NEW s \in Specs, UniqueLabels(s), NEW port \in DOMAIN Inbound(s)
  PROVE  \E e \in Into(s, port) : Allocated(s)[Inbound(s)[port]] = <<"edge", e>>
<1>1. Into(s, port) # {} /\ Into(s, port) \in SUBSET DOMAIN s.edges
  BY DEF Inbound, Into
<1>2. Max(Into(s, port)) \in Into(s, port)
  BY <1>1, FirstAndLast
<1>3. Inbound(s)[port] = s.edges[Max(Into(s, port))].label
  BY DEF Inbound
<1>4. QED
  BY <1>1, <1>2, <1>3, ChannelOfEdge

\* An entry of the list of a port is the label of an edge out of it.
LEMMA BoundOutput ==
  ASSUME NEW s \in Specs, UniqueLabels(s), NEW port \in DOMAIN Outbound(s)
  PROVE  /\ DOMAIN Outbound(s)[port] = From(s, port)
         /\ From(s, port) # {} /\ From(s, port) \in SUBSET DOMAIN s.edges
         /\ \A e \in From(s, port) : Allocated(s)[Outbound(s)[port][e]] = <<"edge", e>>
<1>1. From(s, port) # {} /\ From(s, port) \in SUBSET DOMAIN s.edges
  BY DEF Outbound, From
<1>2. Outbound(s)[port] = [e \in From(s, port) |-> s.edges[e].label]
  BY DEF Outbound
<1>3. QED
  BY <1>1, <1>2, ChannelOfEdge

\* The ports of node k, with the id of the node.
InPort(s, k, p)  == <<s.nodes[k].id, InPorts(s.nodes[k])[p]>>
OutPort(s, k, p) == <<s.nodes[k].id, OutPorts(s.nodes[k])[p].name>>

\* An input reads its dead end or an edge into it.
LEMMA ChannelRead ==
  ASSUME NEW s \in Specs, UniqueLabels(s), NEW k \in DOMAIN s.nodes,
         NEW p \in DOMAIN InPorts(s.nodes[k]), NEW c,
         c = InChans(s, k, Allocated(s), Inbound(s))[p]
  PROVE  IF InPort(s, k, p) \in DOMAIN Inbound(s)
         THEN /\ c = Allocated(s)[Inbound(s)[InPort(s, k, p)]]
              /\ \E e \in Into(s, InPort(s, k, p)) : c = <<"edge", e>>
         ELSE c = Dead(k, InPorts(s.nodes[k])[p])
<1>1. c = IF InPort(s, k, p) \in DOMAIN Inbound(s)
          THEN Allocated(s)[Inbound(s)[InPort(s, k, p)]]
          ELSE Dead(k, InPorts(s.nodes[k])[p])
  BY DEF InChans, InPort
<1>2. QED
  BY <1>1, BoundInput

\* An output writes its dead end or edges out of it: all of them if it is a
\* fan-out, and the first one if it is not.
LEMMA ChannelsWritten ==
  ASSUME NEW s \in Specs, UniqueLabels(s), NEW k \in DOMAIN s.nodes,
         NEW p \in DOMAIN OutPorts(s.nodes[k]), NEW f,
         f = OutChans(s, k, Allocated(s), Outbound(s))[p]
  PROVE  /\ OutPort(s, k, p) \in DOMAIN Outbound(s) =>
              /\ \A j \in DOMAIN f : j \in From(s, OutPort(s, k, p)) /\ f[j] = <<"edge", j>>
              /\ DOMAIN f # {}
              /\ OutPorts(s.nodes[k])[p].dir = "multi" => DOMAIN f = From(s, OutPort(s, k, p))
         /\ OutPort(s, k, p) \notin DOMAIN Outbound(s) =>
              \A j \in DOMAIN f : f[j][1] = "dead"
<1> DEFINE port  == OutPort(s, k, p)
           multi == OutPorts(s.nodes[k])[p].dir = "multi"
           bound == IF port \notin DOMAIN Outbound(s) THEN {}
                    ELSE IF multi THEN DOMAIN Outbound(s)[port]
                    ELSE {Min(DOMAIN Outbound(s)[port])}
<1>1. f = IF bound = {} /\ ~multi
          THEN [j \in {0} |-> Dead(k, OutPorts(s.nodes[k])[p].name)]
          ELSE [j \in bound |-> Allocated(s)[Outbound(s)[port][j]]]
  BY DEF OutChans, OutPort
<1>2. CASE port \notin DOMAIN Outbound(s)
  <2>1. bound = {}
    BY <1>2
  <2>2. QED
    BY <1>1, <1>2, <2>1 DEF Dead
<1>3. CASE port \in DOMAIN Outbound(s)
  <2>1. /\ DOMAIN Outbound(s)[port] = From(s, port)
        /\ From(s, port) # {} /\ From(s, port) \in SUBSET DOMAIN s.edges
        /\ \A e \in From(s, port) : Allocated(s)[Outbound(s)[port][e]] = <<"edge", e>>
    BY <1>3, BoundOutput
  <2>2. Min(From(s, port)) \in From(s, port)
    BY <2>1, FirstAndLast
  <2>3. bound # {} /\ bound \subseteq From(s, port) /\ (multi => bound = From(s, port))
    BY <1>3, <2>1, <2>2
  <2> HIDE DEF bound, multi, port
  <2>4. f = [j \in bound |-> Allocated(s)[Outbound(s)[port][j]]]
    BY <1>1, <2>3
  <2>5. QED
    BY <1>3, <2>1, <2>3, <2>4 DEF port, multi
<1>4. QED
  BY <1>2, <1>3

\* No two inputs, and no two outputs, are known by one node id and one name.
LEMMA InPortsDiffer ==
  ASSUME NEW s \in Specs, UniqueIds(s),
         NEW k \in DOMAIN s.nodes, s.nodes[k].type \in DOMAIN Registry,
         NEW p \in DOMAIN InPorts(s.nodes[k]),
         NEW l \in DOMAIN s.nodes, NEW q \in DOMAIN InPorts(s.nodes[l]),
         InPort(s, k, p) = InPort(s, l, q)
  PROVE  k = l /\ p = q
<1>1. s.nodes[k].id = s.nodes[l].id /\ InPorts(s.nodes[k])[p] = InPorts(s.nodes[l])[q]
  BY DEF InPort
<1>2. k = l
  BY <1>1 DEF UniqueIds
<1>3. QED
  BY <1>1, <1>2, InputsDiffer

LEMMA OutPortsDiffer ==
  ASSUME NEW s \in Specs, UniqueIds(s),
         NEW k \in DOMAIN s.nodes, s.nodes[k].type \in DOMAIN Registry,
         NEW p \in DOMAIN OutPorts(s.nodes[k]),
         NEW l \in DOMAIN s.nodes, NEW q \in DOMAIN OutPorts(s.nodes[l]),
         OutPort(s, k, p) = OutPort(s, l, q)
  PROVE  k = l /\ p = q
<1>1. k = l
  BY DEF UniqueIds, OutPort
<1>2. p = 1 /\ q = 1
  BY <1>1, OneOutput
<1>3. QED
  BY <1>1, <1>2

\* A channel made for an edge has one name, and is no dead end.
LEMMA OneName ==
  ASSUME NEW e, NEW d, NEW k, NEW name
  PROVE  /\ <<"edge", e>> = <<"edge", d>> => e = d
         /\ <<"edge", e>> # Dead(k, name)
<1>1. <<"edge", e>>[2] = e /\ <<"edge", d>>[2] = d
  OBVIOUS
<1>2. <<"edge", e>>[1] = "edge" /\ <<"dead", k, name>>[1] = "dead"
  OBVIOUS
<1>3. QED
  BY <1>1, <1>2 DEF Dead

\* No two ports are bound to one channel.
LEMMA GoalsApart ==
  ASSUME NEW s \in Specs, UniqueLabels(s),
         NEW port \in DOMAIN Inbound(s), NEW other \in DOMAIN Inbound(s),
         Allocated(s)[Inbound(s)[port]] = Allocated(s)[Inbound(s)[other]]
  PROVE  port = other
<1>1. PICK e \in Into(s, port) : Allocated(s)[Inbound(s)[port]] = <<"edge", e>>
  BY BoundInput
<1>2. PICK d \in Into(s, other) : Allocated(s)[Inbound(s)[other]] = <<"edge", d>>
  BY BoundInput
<1>3. e = d
  BY <1>1, <1>2, OneName
<1>4. QED
  BY <1>3 DEF Into

-----------------------------------------------------------------------------
(* The invariant: what each phase has made of the file, and, as long as      *)
(* labels and ids tell edges and nodes apart, which channels are full.       *)

KindsKnown  == \A k \in DOMAIN spec.nodes : spec.nodes[k].type \in DOMAIN Registry
Channels(s) == {Allocated(s)[l] : l \in Labels(s)}

InputsOf(s)  == UNION {{<<k, p>> : p \in DOMAIN InPorts(s.nodes[k])} : k \in DOMAIN s.nodes}
Slot(s, d)  == InitSlots(s.nodes[d[1]])[InPorts(s.nodes[d[1]])[d[2]]]

\* The channel of an input holds its slot once that has been sent, and nothing
\* before, nor if it has none.
Filled ==
  \A d \in InputsOf(spec) :
    InPort(spec, d[1], d[2]) \in DOMAIN inbound =>
      buf[edgeChan[inbound[InPort(spec, d[1], d[2])]]] =
        IF d \in Primes(spec) \ todo THEN Slot(spec, d) ELSE None

LoadInv ==
  /\ spec \in Specs
  /\ phase \in {"kinds", "alloc", "bind", "prime", "loaded", "error"}
  /\ phase \in {"alloc", "bind", "prime", "loaded"} => KindsKnown
  /\ phase \in {"bind", "prime", "loaded"} =>
       edgeChan = Allocated(spec) /\ DOMAIN buf = Channels(spec)
  /\ phase = "bind" => \A c \in DOMAIN buf : buf[c] = None
  /\ phase \in {"prime", "loaded"} =>
       /\ inbound = Inbound(spec) /\ outbound = Outbound(spec)
       /\ todo \subseteq Primes(spec)
       /\ Keyed(spec) => Filled
  /\ phase = "loaded" =>
       /\ todo = {}
       /\ ins  = [k \in DOMAIN spec.nodes |-> InChans(spec, k, edgeChan, inbound)]
       /\ outs = [k \in DOMAIN spec.nodes |-> OutChans(spec, k, edgeChan, outbound)]

\* A port that is bound is bound to a channel.
LEMMA BoundToChannel ==
  ASSUME NEW s, s \in Specs, NEW port \in DOMAIN Inbound(s)
  PROVE  Inbound(s)[port] \in Labels(s) /\ Allocated(s)[Inbound(s)[port]] \in Channels(s)
<1>1. Into(s, port) # {} /\ Into(s, port) \in SUBSET DOMAIN s.edges
  BY DEF Inbound, Into
<1>2. Max(Into(s, port)) \in DOMAIN s.edges
  BY <1>1, FirstAndLast
<1>3. QED
  BY <1>2 DEF Inbound, Labels, Channels

\* What is to be primed are inputs.
LEMMA PrimesAreInputs ==
  ASSUME NEW s
  PROVE  Primes(s) \subseteq InputsOf(s)
  BY DEF Primes, InputsOf

\* An input is a node and a port of it.
LEMMA InputIs ==
  ASSUME NEW s, NEW d \in InputsOf(s)
  PROVE  d[1] \in DOMAIN s.nodes /\ d[2] \in DOMAIN InPorts(s.nodes[d[1]]) /\ d = <<d[1], d[2]>>
  BY DEF InputsOf

\* Binding comes before priming: every channel is empty.
LEMMA BindFills ==
  ASSUME LoadInv, BindEdges
  PROVE  Filled'
<1> SUFFICES ASSUME NEW d \in InputsOf(spec),
                    InPort(spec, d[1], d[2]) \in DOMAIN Inbound(spec)
             PROVE  buf[Allocated(spec)[Inbound(spec)[InPort(spec, d[1], d[2])]]] = None
  BY DEF BindEdges, Filled, InputsOf, InPort, Slot, LoadInv
<1>1. QED
  BY BoundToChannel DEF LoadInv, BindEdges

\* A priming send fills the channel of the input it is for and of no other.
LEMMA PrimeFills ==
  ASSUME LoadInv, Keyed(spec), NEW d \in todo, phase = "prime",
         InPort(spec, d[1], d[2]) \in DOMAIN inbound,
         buf' = [buf EXCEPT ![edgeChan[inbound[InPort(spec, d[1], d[2])]]] = Slot(spec, d)],
         todo' = todo \ {d}, UNCHANGED <<spec, edgeChan, inbound>>
  PROVE  Filled'
<1> DEFINE port(e) == InPort(spec, e[1], e[2])
           c(e)    == edgeChan[inbound[port(e)]]
<1>1. /\ spec \in Specs /\ inbound = Inbound(spec) /\ edgeChan = Allocated(spec)
      /\ KindsKnown /\ UniqueIds(spec) /\ UniqueLabels(spec) /\ Filled
      /\ DOMAIN buf = Channels(spec) /\ todo \subseteq Primes(spec)
  BY DEF LoadInv, Keyed
<1>2. d \in Primes(spec) /\ d \in InputsOf(spec)
  BY <1>1, PrimesAreInputs
<1>3. c(d) \in DOMAIN buf
  BY <1>1, BoundToChannel
<1>4. ASSUME NEW e \in InputsOf(spec), port(e) \in DOMAIN inbound
      PROVE  buf'[c(e)] = IF e \in Primes(spec) \ todo' THEN Slot(spec, e) ELSE None
  <2>1. c(e) \in DOMAIN buf
    BY <1>1, <1>4, BoundToChannel
  <2>2. CASE e = d
    BY <1>2, <1>3, <2>2
  <2>3. CASE e # d
    <3>1. port(e) # port(d)
      BY <1>1, <1>2, <2>3, InputIs, InPortsDiffer DEF KindsKnown
    <3>2. c(e) # c(d)
      BY <1>1, <1>4, <3>1, GoalsApart
    <3>3. buf'[c(e)] = buf[c(e)]
      BY <2>1, <3>2
    <3>4. buf[c(e)] = IF e \in Primes(spec) \ todo THEN Slot(spec, e) ELSE None
      BY <1>1, <1>4 DEF Filled
    <3>5. QED
      BY <2>3, <3>3, <3>4
  <2>4. QED
    BY <2>2, <2>3
<1>5. ASSUME NEW e
      PROVE  InPort(spec, e[1], e[2])' = port(e) /\ Slot(spec, e)' = Slot(spec, e)
  BY DEF InPort, Slot
<1>6. InputsOf(spec)' = InputsOf(spec) /\ Primes(spec)' = Primes(spec)
  BY DEF InputsOf
<1>7. QED
  BY <1>4, <1>5, <1>6 DEF Filled

\* Nothing is made of the file at first.
LEMMA InitLoad == Init => LoadInv
  BY DEF Init, LoadInv

\* Every step keeps the invariant.
LEMMA StepLoad ==
  ASSUME LoadInv, [Next]_vars
  PROVE  LoadInv'
<1>1. CASE ValidateKinds
  BY <1>1 DEF ValidateKinds, Fail, LoadInv, KindsKnown
<1>2. CASE AllocChans
  BY <1>2 DEF AllocChans, Fail, LoadInv, KindsKnown, Channels
<1>3. CASE BindEdges
  <2>1. Filled'
    BY <1>3, BindFills
  <2>2. QED
    BY <1>3, <2>1 DEF BindEdges, LoadInv, KindsKnown
<1>4. CASE PrimePort
  <2>1. PICK d \in todo :
          IF InPort(spec, d[1], d[2]) \notin DOMAIN inbound
          THEN Fail /\ UNCHANGED <<buf, todo>>
          ELSE /\ buf' = [buf EXCEPT ![edgeChan[inbound[InPort(spec, d[1], d[2])]]] =
                            Slot(spec, d)]
               /\ todo' = todo \ {d}
               /\ UNCHANGED phase
    BY <1>4 DEF PrimePort, InPort, Slot
  <2>2. phase = "prime" /\ UNCHANGED <<spec, edgeChan, inbound, outbound, ins, outs>>
    BY <1>4 DEF PrimePort
  <2>3. CASE InPort(spec, d[1], d[2]) \notin DOMAIN inbound
    BY <2>1, <2>2, <2>3 DEF Fail, LoadInv
  <2>4. CASE InPort(spec, d[1], d[2]) \in DOMAIN inbound
    <3>1. Keyed(spec) => Filled'
      BY <2>1, <2>2, <2>4, PrimeFills
    <3>2. DOMAIN buf' = DOMAIN buf
      BY <2>1, <2>4
    <3>3. QED
      BY <2>1, <2>2, <2>4, <3>1, <3>2 DEF LoadInv, KindsKnown
  <2>5. QED
    BY <2>3, <2>4
<1>5. CASE BuildNodes
  BY <1>5 DEF BuildNodes, LoadInv, KindsKnown, Filled
<1>6. CASE UNCHANGED vars
  BY <1>6 DEF vars, LoadInv, KindsKnown, Filled
<1>7. QED
  BY <1>1, <1>2, <1>3, <1>4, <1>5, <1>6 DEF Next, Returned

\* What each phase has made of the file, for every topology.
THEOREM LoadsAsWritten == Spec => []LoadInv
  BY InitLoad, StepLoad, PTL DEF Spec

-----------------------------------------------------------------------------
(* What the ends of a channel are when the nodes are built.                  *)

\* A topology that is loaded, and whose labels tell its edges apart.
LEMMA Built ==
  ASSUME LoadInv, Loaded
  PROVE  /\ spec \in Specs /\ KindsKnown /\ todo = {}
         /\ edgeChan = Allocated(spec) /\ DOMAIN buf = Channels(spec)
         /\ inbound = Inbound(spec) /\ outbound = Outbound(spec)
         /\ Keyed(spec) => Filled
         /\ ins  = [k \in DOMAIN spec.nodes |-> InChans(spec, k, Allocated(spec), Inbound(spec))]
         /\ outs = [k \in DOMAIN spec.nodes |-> OutChans(spec, k, Allocated(spec), Outbound(spec))]
  BY DEF LoadInv, Loaded

\* An end at which a channel is read is an input.
LEMMA ReadEnd ==
  ASSUME LoadInv, Loaded, NEW r \in InEnds
  PROVE  /\ r[1] \in DOMAIN spec.nodes /\ spec.nodes[r[1]].type \in DOMAIN Registry
         /\ r[2] \in DOMAIN InPorts(spec.nodes[r[1]]) /\ r = <<r[1], r[2]>>
         /\ r \in InputsOf(spec)
         /\ ins[r[1]][r[2]] = InChans(spec, r[1], Allocated(spec), Inbound(spec))[r[2]]
<1>1. PICK k \in DOMAIN ins : \E p \in DOMAIN ins[k] : r = <<k, p>>
  BY DEF InEnds
<1>2. k \in DOMAIN spec.nodes /\ ins[k] = InChans(spec, k, Allocated(spec), Inbound(spec))
  BY <1>1, Built
<1>3. r = <<k, r[2]>> /\ r[2] \in DOMAIN InPorts(spec.nodes[k])
  BY <1>1, <1>2 DEF InChans
<1>4. QED
  BY <1>1, <1>2, <1>3, Built DEF KindsKnown, InputsOf

\* An end at which a channel is written is an entry of an output.
LEMMA WriteEnd ==
  ASSUME LoadInv, Loaded, NEW w \in OutEnds
  PROVE  /\ w[1] \in DOMAIN spec.nodes /\ spec.nodes[w[1]].type \in DOMAIN Registry
         /\ w[2] \in DOMAIN OutPorts(spec.nodes[w[1]]) /\ w = <<w[1], w[2], w[3]>>
         /\ w[3] \in DOMAIN outs[w[1]][w[2]]
         /\ outs[w[1]][w[2]] = OutChans(spec, w[1], Allocated(spec), Outbound(spec))[w[2]]
<1>1. PICK k \in DOMAIN outs :
        \E p \in DOMAIN outs[k] : \E j \in DOMAIN outs[k][p] : w = <<k, p, j>>
  BY DEF OutEnds
<1>2. k \in DOMAIN spec.nodes /\ outs[k] = OutChans(spec, k, Allocated(spec), Outbound(spec))
  BY <1>1, Built
<1>3. /\ w = <<w[1], w[2], w[3]>> /\ w[1] = k
      /\ w[2] \in DOMAIN outs[k] /\ w[3] \in DOMAIN outs[k][w[2]]
  BY <1>1
<1>4. DOMAIN outs[k] = DOMAIN OutPorts(spec.nodes[k])
  BY <1>2 DEF OutChans
<1>5. QED
  BY <1>2, <1>3, <1>4, Built DEF KindsKnown

\* A channel is named by an edge.
LEMMA Named ==
  ASSUME NEW s, NEW c \in Channels(s)
  PROVE  \E e : c = <<"edge", e>>
<1>1. PICK l \in Labels(s) : c = Allocated(s)[l]
  BY DEF Channels
<1>2. QED
  BY <1>1 DEF Allocated

\* A channel made for an edge is read by a port the edge leads to.
LEMMA ReadsEdge ==
  ASSUME LoadInv, Loaded, UniqueLabels(spec), NEW c \in DOMAIN buf,
         NEW r \in InEnds, ins[r[1]][r[2]] = c
  PROVE  /\ InPort(spec, r[1], r[2]) \in DOMAIN Inbound(spec)
         /\ c = Allocated(spec)[Inbound(spec)[InPort(spec, r[1], r[2])]]
<1>1. PICK e : c = <<"edge", e>>
  BY Built, Named
<1>2. c # Dead(r[1], InPorts(spec.nodes[r[1]])[r[2]])
  BY <1>1, OneName
<1>3. QED
  BY <1>2, Built, ReadEnd, ChannelRead

\* A channel made for an edge is written at the port the edge comes from.
LEMMA WritesEdge ==
  ASSUME LoadInv, Loaded, UniqueLabels(spec), NEW e,
         NEW w \in OutEnds, outs[w[1]][w[2]][w[3]] = <<"edge", e>>
  PROVE  w[3] = e /\ e \in From(spec, OutPort(spec, w[1], w[2]))
<1>1. PICK k, p, j, f :
        /\ k \in DOMAIN spec.nodes /\ p \in DOMAIN OutPorts(spec.nodes[k])
        /\ w = <<k, p, j>> /\ w[1] = k /\ w[2] = p /\ w[3] = j
        /\ f = OutChans(spec, k, Allocated(spec), Outbound(spec))[p]
        /\ j \in DOMAIN f /\ f[j] = <<"edge", e>>
  BY WriteEnd
<1>2. spec \in Specs
  BY Built
<1>3. CASE OutPort(spec, k, p) \in DOMAIN Outbound(spec)
  <2>1. j \in From(spec, OutPort(spec, k, p)) /\ f[j] = <<"edge", j>>
    BY <1>1, <1>2, <1>3, ChannelsWritten
  <2>2. QED
    BY <1>1, <2>1, OneName
<1>4. CASE OutPort(spec, k, p) \notin DOMAIN Outbound(spec)
  <2>1. f[j][1] = "dead"
    BY <1>1, <1>2, <1>4, ChannelsWritten
  <2>2. <<"edge", e>>[1] = "edge"
    OBVIOUS
  <2>3. QED
    BY <1>1, <2>1, <2>2
<1>5. QED
  BY <1>3, <1>4

-----------------------------------------------------------------------------
(* The loader's promises.                                                    *)

\* With labels and ids of their own no two ports share a channel.
LEMMA NoneShared == LoadInv => NoSharedChannel
<1> SUFFICES ASSUME LoadInv, Loaded, Keyed(spec), NEW c \in DOMAIN buf
             PROVE  /\ \A x, y \in Writers(c) : x = y
                    /\ \A x, y \in Readers(c) : x = y
  BY DEF NoSharedChannel
<1>1. spec \in Specs /\ UniqueLabels(spec) /\ UniqueIds(spec)
  BY Built DEF Keyed
<1>2. ASSUME NEW x \in Writers(c), NEW y \in Writers(c) PROVE x = y
  <2>1. PICK e : c = <<"edge", e>>
    BY Built, Named
  <2>2. x \in OutEnds /\ y \in OutEnds
        /\ outs[x[1]][x[2]][x[3]] = c /\ outs[y[1]][y[2]][y[3]] = c
    BY DEF Writers
  <2>3. /\ x[3] = e /\ e \in From(spec, OutPort(spec, x[1], x[2]))
        /\ y[3] = e /\ e \in From(spec, OutPort(spec, y[1], y[2]))
    <3>1. outs[x[1]][x[2]][x[3]] = <<"edge", e>> /\ outs[y[1]][y[2]][y[3]] = <<"edge", e>>
      BY <2>1, <2>2
    <3>2. QED
      BY <1>1, <2>2, <3>1, WritesEdge
  <2>4. OutPort(spec, x[1], x[2]) = OutPort(spec, y[1], y[2])
    BY <2>3 DEF From
  <2>5. x[1] = y[1] /\ x[2] = y[2]
    BY <1>1, <2>2, <2>4, WriteEnd, OutPortsDiffer
  <2>6. x = <<x[1], x[2], x[3]>> /\ y = <<y[1], y[2], y[3]>>
    BY <2>2, WriteEnd
  <2>7. QED
    BY <2>3, <2>5, <2>6
<1>3. ASSUME NEW x \in Readers(c), NEW y \in Readers(c) PROVE x = y
  <2>1. x \in InEnds /\ y \in InEnds /\ ins[x[1]][x[2]] = c /\ ins[y[1]][y[2]] = c
    BY DEF Readers
  <2>2. InPort(spec, x[1], x[2]) = InPort(spec, y[1], y[2])
    BY <1>1, <2>1, ReadsEdge, GoalsApart
  <2>3. x[1] = y[1] /\ x[2] = y[2]
    BY <1>1, <2>1, <2>2, ReadEnd, InPortsDiffer
  <2>4. x = <<x[1], x[2]>> /\ y = <<y[1], y[2]>>
    BY <2>1, ReadEnd
  <2>5. QED
    BY <2>3, <2>4
<1>4. QED
  BY <1>2, <1>3

\* In every topology whose labels and ids tell its edges and nodes apart,
\* wherever the edges lead: a value reaches one reader and has one writer.
THEOREM ChannelsArePrivate == Spec => []NoSharedChannel
  BY NoneShared, LoadsAsWritten, PTL

\* What a file asks for in an input is the slot the loader merges for it.
LEMMA AskedSlot ==
  ASSUME NEW s, NEW d \in InputsOf(s)
  PROVE  Asked(s.nodes[d[1]], InPorts(s.nodes[d[1]])[d[2]]) =
           IF d \in Primes(s) THEN Slot(s, d) ELSE None
<1> DEFINE n    == s.nodes[d[1]]
           name == InPorts(n)[d[2]]
<1>1. d[1] \in DOMAIN s.nodes /\ d[2] \in DOMAIN InPorts(n) /\ d = <<d[1], d[2]>>
  BY InputIs
<1>2. d \in Primes(s) <=> name \in DOMAIN InitSlots(n)
  BY <1>1 DEF Primes
<1>3. DOMAIN InitSlots(n) = DOMAIN n.data \cup DOMAIN n.slots
  BY DEF InitSlots
<1>4. name \in DOMAIN InitSlots(n) =>
        InitSlots(n)[name] = IF name \in DOMAIN n.slots THEN n.slots[name] ELSE n.data[name]
  BY <1>3 DEF InitSlots
<1>5. QED
  BY <1>2, <1>3, <1>4 DEF Asked, Slot

\* At the end every channel holds what was asked for, and only that.
LEMMA AllPrimed == LoadInv => PrimedAsAsked
<1> SUFFICES ASSUME LoadInv, Loaded, Keyed(spec), NEW r \in InEnds,
                    ins[r[1]][r[2]] \in DOMAIN buf
             PROVE  buf[ins[r[1]][r[2]]] =
                      Asked(spec.nodes[r[1]], InPorts(spec.nodes[r[1]])[r[2]])
  BY DEF PrimedAsAsked
<1>1. /\ InPort(spec, r[1], r[2]) \in DOMAIN Inbound(spec)
      /\ ins[r[1]][r[2]] = Allocated(spec)[Inbound(spec)[InPort(spec, r[1], r[2])]]
  BY ReadsEdge DEF Keyed
<1>2. r \in InputsOf(spec)
  BY ReadEnd
<1>3. Filled /\ todo = {} /\ inbound = Inbound(spec) /\ edgeChan = Allocated(spec)
  BY Built
<1>4. buf[ins[r[1]][r[2]]] = IF r \in Primes(spec) THEN Slot(spec, r) ELSE None
  BY <1>1, <1>2, <1>3 DEF Filled
<1>5. QED
  BY <1>2, <1>4, AskedSlot

\* In every such topology a channel holds a value when the nodes start exactly
\* if the port that reads it has an initial slot, and it is that value.
THEOREM SlotsArePrimed == Spec => []PrimedAsAsked
  BY AllPrimed, LoadsAsWritten, PTL

\* What is an end of a channel: an input bound to it, an entry of an output.
LEMMA IsReadEnd ==
  ASSUME LoadInv, Loaded, NEW k \in DOMAIN spec.nodes, NEW p \in DOMAIN InPorts(spec.nodes[k])
  PROVE  /\ <<k, p>> \in InEnds
         /\ ins[k][p] = InChans(spec, k, Allocated(spec), Inbound(spec))[p]
<1>1. k \in DOMAIN ins /\ ins[k] = InChans(spec, k, Allocated(spec), Inbound(spec))
  BY Built
<1>2. p \in DOMAIN ins[k]
  BY <1>1 DEF InChans
<1>3. QED
  BY <1>1, <1>2 DEF InEnds

LEMMA IsWriteEnd ==
  ASSUME LoadInv, Loaded, NEW k \in DOMAIN spec.nodes, NEW p \in DOMAIN OutPorts(spec.nodes[k])
  PROVE  /\ \A j \in DOMAIN outs[k][p] : <<k, p, j>> \in OutEnds
         /\ outs[k][p] = OutChans(spec, k, Allocated(spec), Outbound(spec))[p]
<1>1. k \in DOMAIN outs /\ outs[k] = OutChans(spec, k, Allocated(spec), Outbound(spec))
  BY Built
<1>2. p \in DOMAIN outs[k]
  BY <1>1 DEF OutChans
<1>3. QED
  BY <1>1, <1>2 DEF OutEnds

\* An edge out of a port that is there is written at that port: it is the
\* first one out of a single output, or one of those out of a fan-out.
LEMMA EdgeWritten ==
  ASSUME LoadInv, Loaded, UniqueLabels(spec), OneEdgePerPort(spec),
         NEW k \in DOMAIN spec.edges, NEW a \in DOMAIN spec.nodes,
         NEW p \in DOMAIN OutPorts(spec.nodes[a]), OutPort(spec, a, p) = Origin(spec.edges[k])
  PROVE  <<a, p, k>> \in Writers(<<"edge", k>>)
<1> DEFINE port == OutPort(spec, a, p)
           f    == outs[a][p]
<1>1. port \in DOMAIN Outbound(spec) /\ k \in From(spec, port)
  BY DEF Outbound, From
<1>2. f = OutChans(spec, a, Allocated(spec), Outbound(spec))[p] /\ spec \in Specs
  BY IsWriteEnd, Built
<1> HIDE DEF f
<1>3. /\ \A j \in DOMAIN f : j \in From(spec, port) /\ f[j] = <<"edge", j>>
      /\ DOMAIN f # {}
      /\ OutPorts(spec.nodes[a])[p].dir = "multi" => DOMAIN f = From(spec, port)
  BY <1>1, <1>2, ChannelsWritten
<1>4. k \in DOMAIN f
  <2>1. CASE OutPorts(spec.nodes[a])[p].dir = "multi"
    BY <1>1, <1>3, <2>1
  <2>2. CASE OutPorts(spec.nodes[a])[p].dir # "multi"
    <3>1. spec.nodes[a].type \in DOMAIN Registry
      BY Built DEF KindsKnown
    <3>2. OutPorts(spec.nodes[a])[p].name # "ToNext"
      BY <2>2, <3>1, OneOutput
    <3>3. spec.edges[k].sourceHandle = OutPorts(spec.nodes[a])[p].name
      BY DEF OutPort, Origin
    <3>4. PICK j \in DOMAIN f : j \in DOMAIN spec.edges /\ Origin(spec.edges[j]) = port
      BY <1>3 DEF From
    <3>5. j = k
      BY <3>2, <3>3, <3>4 DEF OneEdgePerPort
    <3>6. QED
      BY <3>4, <3>5
  <2>3. QED
    BY <2>1, <2>2
<1>5. f[k] = <<"edge", k>> /\ <<a, p, k>> \in OutEnds
  BY <1>3, <1>4, IsWriteEnd DEF f
<1>6. QED
  BY <1>5 DEF Writers, f

\* An edge into a port that is there is read at that port.
LEMMA EdgeRead ==
  ASSUME LoadInv, Loaded, UniqueLabels(spec), OneEdgePerPort(spec),
         NEW k \in DOMAIN spec.edges, NEW b \in DOMAIN spec.nodes,
         NEW p \in DOMAIN InPorts(spec.nodes[b]), InPort(spec, b, p) = Goal(spec.edges[k])
  PROVE  <<b, p>> \in Readers(<<"edge", k>>)
<1> DEFINE port == InPort(spec, b, p)
<1>1. port \in DOMAIN Inbound(spec)
  BY DEF Inbound
<1>2. /\ ins[b][p] = InChans(spec, b, Allocated(spec), Inbound(spec))[p]
      /\ <<b, p>> \in InEnds /\ spec \in Specs
  BY IsReadEnd, Built
<1>3. PICK e \in Into(spec, port) : ins[b][p] = <<"edge", e>>
  BY <1>1, <1>2, ChannelRead
<1>4. e = k
  BY <1>3 DEF Into, OneEdgePerPort
<1>5. QED
  BY <1>2, <1>3, <1>4 DEF Readers

\* Edges between ports that exist, alone where only one can be, are wires.
LEMMA Wires ==
  ASSUME LoadInv, Loaded, WellWired(spec)
  PROVE  EveryEdgeWired
<1> SUFFICES ASSUME NEW k \in DOMAIN spec.edges
             PROVE  /\ EndsAt(Writers(<<"edge", k>>), spec.edges[k].source)
                    /\ EndsAt(Readers(<<"edge", k>>), spec.edges[k].target)
  BY DEF EveryEdgeWired
<1>1. /\ Keyed(spec) /\ UniqueLabels(spec) /\ PortsExist(spec) /\ OneEdgePerPort(spec)
      /\ spec \in Specs
  BY Built DEF WellWired, Keyed
<1>2. /\ \A x, y \in Writers(<<"edge", k>>) : x = y
      /\ \A x, y \in Readers(<<"edge", k>>) : x = y
  <2>1. <<"edge", k>> \in DOMAIN buf
    <3>1. /\ spec.edges[k].label \in Labels(spec)
          /\ Allocated(spec)[spec.edges[k].label] = <<"edge", k>>
      BY <1>1, ChannelOfEdge
    <3>2. <<"edge", k>> \in Channels(spec)
      BY <3>1 DEF Channels
    <3>3. QED
      BY <3>2, Built
  <2>2. QED
    BY <1>1, <2>1, NoneShared DEF NoSharedChannel
<1>3. EndsAt(Writers(<<"edge", k>>), spec.edges[k].source)
  <2>1. PICK a \in DOMAIN spec.nodes : /\ spec.nodes[a].id = spec.edges[k].source
                                       /\ HasOutput(spec.nodes[a], spec.edges[k].sourceHandle)
    BY <1>1 DEF PortsExist
  <2>2. PICK p \in DOMAIN OutPorts(spec.nodes[a]) :
          OutPorts(spec.nodes[a])[p].name = spec.edges[k].sourceHandle
    BY <2>1 DEF HasOutput
  <2>3. OutPort(spec, a, p) = Origin(spec.edges[k])
    BY <2>1, <2>2 DEF OutPort, Origin
  <2>4. <<a, p, k>> \in Writers(<<"edge", k>>)
    BY <1>1, <2>3, EdgeWritten
  <2>5. Writers(<<"edge", k>>) = {<<a, p, k>>} /\ <<a, p, k>>[1] = a
    BY <1>2, <2>4
  <2>6. QED
    BY <2>1, <2>4, <2>5 DEF EndsAt
<1>4. EndsAt(Readers(<<"edge", k>>), spec.edges[k].target)
  <2>1. PICK b \in DOMAIN spec.nodes : /\ spec.nodes[b].id = spec.edges[k].target
                                       /\ HasInput(spec.nodes[b], spec.edges[k].targetHandle)
    BY <1>1 DEF PortsExist
  <2>2. PICK p \in DOMAIN InPorts(spec.nodes[b]) :
          InPorts(spec.nodes[b])[p] = spec.edges[k].targetHandle
    BY <2>1 DEF HasInput
  <2>3. InPort(spec, b, p) = Goal(spec.edges[k])
    BY <2>1, <2>2 DEF InPort, Goal
  <2>4. <<b, p>> \in Readers(<<"edge", k>>)
    BY <1>1, <2>3, EdgeRead
  <2>5. Readers(<<"edge", k>>) = {<<b, p>>} /\ <<b, p>>[1] = b
    BY <1>2, <2>4
  <2>6. QED
    BY <2>1, <2>4, <2>5 DEF EndsAt
<1>5. QED
  BY <1>3, <1>4

\* In every well-wired topology each edge becomes a channel that its source
\* node alone writes and its target node alone reads.
THEOREM EdgesAreWires == Spec => []EveryEdgeIsAWire
<1>1. LoadInv => EveryEdgeIsAWire
  BY Wires DEF EveryEdgeIsAWire
<1>2. QED
  BY <1>1, LoadsAsWritten, PTL

-----------------------------------------------------------------------------
(* Priming cannot block: there is always a next port, and its channel is     *)
(* empty.                                                                    *)

\* Of the sends left to do one is next.
LEMMA SomeNext ==
  ASSUME LoadInv, phase = "prime", todo # {}
  PROVE  \E d \in todo : NextToPrime(d[1], d[2])
<1>1. ASSUME NEW d \in todo PROVE d[1] \in Nat /\ d[2] \in Nat /\ d = <<d[1], d[2]>>
  <2>1. d \in InputsOf(spec) /\ spec \in Specs /\ spec.nodes[d[1]].type \in DOMAIN Registry
    BY PrimesAreInputs, InputIs DEF LoadInv, KindsKnown
  <2>2. d[1] \in Nat
    BY <2>1, InputIs, Numbered
  <2>3. d[2] \in Nat
    BY <2>1, InputIs, InputNumbers
  <2>4. QED
    BY <2>1, <2>2, <2>3, InputIs
<1>2. PICK k \in {d[1] : d \in todo} : \A l \in {d[1] : d \in todo} : k <= l
  <2>1. {d[1] : d \in todo} \in SUBSET Nat /\ {d[1] : d \in todo} # {}
    BY <1>1
  <2>2. QED
    BY <2>1, LeastNumber
<1>3. PICK p \in {d[2] : d \in {d \in todo : d[1] = k}} :
        \A q \in {d[2] : d \in {d \in todo : d[1] = k}} : p <= q
  <2>1. {d[2] : d \in {d \in todo : d[1] = k}} \in SUBSET Nat
        /\ {d[2] : d \in {d \in todo : d[1] = k}} # {}
    BY <1>1, <1>2
  <2>2. QED
    BY <2>1, LeastNumber
<1>4. PICK d \in todo : d[1] = k /\ d[2] = p
  BY <1>3
<1>5. ASSUME NEW c \in todo PROVE k < c[1] \/ (k = c[1] /\ p <= c[2])
  <2>1. k <= c[1] /\ k \in Nat /\ c[1] \in Nat /\ (c[1] = k => p <= c[2])
    BY <1>1, <1>2, <1>3, <1>4
  <2>2. QED
    BY <2>1
<1>6. <<k, p>> \in todo
  BY <1>1, <1>4
<1>7. QED
  BY <1>4, <1>5, <1>6 DEF NextToPrime

\* The channel of the next port, if there is one, has room.
NextHasRoom ==
  phase = "prime" /\ todo # {} /\ Keyed(spec) =>
    \E d \in todo :
      /\ NextToPrime(d[1], d[2])
      /\ \/ InPort(spec, d[1], d[2]) \notin DOMAIN inbound
         \/ buf[edgeChan[inbound[InPort(spec, d[1], d[2])]]] = None

\* As long as labels and ids tell edges and nodes apart the loader never waits
\* on a full channel, in any topology: what LoadEnds needs besides fairness.
THEOREM NeverBlocked == Spec => []NextHasRoom
<1>1. ASSUME LoadInv, phase = "prime", todo # {}, Keyed(spec), NEW d \in todo,
             InPort(spec, d[1], d[2]) \in DOMAIN inbound
      PROVE  buf[edgeChan[inbound[InPort(spec, d[1], d[2])]]] = None
  <2>1. d \in InputsOf(spec) /\ d \notin Primes(spec) \ todo /\ Filled
    BY <1>1, PrimesAreInputs DEF LoadInv
  <2>2. QED
    BY <1>1, <2>1 DEF Filled
<1>2. LoadInv => NextHasRoom
  BY <1>1, SomeNext DEF NextHasRoom
<1>3. QED
  BY <1>2, LoadsAsWritten, PTL

-----------------------------------------------------------------------------
(* What the editor accepts.                                                  *)

\* The editor's table has the kinds that run, and lists of ports for them: none
\* of its outputs is an input of the struct, nor the other way round.
LEMMA TwoTables ==
  ASSUME NEW t \in DOMAIN Registry
  PROVE  /\ t \in DOMAIN NODE_TYPES
         /\ NODE_TYPES[t]["inputs"] = NODE_TYPES[t].inputs
         /\ NODE_TYPES[t]["outputs"] = NODE_TYPES[t].outputs
         /\ NODE_TYPES[t].inputs # None /\ NODE_TYPES[t].outputs # None
         /\ NODE_TYPES[t].outputs \cap Range(Registry[t].in) = {}
         /\ NODE_TYPES[t].inputs \cap {p.name : p \in Range(Registry[t].out)} = {}
<1>1. t \in DOMAIN NODE_TYPES
  BY Registered DEF Kinds, NODE_TYPES
<1>2. NODE_TYPES[t].inputs # None /\ NODE_TYPES[t].outputs # None
  BY <1>1, SchemaAssumption
<1>3. CASE t = "Input"
  BY <1>1, <1>2, <1>3, Registered DEF NODE_TYPES, Range, One
<1>4. CASE t = "ReadGate"
  BY <1>1, <1>2, <1>4, Registered DEF NODE_TYPES, Range, One
<1>5. CASE t = "ChainInhibitor"
  BY <1>1, <1>2, <1>5, Registered DEF NODE_TYPES, Range, Many
<1>6. CASE t = "InhibitRightGate"
  BY <1>1, <1>2, <1>6, Registered DEF NODE_TYPES, Range, One
<1>7. QED
  BY <1>3, <1>4, <1>5, <1>6, Registered DEF Kinds

\* A port of the editor's table that is not the editor's alone is the struct's.
LEMMA InBoth ==
  ASSUME NEW t \in DOMAIN Registry, NEW name \in NODE_TYPES[t].inputs \cup NODE_TYPES[t].outputs,
         name \notin EditorOnly
  PROVE  name \in Range(Registry[t].in) \cup {p.name : p \in Range(Registry[t].out)}
<1> DEFINE Only(k) == (NODE_TYPES[k].inputs \cup NODE_TYPES[k].outputs)
                        \ (Range(Registry[k].in) \cup {p.name : p \in Range(Registry[k].out)})
<1>1. EditorOnly = UNION {Only(k) : k \in DOMAIN Registry}
  BY DEF EditorOnly
<1>2. name \notin Only(t)
  <2> HIDE DEF Only
  <2>1. QED
    BY <1>1
<1>3. QED
  BY <1>2

\* An output that the schema lets an edge start at is one that the struct has,
\* if the node does not list ports that it lacks and the editor's table neither.
LEMMA KnownOutput ==
  ASSUME NEW s, OwnPortsExist(s), NEW n \in Range(s.nodes), n.type \in DOMAIN Registry,
         NEW name, name # "", name \notin EditorOnly, Known(Outputs(n), name)
  PROVE  HasOutput(n, name)
<1>1. CASE n.outputs # None
  BY <1>1 DEF Outputs, PortNames, Known, OwnPortsExist
<1>2. CASE n.outputs = None
  <2>1. Outputs(n) = NODE_TYPES[n.type].outputs /\ name \in NODE_TYPES[n.type].outputs
    BY <1>2, TwoTables DEF Outputs, PortNames, Known
  <2>2. name \in {p.name : p \in Range(Registry[n.type].out)}
    BY <2>1, TwoTables, InBoth
  <2>3. QED
    BY <2>2 DEF HasOutput, OutPorts, Range
<1>3. QED
  BY <1>1, <1>2

LEMMA KnownInput ==
  ASSUME NEW s, OwnPortsExist(s), NEW n \in Range(s.nodes), n.type \in DOMAIN Registry,
         NEW name, name # "", name \notin EditorOnly, Known(Inputs(n), name)
  PROVE  HasInput(n, name)
<1>1. CASE n.inputs # None
  BY <1>1 DEF Inputs, PortNames, Known, OwnPortsExist
<1>2. CASE n.inputs = None
  <2>1. Inputs(n) = NODE_TYPES[n.type].inputs /\ name \in NODE_TYPES[n.type].inputs
    BY <1>2, TwoTables DEF Inputs, PortNames, Known
  <2>2. name \in Range(Registry[n.type].in)
    BY <2>1, TwoTables, InBoth
  <2>3. QED
    BY <2>2 DEF HasInput, InPorts, Range
<1>3. QED
  BY <1>1, <1>2

\* What the editor accepts and the loader loads is wired as drawn, whatever its
\* size, unless the file has one of the mistakes that neither looks for.
THEOREM AcceptedIsLoaded == Spec => []AcceptedIsWired
<1>1. ASSUME LoadInv, Loaded, parseSpec(spec), Keyed(spec), OwnPortsExist(spec),
             NoEmptyHandle(spec), OneEdgePerPort(spec),
             \A e \in Range(spec.edges) : {e.sourceHandle, e.targetHandle} \cap EditorOnly = {}
      PROVE  PortsExist(spec)
  <2> SUFFICES ASSUME NEW k \in DOMAIN spec.edges
               PROVE  /\ \E a \in DOMAIN spec.nodes :
                           /\ spec.nodes[a].id = spec.edges[k].source
                           /\ HasOutput(spec.nodes[a], spec.edges[k].sourceHandle)
                      /\ \E b \in DOMAIN spec.nodes :
                           /\ spec.nodes[b].id = spec.edges[k].target
                           /\ HasInput(spec.nodes[b], spec.edges[k].targetHandle)
    BY DEF PortsExist
  <2> DEFINE e == spec.edges[k]
  <2>1. e \in Range(spec.edges)
    BY DEF Range
  <2>2. /\ e.sourceHandle # "" /\ e.sourceHandle \notin EditorOnly
        /\ e.targetHandle # "" /\ e.targetHandle \notin EditorOnly
    BY <1>1, <2>1 DEF NoEmptyHandle
  <2>3. /\ \E src \in byId(spec, e.source) : Known(Outputs(src), e.sourceHandle)
        /\ \E dst \in byId(spec, e.target) : Known(Inputs(dst), e.targetHandle)
    BY <1>1, <2>1 DEF parseSpec, validatePorts
  <2>4. ASSUME NEW a \in DOMAIN spec.nodes
        PROVE  spec.nodes[a] \in Range(spec.nodes) /\ spec.nodes[a].type \in DOMAIN Registry
    BY <1>1, Built DEF Range, KindsKnown
  <2>5. PICK a \in DOMAIN spec.nodes :
          spec.nodes[a].id = e.source /\ Known(Outputs(spec.nodes[a]), e.sourceHandle)
    BY <2>3 DEF byId
  <2>6. PICK b \in DOMAIN spec.nodes :
          spec.nodes[b].id = e.target /\ Known(Inputs(spec.nodes[b]), e.targetHandle)
    BY <2>3 DEF byId
  <2>7. HasOutput(spec.nodes[a], e.sourceHandle) /\ HasInput(spec.nodes[b], e.targetHandle)
    BY <1>1, <2>2, <2>4, <2>5, <2>6, KnownOutput, KnownInput
  <2>8. QED
    BY <2>5, <2>6, <2>7
<1>2. LoadInv => AcceptedIsWired
  BY <1>1, Wires DEF AcceptedIsWired, WellWired
<1>3. QED
  BY <1>2, LoadsAsWritten, PTL
=============================================================================
