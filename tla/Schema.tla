------------------------------- MODULE Schema -------------------------------
(***************************************************************************)
(* Which topology files the editor accepts (parseSpec), to be set against  *)
(* what the loader makes of them (Wiring).  The two know the ports of a    *)
(* kind from different tables: NODE_TYPES here, the Go structs there.      *)
(*                                                                         *)
(* Nodes have two more fields than the loader looks at, inputs and         *)
(* outputs: the names of their own ports, or None if they are those of     *)
(* the type.  A field of an edge that is missing is None.                  *)
(***************************************************************************)
EXTENDS Wiring

NODE_TYPES ==
  [Input            |-> [inputs |-> {}, outputs |-> {"ToReadGate"}],
   ReadGate         |-> [inputs |-> {"FromInput", "FromChainInhibitor"},
                         outputs |-> {"ToChainInhibitor"}],
   ChainInhibitor   |-> [inputs |-> {"FromPrevChainInhibitorNode"},
                         outputs |-> {"ToEdge", "ToNextChainInhibitorNode"}],
   InhibitRightGate |-> [inputs |-> {"FromLeft", "FromRight"}, outputs |-> {"ToPassed"}],
   Generic          |-> [inputs |-> {}, outputs |-> {}],
   DetectorLatch    |-> [inputs |-> {"in", "release"}, outputs |-> {"out"}],
   PatternAnd       |-> [inputs |-> {"a", "b"}, outputs |-> {"out"}]]

\* own ?? def?.ports: None for a type that is not in the table.
PortNames(n, own, side) ==
  IF own # None THEN own
  ELSE IF n.type \in DOMAIN NODE_TYPES THEN NODE_TYPES[n.type][side] ELSE None

\* The missing value is no list of ports.
ASSUME SchemaAssumption ==
  \A t \in DOMAIN NODE_TYPES : None \notin {NODE_TYPES[t].inputs, NODE_TYPES[t].outputs}

Inputs(n)  == PortNames(n, n.inputs, "inputs")
Outputs(n) == PortNames(n, n.outputs, "outputs")

\* parseNodeData: what the Go struct reads from the data block has to be there.
parseNode(n) == n.type = "ChainInhibitor" /\ DOMAIN n.data # {} => "held" \in DOMAIN n.data

\* Everything but the label is required.
parseEdge(e) == None \notin {e.source, e.sourceHandle, e.target, e.targetHandle}

\* An empty handle, or a port of a type that is not in the table, is not checked.
Known(ports, handle) == ports = None \/ handle = "" \/ handle \in ports

\* byId: of nodes with one id the map keeps the last.
byId(s, id) == {s.nodes[k] : k \in {k \in DOMAIN s.nodes :
                  s.nodes[k].id = id /\ \A j \in DOMAIN s.nodes : s.nodes[j].id = id => j <= k}}

\* Initial slots belong to inputs; no type has a required input.
SlotsKnown(s) ==
  \A n \in Range(s.nodes) : Inputs(n) # None => DOMAIN n.slots \subseteq Inputs(n)

\* A mistake: an edge into nowhere is skipped, not refused.
validatePortsSkips(s) ==
  /\ \A e \in Range(s.edges) :
       \E src \in byId(s, e.source) : Known(Outputs(src), e.sourceHandle)
  /\ SlotsKnown(s)

\* Edges join known nodes at known ports.
validatePorts(s) ==
  /\ \A e \in Range(s.edges) :
       /\ \E src \in byId(s, e.source) : Known(Outputs(src), e.sourceHandle)
       /\ \E dst \in byId(s, e.target) : Known(Inputs(dst), e.targetHandle)
  /\ SlotsKnown(s)

parseSpec(s) ==
  /\ \A n \in Range(s.nodes) : parseNode(n)
  /\ \A e \in Range(s.edges) : parseEdge(e)
  /\ validatePorts(s)

-----------------------------------------------------------------------------
(* Properties. *)

\* The ports that a node lists are ports that its Go struct has.
OwnPortsExist(s) ==
  \A n \in Range(s.nodes) :
    /\ n.inputs # None => \A name \in n.inputs : HasInput(n, name)
    /\ n.outputs # None => \A name \in n.outputs : HasOutput(n, name)

NoEmptyHandle(s) == \A e \in Range(s.edges) : "" \notin {e.sourceHandle, e.targetHandle}

\* The ports of NODE_TYPES that the struct of the type does not have.
EditorOnly ==
  UNION {(NODE_TYPES[t].inputs \cup NODE_TYPES[t].outputs)
           \ (Range(Registry[t].in) \cup {p.name : p \in Range(Registry[t].out)}) :
           t \in DOMAIN Registry}

\* What the editor's schema (parse-meta.ts:47-100) accepts and the loader loads
\* is wired as drawn, unless the file has one of the mistakes that neither looks
\* for: shared labels or ids, ports only the editor knows, empty handles, or two
\* edges at a port for one.
AcceptedIsWired ==
  /\ Loaded /\ parseSpec(spec)
  /\ Keyed(spec) /\ OwnPortsExist(spec) /\ NoEmptyHandle(spec) /\ OneEdgePerPort(spec)
  /\ \A e \in Range(spec.edges) : {e.sourceHandle, e.targetHandle} \cap EditorOnly = {}
  => EveryEdgeWired

\* node-types.ts:1: the registry is the single source of truth for the ports of
\* a node type, so the editor knows the ports of a file that is wired right when
\* it runs.
OpensInTheEditor == Loaded /\ WellWired(spec) => validatePorts(spec)
=============================================================================
