----------------------------- MODULE MCWiring ------------------------------
(* Topologies of up to three edges over an Input, a ReadGate and a           *)
(* ChainInhibitor, with the ways a hand-edited file can be wrong.            *)
EXTENDS Schema

NoSlots == [p \in {} |-> 0]
Item(id, type, init, data, slots, outputs) ==
  [id |-> id, type |-> type, init |-> init, data |-> data, slots |-> slots,
   inputs |-> None, outputs |-> outputs]

Edge(s, sh, t, th) == [source |-> s, sourceHandle |-> sh,
                       target |-> t, targetHandle |-> th]
Labelled(e, l) == [label |-> l, source |-> e.source, target |-> e.target,
                   sourceHandle |-> e.sourceHandle, targetHandle |-> e.targetHandle]

\* Edges of the pacing ring, a wrong turn, an extra edge out of a single
\* output, the handle name of the repository's own topology.json that no Go
\* port has, and an edge from a port only the editor knows to an empty handle.
MCEdges ==
  { Edge("in", "ToReadGate", "g", "FromInput"),
    Edge("g", "ToChainInhibitor", "c", "FromPrevChainInhibitorNode"),
    Edge("c", "ToNext", "g", "FromChainInhibitor"),
    Edge("c", "ToNext", "g", "FromInput"),
    Edge("in", "ToOut", "g", "FromChainInhibitor"),
    Edge("in", "ToReadGate", "c", "FromPrevChainInhibitorNode"),
    Edge("c", "ToEdge", "g", "") }

\* All ways to share labels among the edges of a file, and an empty one.
MCLabels ==
  { <<>>, <<"a">>, <<"a", "b">>, <<"a", "a">>, <<"a", "">>,
    <<"a", "b", "c">>, <<"a", "a", "c">>, <<"a", "b", "a">>, <<"a", "b", "b">>,
    <<"a", "a", "a">>, <<"a", "", "c">> }

EdgeLists(maxEdges) ==
  UNION {{[k \in DOMAIN ls |-> Labelled(es[k], ls[k])] :
            es \in [DOMAIN ls -> MCEdges]} :
         ls \in {ls \in MCLabels : Len(ls) <= maxEdges}}

\* One id for two gates, of which only the first or both are primed.  Otherwise
\* a gate with no slot, one slot in its data overridden at top level, or both
\* inputs primed; an inhibitor with the ports of its type, with those its struct
\* has, or with a data block the schema refuses; a gate that is missing; a kind
\* that does not run.
MCNodes ==
  {<< Item("in", "Input", <<1>>, NoSlots, NoSlots, None),
      Item("g", "ReadGate", <<>>, d, t, None),
      Item("c", "ChainInhibitor", <<>>, [held |-> 7], NoSlots, o) >> :
    d \in {NoSlots, [FromChainInhibitor |-> 1]},
    t \in {NoSlots, [FromChainInhibitor |-> 2],
           [FromInput |-> 3, FromChainInhibitor |-> 4]},
    o \in {None, {"ToNext"}}}
  \cup {<< Item("in", "Input", <<1>>, NoSlots, NoSlots, o),
           Item("c", "ChainInhibitor", <<>>, d, NoSlots, {"ToNext"}) >> :
          d \in {[held |-> 7], [other |-> 7]}, o \in {None, {"ToReadGate", "ToOut"}}}
  \cup {<< Item("in", "Input", <<1>>, NoSlots, NoSlots, None),
           Item("g", "ReadGate", <<>>, NoSlots, [FromInput |-> 2], None),
           Item("g", "ReadGate", <<>>, NoSlots, t, None) >> :
          t \in {NoSlots, [FromInput |-> 3]}}
  \cup {<< Item("in", "Generic", <<1>>, NoSlots, NoSlots, None) >>}

Topologies(maxEdges) ==
  {[nodes |-> n, edges |-> e] : n \in MCNodes, e \in EdgeLists(maxEdges)}

MCSpecs == Topologies(3)
=============================================================================
