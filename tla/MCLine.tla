------------------------------- MODULE MCLine -------------------------------
(* topologies/line.json, loaded by module Wiring and run by module Runtime.  *)
EXTENDS Ring, SequencesExt

CONSTANTS
  LineInit,   \* the Init list of inputNode
  Side        \* FALSE: leave inhibitRight0 out, TRUE: the file as it is

L == INSTANCE Wiring WITH Specs <- {}, spec <- <<>>, phase <- "", edgeChan <- <<>>,
       inbound <- <<>>, outbound <- <<>>, buf <- <<>>, todo <- <<>>,
       ins <- <<>>, outs <- <<>>

NoSlots == [p \in {} |-> 0]
Item(id, type, init, data) ==
  [id |-> id, type |-> type, init |-> init, data |-> data, slots |-> NoSlots]
Edge(s, sh, t, th) == [label |-> <<s, t>>, source |-> s, sourceHandle |-> sh,
                       target |-> t, targetHandle |-> th]

WholeLine ==
  [nodes |-> << Item("inputNode", "Input", LineInit, NoSlots),
                Item("readGate", "ReadGate", <<>>, [FromChainInhibitor |-> 1]),
                Item("i0", "ChainInhibitor", <<>>, [held |-> 0]),
                Item("i1", "ChainInhibitor", <<>>, [held |-> 0]),
                Item("inhibitRight0", "InhibitRightGate", <<>>, NoSlots) >>,
   edges |-> << Edge("inputNode", "ToReadGate", "readGate", "FromInput"),
                Edge("readGate", "ToChainInhibitor", "i0", "FromPrevChainInhibitorNode"),
                Edge("i0", "ToNext", "i1", "FromPrevChainInhibitorNode"),
                Edge("i0", "ToNext", "inhibitRight0", "FromLeft"),
                Edge("i1", "ToNext", "inhibitRight0", "FromRight"),
                Edge("i1", "ToNext", "readGate", "FromChainInhibitor") >>]

Line == IF Side THEN WholeLine
        ELSE [nodes |-> SelectSeq(WholeLine.nodes, LAMBDA n : n.id # "inhibitRight0"),
              edges |-> SelectSeq(WholeLine.edges, LAMBDA e : e.target # "inhibitRight0")]

NodeNo(id) == CHOOSE k \in DOMAIN Line.nodes : Line.nodes[k].id = id
NodeOf(id) == Line.nodes[NodeNo(id)]
Chans   == L!Allocated(Line)
LineIn  == L!Inbound(Line)
LineOut == L!Outbound(Line)

\* The entries of a port's list, in the order of their edges, port by port.
InOrder(f) == LET keys == SetToSortSeq(DOMAIN f, <)
              IN  [k \in DOMAIN keys |-> f[keys[k]]]
OutList(k) == LET ports == L!OutChans(Line, k, Chans, LineOut)
              IN  FlattenSeq([p \in DOMAIN ports |-> InOrder(ports[p])])

\* What LoadTopology leaves in channel c: the slot of the input bound to it.
Slots(c) ==
  {L!InitSlots(Line.nodes[d[1]])[L!InPorts(Line.nodes[d[1]])[d[2]]] :
     d \in {d \in L!Primes(Line) : L!InChans(Line, d[1], Chans, LineIn)[d[2]] = c}}

MCNode   == {Line.nodes[k].id : k \in DOMAIN Line.nodes}
MCKind   == [n \in MCNode |-> NodeOf(n).type]
MCIn     == [n \in MCNode |-> L!InChans(Line, NodeNo(n), Chans, LineIn)]
MCOut    == [n \in MCNode |-> OutList(NodeNo(n))]
MCSource == [n \in MCNode |-> L!InitValues(NodeOf(n))]
MCHeld0  == [n \in MCNode |-> L!HeldValue(NodeOf(n))]
MCChan   == UNION {{MCIn[n][k] : k \in DOMAIN MCIn[n]} \cup
                   {MCOut[n][k] : k \in DOMAIN MCOut[n]} : n \in MCNode}
MCPrime  == [c \in MCChan |-> IF Slots(c) = {} THEN None
                              ELSE CHOOSE v \in Slots(c) : TRUE]
MCOnward == [readGate |-> 1, i0 |-> 1, i1 |-> IF Side THEN 2 ELSE 1]
MCInhs   == {"i0", "i1"}

\* The Init list of the file, and a shorter one.
FileInit == <<0, 1, 0>>
TwoLaps  == <<1, 2>>
=============================================================================
