-------------------------------- MODULE Ring --------------------------------
(***************************************************************************)
(* The pacing ring of topologies/line.json, for any number of inhibitors:  *)
(* an Input feeds a ReadGate, the gate feeds a chain of ChainInhibitors,   *)
(* and the last one's fan-out acknowledges to the gate.  The gate's ack    *)
(* channel is primed, so exactly one token circulates.  A node may have    *)
(* more outputs, and other nodes may hang off them: nothing outside the    *)
(* ring touches the ring's channels.                                       *)
(*                                                                         *)
(* Nodes never look whether a send went out (SafeWorker.Send drops), so    *)
(* everything said here rests on the shape of the wiring.                  *)
(***************************************************************************)
EXTENDS Runtime

CONSTANTS
  Source1,  \* the Input node
  Gate,     \* the ReadGate
  Inhs,     \* the ChainInhibitors of the ring
  First,    \* the inhibitor the gate sends to
  Onward    \* which of a ring node's outputs stays on the ring

RingNode == {Gate} \cup Inhs

\* The channel on which the token enters a node of the ring.
Entry(n) == IF n = Gate THEN In[Gate][2] ELSE In[n][1]
RingChan == {Entry(n) : n \in RingNode}
Ack      == Entry(Gate)
Feed     == In[Gate][1]

ASSUME RingAssumption ==
  /\ Gate \in Node /\ Kind[Gate] = "ReadGate"
  /\ Source1 \in Node /\ IsInput(Source1)
  /\ Inhs \subseteq Node /\ First \in Inhs
  /\ \A n \in Inhs : IsChain(n)
  \* one ring output per ring node, and each ring channel joins two nodes
  /\ Onward \in [RingNode -> Nat \ {0}]
  /\ \A n \in RingNode :
       /\ Onward[n] <= Len(Out[n])
       /\ Out[n][Onward[n]] \in RingChan
       /\ \A k \in 1..Len(Out[n]) : k # Onward[n] => Out[n][k] \notin RingChan
  /\ \A m, n \in RingNode : Entry(m) = Entry(n) => m = n
  /\ \A m, n \in RingNode : Out[m][Onward[m]] = Out[n][Onward[n]] => m = n
  /\ Out[Gate][1] = Entry(First)
  \* nothing else reads or writes them
  /\ \A n \in Node \ RingNode :
       /\ \A k \in 1..Len(Out[n]) : Out[n][k] \notin RingChan
       /\ \A k \in 1..Len(In[n]) : In[n][k] \notin RingChan
  \* the input list goes to the gate and nowhere else
  /\ Out[Source1][1] = Feed /\ Feed \notin RingChan
  /\ \A n \in Node \ {Source1} : \A k \in 1..Len(Out[n]) : Out[n][k] # Feed
  /\ \A n \in Node \ {Gate} : \A k \in 1..Len(In[n]) : In[n][k] # Feed
  \* the acknowledgement channel alone is primed
  /\ Prime[Ack] # None /\ Prime[Feed] = None
  /\ \A c \in RingChan \ {Ack} : Prime[c] = None

-----------------------------------------------------------------------------
(* The token. *)

\* A ring node holds the token from its receive to its send on the ring.
Holds(n) ==
  IF n = Gate THEN slot[Gate][2] # None /\ pc[Gate] # "traceSend"
  ELSE \/ pc[n] \in {"trace1", "fire"}
       \/ pc[n] = "send" /\ i[n] <= Onward[n]
       \/ pc[n] = "traceSend" /\ i[n] < Onward[n]

Tokens == {<<"chan", c>> : c \in {c \in RingChan : chan[c] # None}}
          \cup {<<"node", n>> : n \in {n \in RingNode : Holds(n)}}

\* There is exactly one token: two would collide in a one-place channel and
\* one be dropped, none would stop the input for good.
OneToken == \E t \in Tokens : Tokens = {t}

\* S.Send drops what does not fit, but on the ring it always fits: no value
\* and no acknowledgement is lost, although no node checks for room.
NoRingDrop ==
  \A n \in RingNode :
    (pc[n] = "send" /\ i[n] = Onward[n]) => chan[Out[n][i[n]]] = None

\* The gate never has more than the one acknowledgement it may spend: it holds
\* one only while the chain is empty.
AckMeansIdle ==
  slot[Gate][2] # None /\ pc[Gate] # "traceSend" =>
    \A c \in RingChan : chan[c] = None

-----------------------------------------------------------------------------
(* The values that entered the chain: those the first inhibitor has        *)
(* reported, and the one it has yet to report or to receive (there is only *)
(* one token, so never both).                                              *)

Entered ==
  LET v == IF pc[First] = "trace1" THEN slot[First][1] ELSE chan[Entry(First)]
  IN  IF v = None THEN recvs[First][1] ELSE Append(recvs[First][1], v)

\* The gate's credit: the acknowledgement is on its way to it or with it.
Credit == chan[Ack] # None \/ Holds(Gate)

Abstract == INSTANCE Pacing WITH Values   <- Source[Source1],
                                 released <- Entered,
                                 credit   <- Credit

\* The runtime implements the promise: input values enter the chain in order,
\* without loss or repetition, one per acknowledgement.
Paced == Abstract!Spec

\* As long as it is not cancelled, the runtime gets every input value into the
\* chain and every value acknowledged, although sends never wait for room.
PacedToTheEnd == []~Cancelled => Abstract!Fairness
=============================================================================
