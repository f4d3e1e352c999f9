----------------------------- MODULE RingProofs -----------------------------
(* Proofs about the pacing ring, for every number of inhibitors, every input *)
(* list and whatever else hangs off the ring's nodes.                        *)
EXTENDS Ring, RuntimeProofs

-----------------------------------------------------------------------------
(* What the assumption about the wiring says of one node.                    *)

\* The kinds of the nodes named, and what follows of their shape.
LEMMA RingKinds ==
  /\ Gate \in Node /\ IsGate(Gate) /\ Kind[Gate] = "ReadGate"
  /\ ~IsInput(Gate) /\ ~IsChain(Gate) /\ Gate \notin Inhs
  /\ First \in Inhs
  /\ \A n \in Inhs : n \in Node /\ IsChain(n) /\ ~IsGate(n) /\ ~IsInput(n) /\ n # Gate
  BY RingAssumption DEF IsGate, IsInput, IsChain

\* Ring nodes are entered on ring channels, the gate on the acknowledgement's.
LEMMA RingEntries ==
  /\ \A n \in RingNode : n \in Node /\ Entry(n) \in RingChan
  /\ Ack \in RingChan /\ Entry(First) \in RingChan /\ Ack # Entry(First)
  /\ Entry(Gate) = In[Gate][2]
  /\ \A n \in Inhs : Entry(n) = In[n][1]
  BY RingAssumption, RingKinds DEF Entry, RingChan, RingNode, Ack

\* The gate has two inputs and one output.
LEMMA GateShape == Len(In[Gate]) = 2 /\ Len(Out[Gate]) = 1
  BY RingKinds, RuntimeAssumption

\* An inhibitor of the ring has one input.
LEMMA InhShape ==
  ASSUME NEW n \in Inhs
  PROVE  Len(In[n]) = 1
  BY RingKinds, RuntimeAssumption

\* The ring's channels are channels of the runtime.
LEMMA RingChans == RingChan \subseteq Chan
<1>1. In[Gate][2] \in Chan
  <2>1. 2 \in 1..Len(In[Gate])
    BY GateShape
  <2>2. QED
    BY <2>1, RingKinds, Lists
<1>2. ASSUME NEW n \in Inhs PROVE In[n][1] \in Chan
  BY InhShape, RingKinds, RuntimeAssumption
<1>3. QED
  BY <1>1, <1>2 DEF RingChan, RingNode, Entry

\* A node polls a ring channel only if it is a ring node at its entry.
LEMMA Polls ==
  ASSUME TypeOK, NEW n \in Node, NEW p \in {1, 2}, pc[n] = RecvAt(p),
         In[n][p] \in RingChan
  PROVE  n \in RingNode /\ In[n][p] = Entry(n) /\ (n = Gate <=> p = 2)
<1>1. p \in 1..Len(In[n])
  <2>1. NodeOK(n)
    BY At
  <2>2. Kind[n] # "Input" /\ (p = 2 => Kind[n] # "ChainInhibitor")
    BY <2>1 DEF NodeOK, RecvAt, IsInput, IsChain
  <2>3. Kind[n] \in Kinds
    BY RuntimeAssumption
  <2>4. CASE Kind[n] = "ChainInhibitor"
    <3>1. Len(In[n]) = 1
      BY <2>4, RuntimeAssumption DEF IsChain
    <3>2. QED
      BY <2>2, <2>4, <3>1
  <2>5. CASE Kind[n] \in {"ReadGate", "InhibitRightGate"}
    <3>1. Len(In[n]) = 2
      BY <2>5, RuntimeAssumption DEF IsGate
    <3>2. QED
      BY <3>1
  <2>6. QED
    BY <2>2, <2>3, <2>4, <2>5 DEF Kinds
<1>2. n \in RingNode
  BY <1>1, RingAssumption
<1>3. CASE n = Gate
  <2>1. In[Gate][1] \notin RingChan
    BY RingAssumption DEF Feed
  <2>2. QED
    BY <1>2, <1>3, <2>1, RingEntries, RingKinds
<1>4. CASE n \in Inhs
  <2>1. p = 1
    BY <1>1, <1>4, InhShape
  <2>2. QED
    BY <1>2, <1>4, <2>1, RingEntries, RingKinds
<1>5. QED
  BY <1>2, <1>3, <1>4 DEF RingNode

\* A node sends on a ring channel only as a ring node on its ring output.
LEMMA Sends ==
  ASSUME NEW n \in Node, NEW k \in 1..Len(Out[n])
  PROVE  Out[n][k] \in RingChan <=> (n \in RingNode /\ k = Onward[n])
  BY RingAssumption DEF RingNode

\* The onward output of a ring node is one of its outputs.
LEMMA OnwardInOut ==
  ASSUME NEW n \in RingNode
  PROVE  Onward[n] \in Nat \ {0} /\ Onward[n] <= Len(Out[n])
  BY RingAssumption

-----------------------------------------------------------------------------
(* How the token moves.                                                      *)

\* The token stays where it is.
LEMMA TokenStays ==
  ASSUME OneToken,
         \A c \in RingChan : (chan'[c] # None) <=> (chan[c] # None),
         \A n \in RingNode : Holds(n)' <=> Holds(n)
  PROVE  OneToken'
<1>1. Tokens' = Tokens
  BY DEF Tokens
<1>2. QED
  BY <1>1 DEF OneToken

\* Where the token is, nothing else on the ring is occupied.
LEMMA TokenOnChannel ==
  ASSUME NEW c, Tokens = {<<"chan", c>>}
  PROVE  /\ \A d \in RingChan \ {c} : chan[d] = None
         /\ \A m \in RingNode : ~Holds(m)
<1>1. ASSUME NEW d \in RingChan, chan[d] # None PROVE d = c
  <2>1. <<"chan", d>> \in Tokens
    BY <1>1 DEF Tokens
  <2>2. QED
    BY <2>1
<1>2. ASSUME NEW m \in RingNode, Holds(m) PROVE FALSE
  <2>1. <<"node", m>> \in Tokens
    BY <1>2 DEF Tokens
  <2>2. QED
    BY <2>1
<1>3. QED
  BY <1>1, <1>2

\* Where one node holds the token, no other does and every ring channel is empty.
LEMMA HolderAlone ==
  ASSUME OneToken, NEW n \in RingNode, Holds(n)
  PROVE  /\ \A c \in RingChan : chan[c] = None
         /\ \A m \in RingNode \ {n} : ~Holds(m)
<1>1. <<"node", n>> \in Tokens
  BY DEF Tokens
<1>2. Tokens = {<<"node", n>>}
  BY <1>1 DEF OneToken
<1>3. ASSUME NEW d \in RingChan, chan[d] # None PROVE FALSE
  <2>1. <<"chan", d>> \in Tokens
    BY <1>3 DEF Tokens
  <2>2. QED
    BY <1>2, <2>1
<1>4. ASSUME NEW m \in RingNode, Holds(m) PROVE m = n
  <2>1. <<"node", m>> \in Tokens
    BY <1>4 DEF Tokens
  <2>2. QED
    BY <1>2, <2>1
<1>5. QED
  BY <1>3, <1>4

\* A node receives the token.
LEMMA TokenReceived ==
  ASSUME OneToken, NEW c \in RingChan, NEW n \in RingNode,
         chan[c] # None, chan'[c] = None, Holds(n)',
         \A d \in RingChan \ {c} : chan'[d] = chan[d],
         \A m \in RingNode \ {n} : Holds(m)' <=> Holds(m)
  PROVE  OneToken'
<1>1. Tokens = {<<"chan", c>>}
  BY DEF OneToken, Tokens
<1>2. /\ \A d \in RingChan \ {c} : chan[d] = None
      /\ \A m \in RingNode : ~Holds(m)
  BY <1>1, TokenOnChannel
<1>3. \A d \in RingChan : chan'[d] = None
  BY <1>2
<1>4. Tokens' = {<<"node", n>>}
  BY <1>2, <1>3 DEF Tokens
<1>5. QED
  BY <1>4 DEF OneToken

\* A node sends the token on.
LEMMA TokenSent ==
  ASSUME OneToken, NEW c \in RingChan, NEW n \in RingNode,
         Holds(n), ~Holds(n)', chan'[c] # None,
         \A d \in RingChan \ {c} : chan'[d] = chan[d],
         \A m \in RingNode \ {n} : Holds(m)' <=> Holds(m)
  PROVE  OneToken'
<1>1. Tokens = {<<"node", n>>}
  BY DEF OneToken, Tokens
<1>2. /\ \A d \in RingChan : chan[d] = None
      /\ \A m \in RingNode \ {n} : ~Holds(m)
  BY HolderAlone
<1>3. \A m \in RingNode : ~Holds(m)'
  BY <1>2
<1>4. Tokens' = {<<"chan", c>>}
  BY <1>2, <1>3 DEF Tokens
<1>5. QED
  BY <1>4 DEF OneToken

\* What a node holds is its own affair.
LEMMA HoldsFrame ==
  ASSUME NEW m \in RingNode, pc'[m] = pc[m], i'[m] = i[m], slot'[m] = slot[m]
  PROVE  Holds(m)' <=> Holds(m)
  BY DEF Holds

\* A step of one node leaves the holding of the others alone.
LEMMA OthersHold ==
  ASSUME TypeOK, NEW n \in Node, Step(n)
  PROVE  \A m \in RingNode \ {n} : Holds(m)' <=> Holds(m)
  BY OnlyItself, HoldsFrame, RingEntries

\* The primed acknowledgement is the one token at the start.
LEMMA InitToken == Init => OneToken
<1> SUFFICES ASSUME Init PROVE OneToken
  OBVIOUS
<1>1. \A n \in RingNode : ~Holds(n)
  BY RingKinds DEF Init, Holds, RingNode
<1>2. Tokens = {<<"chan", Ack>>}
  BY <1>1, RingAssumption, RingEntries DEF Init, Tokens
<1>3. QED
  BY <1>2 DEF OneToken

\* A step of a node keeps the token one: it moves it or leaves it.
LEMMA StepToken ==
  ASSUME TypeOK, OneToken, NEW n \in Node, Step(n)
  PROVE  OneToken'
<1>1. \A m \in RingNode \ {n} : Holds(m)' <=> Holds(m)
  BY OthersHold
<1>2. Typed /\ NodeOK(n)
  BY TypedVars, At
<1>3. \A l : Goto(n, l) => pc'[n] = l
  BY <1>2 DEF Typed, Goto
<1>4. CASE Check(n)
  <2>1. n \in RingNode => (Holds(n)' <=> Holds(n))
    BY <1>3, <1>4, RingKinds DEF Check, Holds, RingNode
  <2>2. QED
    BY <1>1, <1>4, <2>1, TokenStays DEF Check
<1>5. ASSUME NEW p \in {1, 2}, Receive(n, p) PROVE OneToken'
  <2> DEFINE c == In[n][p]
  <2>1. CASE slot[n][p] = None /\ chan[c] # None /\ c \in RingChan
    <3>1. n \in RingNode /\ (n = Gate <=> p = 2)
      BY <1>5, <2>1, Polls DEF Receive
    <3>2. slot'[n][p] = chan[c] /\ chan'[c] = None /\ pc'[n] = TraceAt(p)
          /\ \A d \in RingChan \ {c} : chan'[d] = chan[d]
      BY <1>2, <1>3, <1>5, <2>1, RingChans, RingEntries DEF Receive, Typed
    <3>3. Holds(n)'
      BY <2>1, <3>1, <3>2 DEF Holds, TraceAt
    <3>4. QED
      BY <1>1, <2>1, <3>1, <3>2, <3>3, TokenReceived
  <2>2. CASE slot[n][p] = None /\ chan[c] # None /\ c \notin RingChan
    <3>1. \A d \in RingChan : chan'[d] = chan[d]
      BY <1>2, <1>5, <2>2, RingChans DEF Receive, Typed
    <3>2. ASSUME n \in RingNode PROVE n = Gate /\ p = 1
      BY <1>2, <1>5, <2>2, <3>2, RingKinds, RingEntries
         DEF RingNode, Receive, RecvAt, NodeOK
    <3>3. ASSUME n \in RingNode PROVE Holds(n)' <=> Holds(n)
      BY <1>2, <1>3, <1>5, <2>2, <3>2, <3>3 DEF Receive, Typed, Holds, RecvAt, TraceAt
    <3>4. QED
      BY <1>1, <3>1, <3>3, TokenStays
  <2>3. CASE ~(slot[n][p] = None /\ chan[c] # None)
    <3>1. pc'[n] = AfterPort(n, p) /\ UNCHANGED <<slot, chan, i>>
      BY <1>3, <1>5, <2>3 DEF Receive
    <3>2. ASSUME n \in RingNode PROVE Holds(n)' <=> Holds(n)
      <4>1. CASE n = Gate
        BY <1>5, <3>1, <4>1 DEF Receive, Holds, AfterPort, RecvAt
      <4>2. CASE n \in Inhs
        BY <1>2, <1>5, <3>1, <4>2, RingKinds DEF Receive, Holds, AfterPort, RecvAt, NodeOK, Ready
      <4>3. QED
        BY <3>2, <4>1, <4>2 DEF RingNode
    <3>3. QED
      BY <1>1, <3>1, <3>2, TokenStays
  <2>4. QED
    BY <2>1, <2>2, <2>3
<1>6. ASSUME NEW p \in {1, 2}, TraceRecv(n, p) PROVE OneToken'
  <2>1. ASSUME n \in RingNode PROVE Holds(n)' <=> Holds(n)
    <3>1. CASE n = Gate
      BY <1>3, <1>6, <3>1 DEF TraceRecv, Holds, AfterPort, TraceAt
    <3>2. CASE n \in Inhs
      BY <1>2, <1>3, <1>6, <3>2, RingKinds DEF TraceRecv, Holds, AfterPort, TraceAt, NodeOK, Ready
    <3>3. QED
      BY <2>1, <3>1, <3>2 DEF RingNode
  <2>2. QED
    BY <1>1, <1>6, <2>1, TokenStays DEF TraceRecv
<1>7. CASE Fire(n)
  <2>1. ASSUME n \in RingNode PROVE Holds(n)' <=> Holds(n)
    <3>1. Len(Out[n]) # 0 /\ ~IsInput(n) /\ 1 <= Onward[n]
      BY <2>1, OnwardInOut, RingKinds, Lists DEF RingNode
    <3>2. pc'[n] = "send" /\ i'[n] = i[n] /\ slot'[n] = slot[n]
      BY <1>3, <1>7, <3>1 DEF Fire
    <3>3. CASE n = Gate
      BY <1>7, <3>2, <3>3 DEF Fire, Holds
    <3>4. CASE n \in Inhs
      BY <1>2, <1>7, <3>1, <3>2, <3>4, RingKinds DEF Fire, Holds, NodeOK
    <3>5. QED
      BY <2>1, <3>3, <3>4 DEF RingNode
  <2>2. QED
    BY <1>1, <1>7, <2>1, TokenStays DEF Fire
<1>8. CASE InputSend(n)
  <2>1. n \notin RingNode
    BY <1>8, RingKinds DEF InputSend, RingNode
  <2>2. Out[n][1] \notin RingChan
    BY <1>8, <2>1, Sends, Shapes DEF InputSend, IsInput, IsGate, IsChain
  <2>3. \A d \in RingChan : chan'[d] = chan[d]
    BY <1>2, <1>8, <2>2, RingChans DEF InputSend, Offer, Typed
  <2>4. QED
    BY <1>1, <2>1, <2>3, TokenStays
<1>9. CASE Send(n)
  <2> DEFINE c == Out[n][i[n]]
  <2>1. i[n] \in 1..Len(Out[n]) /\ c \in Chan
    BY <1>9, ChannelsExist DEF Send
  <2>2. pc[n] = "send" /\ pc'[n] = "traceSend" /\ i'[n] = i[n] /\ slot'[n] = slot[n]
    BY <1>3, <1>9 DEF Send
  <2>3. \A d \in Chan \ {c} : chan'[d] = chan[d]
    BY <1>2, <1>9, <2>1 DEF Send, Offer, Typed
  <2>4. CASE n \in RingNode /\ i[n] = Onward[n]
    <3>1. c \in RingChan
      BY <2>1, <2>4, Sends
    <3>2. Holds(n) /\ ~Holds(n)'
      <4>1. CASE n = Gate
        BY <1>2, <2>2, <4>1, RingKinds DEF Holds, NodeOK, Ready
      <4>2. CASE n \in Inhs
        BY <2>1, <2>2, <2>4, <4>2, RingKinds DEF Holds
      <4>3. QED
        BY <2>4, <4>1, <4>2 DEF RingNode
    <3>3. chan[c] = None
      BY <2>4, <3>1, <3>2, HolderAlone
    <3>4. chan'[c] # None
      BY <1>2, <1>9, <2>1, <3>3, ResultIsInt, RuntimeAssumption DEF Send, Offer, Typed
    <3>5. QED
      BY <1>1, <2>3, <2>4, <3>1, <3>2, <3>4, TokenSent, RingChans
  <2>5. CASE ~(n \in RingNode /\ i[n] = Onward[n])
    <3>1. c \notin RingChan
      BY <2>1, <2>5, Sends
    <3>2. ASSUME n \in RingNode PROVE Holds(n)' <=> Holds(n)
      <4>1. ASSUME n = Gate PROVE FALSE
        <5>1. i[n] = 1
          BY <2>1, <4>1, GateShape
        <5>2. Onward[n] \in Nat \ {0} /\ Onward[n] <= Len(Out[n])
          BY <3>2, OnwardInOut
        <5>3. Onward[n] = 1
          BY <4>1, <5>2, GateShape
        <5>4. QED
          BY <2>5, <3>2, <5>1, <5>3
      <4>2. QED
        BY <1>2, <2>1, <2>2, <2>5, <3>2, <4>1, OnwardInOut DEF Holds, Typed
    <3>3. QED
      BY <1>1, <2>3, <3>1, <3>2, TokenStays, RingChans
  <2>6. QED
    BY <2>4, <2>5
<1>10. CASE TraceSend(n)
  <2>1. ASSUME n \in RingNode PROVE Holds(n)' <=> Holds(n)
    <3>1. i[n] \in Nat /\ Onward[n] \in Nat /\ Onward[n] <= Len(Out[n])
          /\ Len(Out[n]) \in Nat /\ ~IsInput(n)
      BY <1>2, <2>1, OnwardInOut, RingKinds, Lists DEF Typed, RingNode
    <3>2. CASE i[n] < Len(Out[n])
      <4>1. pc'[n] = "send" /\ i'[n] = i[n] + 1
        BY <1>2, <1>3, <1>10, <3>1, <3>2 DEF TraceSend, Typed
      <4>2. ASSUME n = Gate PROVE FALSE
        BY <1>2, <3>2, <4>2, GateShape DEF Typed
      <4>3. QED
        BY <1>10, <3>1, <4>1, <4>2 DEF TraceSend, Holds
    <3>3. CASE ~(i[n] < Len(Out[n]))
      <4>1. pc'[n] = "check" /\ slot'[n] = [p \in {1, 2} |-> None]
        BY <1>2, <1>3, <1>10, <3>1, <3>3 DEF TraceSend, Finish, Typed
      <4>2. QED
        BY <1>10, <3>1, <3>3, <4>1 DEF TraceSend, Holds
    <3>4. QED
      BY <3>2, <3>3
  <2>2. QED
    BY <1>1, <1>10, <2>1, TokenStays DEF TraceSend
<1>11. QED
  BY <1>4, <1>5, <1>6, <1>7, <1>8, <1>9, <1>10 DEF Step

\* What RunTest and the recorder do leaves the ring alone.
LEMMA MainToken ==
  ASSUME OneToken, UNCHANGED <<chan, nodeVars>>
  PROVE  OneToken'
  BY TokenStays, HoldsFrame DEF nodeVars

\* So the token stays one in every step of the specification.
LEMMA MainSteps ==
  ASSUME Cancel \/ Close \/ Drain \/ Exit \/ Terminated \/ UNCHANGED vars
  PROVE  UNCHANGED <<chan, nodeVars, recvs, fires, sends>>
  BY DEF Cancel, Close, Drain, Exit, Terminated, vars, nodeVars, traceVars

\* In a ring whose acknowledgement channel alone is primed there is exactly one
\* token at every moment, whatever the scheduler does.
THEOREM RingToken == Spec => []OneToken
<1>1. TypeOK /\ OneToken /\ [Next]_vars => OneToken'
  BY StepToken, MainToken, MainSteps DEF Next
<1>2. QED
  BY <1>1, InitToken, TypeCorrect, PTL DEF Spec

\* So S.Send never drops on the ring, although no node looks for room first.
THEOREM NothingDropped == Spec => []NoRingDrop
<1>1. TypeOK /\ OneToken => NoRingDrop
  <2> SUFFICES ASSUME TypeOK, OneToken, NEW n \in RingNode,
                      pc[n] = "send", i[n] = Onward[n]
               PROVE  chan[Out[n][i[n]]] = None
    BY DEF NoRingDrop
  <2>1. Holds(n)
    <3>1. CASE n = Gate
      BY <3>1, At, RingKinds DEF Holds, NodeOK, Ready
    <3>2. CASE n \in Inhs
      BY <3>2, OnwardInOut, RingKinds DEF Holds
    <3>3. QED
      BY <3>1, <3>2 DEF RingNode
  <2>2. Out[n][i[n]] \in RingChan
    BY RingAssumption
  <2>3. QED
    BY <2>1, <2>2, HolderAlone
<1>2. QED
  BY <1>1, RingToken, TypeCorrect, PTL

\* The gate holds an acknowledgement only while the chain is empty.
THEOREM GateWaitsForTheChain == Spec => []AckMeansIdle
<1>1. OneToken => AckMeansIdle
  BY HolderAlone DEF AckMeansIdle, Holds, RingNode
<1>2. QED
  BY <1>1, RingToken, PTL

-----------------------------------------------------------------------------
(* The ring implements module Pacing.  The invariant says where the values   *)
(* of the input list are: those that have entered the chain are the first    *)
(* ones, in order; the gate's slot and the feed hold the ones after them, up *)
(* to the last one the Input put there.                                      *)

List   == Source[Source1]
Bit(b) == IF b THEN 1 ELSE 0

\* The number of values the Input has put on the feed.
Put == i[Source1] - 1 + Bit(pc[Source1] \in {"fire", "traceSend"})

\* The gate holds a value that it has not sent on yet.
Waiting == slot[Gate][1] # None /\ pc[Gate] # "traceSend"

\* No value of the input list is lost, repeated or overtaken.
Lined ==
  /\ Len(Entered) + Bit(Waiting) + Bit(chan[Feed] # None) = Put
  /\ \A k \in 1..Len(Entered) : Entered[k] = List[k]
  /\ Waiting => slot[Gate][1] = List[Len(Entered) + 1]
  /\ chan[Feed] # None => chan[Feed] = List[Put]

-----------------------------------------------------------------------------
(* The three nodes that touch the values, and the channels between them.     *)

\* Source1, the gate and the first inhibitor are different nodes.
LEMMA Cast ==
  /\ Source1 \in Node /\ Gate \in Node /\ First \in Node
  /\ Source1 # Gate /\ Source1 # First /\ Gate # First
  /\ IsInput(Source1) /\ IsGate(Gate) /\ IsChain(First)
  /\ Gate \in RingNode /\ First \in RingNode /\ Source1 \notin RingNode
  BY RingKinds, RingAssumption DEF IsInput, IsGate, IsChain, RingNode

\* The feed and the two ring channels at the gate.
LEMMA Between ==
  /\ Feed \in Chan /\ Entry(First) \in Chan /\ Ack \in Chan
  /\ Feed # Entry(First) /\ Feed # Ack /\ Ack # Entry(First)
  /\ Entry(First) = In[First][1] /\ Ack = In[Gate][2] /\ Feed = In[Gate][1]
  /\ Out[Gate][1] = Entry(First) /\ Out[Source1][1] = Feed /\ Onward[Gate] = 1
<1>1. Feed \in Chan
  <2>1. 1 \in 1..Len(In[Gate])
    BY GateShape
  <2>2. QED
    BY <2>1, RingKinds, Lists DEF Feed
<1>2. Onward[Gate] = 1
  <2>1. Onward[Gate] \in Nat \ {0} /\ Onward[Gate] <= Len(Out[Gate])
    BY Cast, OnwardInOut
  <2>2. QED
    BY <2>1, GateShape
<1>3. Ack = In[Gate][2] /\ Entry(First) = In[First][1]
  BY RingEntries, RingKinds DEF Ack
<1>4. QED
  BY <1>1, <1>2, <1>3, RingAssumption, RingEntries, RingChans DEF Feed

\* What has entered the chain is a list of integers.
LEMMA EnteredTyped ==
  ASSUME TypeOK
  PROVE  /\ Entered \in Seq(Int) /\ recvs[First][1] \in Seq(Int)
         /\ chan[Entry(First)] \in Opt /\ slot[First][1] \in Opt
<1>1. /\ recvs[First][1] \in Seq(Int)
      /\ chan[Entry(First)] \in Opt /\ slot[First][1] \in Opt
  <2>1. chan[Entry(First)] \in Opt
    BY TypedVars, Between DEF Typed
  <2>2. recvs[First] \in [{1, 2} -> Seq(Int)]
    BY TypedVars, Cast DEF Typed
  <2>3. slot[First][1] \in Opt
    BY At, Cast DEF Opt
  <2>4. QED
    BY <2>1, <2>2, <2>3
<1>2. ASSUME NEW v \in Opt, v # None PROVE Append(recvs[First][1], v) \in Seq(Int)
  BY <1>1, <1>2 DEF Opt
<1>3. QED
  BY <1>1, <1>2 DEF Entered

\* A step that leaves the first inhibitor and its channel alone lets nothing
\* into the chain.
LEMMA EnteredSame ==
  ASSUME pc'[First] = pc[First], slot'[First] = slot[First],
         recvs'[First] = recvs[First], chan'[Entry(First)] = chan[Entry(First)]
  PROVE  Entered' = Entered
  BY DEF Entered, Entry

\* A step of a node leaves what the others have received alone.
LEMMA OnlyItsTrace ==
  ASSUME TypeOK, NEW n \in Node, Step(n), NEW m \in Node, m # n
  PROVE  recvs'[m] = recvs[m]
  BY DEF TypeOK, Step, Check, Receive, TraceRecv, Fire, InputSend, Send, TraceSend, traceVars

\* A step of a node changes at most one channel: one it polls or sends on.
LEMMA OneChannel ==
  ASSUME TypeOK, NEW n \in Node, Step(n), NEW c \in Chan, chan'[c] # chan[c]
  PROVE  \/ \E p \in {1, 2} : pc[n] = RecvAt(p) /\ c = In[n][p] /\ p \in 1..Len(In[n])
         \/ pc[n] = "send" /\ IsInput(n) /\ c = Out[n][1] /\ 1 \in 1..Len(Out[n])
         \/ pc[n] = "send" /\ ~IsInput(n) /\ c = Out[n][i[n]] /\ i[n] \in 1..Len(Out[n])
<1> USE TypedVars DEF Typed
<1>1. ASSUME NEW p \in {1, 2}, Receive(n, p)
      PROVE  pc[n] = RecvAt(p) /\ c = In[n][p] /\ p \in 1..Len(In[n])
  <2>1. pc[n] = RecvAt(p) /\ c = In[n][p]
    BY <1>1, ChannelsExist DEF Receive
  <2>2. NodeOK(n)
    BY At
  <2>3. p = 1 \/ p = 2
    BY DEF RecvAt
  <2>4. p \in 1..Len(In[n])
    BY <2>1, <2>2, <2>3, Shapes DEF NodeOK, RecvAt
  <2>5. QED
    BY <2>1, <2>4
<1>2. CASE InputSend(n)
  BY <1>2, Shapes DEF InputSend, Offer
<1>3. CASE Send(n)
  BY <1>3, ChannelsExist DEF Send, Offer
<1>4. CASE Check(n) \/ Fire(n) \/ TraceSend(n) \/ TraceRecv(n, 1) \/ TraceRecv(n, 2)
  BY <1>4 DEF Check, Fire, TraceSend, TraceRecv
<1>5. QED
  BY <1>1, <1>2, <1>3, <1>4 DEF Step

\* Only the Input and the gate touch the feed.
LEMMA FeedsOwn ==
  ASSUME TypeOK, NEW n \in Node, Step(n), n # Source1, n # Gate
  PROVE  chan'[Feed] = chan[Feed]
<1> SUFFICES ASSUME chan'[Feed] # chan[Feed] PROVE FALSE
  OBVIOUS
<1>1. /\ \A k \in 1..Len(Out[n]) : Out[n][k] # Feed
      /\ \A k \in 1..Len(In[n]) : In[n][k] # Feed
  BY RingAssumption
<1>2. QED
  BY <1>1, OneChannel, Between

\* Only the gate and the first inhibitor touch the channel between them.
LEMMA EntrysOwn ==
  ASSUME TypeOK, NEW n \in Node, Step(n), n # Gate, n # First
  PROVE  chan'[Entry(First)] = chan[Entry(First)]
<1> SUFFICES ASSUME chan'[Entry(First)] # chan[Entry(First)] PROVE FALSE
  OBVIOUS
<1>1. Entry(First) \in RingChan
  BY RingEntries
<1>2. CASE \E p \in {1, 2} : pc[n] = RecvAt(p) /\ Entry(First) = In[n][p]
  <2>1. n \in RingNode /\ Entry(First) = Entry(n)
    BY <1>1, <1>2, Polls
  <2>2. QED
    BY <2>1, RingAssumption, Cast
<1>3. ASSUME NEW k \in 1..Len(Out[n]), Entry(First) = Out[n][k] PROVE FALSE
  <2>1. n \in RingNode /\ k = Onward[n]
    BY <1>1, <1>3, Sends
  <2>2. QED
    BY <1>3, <2>1, RingAssumption, Cast, Between
<1>4. QED
  BY <1>2, <1>3, OneChannel, Between

-----------------------------------------------------------------------------
(* The steps of the nodes.                                                   *)

\* What a step does to the promise of module Pacing: nothing, or one of its
\* actions.
Idle   == Entered' = Entered /\ (Credit' <=> Credit)
Acks   == Entered' = Entered /\ ~Credit /\ Credit'
Enters == /\ Credit /\ ~Credit'
          /\ Len(Entered) < Len(List)
          /\ Entered' = Append(Entered, List[Len(Entered) + 1])

\* A step that leaves the Input, the gate and the feed alone and lets nothing
\* into the chain keeps the values in line.
LEMMA LinedFrame ==
  ASSUME Lined, Entered' = Entered, chan'[Feed] = chan[Feed],
         pc'[Source1] = pc[Source1], i'[Source1] = i[Source1],
         pc'[Gate] = pc[Gate], slot'[Gate] = slot[Gate]
  PROVE  Lined'
<1>1. Put' = Put /\ (Waiting' <=> Waiting)
  BY DEF Put, Waiting
<1>2. QED
  BY <1>1 DEF Lined, Feed, List, Bit

\* Nobody but the gate takes the acknowledgement.
LEMMA CreditKept ==
  ASSUME TypeOK, NEW n \in Node, Step(n), n # Gate, Credit
  PROVE  Credit'
<1>1. Holds(Gate)' <=> Holds(Gate)
  BY OthersHold, Cast
<1>2. ASSUME chan[Ack] # None PROVE chan'[Ack] # None
  <2> SUFFICES ASSUME chan'[Ack] = None PROVE FALSE
    OBVIOUS
  <2>1. Ack \in RingChan /\ Ack \in Chan
    BY RingEntries, Between
  <2>2. CASE \E p \in {1, 2} : pc[n] = RecvAt(p) /\ Ack = In[n][p]
    <3>1. n \in RingNode /\ Entry(Gate) = Entry(n)
      BY <2>1, <2>2, Polls DEF Ack
    <3>2. QED
      BY <3>1, RingAssumption, Cast
  <2>3. CASE pc[n] = "send"
    <3>1. InputSend(n) \/ Send(n)
      BY <2>3 DEF Step, Check, Receive, TraceRecv, Fire, InputSend, Send, TraceSend,
                  RecvAt, TraceAt
    <3>2. QED
      BY <1>2, <2>1, <3>1, ResultIsInt, RuntimeAssumption, TypedVars
         DEF InputSend, Send, Offer, Typed
  <2>4. QED
    BY <1>2, <2>1, <2>2, <2>3, OneChannel
<1>3. QED
  BY <1>1, <1>2 DEF Credit, Ack, Entry

\* A step of a node outside the three can only acknowledge.
LEMMA StepOfOthers ==
  ASSUME TypeOK, Lined, NEW n \in Node, Step(n), n \notin {Source1, Gate, First}
  PROVE  Lined' /\ (Idle \/ Acks)
<1>1. Entered' = Entered
  BY EnteredSame, EntrysOwn, OnlyItself, OnlyItsTrace, Cast
<1>2. Lined'
  BY <1>1, LinedFrame, FeedsOwn, OnlyItself, Cast
<1>3. QED
  BY <1>1, <1>2, CreditKept DEF Idle, Acks

\* The Input puts its values on the feed one by one.
LEMMA StepOfInput ==
  ASSUME TypeOK, Lined, Step(Source1)
  PROVE  Lined' /\ (Idle \/ Acks)
<1> DEFINE s == Source1
<1>1. Entered' = Entered /\ pc'[Gate] = pc[Gate] /\ slot'[Gate] = slot[Gate]
  BY EnteredSame, EntrysOwn, OnlyItself, OnlyItsTrace, Cast
<1>2. (Waiting' <=> Waiting) /\ Len(Entered) \in Nat
  BY <1>1, EnteredTyped DEF Waiting
<1>3. Idle \/ Acks
  BY <1>1, CreditKept, Cast DEF Idle, Acks
<1>4. NodeOK(s) /\ i[s] \in Nat \ {0} /\ IsInput(s) /\ ~IsGate(s) /\ ~IsChain(s)
      /\ Out[s][1] = Feed /\ Len(Out[s]) = 1 /\ Feed \in Chan
  BY At, Cast, Shapes, Between DEF IsInput, IsGate, IsChain
<1>5. \A l : Goto(s, l) => pc'[s] = l
  BY TypedVars, Cast DEF Typed, Goto
<1>6. CASE chan'[Feed] = chan[Feed] /\ Put' = Put
  BY <1>1, <1>2, <1>3, <1>6 DEF Lined, Feed, List, Bit
<1>7. CASE Check(s)
  <2>1. Put' = Put /\ chan' = chan
    BY <1>4, <1>5, <1>7 DEF Check, Put, Bit
  <2>2. QED
    BY <1>3, <1>6, <2>1
<1>8. CASE Fire(s)
  <2>1. Put' = Put /\ chan' = chan
    BY <1>4, <1>5, <1>8 DEF Fire, Put, Bit
  <2>2. QED
    BY <1>3, <1>6, <2>1
<1>9. CASE TraceSend(s)
  <2>1. i'[s] = i[s] + 1 /\ pc'[s] = "check" /\ chan' = chan /\ pc[s] = "traceSend"
    BY <1>4, <1>5, <1>9, TypedVars, Cast DEF TraceSend, Typed
  <2>2. Put' = Put
    BY <1>4, <2>1 DEF Put, Bit
  <2>3. QED
    BY <1>3, <1>6, <2>1, <2>2
<1>10. CASE InputSend(s)
  <2>1. CASE chan[Feed] # None
    <3>1. chan' = chan /\ pc[s] = "send" /\ pc'[s] = "check" /\ i' = i
      BY <1>4, <1>5, <1>10, <2>1 DEF InputSend, Offer
    <3>2. Put' = Put
      BY <1>4, <3>1 DEF Put, Bit
    <3>3. QED
      BY <1>3, <1>6, <3>1, <3>2
  <2>2. CASE chan[Feed] = None
    <3>1. chan'[Feed] = List[i[s]] /\ pc[s] = "send" /\ pc'[s] = "fire" /\ i' = i
      BY <1>4, <1>5, <1>10, <2>2, TypedVars DEF InputSend, Offer, Result, List, Typed
    <3>2. Put = i[s] - 1 /\ Put' = i[s]
      BY <1>4, <3>1 DEF Put, Bit
    <3>3. chan'[Feed] # None
      BY <1>4, <3>1, Lists, Cast, RuntimeAssumption, SMTT(30) DEF NodeOK, List
    <3>4. Len(Entered) + Bit(Waiting) = Put
      BY <1>2, <2>2 DEF Lined, Bit
    <3>5. Lined'
      BY <1>1, <1>2, <1>4, <3>1, <3>2, <3>3, <3>4 DEF Lined, Feed, List, Bit
    <3>6. QED
      BY <1>3, <3>5
  <2>3. QED
    BY <2>1, <2>2
<1>11. QED
  BY <1>4, <1>7, <1>8, <1>9, <1>10
     DEF Step, Receive, TraceRecv, Send, NodeOK, RecvAt, TraceAt

\* The first inhibitor reports what the gate sent it.
LEMMA StepOfFirst ==
  ASSUME TypeOK, OneToken, Lined, Step(First)
  PROVE  Lined' /\ (Idle \/ Acks)
<1> DEFINE f == First
           c == Entry(First)
           r == recvs[First][1]
<1>1. /\ NodeOK(f) /\ f \in Node /\ f \in RingNode /\ f # Gate /\ Gate \in Node
      /\ ~IsInput(f) /\ ~IsGate(f) /\ IsChain(f)
      /\ c \in Chan /\ c \in RingChan /\ c = In[f][1]
      /\ recvs \in [Node -> [{1, 2} -> Seq(Int)]]
  BY At, Cast, Shapes, Between, RingEntries, TypedVars DEF IsInput, IsGate, IsChain, Typed
<1>2. \A l : Goto(f, l) => pc'[f] = l
  BY <1>1, TypedVars DEF Typed, Goto
<1>3. Entered = IF pc[f] = "trace1"
                THEN IF slot[f][1] = None THEN r ELSE Append(r, slot[f][1])
                ELSE IF chan[c] = None THEN r ELSE Append(r, chan[c])
  BY DEF Entered
<1>4. Entered' = IF pc'[f] = "trace1"
                 THEN IF slot'[f][1] = None THEN r' ELSE Append(r', slot'[f][1])
                 ELSE IF chan'[c] = None THEN r' ELSE Append(r', chan'[c])
  BY DEF Entered, Entry
<1>5. Entered' = Entered
  <2>1. CASE Receive(f, 1)
    <3>1. pc[f] = "recv1" /\ recvs' = recvs
      BY <2>1 DEF Receive, RecvAt, traceVars
    <3>2. CASE slot[f][1] = None /\ chan[c] # None
      <4>1. slot'[f][1] = chan[c] /\ pc'[f] = "trace1"
        BY <1>1, <1>2, <2>1, <3>2, TypedVars DEF Receive, TraceAt, Typed
      <4>2. QED
        BY <1>3, <1>4, <3>1, <3>2, <4>1
    <3>3. CASE ~(slot[f][1] = None /\ chan[c] # None)
      <4>1. chan' = chan /\ pc'[f] # "trace1"
        BY <1>1, <1>2, <2>1, <3>3 DEF Receive, AfterPort
      <4>2. QED
        BY <1>3, <1>4, <3>1, <4>1
    <3>4. QED
      BY <3>2, <3>3
  <2>2. CASE TraceRecv(f, 1)
    <3>1. pc[f] = "trace1" /\ pc'[f] # "trace1" /\ slot[f][1] # None /\ chan' = chan
      BY <1>1, <1>2, <2>2 DEF TraceRecv, TraceAt, AfterPort, NodeOK
    <3>2. r' = Append(r, slot[f][1])
      BY <1>1, <2>2 DEF TraceRecv
    <3>3. chan[c] = None
      BY <1>1, <3>1, HolderAlone DEF Holds
    <3>4. QED
      BY <1>3, <1>4, <3>1, <3>2, <3>3
  <2>3. CASE Check(f) \/ Fire(f) \/ TraceSend(f)
    <3>1. pc[f] # "trace1" /\ pc'[f] # "trace1" /\ chan' = chan /\ recvs' = recvs
      BY <1>2, <2>3 DEF Check, Fire, TraceSend, Finish, traceVars
    <3>2. QED
      BY <1>3, <1>4, <3>1
  <2>4. CASE Send(f)
    <3>1. pc[f] = "send" /\ pc'[f] = "traceSend" /\ recvs' = recvs
      BY <1>2, <2>4 DEF Send, traceVars
    <3>2. Out[f][i[f]] # c
      <4> SUFFICES ASSUME Out[f][i[f]] = c PROVE FALSE
        OBVIOUS
      <4>1. i[f] \in 1..Len(Out[f])
        BY <1>1, <3>1, ChannelsExist
      <4>2. i[f] = Onward[f]
        BY <1>1, <4>1, Sends
      <4>3. QED
        BY <4>2, RingAssumption, Cast, Between
    <3>3. chan'[c] = chan[c]
      BY <1>1, <2>4, <3>1, <3>2, TypedVars DEF Send, Offer, Typed
    <3>4. QED
      BY <1>3, <1>4, <3>1, <3>3
  <2>5. QED
    BY <1>1, <2>1, <2>2, <2>3, <2>4
       DEF Step, Receive, TraceRecv, InputSend, NodeOK, RecvAt, TraceAt
<1>6. Lined'
  BY <1>5, LinedFrame, FeedsOwn, OnlyItself, Cast
<1>7. QED
  BY <1>1, <1>5, <1>6, CreditKept DEF Idle, Acks

\* The gate takes a value and an acknowledgement and lets the value in.
LEMMA StepOfGate ==
  ASSUME TypeOK, OneToken, Lined, Step(Gate)
  PROVE  Lined' /\ (Idle \/ Enters)
<1> DEFINE g == Gate
           c == Entry(First)
<1>1. /\ NodeOK(g) /\ g \in Node /\ g \in RingNode /\ i[g] = 1
      /\ ~IsInput(g) /\ IsGate(g) /\ ~IsChain(g) /\ Len(Out[g]) = 1
      /\ Kind[g] = "ReadGate"
      /\ chan \in [Chan -> Opt] /\ slot \in [Node -> [{1, 2} -> Opt]]
  BY At, Cast, Shapes, Between, RingKinds, TypedVars
     DEF IsInput, IsGate, IsChain, Typed, NodeOK
<1>2. \A l : Goto(g, l) => pc'[g] = l
  BY <1>1, TypedVars DEF Typed, Goto
<1>3. /\ pc'[First] = pc[First] /\ slot'[First] = slot[First]
      /\ recvs'[First] = recvs[First]
      /\ pc'[Source1] = pc[Source1] /\ i'[Source1] = i[Source1]
  BY OnlyItself, OnlyItsTrace, Cast
<1>4. Put' = Put /\ Entered \in Seq(Int) /\ Put \in Int
  BY <1>3, EnteredTyped, At, Cast DEF Put, Bit
<1>5. (Credit <=> chan[Ack] # None \/ Holds(g)) /\ (Credit' <=> chan'[Ack] # None \/ Holds(g)')
  BY DEF Credit, Ack, Entry
<1>6. (Holds(g) <=> slot[g][2] # None /\ pc[g] # "traceSend")
      /\ (Holds(g)' <=> slot'[g][2] # None /\ pc'[g] # "traceSend")
  BY DEF Holds
<1>7. (Waiting <=> slot[g][1] # None /\ pc[g] # "traceSend")
      /\ (Waiting' <=> slot'[g][1] # None /\ pc'[g] # "traceSend")
  BY DEF Waiting
<1>8. ASSUME chan'[c] = chan[c], chan'[Feed] = chan[Feed], Waiting' <=> Waiting,
             slot'[g][1] = slot[g][1] \/ ~Waiting, Credit' <=> Credit
      PROVE  Lined' /\ Idle
  <2>1. Entered' = Entered
    BY <1>3, <1>8, EnteredSame
  <2>2. QED
    BY <1>4, <1>7, <1>8, <2>1 DEF Lined, Feed, List, Bit, Idle
<1>9. CASE Check(g)
  BY <1>2, <1>5, <1>6, <1>7, <1>8, <1>9 DEF Check
<1>10. ASSUME NEW p \in {1, 2}, TraceRecv(g, p) PROVE Lined' /\ Idle
  BY <1>2, <1>5, <1>6, <1>7, <1>8, <1>10 DEF TraceRecv, TraceAt, AfterPort
<1>11. CASE Fire(g)
  BY <1>1, <1>2, <1>5, <1>6, <1>7, <1>8, <1>11 DEF Fire
<1>12. CASE TraceSend(g)
  <2>1. pc[g] = "traceSend" /\ pc'[g] = "check" /\ slot'[g] = [p \in {1, 2} |-> None]
        /\ chan' = chan
    BY <1>1, <1>2, <1>12 DEF TraceSend, Finish
  <2>2. QED
    BY <1>5, <1>6, <1>7, <1>8, <2>1
<1>13. CASE Receive(g, 1)
  <2>1. pc[g] = "recv1" /\ In[g][1] = Feed
    BY <1>13 DEF Receive, RecvAt, Feed
  <2>2. CASE slot[g][1] = None /\ chan[Feed] # None
    <3>1. /\ slot'[g][1] = chan[Feed] /\ slot'[g][2] = slot[g][2]
          /\ pc'[g] = "trace1" /\ chan'[Feed] = None
          /\ chan'[c] = chan[c] /\ chan'[Ack] = chan[Ack]
      BY <1>1, <1>2, <1>13, <2>1, <2>2, Between DEF Receive, TraceAt
    <3>2. Entered' = Entered /\ ~Waiting /\ Waiting' /\ (Credit' <=> Credit)
      BY <1>3, <1>5, <1>6, <1>7, <2>1, <2>2, <3>1, EnteredSame
    <3>3. Len(Entered) + 1 = Put /\ chan[Feed] = List[Put]
      BY <1>4, <2>2, <3>2 DEF Lined, Bit
    <3>4. QED
      BY <1>4, <3>1, <3>2, <3>3 DEF Lined, Feed, List, Bit, Idle
  <2>3. CASE ~(slot[g][1] = None /\ chan[Feed] # None)
    <3>1. chan' = chan /\ slot' = slot /\ pc'[g] = "recv2"
      BY <1>1, <1>2, <1>13, <2>1, <2>3 DEF Receive, AfterPort
    <3>2. QED
      BY <1>5, <1>6, <1>7, <1>8, <2>1, <3>1
  <2>4. QED
    BY <2>2, <2>3
<1>14. CASE Receive(g, 2)
  <2>1. pc[g] = "recv2" /\ In[g][2] = Ack
    BY <1>14, Between DEF Receive, RecvAt
  <2>2. CASE slot[g][2] = None /\ chan[Ack] # None
    <3>1. /\ slot'[g][2] = chan[Ack] /\ slot'[g][1] = slot[g][1]
          /\ pc'[g] = "trace2" /\ chan'[Feed] = chan[Feed] /\ chan'[c] = chan[c]
      BY <1>1, <1>2, <1>14, <2>1, <2>2, Between DEF Receive, TraceAt
    <3>2. QED
      BY <1>5, <1>6, <1>7, <1>8, <2>1, <2>2, <3>1
  <2>3. CASE ~(slot[g][2] = None /\ chan[Ack] # None)
    <3>1. chan' = chan /\ slot' = slot /\ pc'[g] \in {"fire", "check"}
      BY <1>1, <1>2, <1>14, <2>1, <2>3 DEF Receive, AfterPort
    <3>2. QED
      BY <1>5, <1>6, <1>7, <1>8, <2>1, <3>1
  <2>4. QED
    BY <2>2, <2>3
<1>15. CASE Send(g)
  <2>1. pc[g] = "send" /\ pc'[g] = "traceSend" /\ slot' = slot
        /\ slot[g][1] # None /\ slot[g][2] # None
    BY <1>1, <1>2, <1>15 DEF Send, NodeOK, Ready
  <2>2. Holds(g) /\ Waiting /\ ~Holds(g)' /\ ~Waiting'
    BY <1>6, <1>7, <2>1
  <2>3. /\ \A d \in RingChan : chan[d] = None
        /\ ~Holds(First)
    BY <1>1, <2>2, HolderAlone, Cast
  <2>4. chan[c] = None /\ chan[Ack] = None /\ pc[First] # "trace1"
    BY <2>3, RingEntries, Cast DEF Holds
  <2>5. /\ chan'[c] = slot[g][1] /\ chan'[Ack] = None /\ chan'[Feed] = chan[Feed]
    <3>1. Out[g][i[g]] = c /\ Result(g) = slot[g][1]
      BY <1>1, Between DEF Result
    <3>2. QED
      BY <1>1, <1>15, <2>4, <3>1, Between DEF Send, Offer
  <2>6. Entered = recvs[First][1]
    BY <2>4 DEF Entered
  <2>7. Entered' = Append(Entered, slot[g][1])
    <3>1. Entered' = IF pc'[First] = "trace1"
                     THEN IF slot'[First][1] = None THEN recvs'[First][1]
                          ELSE Append(recvs'[First][1], slot'[First][1])
                     ELSE IF chan'[c] = None THEN recvs'[First][1]
                          ELSE Append(recvs'[First][1], chan'[c])
      BY DEF Entered, Entry
    <3>2. QED
      BY <1>3, <2>1, <2>4, <2>5, <2>6, <3>1
  <2>8. slot[g][1] = List[Len(Entered) + 1] /\ slot[g][1] \in Int
    BY <1>1, <2>1, <2>2 DEF Lined, Opt
  <2>9. Len(Entered) < Len(List)
    <3>1. Put <= Len(List)
      BY At, Cast, Lists DEF NodeOK, Put, Bit, List
    <3>2. QED
      BY <1>4, <2>2, <3>1, Lists, Cast DEF Lined, Bit, List
  <2>10. Enters
    BY <1>5, <2>2, <2>5, <2>7, <2>8, <2>9 DEF Enters
  <2>11. Len(Entered') = Len(Entered) + 1
         /\ \A k \in 1..Len(Entered') :
              Entered'[k] = IF k = Len(Entered) + 1 THEN slot[g][1] ELSE Entered[k]
    BY <1>4, <2>7, <2>8
  <2>12. Lined'
    BY <1>4, <2>2, <2>5, <2>8, <2>11, SMTT(30) DEF Lined, Feed, List, Bit
  <2>13. QED
    BY <2>10, <2>12
<1>16. QED
  BY <1>1, <1>9, <1>10, <1>11, <1>12, <1>13, <1>14, <1>15 DEF Step, InputSend

\* Any step of any node: one action of the promise at most.
LEMMA StepPaced ==
  ASSUME TypeOK, OneToken, Lined, NEW n \in Node, Step(n)
  PROVE  Lined' /\ (Idle \/ Acks \/ Enters)
  BY StepOfOthers, StepOfInput, StepOfFirst, StepOfGate

\* What RunTest and the recorder do is no step of the promise.
LEMMA MainIdle ==
  ASSUME Lined, UNCHANGED <<chan, nodeVars, recvs>>
  PROVE  Lined' /\ Idle
<1>1. Entered' = Entered
  BY EnteredSame DEF nodeVars
<1>2. Credit' <=> Credit
  BY DEF Credit, Ack, Entry, Holds, nodeVars
<1>3. QED
  BY <1>1, <1>2, LinedFrame DEF Idle, nodeVars

\* At the start nothing has been put on the feed and the credit is on its way.
LEMMA InitLined ==
  ASSUME Init
  PROVE  Lined /\ Entered = <<>> /\ Credit
<1>1. /\ i[Source1] = 1 /\ pc[Source1] = "check" /\ pc[First] = "check"
      /\ slot[Gate][1] = None /\ recvs[First][1] = <<>>
      /\ chan[Entry(First)] = None /\ chan[Feed] = None /\ chan[Ack] # None
  BY Cast, Between, RingAssumption, RingEntries DEF Init
<1>2. Entered = <<>> /\ Credit
  BY <1>1 DEF Entered, Credit
<1>3. Put = 0 /\ ~Waiting
  BY <1>1 DEF Put, Waiting, Bit
<1>4. QED
  BY <1>1, <1>2, <1>3 DEF Lined, Bit

\* In every ring the values that have entered the chain are the first ones of
\* the input list, in order, and none is lost between the Input, the feed, the
\* gate and the chain.
THEOREM ValuesInLine == Spec => []Lined
<1>1. Init => Lined
  BY InitLined
<1>2. TypeOK /\ OneToken /\ Lined /\ [Next]_vars => Lined'
  BY StepPaced, MainIdle, MainSteps DEF Next
<1>3. QED
  BY <1>1, <1>2, TypeCorrect, RingToken, PTL DEF Spec

\* The runtime implements module Pacing on every ring: whatever the scheduler
\* does, and also through cancellation, input values enter the chain in order,
\* without loss or repetition, one per acknowledgement.
THEOREM RingIsPaced == Spec => Paced
<1>1. Init => Abstract!Init
  BY InitLined DEF Abstract!Init
<1>2. TypeOK /\ OneToken /\ Lined /\ [Next]_vars => [Abstract!Next]_(Abstract!vars)
  <2> SUFFICES ASSUME TypeOK, OneToken, Lined, [Next]_vars
               PROVE  [Abstract!Next]_(Abstract!vars)
    OBVIOUS
  <2>1. (Credit = TRUE <=> Credit) /\ (Credit = FALSE <=> ~Credit)
        /\ (Credit' = TRUE <=> Credit') /\ (Credit' = FALSE <=> ~Credit')
    BY DEF Credit, Holds
  <2>2. Idle \/ Acks \/ Enters
    BY StepPaced, MainIdle, MainSteps DEF Next
  <2>3. CASE Idle
    BY <2>1, <2>3 DEF Idle, Abstract!vars
  <2>4. CASE Acks
    BY <2>1, <2>4 DEF Acks, Abstract!Next, Abstract!Acknowledge
  <2>5. CASE Enters
    BY <2>1, <2>5 DEF Enters, List, Abstract!Next, Abstract!Release
  <2>6. QED
    BY <2>2, <2>3, <2>4, <2>5
<1>3. QED
  BY <1>1, <1>2, ValuesInLine, TypeCorrect, RingToken, PTL DEF Spec, Paced, Abstract!Spec
=============================================================================
