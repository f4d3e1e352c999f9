--------------------------- MODULE RuntimeProofs ---------------------------
(* Proofs about the runtime, for every wiring.                               *)
EXTENDS Runtime, TLAPS

\* Every node is of one of three shapes, and what that says of its channels.
LEMMA Shapes ==
  ASSUME NEW n \in Node
  PROVE  \/ IsInput(n) /\ ~IsGate(n) /\ ~IsChain(n) /\ Len(In[n]) = 0 /\ Len(Out[n]) = 1
         \/ ~IsInput(n) /\ IsGate(n) /\ ~IsChain(n) /\ Len(In[n]) = 2 /\ Len(Out[n]) = 1
         \/ ~IsInput(n) /\ ~IsGate(n) /\ IsChain(n) /\ Len(In[n]) = 1
  BY RuntimeAssumption DEF IsInput, IsGate, IsChain, Kinds

\* What a node has are lists: ports, outputs, Init values.
LEMMA Lists ==
  ASSUME NEW n \in Node
  PROVE  /\ \A k \in 1..Len(In[n]) : In[n][k] \in Chan
         /\ \A k \in 1..Len(Out[n]) : Out[n][k] \in Chan
         /\ \A k \in 1..Len(Source[n]) : Source[n][k] \in Int
         /\ Len(In[n]) \in Nat /\ Len(Out[n]) \in Nat /\ Len(Source[n]) \in Nat
  BY RuntimeAssumption

\* The type invariant, said of one node.
LEMMA At ==
  ASSUME TypeOK, NEW n \in Node
  PROVE  /\ NodeOK(n) /\ pc[n] \in PCs /\ i[n] \in Nat \ {0} /\ held[n] \in Int
         /\ \A p \in {1, 2} : slot[n][p] \in Int \cup {None}
  BY DEF TypeOK, Opt

\* What a node sends is an integer.
LEMMA ResultIsInt ==
  ASSUME TypeOK, NEW n \in Node, pc[n] \in {"send", "traceSend"}
  PROVE  Result(n) \in Int
  BY At, Shapes, Lists DEF Result, NodeOK, Ready, Opt, IsInput, IsGate, IsChain, Kinds

\* A node polls and sends on channels it has.
LEMMA ChannelsExist ==
  ASSUME TypeOK, NEW n \in Node
  PROVE  /\ \A p \in {1, 2} : pc[n] = RecvAt(p) => In[n][p] \in Chan
         /\ pc[n] \in {"send", "traceSend"} /\ IsInput(n) => Out[n][1] \in Chan
         /\ pc[n] \in {"send", "traceSend"} /\ ~IsInput(n) =>
              i[n] \in 1..Len(Out[n]) /\ Out[n][i[n]] \in Chan
<1>1. ASSUME NEW p \in {1, 2}, pc[n] = RecvAt(p) PROVE p \in 1..Len(In[n])
  BY <1>1, At, Shapes, SMTT(30) DEF NodeOK, RecvAt, IsInput, IsGate, IsChain
<1>2. ASSUME pc[n] \in {"send", "traceSend"}, ~IsInput(n) PROVE i[n] \in 1..Len(Out[n])
  <2>1. i[n] \in Nat \ {0} /\ NodeOK(n)
    BY At
  <2>2. CASE IsGate(n)
    <3>1. i[n] = 1
      BY <2>1, <2>2 DEF NodeOK
    <3>2. Len(Out[n]) = 1
      BY <2>2, Shapes DEF IsInput, IsGate, IsChain
    <3>3. QED
      BY <3>1, <3>2
  <2>3. CASE IsChain(n)
    BY <1>2, <2>1, <2>3, Lists DEF NodeOK
  <2>4. QED
    BY <1>2, <2>2, <2>3, Shapes DEF IsInput, IsGate, IsChain
<1>3. QED
  BY <1>1, <1>2, Shapes, Lists

\* A node whose variables a step leaves alone stays in order.
LEMMA Frame ==
  ASSUME NEW m \in Node, NodeOK(m), pc'[m] = pc[m], i'[m] = i[m], slot'[m] = slot[m]
  PROVE  NodeOK(m)'
  BY DEF NodeOK, Ready

\* A step of node n touches the control of no other node.
LEMMA OnlyItself ==
  ASSUME TypeOK, NEW n \in Node, Step(n), NEW m \in Node, m # n
  PROVE  pc'[m] = pc[m] /\ i'[m] = i[m] /\ slot'[m] = slot[m]
  BY SMTT(30) DEF TypeOK, Step, Check, Receive, TraceRecv, Fire, InputSend, Send,
                      TraceSend, Finish, Goto

\* The types of the variables, without the control of the nodes.
Typed ==
  /\ chan \in [Chan -> Opt]
  /\ pc \in [Node -> PCs]
  /\ i \in [Node -> Nat \ {0}]
  /\ slot \in [Node -> [{1, 2} -> Opt]]
  /\ held \in [Node -> Int]
  /\ recvs \in [Node -> [{1, 2} -> Seq(Int)]]
  /\ fires \in [Node -> Nat]
  /\ sends \in [Node -> Seq(Int)]
  /\ tbuf \in 0..TraceBuf
  /\ main \in {"sleep", "wait", "drain", "exit"}

\* The types alone, as part of the invariant.
LEMMA TypedVars == TypeOK => Typed
  BY DEF TypeOK, Typed

\* A step moves its node to one of the places of the loop.
LEMMA Moves ==
  ASSUME NEW n \in Node, Step(n)
  PROVE  \E l \in PCs : Goto(n, l)
<1> USE DEF PCs
<1>1. ASSUME NEW p \in {1, 2} PROVE AfterPort(n, p) \in PCs /\ TraceAt(p) \in PCs
  BY DEF AfterPort, TraceAt
<1>2. CASE Check(n)
  BY <1>2 DEF Check
<1>3. ASSUME NEW p \in {1, 2}, Receive(n, p) PROVE \E l \in PCs : Goto(n, l)
  BY <1>1, <1>3 DEF Receive
<1>4. ASSUME NEW p \in {1, 2}, TraceRecv(n, p) PROVE \E l \in PCs : Goto(n, l)
  BY <1>1, <1>4 DEF TraceRecv
<1>5. CASE Fire(n)
  BY <1>5 DEF Fire, Finish
<1>6. CASE InputSend(n)
  BY <1>6 DEF InputSend
<1>7. CASE Send(n)
  BY <1>7 DEF Send
<1>8. CASE TraceSend(n)
  BY <1>8 DEF TraceSend, Finish
<1>9. QED
  BY <1>2, <1>3, <1>4, <1>5, <1>6, <1>7, <1>8 DEF Step

\* The end of a firing keeps the types: a ChainInhibitor has a value to hold.
LEMMA FinishTyped ==
  ASSUME Typed, NEW n \in Node, Finish(n), IsChain(n) => slot[n][1] \in Int
  PROVE  /\ i' \in [Node -> Nat \ {0}] /\ held' \in [Node -> Int]
         /\ slot' \in [Node -> [{1, 2} -> Opt]]
<1>1. [p \in {1, 2} |-> None] \in [{1, 2} -> Opt]
  BY DEF Opt
<1>2. held' \in [Node -> Int]
  <2>1. CASE IsChain(n)
    BY <2>1 DEF Typed, Finish
  <2>2. CASE ~IsChain(n)
    BY <2>2 DEF Typed, Finish
  <2>3. QED
    BY <2>1, <2>2
<1>3. QED
  BY <1>1, <1>2 DEF Typed, Finish

\* A step of a node keeps the types of all variables.
LEMMA StepTyped ==
  ASSUME TypeOK, NEW n \in Node, Step(n)
  PROVE  Typed'
<1>1. Typed
  BY TypedVars
<1>2. pc' \in [Node -> PCs]
  BY <1>1, Moves DEF Typed, Goto
<1>3. CASE Check(n)
  BY <1>1, <1>2, <1>3 DEF Check, Typed, traceVars
<1>4. ASSUME NEW p \in {1, 2}, Receive(n, p) PROVE Typed'
  <2>1. In[n][p] \in Chan
    BY <1>4, ChannelsExist DEF Receive
  <2>2. chan[In[n][p]] \in Opt /\ None \in Opt
    BY <1>1, <2>1 DEF Typed, Opt
  <2>3. chan' \in [Chan -> Opt]
    BY <1>1, <1>4, <2>2 DEF Receive, Typed
  <2>4. slot' \in [Node -> [{1, 2} -> Opt]]
    <3>1. CASE slot' = slot
      BY <1>1, <3>1 DEF Typed
    <3>2. CASE slot' = [slot EXCEPT ![n][p] = chan[In[n][p]]]
      BY <1>1, <2>2, <3>2 DEF Typed
    <3>3. QED
      BY <1>4, <3>1, <3>2 DEF Receive
  <2>5. QED
    BY <1>1, <1>2, <1>4, <2>3, <2>4 DEF Receive, Typed, traceVars
<1>5. ASSUME NEW p \in {1, 2}, TraceRecv(n, p) PROVE Typed'
  <2>1. slot[n][p] \in Int
    BY <1>5, At, Shapes DEF TraceRecv, NodeOK, TraceAt, IsInput, IsGate, IsChain
  <2>2. recvs' \in [Node -> [{1, 2} -> Seq(Int)]]
    BY <1>1, <1>5, <2>1, SMTT(30) DEF TraceRecv, Typed
  <2>3. tbuf' \in 0..TraceBuf
    BY <1>1, <1>5, RuntimeAssumption DEF TraceRecv, Emit, Typed
  <2>4. QED
    BY <1>1, <1>2, <1>5, <2>2, <2>3 DEF TraceRecv, Typed
<1>6. CASE Fire(n)
  <2>1. IsChain(n) => slot[n][1] \in Int
    BY <1>6, At DEF Fire, NodeOK
  <2>2. i' \in [Node -> Nat \ {0}] /\ held' \in [Node -> Int]
        /\ slot' \in [Node -> [{1, 2} -> Opt]]
    <3>1. CASE Finish(n)
      BY <1>1, <2>1, <3>1, FinishTyped
    <3>2. CASE UNCHANGED <<i, slot, held>>
      BY <1>1, <3>2 DEF Typed
    <3>3. QED
      BY <1>6, <3>1, <3>2 DEF Fire
  <2>3. tbuf' \in 0..TraceBuf /\ fires' \in [Node -> Nat]
    BY <1>1, <1>6, RuntimeAssumption DEF Fire, Emit, Typed
  <2>4. QED
    BY <1>1, <1>2, <1>6, <2>2, <2>3 DEF Fire, Typed
<1>7. CASE InputSend(n)
  <2>1. Result(n) \in Opt /\ Out[n][1] \in Chan
    BY <1>7, ResultIsInt, ChannelsExist DEF InputSend, Opt
  <2>2. chan' \in [Chan -> Opt]
    BY <1>1, <1>7, <2>1 DEF InputSend, Offer, Typed
  <2>3. QED
    BY <1>1, <1>2, <1>7, <2>2 DEF InputSend, Typed, traceVars
<1>8. CASE Send(n)
  <2>1. Result(n) \in Opt /\ Out[n][i[n]] \in Chan
    BY <1>8, ResultIsInt, ChannelsExist DEF Send, Opt
  <2>2. chan' \in [Chan -> Opt]
    BY <1>1, <1>8, <2>1 DEF Send, Offer, Typed
  <2>3. QED
    BY <1>1, <1>2, <1>8, <2>2 DEF Send, Typed, traceVars
<1>9. CASE TraceSend(n)
  <2>1. IsChain(n) => slot[n][1] \in Int
    BY <1>9, At DEF TraceSend, NodeOK
  <2>2. i' \in [Node -> Nat \ {0}] /\ held' \in [Node -> Int]
        /\ slot' \in [Node -> [{1, 2} -> Opt]]
    <3>1. CASE Finish(n)
      BY <1>1, <2>1, <3>1, FinishTyped
    <3>2. CASE i' = [i EXCEPT ![n] = @ + 1] /\ UNCHANGED <<slot, held>>
      BY <1>1, <3>2 DEF Typed
    <3>3. QED
      BY <1>9, <3>1, <3>2 DEF TraceSend
  <2>3. sends' \in [Node -> Seq(Int)]
    BY <1>1, <1>9, ResultIsInt DEF TraceSend, Typed
  <2>4. tbuf' \in 0..TraceBuf
    BY <1>1, <1>9, RuntimeAssumption DEF TraceSend, Emit, Typed
  <2>5. QED
    BY <1>1, <1>2, <1>9, <2>2, <2>3, <2>4 DEF TraceSend, Typed
<1>10. QED
  BY <1>3, <1>4, <1>5, <1>6, <1>7, <1>8, <1>9 DEF Step

\* A step of a node leaves every node with what it needs at hand.
LEMMA StepNodeOK ==
  ASSUME TypeOK, NEW n \in Node, Step(n)
  PROVE  NodeOK(n)'
<1>1. NodeOK(n) /\ i[n] \in Nat \ {0} /\ \A p \in {1, 2} : slot[n][p] \in Opt
  BY At DEF Opt
<1>2. /\ pc'[n] = pc'[n] /\ \A l : Goto(n, l) => pc'[n] = l
      /\ Finish(n) => i'[n] = 1 /\ pc'[n] = "check" /\ slot'[n] = [p \in {1, 2} |-> None]
  BY TypedVars DEF Typed, Goto, Finish
<1> USE Shapes, Lists DEF NodeOK, Ready, TraceAt, IsInput, IsGate, IsChain
<1>3. CASE Check(n)
  BY <1>1, <1>2, <1>3 DEF Check
<1>4. ASSUME NEW p \in {1, 2}, Receive(n, p) PROVE NodeOK(n)'
  BY <1>1, <1>2, <1>4, TypedVars, SMTT(30) DEF Receive, AfterPort, RecvAt, Typed
<1>5. ASSUME NEW p \in {1, 2}, TraceRecv(n, p) PROVE NodeOK(n)'
  BY <1>1, <1>2, <1>5 DEF TraceRecv, AfterPort
<1>6. CASE Fire(n)
  BY <1>1, <1>2, <1>6 DEF Fire
<1>7. CASE InputSend(n)
  BY <1>1, <1>2, <1>7 DEF InputSend
<1>8. CASE Send(n)
  BY <1>1, <1>2, <1>8 DEF Send
<1>9. CASE TraceSend(n)
  <2>1. i' = [i EXCEPT ![n] = @ + 1] => i'[n] = i[n] + 1
    BY TypedVars DEF Typed
  <2>2. QED
    BY <1>1, <1>2, <1>9, <2>1 DEF TraceSend
<1>10. QED
  BY <1>3, <1>4, <1>5, <1>6, <1>7, <1>8, <1>9 DEF Step

\* TypeOK of Runtime: no node ever indexes past an end or reads an empty slot.
THEOREM TypeCorrect == Spec => []TypeOK
<1>1. Init => TypeOK
  <2> SUFFICES ASSUME Init PROVE TypeOK
    OBVIOUS
  <2>1. Typed
    BY RuntimeAssumption DEF Init, Typed, PCs, Opt
  <2>2. ASSUME NEW n \in Node PROVE NodeOK(n)
    BY Shapes, Lists DEF Init, NodeOK, TraceAt
  <2>3. QED
    BY <2>1, <2>2 DEF TypeOK, Typed
<1>2. TypeOK /\ [Next]_vars => TypeOK'
  <2> SUFFICES ASSUME TypeOK, [Next]_vars PROVE TypeOK'
    OBVIOUS
  <2>1. ASSUME NEW n \in Node, Step(n) PROVE TypeOK'
    <3>1. Typed'
      BY <2>1, StepTyped
    <3>2. ASSUME NEW m \in Node PROVE NodeOK(m)'
      BY <2>1, StepNodeOK, OnlyItself, Frame DEF TypeOK
    <3>3. QED
      BY <3>1, <3>2 DEF TypeOK, Typed
  <2>2. CASE Cancel \/ Close \/ Drain \/ Exit \/ Terminated \/ UNCHANGED vars
    <3>1. UNCHANGED <<chan, nodeVars, recvs, fires, sends>>
      BY <2>2 DEF Cancel, Close, Drain, Exit, Terminated, vars, nodeVars, traceVars
    <3>2. tbuf' \in 0..TraceBuf /\ main' \in {"sleep", "wait", "drain", "exit"}
      BY <2>2, RuntimeAssumption
         DEF TypeOK, Cancel, Close, Drain, Exit, Terminated, vars, traceVars
    <3>3. \A m \in Node : NodeOK(m)'
      BY <3>1, Frame DEF TypeOK, nodeVars
    <3>4. QED
      BY <3>1, <3>2, <3>3 DEF TypeOK, nodeVars
  <2>3. QED
    BY <2>1, <2>2 DEF Next
<1>3. QED
  BY <1>1, <1>2, PTL DEF Spec

\* A node that has returned takes no step.
LEMMA DoneIsForGood ==
  ASSUME NEW n \in Node, Step(n)
  PROVE  pc[n] # "done" /\ main' = main
  BY DEF Step, Check, Receive, TraceRecv, Fire, InputSend, Send, TraceSend, RecvAt, TraceAt

\* RunTest closes the recorder's channel only once no node can emit any more.
THEOREM ClosedIsQuiet == Spec => []NoEmitAfterClose
<1>1. Init => NoEmitAfterClose
  BY DEF Init, NoEmitAfterClose, Closed
<1>2. NoEmitAfterClose /\ [Next]_vars => NoEmitAfterClose'
  <2> SUFFICES ASSUME NoEmitAfterClose, [Next]_vars PROVE NoEmitAfterClose'
    OBVIOUS
  <2>1. ASSUME NEW n \in Node, Step(n) PROVE NoEmitAfterClose'
    BY <2>1, DoneIsForGood DEF NoEmitAfterClose, Closed
  <2>2. CASE Cancel
    BY <2>2 DEF Cancel, NoEmitAfterClose, Closed
  <2>3. CASE Close
    BY <2>3 DEF Close, nodeVars, NoEmitAfterClose
  <2>4. CASE Drain \/ Exit \/ Terminated \/ UNCHANGED vars
    BY <2>4 DEF Drain, Exit, Terminated, vars, nodeVars, NoEmitAfterClose, Closed
  <2>5. QED
    BY <2>1, <2>2, <2>3, <2>4 DEF Next
<1>3. QED
  BY <1>1, <1>2, PTL DEF Spec
=============================================================================
