------------------------------ MODULE Runtime ------------------------------
(***************************************************************************)
(* The Go dataflow runtime: one goroutine per node, each looping over      *)
(* non-blocking polls of its input channels and non-blocking sends on its  *)
(* output channels, a trace recorder whose bounded channel the nodes block *)
(* on, and RunTest, which lets the nodes run, cancels them, waits for      *)
(* them and closes the recorder.                                           *)
(*                                                                         *)
(* A step of a node is the code between two accesses to shared state: a    *)
(* read of the context, a poll, a send, an emission on the trace channel.  *)
(* The wiring is a parameter; module Wiring computes it from a topology.   *)
(***************************************************************************)
EXTENDS Integers, Sequences

CONSTANTS
  Node,      \* node ids
  Chan,      \* channels, dead ends of unconnected ports included
  Kind,      \* the kind each node is registered under
  In,        \* input channels of a node, in the order its Update polls them
  Out,       \* output channels of a node, in the order it sends on them
  Source,    \* Init values of an Input node
  Held0,     \* initial HeldValue of a ChainInhibitor
  Prime,     \* what the loader put in a channel before the nodes start
  TraceBuf,  \* capacity of the recorder's channel
  None       \* the empty buffer, the absent value

Kinds == {"Input", "ReadGate", "ChainInhibitor", "InhibitRightGate"}

IsInput(n) == Kind[n] = "Input"
IsChain(n) == Kind[n] = "ChainInhibitor"
IsGate(n)  == Kind[n] \in {"ReadGate", "InhibitRightGate"}

ASSUME RuntimeAssumption ==
  /\ None \notin Int
  /\ TraceBuf \in Nat \ {0}
  /\ Kind \in [Node -> Kinds]
  /\ In \in [Node -> Seq(Chan)]
  /\ Out \in [Node -> Seq(Chan)]
  /\ Source \in [Node -> Seq(Int)]
  /\ Held0 \in [Node -> Int]
  /\ Prime \in [Chan -> Int \cup {None}]
  /\ \A n \in Node :
       /\ IsInput(n) => Len(In[n]) = 0 /\ Len(Out[n]) = 1
       /\ IsGate(n)  => Len(In[n]) = 2 /\ Len(Out[n]) = 1
       /\ IsChain(n) => Len(In[n]) = 1

VARIABLES
  chan,    \* the one-place buffer of each channel
  pc,      \* where each node's goroutine is
  i,       \* Input: index into Init; others: index into the output channels
  slot,    \* per input port: Value/HasValue, Left/HasLeft, ...; for a
           \* ChainInhibitor, port 1 is the local variable `value`
  held,    \* HeldValue
  recvs,   \* values of the recv events emitted, per node and input port
  fires,   \* number of fire events emitted, per node
  sends,   \* values of the send events emitted, per node
  tbuf,    \* events in the recorder's channel
  main     \* where RunTest is

nodeVars  == <<pc, i, slot, held>>
traceVars == <<recvs, fires, sends, tbuf>>
vars      == <<chan, pc, i, slot, held, recvs, fires, sends, tbuf, main>>

Opt    == Int \cup {None}
PCs    == {"check", "recv1", "trace1", "recv2", "trace2", "fire", "send",
           "traceSend", "done"}
RecvAt(p)  == IF p = 1 THEN "recv1" ELSE "recv2"
TraceAt(p) == IF p = 1 THEN "trace1" ELSE "trace2"

Cancelled == main # "sleep"
Closed    == main \in {"drain", "exit"}

Init ==
  /\ chan  = Prime
  /\ pc    = [n \in Node |-> "check"]
  /\ i     = [n \in Node |-> 1]
  /\ slot  = [n \in Node |-> [p \in {1, 2} |-> None]]
  /\ held  = Held0
  /\ recvs = [n \in Node |-> [p \in {1, 2} |-> <<>>]]
  /\ fires = [n \in Node |-> 0]
  /\ sends = [n \in Node |-> <<>>]
  /\ tbuf  = 0
  /\ main  = "sleep"

-----------------------------------------------------------------------------
(* What the steps are made of. *)

Goto(n, l) == pc' = [pc EXCEPT ![n] = l]

\* Trace.Recv, Fire and Send put one event on the recorder's channel and
\* block while it is full.
Emit == tbuf < TraceBuf /\ tbuf' = tbuf + 1

\* SafeWorker.Send: the value is dropped when the channel's buffer is full.
Offer(c, v) ==
  chan' = IF chan[c] = None THEN [chan EXCEPT ![c] = v] ELSE chan

\* A mistake: a gate passes on its second input.
ResultOfSecond(n) ==
  IF IsInput(n) THEN Source[n][i[n]]
  ELSE IF IsChain(n) THEN held[n]
  ELSE slot[n][2]

\* The value a firing node emits.
Result(n) ==
  IF IsInput(n) THEN Source[n][i[n]]
  ELSE IF IsChain(n) THEN held[n]
  ELSE IF Kind[n] = "ReadGate" THEN slot[n][1]
  ELSE \* InhibitRightGate
       IF slot[n][1] = 1 /\ slot[n][2] = 0 THEN 1 ELSE 0

\* A mistake: the gate does not wait for the acknowledgement.
ReadyWithoutAck(n) == slot[n][1] # None

\* The precondition of a firing: a value in every input slot.
Ready(n) == /\ slot[n][1] # None
            /\ IsGate(n) => slot[n][2] # None

\* Where the loop body goes once port p has been polled.
AfterPort(n, p) == IF IsGate(n) /\ p = 1 THEN "recv2"
                   ELSE IF Ready(n) THEN "fire" ELSE "check"

\* A mistake: the gate clears the flag of its first input only.
FinishKeepsAck(n) ==
  /\ held' = IF IsChain(n) THEN [held EXCEPT ![n] = slot[n][1]] ELSE held
  /\ slot' = [slot EXCEPT ![n][1] = None]
  /\ i'    = [i EXCEPT ![n] = 1]
  /\ Goto(n, "check")

\* The end of a firing: a ChainInhibitor moves `value` into HeldValue, a gate
\* clears both of its flags; the loop starts over.
Finish(n) ==
  /\ held' = IF IsChain(n) THEN [held EXCEPT ![n] = slot[n][1]] ELSE held
  /\ slot' = [slot EXCEPT ![n] = [p \in {1, 2} |-> None]]
  /\ i'    = [i EXCEPT ![n] = 1]
  /\ Goto(n, "check")

-----------------------------------------------------------------------------
(* The steps of a node. *)

\* A mistake: the loop over Init runs one turn too far.
CheckOffByOne(n) ==
  /\ pc[n] = "check"
  /\ Goto(n, IF \/ IsInput(n) /\ i[n] > Len(Source[n]) + 1
                \/ Cancelled
             THEN "done"
             ELSE IF IsInput(n) THEN "send" ELSE "recv1")
  /\ UNCHANGED <<chan, i, slot, held, traceVars, main>>

\* A mistake: only an Input looks at the context.
CheckIgnoresCancel(n) ==
  /\ pc[n] = "check"
  /\ Goto(n, IF IsInput(n) /\ (i[n] > Len(Source[n]) \/ Cancelled) THEN "done"
             ELSE IF IsInput(n) THEN "send" ELSE "recv1")
  /\ UNCHANGED <<chan, i, slot, held, traceVars, main>>

\* The head of the loop: an Input that has sent all its values returns; any
\* node returns when the context is cancelled.
Check(n) ==
  /\ pc[n] = "check"
  /\ Goto(n, IF \/ IsInput(n) /\ i[n] > Len(Source[n])
                \/ Cancelled
             THEN "done"
             ELSE IF IsInput(n) THEN "send" ELSE "recv1")
  /\ UNCHANGED <<chan, i, slot, held, traceVars, main>>

\* A mistake: the value is looked at and left in the channel.
ReceivePeeks(n, p) ==
  /\ pc[n] = RecvAt(p)
  /\ IF slot[n][p] = None /\ chan[In[n][p]] # None
     THEN slot' = [slot EXCEPT ![n][p] = chan[In[n][p]]] /\ Goto(n, TraceAt(p))
     ELSE Goto(n, AfterPort(n, p)) /\ UNCHANGED slot
  /\ UNCHANGED <<chan, i, held, traceVars, main>>

\* A non-blocking receive on port p, tried only while its slot is empty.
Receive(n, p) ==
  /\ pc[n] = RecvAt(p)
  /\ LET c == In[n][p]
     IN  IF slot[n][p] = None /\ chan[c] # None
         THEN /\ slot' = [slot EXCEPT ![n][p] = chan[c]]
              /\ chan' = [chan EXCEPT ![c] = None]
              /\ Goto(n, TraceAt(p))
         ELSE Goto(n, AfterPort(n, p)) /\ UNCHANGED <<slot, chan>>
  /\ UNCHANGED <<i, held, traceVars, main>>

\* Trace.Recv for the value just received.
TraceRecv(n, p) ==
  /\ pc[n] = TraceAt(p)
  /\ Emit
  /\ recvs' = [recvs EXCEPT ![n][p] = Append(@, slot[n][p])]
  /\ Goto(n, AfterPort(n, p))
  /\ UNCHANGED <<chan, i, slot, held, fires, sends, main>>

\* Trace.Fire. An Input fires after its value went out, the others before.
Fire(n) ==
  /\ pc[n] = "fire"
  /\ Emit
  /\ fires' = [fires EXCEPT ![n] = @ + 1]
  /\ IF Len(Out[n]) = 0
     THEN Finish(n)
     ELSE /\ Goto(n, IF IsInput(n) THEN "traceSend" ELSE "send")
          /\ UNCHANGED <<i, slot, held>>
  /\ UNCHANGED <<chan, recvs, sends, main>>

\* A mistake: the Input returns when the channel is full.
InputSendGivesUp(n) ==
  /\ pc[n] = "send" /\ IsInput(n)
  /\ Offer(Out[n][1], Result(n))
  /\ Goto(n, IF chan[Out[n][1]] = None THEN "fire" ELSE "done")
  /\ UNCHANGED <<i, slot, held, traceVars, main>>

\* InputNode's non-blocking send: the index moves on only if the value went
\* out, otherwise the loop tries again.
InputSend(n) ==
  /\ pc[n] = "send" /\ IsInput(n)
  /\ Offer(Out[n][1], Result(n))
  /\ Goto(n, IF chan[Out[n][1]] = None THEN "fire" ELSE "check")
  /\ UNCHANGED <<i, slot, held, traceVars, main>>

\* S.Send of the other kinds: whether the value went out is not looked at.
Send(n) ==
  /\ pc[n] = "send" /\ ~IsInput(n)
  /\ Offer(Out[n][i[n]], Result(n))
  /\ Goto(n, "traceSend")
  /\ UNCHANGED <<i, slot, held, traceVars, main>>

\* Trace.Send, then the next value of an Input, the next output of a fan-out,
\* or the end of the firing.
TraceSend(n) ==
  /\ pc[n] = "traceSend"
  /\ Emit
  /\ sends' = [sends EXCEPT ![n] = Append(@, Result(n))]
  /\ IF IsInput(n) \/ i[n] < Len(Out[n])
     THEN /\ i' = [i EXCEPT ![n] = @ + 1]
          /\ Goto(n, IF IsInput(n) THEN "check" ELSE "send")
          /\ UNCHANGED <<slot, held>>
     ELSE Finish(n)
  /\ UNCHANGED <<chan, recvs, fires, main>>

Step(n) ==
  \/ Check(n)
  \/ Receive(n, 1)   \/ Receive(n, 2)
  \/ TraceRecv(n, 1) \/ TraceRecv(n, 2)
  \/ Fire(n)
  \/ InputSend(n)    \/ Send(n)
  \/ TraceSend(n)

-----------------------------------------------------------------------------
(* RunTest and the recorder's drain goroutine. *)

\* The sleep is over: cancel().
Cancel ==
  /\ main = "sleep"
  /\ main' = "wait"
  /\ UNCHANGED <<chan, nodeVars, traceVars>>

\* A mistake: the recorder is closed without waiting for the nodes.
CloseAtOnce ==
  /\ main = "wait"
  /\ main' = "drain"
  /\ UNCHANGED <<chan, nodeVars, traceVars>>

\* wg.Wait() returns when every Update has returned; then Close closes the
\* recorder's channel and waits for the drain goroutine.
Close ==
  /\ main = "wait"
  /\ \A n \in Node : pc[n] = "done"
  /\ main' = "drain"
  /\ UNCHANGED <<chan, nodeVars, traceVars>>

\* One iteration of the drain goroutine.
Drain ==
  /\ tbuf > 0
  /\ tbuf' = tbuf - 1
  /\ UNCHANGED <<chan, nodeVars, recvs, fires, sends, main>>

\* The drain goroutine leaves its range loop: Close and RunTest return.
Exit ==
  /\ main = "drain" /\ tbuf = 0
  /\ main' = "exit"
  /\ UNCHANGED <<chan, nodeVars, traceVars>>

Terminated == main = "exit" /\ UNCHANGED vars

Next ==
  \/ \E n \in Node : Step(n)
  \/ Cancel \/ Close \/ Drain \/ Exit
  \/ Terminated

Spec == Init /\ [][Next]_vars

\* The behaviours of the time before the runtime is cancelled.
Running == Init /\ [][(\E n \in Node : Step(n)) \/ Drain]_vars

\* The Go scheduler runs every runnable goroutine again and again; main's sleep
\* may last as long as it likes.
FairSpec == /\ Spec
            /\ \A n \in Node : WF_vars(Step(n))
            /\ WF_vars(Drain) /\ WF_vars(Close) /\ WF_vars(Exit)

-----------------------------------------------------------------------------
(* Properties. *)

\* Where a node can be in its loop, and what it has at hand there: the input
\* value or output channel it indexes exists, and so does the value of every
\* slot it is about to use.
NodeOK(n) ==
  /\ IsInput(n) =>
       /\ pc[n] \in {"check", "send", "fire", "traceSend", "done"}
       /\ i[n] <= Len(Source[n]) + 1
       /\ pc[n] \in {"send", "fire", "traceSend"} => i[n] <= Len(Source[n])
  /\ IsGate(n) =>
       /\ i[n] = 1
       /\ pc[n] \in {"fire", "send", "traceSend"} => Ready(n)
       /\ \A p \in {1, 2} : pc[n] = TraceAt(p) => slot[n][p] # None
  /\ IsChain(n) =>
       /\ pc[n] \notin {"recv2", "trace2"}
       /\ pc[n] \in {"check", "recv1", "done"} <=> slot[n][1] = None
       /\ IF pc[n] \in {"send", "traceSend"} THEN i[n] <= Len(Out[n]) ELSE i[n] = 1

\* Every variable keeps its type, and no node indexes past an end or reads an
\* empty slot, whatever the other nodes do in between.
TypeOK ==
  /\ chan \in [Chan -> Opt]
  /\ pc \in [Node -> PCs]
  /\ i \in [Node -> Nat \ {0}]
  /\ slot \in [Node -> [{1, 2} -> Opt]]
  /\ held \in [Node -> Int]
  /\ recvs \in [Node -> [{1, 2} -> Seq(Int)]]
  /\ fires \in [Node -> Nat]
  /\ sends \in [Node -> Seq(Int)]
  /\ tbuf \in 0..TraceBuf
  /\ main \in {"sleep", "wait", "drain", "exit"}
  /\ \A n \in Node : NodeOK(n)

\* No node is left that could emit once RunTest has closed the recorder's
\* channel: an emission there would panic (main.go waits before it closes).
NoEmitAfterClose == Closed => \A n \in Node : pc[n] = "done"

\* RunTest comes back once it has cancelled the nodes: they get out of their
\* loops, also those that wait for room in the recorder's channel.
ShutdownCompletes == Cancelled ~> main = "exit"
=============================================================================
