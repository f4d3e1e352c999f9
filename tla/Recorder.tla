------------------------------ MODULE Recorder ------------------------------
(***************************************************************************)
(* The trace recorder and the process's standard output.  Nodes print a    *)
(* line of their own and emit events on the recorder's bounded channel;    *)
(* one drain goroutine numbers the events, keeps them, and streams each as *)
(* a JSON line to the same standard output, in two writes.  Close ends the *)
(* stream once the nodes have returned.                                    *)
(***************************************************************************)
EXTENDS Integers, Sequences, FiniteSets, SequencesExt

CONSTANTS
  Emitter,   \* the node goroutines
  Burst,     \* events each of them emits before it returns
  Buf,       \* capacity of the recorder's channel
  Prints,    \* TRUE: nodes print to standard output as well
  Closer,    \* callers of Close
  Nobody     \* no caller

ASSUME RecorderAssumption ==
  /\ IsFiniteSet(Emitter) /\ Burst \in Nat \ {0} /\ Buf \in Nat \ {0}
  /\ Prints \in BOOLEAN
  /\ Nobody \notin Closer

VARIABLES
  node,     \* per emitter: "print", "emit" or "returned"
  emitted,  \* per emitter: how many events it has emitted
  ch,       \* the channel of events
  closed,   \* the channel is closed
  owner,    \* the caller of Close that closed it
  closer,   \* per caller of Close: "idle", "waiting" or "returned"
  drain,    \* the drain goroutine: "range", "write", "newline" or "done"
  events,   \* Trace.events; an event's Step is its position less one
  partial,  \* the events on standard output's unfinished last line
  lines,    \* its finished lines: their events, and whether a print ended them
  panicked  \* the process died on a closed channel

recVars == <<ch, closed, owner, drain, events>>
outVars == <<partial, lines>>
vars == <<node, emitted, ch, closed, owner, closer, drain, events, partial,
          lines, panicked>>

Event(e, k) == <<"event", e, k>>
StartPc == IF Prints THEN "print" ELSE "emit"

Init ==
  /\ node = [e \in Emitter |-> StartPc]
  /\ emitted = [e \in Emitter |-> 0]
  /\ ch = <<>> /\ closed = FALSE /\ owner = Nobody
  /\ closer = [c \in Closer |-> "idle"]
  /\ drain = "range" /\ events = <<>>
  /\ partial = <<>> /\ lines = <<>>
  /\ panicked = FALSE

\* fmt.Printf of a node: one write that ends in a newline, after whatever is
\* on the line already.
Printf(e) ==
  /\ node[e] = "print"
  /\ lines' = Append(lines, [events |-> partial, print |-> TRUE])
  /\ partial' = <<>>
  /\ node' = [node EXCEPT ![e] = "emit"]
  /\ UNCHANGED <<emitted, recVars, closer, panicked>>

\* A mistake: an event that finds the channel full is dropped.
EmitDrops(e) ==
  /\ node[e] = "emit" /\ ~closed
  /\ ch' = IF Len(ch) < Buf THEN Append(ch, Event(e, emitted[e] + 1)) ELSE ch
  /\ emitted' = [emitted EXCEPT ![e] = @ + 1]
  /\ node' = [node EXCEPT ![e] = IF emitted'[e] = Burst THEN "returned" ELSE StartPc]
  /\ UNCHANGED <<closed, owner, closer, drain, events, outVars, panicked>>

\* Recv, Fire, Send: waits for room, and panics on a closed channel.
Emit(e) ==
  /\ node[e] = "emit"
  /\ closed \/ Len(ch) < Buf
  /\ IF closed
     THEN panicked' = TRUE /\ UNCHANGED <<ch, node, emitted>>
     ELSE /\ ch' = Append(ch, Event(e, emitted[e] + 1))
          /\ emitted' = [emitted EXCEPT ![e] = @ + 1]
          /\ node' = [node EXCEPT ![e] =
                        IF emitted'[e] = Burst THEN "returned" ELSE StartPc]
          /\ UNCHANGED panicked
  /\ UNCHANGED <<closed, owner, closer, drain, events, outVars>>

\* One turn of the range loop: the next event is numbered and kept.
Record ==
  /\ drain = "range" /\ ch # <<>>
  /\ events' = Append(events, Head(ch))
  /\ ch' = Tail(ch)
  /\ drain' = "write"
  /\ UNCHANGED <<node, emitted, closed, owner, closer, outVars, panicked>>

\* sink.Write of the event, then a second sink.Write for the newline.
WriteEvent ==
  /\ drain = "write"
  /\ partial' = Append(partial, events[Len(events)])
  /\ drain' = "newline"
  /\ UNCHANGED <<node, emitted, ch, closed, owner, closer, events, lines, panicked>>

WriteNewline ==
  /\ drain = "newline"
  /\ lines' = Append(lines, [events |-> partial, print |-> FALSE])
  /\ partial' = <<>>
  /\ drain' = "range"
  /\ UNCHANGED <<node, emitted, ch, closed, owner, closer, events, panicked>>

\* A mistake: the drain goroutine leaves when it finds nothing to do.
DrainDoneWhenIdle ==
  /\ drain = "range" /\ ch = <<>>
  /\ drain' = "done"
  /\ UNCHANGED <<node, emitted, ch, closed, owner, closer, events, outVars, panicked>>

\* The range loop ends on a closed and empty channel; done is closed.
DrainDone ==
  /\ drain = "range" /\ closed /\ ch = <<>>
  /\ drain' = "done"
  /\ UNCHANGED <<node, emitted, ch, closed, owner, closer, events, outVars, panicked>>

\* A mistake: Close does not remember that it was called.
NeverClosed == FALSE

\* Close's `if t.closed` under the mutex.
AlreadyClosed == closed

\* Close, called once the nodes have returned: the first caller closes the
\* channel and waits for the drain goroutine, a later one returns at once.
CallClose(c) ==
  /\ closer[c] = "idle"
  /\ \A e \in Emitter : node[e] = "returned"
  /\ IF AlreadyClosed
     THEN /\ closer' = [closer EXCEPT ![c] = "returned"]
          /\ UNCHANGED <<closed, owner, panicked>>
     ELSE /\ closer' = [closer EXCEPT ![c] = "waiting"]
          /\ closed' = TRUE
          /\ owner' = c
          /\ panicked' = (panicked \/ closed)
  /\ UNCHANGED <<node, emitted, ch, drain, events, outVars>>

\* A mistake: Close does not wait for the drain goroutine.
CloseReturnsAtOnce(c) ==
  /\ closer[c] = "waiting"
  /\ closer' = [closer EXCEPT ![c] = "returned"]
  /\ UNCHANGED <<node, emitted, recVars, outVars, panicked>>

CloseReturns(c) ==
  /\ closer[c] = "waiting" /\ drain = "done"
  /\ closer' = [closer EXCEPT ![c] = "returned"]
  /\ UNCHANGED <<node, emitted, recVars, outVars, panicked>>

Drain == Record \/ WriteEvent \/ WriteNewline \/ DrainDone

Stopped == (panicked \/ \A c \in Closer : closer[c] = "returned") /\ UNCHANGED vars

Next ==
  \/ \E e \in Emitter : Printf(e) \/ Emit(e)
  \/ Drain
  \/ \E c \in Closer : CallClose(c) \/ CloseReturns(c)
  \/ Stopped

Spec == Init /\ [][Next]_vars

\* Every goroutine is scheduled again and again.
LiveSpec == /\ Spec
            /\ \A e \in Emitter : WF_vars(Printf(e)) /\ WF_vars(Emit(e))
            /\ WF_vars(Drain)
            /\ \A c \in Closer : WF_vars(CallClose(c) \/ CloseReturns(c))

-----------------------------------------------------------------------------
(* Properties. *)

Events == {Event(e, k) : e \in Emitter, k \in 1..Burst}

\* Every variable has its type; in particular the channel never holds more than
\* its capacity.
TypeOK ==
  /\ node \in [Emitter -> {"print", "emit", "returned"}]
  /\ emitted \in [Emitter -> 0..Burst]
  /\ ch \in Seq(Events) /\ Len(ch) <= Buf
  /\ closed \in BOOLEAN /\ panicked \in BOOLEAN
  /\ owner \in Closer \cup {Nobody}
  /\ closer \in [Closer -> {"idle", "waiting", "returned"}]
  /\ drain \in {"range", "write", "newline", "done"}
  /\ events \in Seq(Events) /\ partial \in Seq(Events)
  /\ lines \in Seq([events : Seq(Events), print : BOOLEAN])

\* Nobody sends on the closed channel and nobody closes it twice, however
\* often Close is called (Trace.go:124-125).
NoPanic == ~panicked

\* No event is lost, repeated or overtaken on its way from a node to the
\* recorded sequence, although the node may have waited for room.
PerNodeOrder ==
  LET seen == events \o ch
  IN  /\ \A e \in Emitter, k \in 1..Burst :
           k <= emitted[e] <=> \E i \in 1..Len(seen) : seen[i] = Event(e, k)
      /\ \A i, j \in 1..Len(seen) :
           i < j /\ seen[i][2] = seen[j][2] => seen[i][3] < seen[j][3]

\* The events on finished lines, from the first line on.
Streamed(ls) ==
  LET upTo[k \in 0..Len(ls)] == IF k = 0 THEN <<>> ELSE upTo[k - 1] \o ls[k].events
  IN  upTo[Len(ls)]

\* The events on standard output are the recorded ones in the recorded order:
\* the live stream and the file written on shutdown agree.  When the call that
\* closed the channel returns, everything emitted is on both (Trace.go:48-50).
StreamMatchesRecord ==
  LET written == Streamed(lines) \o partial
  IN  /\ IsPrefix(written, events)
      /\ drain # "write" => written = events
      /\ owner # Nobody /\ closer[owner] = "returned" =>
           Len(written) = Burst * Cardinality(Emitter)

\* Emitters that wait for room get it, and every call of Close comes back.
ClosesReturn == <>(\A c \in Closer : closer[c] = "returned")
=============================================================================
