------------------------------- MODULE Runner -------------------------------
(***************************************************************************)
(* The run button: the webview posts `run` and `run-cancel`, the host saves *)
(* the document and then lets BuildAndRunRunner spawn `go run .`, reads the *)
(* child's standard output line by line and posts trace events and run      *)
(* statuses back.  Node's child_process is modelled from its use here: a    *)
(* spawn may fail, which gives an `error` event and then a `close` event; a *)
(* child that ends gives a `close` event once all it printed has been read. *)
(*                                                                         *)
(* A child prints Lines trace lines, each in two halves, the second with    *)
(* the newline; it may be cut off after any half.  A workspace without a    *)
(* folder, where run() returns at once, is left out.                        *)
(***************************************************************************)
EXTENDS Integers, Sequences, FiniteSets

CONSTANTS
  MaxRuns,    \* bound on children spawned
  MaxClicks,  \* bound on clicks of the button
  Lines,      \* how many lines a child prints
  None

ASSUME RunnerAssumption == {MaxRuns, MaxClicks, Lines} \subseteq Nat /\ None \notin Nat

Run == 1 .. MaxRuns

VARIABLES
  proc, cancelled,  \* the runner's fields; proc is a child or None
  buf,              \* stdoutBuf: the halves read since the last newline
  channel,          \* the output channel: "none", "open" or "closed"
  st,               \* per child: none, live, exited, failed, errored, closed
  code,             \* how it ended: none, ok, bad, killed, failed
  printed, read,    \* how many halves it has printed; how many were read
  saving,           \* run messages whose text is being saved
  toHost, toWeb,    \* messages on their way
  shown,            \* the status the webview shows
  got,              \* per child: the lines the webview got as events, in order
  reports,          \* per child: the statuses posted at its end
  asked,            \* children that cancel() was to end
  clicks, disposed  \* clicks of the button; the panel is closed

runner == <<proc, cancelled, buf, channel>>
child  == <<st, code, printed, read>>
web    == <<shown, got>>
vars   == <<runner, child, saving, toHost, toWeb, web, reports, asked, clicks, disposed>>

Status(s)   == [kind |-> "status", is |-> s]
Event(r, n) == [kind |-> "event", run |-> r, line |-> n]

Init ==
  /\ proc = None /\ cancelled = FALSE /\ buf = <<>> /\ channel = "none"
  /\ st = [r \in Run |-> "none"] /\ code = [r \in Run |-> "none"]
  /\ printed = [r \in Run |-> 0] /\ read = [r \in Run |-> 0]
  /\ saving = 0 /\ toHost = <<>> /\ toWeb = <<>>
  /\ shown = "idle" /\ got = [r \in Run |-> <<>>]
  /\ reports = [r \in Run |-> <<>>] /\ asked = {}
  /\ clicks = 0 /\ disposed = FALSE

-----------------------------------------------------------------------------
(* The webview. *)

\* The button stops what runs, or asks for a run.
Click ==
  /\ clicks < MaxClicks /\ ~disposed
  /\ clicks' = clicks + 1
  /\ toHost' = Append(toHost, IF shown = "running" THEN "run-cancel" ELSE "run")
  /\ UNCHANGED <<runner, child, saving, toWeb, web, reports, asked, disposed>>

WebReceives ==
  /\ toWeb # <<>>
  /\ toWeb' = Tail(toWeb)
  /\ LET msg == Head(toWeb)
     IN  IF msg.kind = "status"
         THEN shown' = msg.is /\ UNCHANGED got
         ELSE got' = [got EXCEPT ![msg.run] = Append(@, msg.line)] /\ UNCHANGED shown
  /\ UNCHANGED <<runner, child, saving, toHost, reports, asked, clicks, disposed>>

-----------------------------------------------------------------------------
(* The host. *)

\* A message for a run: its text is saved first, which takes a while.
RunAsked ==
  /\ toHost # <<>> /\ Head(toHost) = "run"
  /\ toHost' = Tail(toHost)
  /\ saving' = saving + 1
  /\ UNCHANGED <<runner, child, toWeb, web, reports, asked, clicks, disposed>>

SaveFails ==
  /\ saving > 0
  /\ saving' = saving - 1
  /\ UNCHANGED <<runner, child, toHost, toWeb, web, reports, asked, clicks, disposed>>

Unborn(r) == st[r] = "none" /\ \A q \in Run : q < r => st[q] # "none"

\* A mistake: a child that runs already is not looked for.
FreeAlways == channel # "closed"

\* run() returns at once while there is a child, and throws when the output
\* channel is closed already.
Free == proc = None /\ channel # "closed"

\* A mistake: the webview is not told that a child runs.
AnnouncedNot == toWeb

Announced == Append(toWeb, Status("running"))

\* run(), with the next child.
Start(r) ==
  /\ saving > 0
  /\ saving' = saving - 1
  /\ Free /\ Unborn(r)
  /\ proc' = r /\ cancelled' = FALSE /\ channel' = "open"
  /\ \E s \in {"live", "failed"} : st' = [st EXCEPT ![r] = s]
  /\ toWeb' = Announced
  /\ UNCHANGED <<buf, code, printed, read, toHost, web, reports, asked, clicks, disposed>>

StartRefused ==
  /\ saving > 0
  /\ saving' = saving - 1
  /\ ~Free
  /\ UNCHANGED <<runner, child, toHost, toWeb, web, reports, asked, clicks, disposed>>

\* cancel(): a child without a pid, one that failed to spawn, is left alone.
Stop ==
  LET running == proc # None /\ st[proc] # "failed"
  IN  /\ cancelled' = (cancelled \/ running)
      /\ asked' = IF running THEN asked \cup {proc} ELSE asked
      /\ IF running /\ st[proc] = "live"
         THEN st' = [st EXCEPT ![proc] = "exited"] /\ code' = [code EXCEPT ![proc] = "killed"]
         ELSE UNCHANGED <<st, code>>

CancelAsked ==
  /\ toHost # <<>> /\ Head(toHost) = "run-cancel"
  /\ toHost' = Tail(toHost)
  /\ Stop
  /\ UNCHANGED <<proc, buf, channel, printed, read, saving, toWeb, web, reports, clicks,
                 disposed>>

\* The panel is closed.
Dispose ==
  /\ ~disposed
  /\ disposed' = TRUE
  /\ Stop
  /\ channel' = IF channel = "open" THEN "closed" ELSE channel
  /\ UNCHANGED <<proc, buf, printed, read, saving, toHost, toWeb, web, reports, clicks>>

\* A mistake: a line that comes in two chunks is not put together.
BufferedNot(r, h) == <<>>

Buffered(r, h) == Append(buf, <<r, h>>)

\* handleStdout: a line is a trace event when it is the whole of a line some
\* child printed; other lines go to the output channel.
ReadOne(r) ==
  /\ read[r] < printed[r]
  /\ read' = [read EXCEPT ![r] = @ + 1]
  /\ LET h == read[r] + 1
     IN  IF h % 2 = 1
         THEN buf' = Buffered(r, h) /\ UNCHANGED toWeb
         ELSE /\ buf' = <<>>
              /\ toWeb' = IF buf = << <<r, h - 1>> >>
                          THEN Append(toWeb, Event(r, h \div 2)) ELSE toWeb
  /\ UNCHANGED <<proc, cancelled, channel, st, code, printed, saving, toHost, web, reports,
                 asked, clicks, disposed>>

\* The status that ends child r; on a closed output channel the handler throws
\* before it posts anything.
Told(r, status) ==
  IF channel = "closed" THEN UNCHANGED <<toWeb, reports>>
  ELSE /\ toWeb' = Append(toWeb, Status(status))
       /\ reports' = [reports EXCEPT ![r] = Append(@, status)]

\* The `error` event of a child that failed to spawn.
Errored(r) ==
  /\ st[r] = "failed"
  /\ st' = [st EXCEPT ![r] = "errored"] /\ code' = [code EXCEPT ![r] = "failed"]
  /\ proc' = None /\ cancelled' = FALSE
  /\ Told(r, "error")
  /\ UNCHANGED <<buf, channel, printed, read, saving, toHost, web, asked, clicks, disposed>>

\* A mistake: the flag is looked at after it has been reset.
VerdictAfterReset(r) == IF code[r] = "ok" THEN "ok" ELSE "error"

Verdict(r) == IF cancelled THEN "cancelled" ELSE IF code[r] = "ok" THEN "ok" ELSE "error"

\* A mistake: the end of the output is waited for, also of a child cut off.
OverWhenComplete(r) == st[r] = "errored" \/ (st[r] = "exited" /\ read[r] = 2 * Lines)

\* When Node gives the `close` event.
Over(r) == st[r] = "errored" \/ (st[r] = "exited" /\ read[r] = printed[r])

\* A mistake: the next run is not let in.
ReleasedNot == proc

Released == None

\* The `close` event, whoever is proc by now.
Closed(r) ==
  /\ Over(r)
  /\ st' = [st EXCEPT ![r] = "closed"]
  /\ proc' = Released /\ cancelled' = FALSE
  /\ Told(r, Verdict(r))
  /\ UNCHANGED <<buf, channel, code, printed, read, saving, toHost, web, asked, clicks,
                 disposed>>

-----------------------------------------------------------------------------
(* The child process. *)

PrintHalf(r) ==
  /\ st[r] = "live" /\ printed[r] < 2 * Lines
  /\ printed' = [printed EXCEPT ![r] = @ + 1]
  /\ UNCHANGED <<runner, st, code, read, saving, toHost, toWeb, web, reports, asked, clicks,
                 disposed>>

\* It ends when it has printed everything, or dies at any moment.
Ends(r) ==
  /\ st[r] = "live"
  /\ st' = [st EXCEPT ![r] = "exited"]
  /\ code' = [code EXCEPT ![r] = IF printed[r] = 2 * Lines THEN "ok" ELSE "bad"]
  /\ UNCHANGED <<runner, printed, read, saving, toHost, toWeb, web, reports, asked, clicks,
                 disposed>>

Host  == RunAsked \/ CancelAsked
Child == \E r \in Run : ReadOne(r) \/ Errored(r) \/ Closed(r) \/ Ends(r)

Next ==
  \/ Click \/ WebReceives \/ Host \/ Child
  \/ \E r \in Run : Start(r) \/ PrintHalf(r)
  \/ StartRefused \/ SaveFails \/ Dispose

Spec == Init /\ [][Next]_vars

\* Messages and events are delivered, and a child ends: the program it runs
\* cancels itself after a fixed time.
FairSpec == Spec /\ WF_vars(WebReceives) /\ WF_vars(Host) /\ WF_vars(Child)

-----------------------------------------------------------------------------
(* Properties. *)

Message == [kind : {"status"}, is : {"running", "ok", "error", "cancelled"}]
           \cup [kind : {"event"}, run : Run, line : 1 .. Lines]

\* Every variable has its type; each message to the host and each save that runs
\* comes from a click of its own, and the child that is proc has not closed.
TypeOK ==
  /\ proc \in Run \cup {None} /\ cancelled \in BOOLEAN /\ disposed \in BOOLEAN
  /\ buf \in Seq(Run \X (1 .. 2 * Lines))
  /\ channel \in {"none", "open", "closed"}
  /\ st \in [Run -> {"none", "live", "exited", "failed", "errored", "closed"}]
  /\ code \in [Run -> {"none", "ok", "bad", "killed", "failed"}]
  /\ printed \in [Run -> 0 .. 2 * Lines] /\ read \in [Run -> 0 .. 2 * Lines]
  /\ \A r \in Run : read[r] <= printed[r]
  /\ clicks \in 0 .. MaxClicks /\ saving \in Nat /\ saving + Len(toHost) <= clicks
  /\ toHost \in Seq({"run", "run-cancel"}) /\ toWeb \in Seq(Message)
  /\ shown \in {"idle", "running", "ok", "error", "cancelled"}
  /\ got \in [Run -> Seq(1 .. Lines)]
  /\ reports \in [Run -> Seq({"ok", "error", "cancelled"})] /\ asked \subseteq Run
  /\ proc # None => st[proc] \in {"live", "exited", "failed"}

SpawnFailed == \E r \in Run : st[r] = "failed" \/ code[r] = "failed"

\* runCommand.ts:43: unless a spawn has failed, two children never run at once.
OneAtATime == ~SpawnFailed => Cardinality({r \in Run : st[r] = "live"}) <= 1

\* RunButton.tsx:13-17: when a child runs and nothing is on its way, the button
\* is the stop button, so the child can be stopped.
StopIsOffered ==
  ~SpawnFailed /\ toWeb = <<>> /\ (\E r \in Run : st[r] = "live") => shown = "running"

\* runCommand.ts:28-31: unless a spawn has failed, a child's end is reported
\* once, and as cancelled exactly when cancel() was to end it.
ReportedAsItEnded ==
  ~SpawnFailed => \A r \in Run :
    /\ Len(reports[r]) <= 1
    /\ reports[r] # <<>> => (reports[r][1] = "cancelled") = (r \in asked)

\* The halves of a run that was cut off in mid-line stay in stdoutBuf.
CutOff == \E r \in Run : st[r] \in {"exited", "closed"} /\ printed[r] % 2 = 1

\* runCommand.ts:86-105: what the webview gets are whole lines, in the order
\* printed; and when a run is over it got all of them, unless an earlier one was
\* cut off in mid-line or a failed spawn has let two children print at once.
LinesArrive == \A r \in Run :
  /\ \A k \in 2 .. Len(got[r]) : got[r][k - 1] < got[r][k]
  /\ ~SpawnFailed /\ ~CutOff /\ reports[r] = <<"ok">> /\ toWeb = <<>> => Len(got[r]) = Lines

\* While the panel is open the webview does not show a run for ever.
RunEnds == shown = "running" ~> shown # "running" \/ disposed
=============================================================================
