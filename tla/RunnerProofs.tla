---------------------------- MODULE RunnerProofs ----------------------------
(* Proofs about the run command, for any number of children, of lines and of *)
(* clicks of the button.                                                     *)
EXTENDS Runner, FiniteSetTheorems, TLAPS

-----------------------------------------------------------------------------
(* Types.                                                                    *)

\* Of two halves the second has an even number.
LEMMA Halves ==
  ASSUME NEW h \in Nat
  PROVE  /\ h % 2 \in {0, 1}
         /\ h % 2 # 1 => h \div 2 \in Nat /\ 2 * (h \div 2) = h
         /\ h % 2 = 1 <=> (h + 1) % 2 # 1
  OBVIOUS

\* No child is called None, and the bounds are numbers.
LEMMA Constants ==
  /\ MaxRuns \in Nat /\ MaxClicks \in Nat /\ Lines \in Nat
  /\ Run \subseteq Nat /\ None \notin Run
  BY RunnerAssumption DEF Run

\* The first message taken off a queue.
LEMMA Taken ==
  ASSUME NEW S, NEW s \in Seq(S), s # <<>>
  PROVE  /\ Head(s) \in S /\ Tail(s) \in Seq(S) /\ Len(Tail(s)) = Len(s) - 1
         /\ Len(s) \in Nat \ {0} /\ Head(s) = s[1]
         /\ \A k \in 1 .. Len(Tail(s)) : Tail(s)[k] = s[k + 1]
  OBVIOUS

\* One message put at the end.
LEMMA Put ==
  ASSUME NEW S, NEW s \in Seq(S), NEW x \in S
  PROVE  /\ Append(s, x) \in Seq(S) /\ Len(Append(s, x)) = Len(s) + 1
         /\ Len(s) \in Nat /\ Append(s, x)[Len(s) + 1] = x
         /\ \A k \in 1 .. Len(s) : Append(s, x)[k] = s[k]
  OBVIOUS

\* A status is a message.
LEMMA StatusIsMessage ==
  ASSUME NEW s \in {"running", "ok", "error", "cancelled"}
  PROVE  Status(s) \in Message
  BY DEF Status, Message

\* cancel() kills at most the child that is proc.
LEMMA StopTypes ==
  ASSUME TypeOK, Stop
  PROVE  /\ st' \in [Run -> {"none", "live", "exited", "failed", "errored", "closed"}]
         /\ code' \in [Run -> {"none", "ok", "bad", "killed", "failed"}]
         /\ asked' \subseteq Run /\ cancelled' \in BOOLEAN
         /\ proc # None => st'[proc] \in {"live", "exited", "failed"}
  BY DEF TypeOK, Stop

\* The end of a child is told in a status and a report.
LEMMA ToldTypes ==
  ASSUME TypeOK, NEW r \in Run, NEW s \in {"ok", "error", "cancelled"}, Told(r, s)
  PROVE  /\ toWeb' \in Seq(Message)
         /\ reports' \in [Run -> Seq({"ok", "error", "cancelled"})]
<1>1. Append(toWeb, Status(s)) \in Seq(Message)
  BY StatusIsMessage, Put DEF TypeOK
<1>2. Append(reports[r], s) \in Seq({"ok", "error", "cancelled"})
  BY Put DEF TypeOK
<1> QED
  BY <1>1, <1>2 DEF Told, TypeOK

\* What the child prints is put together to lines.
LEMMA ReadTypes ==
  ASSUME TypeOK, NEW r \in Run, ReadOne(r)
  PROVE  TypeOK'
<1> DEFINE h == read[r] + 1
<1>0. /\ read[r] < printed[r]
      /\ read' = [read EXCEPT ![r] = read[r] + 1]
      /\ IF h % 2 = 1
         THEN buf' = Append(buf, <<r, h>>) /\ toWeb' = toWeb
         ELSE /\ buf' = <<>>
              /\ toWeb' = IF buf = << <<r, h - 1>> >>
                          THEN Append(toWeb, Event(r, h \div 2)) ELSE toWeb
      /\ UNCHANGED <<proc, cancelled, channel, st, code, printed, saving, toHost, web,
                     reports, asked, clicks, disposed>>
  BY DEF ReadOne, Buffered
<1>1. h \in 1 .. 2 * Lines /\ h <= printed[r]
  <2>1. read[r] \in Nat /\ printed[r] \in Nat /\ printed[r] <= 2 * Lines
    BY Constants DEF TypeOK
  <2> QED
    BY <1>0, <2>1, Constants
<1> HIDE DEF h
<1>2. read' \in [Run -> 0 .. 2 * Lines] /\ \A q \in Run : read'[q] <= printed'[q]
  <2>1. read' = [read EXCEPT ![r] = h] /\ printed' = printed
    BY <1>0 DEF h
  <2>2. h \in 0 .. 2 * Lines
    BY <1>1, Constants
  <2> QED
    BY <1>1, <2>1, <2>2 DEF TypeOK
<1>3. buf' \in Seq(Run \X (1 .. 2 * Lines))
  <2>1. Append(buf, <<r, h>>) \in Seq(Run \X (1 .. 2 * Lines))
    BY <1>1, Put DEF TypeOK
  <2>2. buf' = <<>> \/ buf' = Append(buf, <<r, h>>)
    BY <1>0
  <2>3. <<>> \in Seq(Run \X (1 .. 2 * Lines))
    OBVIOUS
  <2> QED
    BY <2>1, <2>2, <2>3
<1>4. toWeb' \in Seq(Message)
  <2>1. CASE h % 2 = 1
    BY <1>0, <2>1 DEF TypeOK
  <2>2. CASE h % 2 # 1
    <3>1. h \div 2 \in 1 .. Lines
      BY <1>1, <2>2, Halves, Constants
    <3>2. Event(r, h \div 2) \in Message
      BY <3>1 DEF Event, Message
    <3>3. Append(toWeb, Event(r, h \div 2)) \in Seq(Message)
      BY <3>2, Put DEF TypeOK
    <3>4. toWeb' = toWeb \/ toWeb' = Append(toWeb, Event(r, h \div 2))
      BY <1>0, <2>2
    <3> QED
      BY <3>3, <3>4 DEF TypeOK
  <2> QED
    BY <2>1, <2>2
<1> QED
  BY <1>0, <1>2, <1>3, <1>4 DEF TypeOK, web

\* Every variable keeps its type.
LEMMA TypeStep ==
  ASSUME TypeOK, [Next]_vars
  PROVE  TypeOK'
<1> USE DEF TypeOK, runner, child, web
<1>1. CASE Click
  <2>1. /\ Append(toHost, IF shown = "running" THEN "run-cancel" ELSE "run")
             \in Seq({"run", "run-cancel"})
        /\ Len(toHost') = Len(toHost) + 1
    BY <1>1, Put DEF Click
  <2> QED
    BY <1>1, <2>1, Constants, SMTT(30) DEF Click
<1>2. CASE WebReceives
  <2>1. Head(toWeb) \in Message /\ Tail(toWeb) \in Seq(Message)
    BY <1>2, Taken DEF WebReceives
  <2>2. CASE Head(toWeb).kind = "status"
    BY <1>2, <2>1, <2>2 DEF WebReceives, Message
  <2>3. CASE Head(toWeb).kind # "status"
    <3>1. Head(toWeb).run \in Run /\ Head(toWeb).line \in 1 .. Lines
      BY <2>1, <2>3 DEF Message
    <3>2. Append(got[Head(toWeb).run], Head(toWeb).line) \in Seq(1 .. Lines)
      BY <3>1, Put
    <3>3. got' \in [Run -> Seq(1 .. Lines)] /\ shown' = shown
      BY <1>2, <2>3, <3>2 DEF WebReceives
    <3> QED
      BY <1>2, <2>1, <3>3 DEF WebReceives
  <2> QED
    BY <2>2, <2>3
<1>3. CASE RunAsked
  BY <1>3, Taken DEF RunAsked
<1>4. CASE CancelAsked
  <2>1. /\ Tail(toHost) \in Seq({"run", "run-cancel"})
        /\ saving + Len(Tail(toHost)) <= clicks
    BY <1>4, Taken, Constants DEF CancelAsked
  <2>2. /\ st' \in [Run -> {"none", "live", "exited", "failed", "errored", "closed"}]
        /\ code' \in [Run -> {"none", "ok", "bad", "killed", "failed"}]
        /\ asked' \subseteq Run /\ cancelled' \in BOOLEAN
        /\ proc # None => st'[proc] \in {"live", "exited", "failed"}
    BY <1>4, StopTypes DEF CancelAsked
  <2> QED
    BY <1>4, <2>1, <2>2 DEF CancelAsked
<1>5. CASE SaveFails \/ StartRefused
  BY <1>5 DEF SaveFails, StartRefused
<1>6. CASE Dispose
  BY <1>6, StopTypes DEF Dispose
<1>7. ASSUME NEW r \in Run, Start(r) PROVE TypeOK'
  <2>1. Append(toWeb, Status("running")) \in Seq(Message)
    BY StatusIsMessage, Put
  <2>2. PICK s \in {"live", "failed"} : st' = [st EXCEPT ![r] = s]
    BY <1>7 DEF Start
  <2>3. /\ st' \in [Run -> {"none", "live", "exited", "failed", "errored", "closed"}]
        /\ st'[r] \in {"live", "exited", "failed"}
    BY <2>2
  <2>4. saving' \in Nat /\ saving' + Len(toHost) <= clicks
    BY <1>7, Constants DEF Start
  <2> QED
    BY <1>7, <2>1, <2>3, <2>4 DEF Start, Announced
<1>8. ASSUME NEW r \in Run, PrintHalf(r) PROVE TypeOK'
  <2>1. printed[r] + 1 \in 0 .. 2 * Lines /\ read[r] <= printed[r] + 1
    BY <1>8, Constants, SMTT(30) DEF PrintHalf
  <2>2. /\ printed' \in [Run -> 0 .. 2 * Lines]
        /\ \A q \in Run : read'[q] <= printed'[q]
    BY <1>8, <2>1 DEF PrintHalf
  <2> QED
    BY <1>8, <2>2 DEF PrintHalf
<1>9. ASSUME NEW r \in Run, Ends(r) PROVE TypeOK'
  BY <1>9 DEF Ends
<1>10. ASSUME NEW r \in Run, Errored(r) PROVE TypeOK'
  BY <1>10, ToldTypes DEF Errored
<1>11. ASSUME NEW r \in Run, Closed(r) PROVE TypeOK'
  <2>1. Verdict(r) \in {"ok", "error", "cancelled"}
    BY DEF Verdict
  <2> QED
    BY <1>11, <2>1, ToldTypes DEF Closed, Released
<1>12. ASSUME NEW r \in Run, ReadOne(r) PROVE TypeOK'
  BY <1>12, ReadTypes
<1>13. CASE UNCHANGED vars
  BY <1>13 DEF vars
<1> QED
  BY <1>1, <1>2, <1>3, <1>4, <1>5, <1>6, <1>7, <1>8, <1>9, <1>10, <1>11, <1>12, <1>13
  DEF Next, Host, Child

-----------------------------------------------------------------------------
(* One child at a time.                                                      *)

\* What a child's state says of what it printed, how it ended and whether it
\* was to be cancelled.
Ages ==
  \A r \in Run :
    /\ st[r] \in {"none", "failed", "errored"} => printed[r] = 0
    /\ st[r] = "none" => r \notin asked
    /\ st[r] \in {"none", "live"} => code[r] = "none"
    /\ st[r] = "exited" => code[r] \in {"ok", "bad", "killed"}
    /\ st[r] = "errored" => code[r] = "failed"
    /\ st[r] = "closed" => read[r] = printed[r]
    /\ code[r] = "ok" => printed[r] = 2 * Lines

\* A report of a child that says how it ended.
Truthful(r, s) == (s = "cancelled" <=> r \in asked) /\ (s = "ok" => code[r] = "ok")

\* Every child that has not closed is proc, the flag is proc's, and a child is
\* reported at its close.
OneChild ==
  /\ \A r \in Run : st[r] \in {"live", "exited"} => proc = r
  /\ proc # None => (cancelled <=> proc \in asked)
  /\ \A r \in Run : /\ st[r] # "closed" => reports[r] = <<>>
                    /\ reports[r] = <<>> \/ \E s \in {"ok", "error", "cancelled"} :
                                                reports[r] = <<s>> /\ Truthful(r, s)

\* Ages is inductive.
LEMMA AgesStep ==
  ASSUME TypeOK, Ages, [Next]_vars
  PROVE  Ages'
<1> USE DEF runner, child, web
<1>1. CASE UNCHANGED <<st, code, printed, read, asked>>
  BY <1>1 DEF Ages
<1>2. CASE Stop /\ UNCHANGED <<printed, read>>
  <2>1. CASE proc # None /\ st[proc] = "live"
    <3>1. /\ st' = [st EXCEPT ![proc] = "exited"] /\ code' = [code EXCEPT ![proc] = "killed"]
          /\ asked' = asked \cup {proc} /\ proc \in Run
      BY <1>2, <2>1 DEF Stop, TypeOK
    <3> QED
      BY <1>2, <3>1 DEF Ages, TypeOK
  <2>2. CASE ~(proc # None /\ st[proc] = "live")
    <3>1. UNCHANGED <<st, code>> /\ asked' \subseteq asked \cup {r \in Run : st[r] = "exited"}
      BY <1>2, <2>2 DEF Stop, TypeOK
    <3> QED
      BY <1>2, <3>1 DEF Ages
  <2> QED
    BY <2>1, <2>2
<1>3. ASSUME NEW r \in Run, Start(r) PROVE Ages'
  <2>1. PICK s \in {"live", "failed"} : st' = [st EXCEPT ![r] = s]
    BY <1>3 DEF Start
  <2>2. st[r] = "none" /\ UNCHANGED <<code, printed, read, asked>>
    BY <1>3 DEF Start, Unborn
  <2> QED
    BY <2>1, <2>2 DEF Ages, TypeOK
<1>4. ASSUME NEW r \in Run, PrintHalf(r) PROVE Ages'
  BY <1>4 DEF PrintHalf, Ages, TypeOK
<1>5. ASSUME NEW r \in Run, Ends(r) PROVE Ages'
  BY <1>5 DEF Ends, Ages, TypeOK
<1>6. ASSUME NEW r \in Run, Errored(r) PROVE Ages'
  BY <1>6 DEF Errored, Ages, TypeOK
<1>7. ASSUME NEW r \in Run, Closed(r) PROVE Ages'
  <2>1. st' = [st EXCEPT ![r] = "closed"] /\ UNCHANGED <<code, printed, read, asked>>
    BY <1>7 DEF Closed
  <2>2. printed[r] = 0 \/ read[r] = printed[r]
    BY <1>7 DEF Closed, Over, Ages
  <2>3. read[r] = printed[r]
    BY <2>2, Constants DEF TypeOK
  <2> QED
    BY <2>1, <2>3 DEF Ages, TypeOK
<1>8. ASSUME NEW r \in Run, ReadOne(r) PROVE Ages'
  <2>1. read' = [read EXCEPT ![r] = read[r] + 1] /\ UNCHANGED <<st, code, printed, asked>>
    BY <1>8 DEF ReadOne
  <2>2. st[r] # "closed"
    BY <1>8, Constants DEF ReadOne, Ages, TypeOK
  <2> QED
    BY <2>1, <2>2 DEF Ages, TypeOK
<1>9. CASE Click \/ WebReceives \/ RunAsked \/ SaveFails \/ StartRefused \/ UNCHANGED vars
  BY <1>1, <1>9 DEF Click, WebReceives, RunAsked, SaveFails, StartRefused, vars
<1>10. CASE CancelAsked \/ Dispose
  BY <1>2, <1>10 DEF CancelAsked, Dispose
<1> QED
  BY <1>3, <1>4, <1>5, <1>6, <1>7, <1>8, <1>9, <1>10 DEF Next, Host, Child

\* A spawn that has failed stays one.
LEMMA FailureStays ==
  ASSUME TypeOK, Ages, [Next]_vars, ~SpawnFailed'
  PROVE  ~SpawnFailed
<1> USE DEF runner, child, web
<1> SUFFICES ASSUME NEW q \in Run, st[q] = "failed" \/ code[q] = "failed"
             PROVE  st'[q] = "failed" \/ code'[q] = "failed"
  BY DEF SpawnFailed
<1>1. st[q] \notin {"none", "live", "exited"}
  BY DEF Ages
<1>2. CASE Stop
  BY <1>1, <1>2 DEF Stop, TypeOK
<1>3. CASE UNCHANGED <<st, code>>
  BY <1>3
<1>4. ASSUME NEW r \in Run, Start(r) PROVE st'[q] = st[q] /\ code' = code
  BY <1>1, <1>4 DEF Start, Unborn, TypeOK
<1>5. ASSUME NEW r \in Run, Ends(r) PROVE st'[q] = st[q] /\ code'[q] = code[q]
  BY <1>1, <1>5 DEF Ends, TypeOK
<1>6. ASSUME NEW r \in Run, Errored(r) PROVE st'[q] = "failed" \/ code'[q] = "failed"
  BY <1>6 DEF Errored, TypeOK
<1>7. ASSUME NEW r \in Run, Closed(r) PROVE st'[q] = "failed" \/ code'[q] = "failed"
  BY <1>7 DEF Closed, Over, TypeOK
<1>8. CASE Click \/ WebReceives \/ RunAsked \/ SaveFails \/ StartRefused \/ UNCHANGED vars
           \/ (\E r \in Run : PrintHalf(r) \/ ReadOne(r))
  BY <1>3, <1>8 DEF Click, WebReceives, RunAsked, SaveFails, StartRefused, PrintHalf, ReadOne,
                    vars
<1>9. CASE CancelAsked \/ Dispose
  BY <1>2, <1>9 DEF CancelAsked, Dispose
<1> QED
  BY <1>4, <1>5, <1>6, <1>7, <1>8, <1>9 DEF Next, Host, Child

\* While no spawn fails, OneChild is inductive.
LEMMA OneChildStep ==
  ASSUME TypeOK, Ages, ~SpawnFailed, OneChild, [Next]_vars
  PROVE  OneChild'
<1> USE DEF runner, child, web
<1>1. CASE UNCHANGED <<st, code, proc, cancelled, asked, reports>>
  BY <1>1 DEF OneChild, Truthful
<1>2. CASE Stop /\ UNCHANGED <<proc, reports>>
  <2>1. CASE proc = None
    <3>1. UNCHANGED <<st, code, asked>>
      BY <1>2, <2>1 DEF Stop
    <3> QED
      BY <1>2, <2>1, <3>1 DEF OneChild, Truthful
  <2>2. CASE proc # None
    <3>1. proc \in Run /\ st[proc] \in {"live", "exited"}
      BY <2>2 DEF TypeOK, SpawnFailed
    <3>2. /\ cancelled' /\ asked' = asked \cup {proc}
          /\ \A r \in Run : r # proc => st'[r] = st[r] /\ code'[r] = code[r]
          /\ st'[proc] = "exited"
      BY <1>2, <2>2, <3>1 DEF Stop, TypeOK
    <3>3. reports[proc] = <<>>
      BY <3>1 DEF OneChild
    <3> QED
      BY <1>2, <2>2, <3>1, <3>2, <3>3 DEF OneChild, Truthful
  <2> QED
    BY <2>1, <2>2
<1>3. ASSUME NEW r \in Run, Start(r) PROVE OneChild'
  <2>1. PICK s \in {"live", "failed"} : st' = [st EXCEPT ![r] = s]
    BY <1>3 DEF Start
  <2>2. /\ proc = None /\ proc' = r /\ ~cancelled'
        /\ st[r] = "none" /\ UNCHANGED <<code, asked, reports>>
    BY <1>3 DEF Start, Unborn, Free
  <2>3. r \notin asked
    BY <2>2 DEF Ages
  <2>4. \A q \in Run : st[q] \notin {"live", "exited"}
    BY <2>2, Constants DEF OneChild
  <2> QED
    BY <2>1, <2>2, <2>3, <2>4 DEF OneChild, Truthful, TypeOK
<1>4. ASSUME NEW r \in Run, Ends(r) PROVE OneChild'
  <2>1. /\ st[r] = "live" /\ st' = [st EXCEPT ![r] = "exited"]
        /\ \A q \in Run : q # r => code'[q] = code[q]
        /\ UNCHANGED <<proc, cancelled, asked, reports>>
    BY <1>4 DEF Ends, TypeOK
  <2>2. reports[r] = <<>> /\ proc = r
    BY <2>1 DEF OneChild
  <2> QED
    BY <2>1, <2>2 DEF OneChild, Truthful, TypeOK
<1>5. ASSUME NEW r \in Run, Errored(r) PROVE OneChild'
  BY <1>5 DEF Errored, SpawnFailed
<1>6. ASSUME NEW r \in Run, Closed(r) PROVE OneChild'
  <2>1. st[r] = "exited" /\ code[r] \in {"ok", "bad", "killed"}
    BY <1>6 DEF Closed, Over, Ages, SpawnFailed
  <2>2. proc = r /\ r # None /\ reports[r] = <<>> /\ (cancelled <=> r \in asked)
    BY <2>1, Constants DEF OneChild
  <2>0. PICK v : v = Verdict(r)
    OBVIOUS
  <2>3. /\ st' = [st EXCEPT ![r] = "closed"] /\ proc' = None /\ UNCHANGED <<code, asked>>
        /\ reports' = reports \/ reports' = [reports EXCEPT ![r] = Append(@, v)]
    BY <1>6, <2>0 DEF Closed, Released, Told
  <2>4. v \in {"ok", "error", "cancelled"} /\ Truthful(r, v)'
    BY <2>0, <2>2, <2>3 DEF Truthful, Verdict
  <2>5. /\ reports'[r] = <<>> \/ reports'[r] = <<v>>
        /\ \A q \in Run : q # r => reports'[q] = reports[q]
    BY <2>2, <2>3 DEF TypeOK
  <2>6. \A q \in Run : st'[q] \notin {"live", "exited"}
    BY <2>2, <2>3 DEF OneChild, TypeOK
  <2>7. \A q \in Run : q # r => st'[q] = st[q]
    BY <2>3 DEF TypeOK
  <2>8. ASSUME NEW q \in Run
        PROVE  /\ st'[q] # "closed" => reports'[q] = <<>>
               /\ reports'[q] = <<>> \/ \E s \in {"ok", "error", "cancelled"} :
                                          reports'[q] = <<s>> /\ Truthful(q, s)'
    <3>1. CASE q = r
      <4>1. st'[q] = "closed"
        BY <2>3, <3>1 DEF TypeOK
      <4> QED
        BY <2>4, <2>5, <3>1, <4>1
    <3>2. CASE q # r
      BY <2>3, <2>5, <2>7, <3>2 DEF OneChild, Truthful
    <3> QED
      BY <3>1, <3>2
  <2> QED
    BY <2>3, <2>6, <2>8 DEF OneChild
<1>7. CASE Click \/ WebReceives \/ RunAsked \/ SaveFails \/ StartRefused \/ UNCHANGED vars
           \/ (\E r \in Run : PrintHalf(r) \/ ReadOne(r))
  BY <1>1, <1>7 DEF Click, WebReceives, RunAsked, SaveFails, StartRefused, PrintHalf, ReadOne,
                    vars
<1>8. CASE CancelAsked \/ Dispose
  BY <1>2, <1>8 DEF CancelAsked, Dispose
<1> QED
  BY <1>3, <1>4, <1>5, <1>6, <1>7, <1>8 DEF Next, Host, Child

-----------------------------------------------------------------------------
(* What the webview has been told.                                           *)

\* The last status the webview was sent, or shows, is `running`.
ToldRunning ==
  \E k \in 0 .. Len(toWeb) :
    /\ IF k = 0 THEN shown = "running" ELSE toWeb[k] = Status("running")
    /\ \A j \in 1 .. Len(toWeb) : j > k => toWeb[j].kind = "event"

\* A child that is proc was announced, and nothing else has been since.
ProcIsTold == proc # None => ToldRunning

\* An event that is sent changes nothing about the last status.
LEMMA ToldRunningAppend ==
  ASSUME TypeOK, ToldRunning, NEW m \in Message, m.kind = "event",
         toWeb' = Append(toWeb, m), shown' = shown
  PROVE  ToldRunning'
<1>1. PICK k \in 0 .. Len(toWeb) :
        /\ IF k = 0 THEN shown = "running" ELSE toWeb[k] = Status("running")
        /\ \A j \in 1 .. Len(toWeb) : j > k => toWeb[j].kind = "event"
  BY DEF ToldRunning
<1>2. /\ Len(toWeb') = Len(toWeb) + 1 /\ Len(toWeb) \in Nat /\ toWeb'[Len(toWeb) + 1] = m
      /\ \A j \in 1 .. Len(toWeb) : toWeb'[j] = toWeb[j]
  BY Put DEF TypeOK
<1>3. \A j \in 1 .. Len(toWeb') : j > k => toWeb'[j].kind = "event"
  <2> SUFFICES ASSUME NEW j \in 1 .. Len(toWeb'), j > k PROVE toWeb'[j].kind = "event"
    OBVIOUS
  <2>1. CASE j = Len(toWeb) + 1
    BY <1>2, <2>1
  <2>2. CASE j # Len(toWeb) + 1
    <3>1. j \in 1 .. Len(toWeb)
      BY <1>2, <2>2
    <3> QED
      BY <1>1, <1>2, <3>1
  <2> QED
    BY <2>1, <2>2
<1>4. /\ k \in 0 .. Len(toWeb')
      /\ IF k = 0 THEN shown' = "running" ELSE toWeb'[k] = Status("running")
  <2>1. k \in 0 .. Len(toWeb') /\ (k # 0 => k \in 1 .. Len(toWeb))
    BY <1>2
  <2> QED
    BY <1>1, <1>2, <2>1
<1> QED
  BY <1>3, <1>4 DEF ToldRunning, Status

\* A message that is received was the first.
LEMMA ToldRunningReceive ==
  ASSUME TypeOK, ToldRunning, WebReceives
  PROVE  ToldRunning'
<1>1. PICK k \in 0 .. Len(toWeb) :
        /\ IF k = 0 THEN shown = "running" ELSE toWeb[k] = Status("running")
        /\ \A j \in 1 .. Len(toWeb) : j > k => toWeb[j].kind = "event"
  BY DEF ToldRunning
<1>2. /\ toWeb' = Tail(toWeb) /\ Len(toWeb') = Len(toWeb) - 1 /\ Len(toWeb) \in Nat \ {0}
      /\ Head(toWeb) = toWeb[1]
      /\ \A j \in 1 .. Len(toWeb') : toWeb'[j] = toWeb[j + 1]
  BY Taken DEF WebReceives, TypeOK
<1>3. \A j \in 1 .. Len(toWeb') : j + 1 \in 1 .. Len(toWeb)
  BY <1>2
<1>4. CASE k = 0
  <2>1. toWeb[1].kind = "event"
    BY <1>1, <1>2, <1>4
  <2>2. shown' = "running"
    BY <1>1, <1>2, <1>4, <2>1 DEF WebReceives
  <2>3. \A j \in 1 .. Len(toWeb') : toWeb'[j].kind = "event"
    BY <1>1, <1>2, <1>3, <1>4
  <2>4. 0 \in 0 .. Len(toWeb')
    BY <1>2
  <2> QED
    BY <2>2, <2>3, <2>4 DEF ToldRunning
<1>5. CASE k = 1
  <2>1. toWeb[1] = Status("running")
    BY <1>1, <1>5
  <2>2. shown' = "running"
    BY <1>2, <2>1 DEF WebReceives, Status
  <2>3. \A j \in 1 .. Len(toWeb') : toWeb'[j].kind = "event"
    BY <1>1, <1>2, <1>3, <1>5
  <2>4. 0 \in 0 .. Len(toWeb')
    BY <1>2
  <2> QED
    BY <2>2, <2>3, <2>4 DEF ToldRunning
<1>6. CASE k > 1
  <2>1. k - 1 \in 1 .. Len(toWeb') /\ k - 1 # 0 /\ (k - 1) + 1 = k
    BY <1>2, <1>6
  <2>2. toWeb'[k - 1] = Status("running")
    BY <1>1, <1>2, <1>6, <2>1
  <2>3. \A j \in 1 .. Len(toWeb') : j > k - 1 => toWeb'[j].kind = "event"
    <3> SUFFICES ASSUME NEW j \in 1 .. Len(toWeb'), j > k - 1 PROVE toWeb'[j].kind = "event"
      OBVIOUS
    <3>1. j + 1 > k
      OBVIOUS
    <3> QED
      BY <1>1, <1>2, <1>3, <3>1
  <2>4. k - 1 \in 0 .. Len(toWeb')
    BY <2>1
  <2> QED
    BY <2>1, <2>2, <2>3, <2>4 DEF ToldRunning, Status
<1> QED
  BY <1>4, <1>5, <1>6

\* ProcIsTold is inductive: a status that ends a run comes with proc's release.
LEMMA ProcIsToldStep ==
  ASSUME TypeOK, ProcIsTold, [Next]_vars
  PROVE  ProcIsTold'
<1> USE DEF runner, child, web
<1>1. CASE UNCHANGED <<proc, toWeb, shown>>
  BY <1>1 DEF ProcIsTold, ToldRunning, Status
<1>2. CASE WebReceives
  BY <1>2, ToldRunningReceive DEF WebReceives, ProcIsTold
<1>3. ASSUME NEW r \in Run, Start(r) PROVE ProcIsTold'
  <2>1. toWeb' = Append(toWeb, Status("running"))
    BY <1>3 DEF Start, Announced
  <2>2. /\ Len(toWeb') = Len(toWeb) + 1 /\ Len(toWeb) \in Nat
        /\ toWeb'[Len(toWeb) + 1] = Status("running")
    BY <2>1, Put, StatusIsMessage DEF TypeOK
  <2>3. /\ Len(toWeb') \in 0 .. Len(toWeb') /\ Len(toWeb') # 0
        /\ \A j \in 1 .. Len(toWeb') : ~(j > Len(toWeb'))
    BY <2>2
  <2> QED
    BY <2>2, <2>3 DEF ProcIsTold, ToldRunning, Status
<1>4. ASSUME NEW r \in Run, ReadOne(r) PROVE ProcIsTold'
  <2>1. /\ UNCHANGED <<proc, shown>>
        /\ toWeb' = toWeb \/ \E n : toWeb' = Append(toWeb, Event(r, n))
    BY <1>4 DEF ReadOne
  <2>2. CASE toWeb' = toWeb
    BY <1>1, <2>1, <2>2
  <2>3. CASE toWeb' # toWeb
    <3>1. PICK n : toWeb' = Append(toWeb, Event(r, n))
      BY <2>1, <2>3
    <3>2. toWeb' \in Seq(Message) /\ Event(r, n) = toWeb'[Len(toWeb')]
          /\ Len(toWeb') \in 1 .. Len(toWeb')
      <4>1. toWeb' \in Seq(Message)
        BY <1>4, ReadTypes DEF TypeOK
      <4> QED
        BY <3>1, <4>1 DEF TypeOK
    <3>3. Event(r, n) \in Message
      BY <3>2
    <3>4. Event(r, n).kind = "event"
      BY DEF Event
    <3> QED
      BY <2>1, <3>1, <3>3, <3>4, ToldRunningAppend DEF ProcIsTold
  <2> QED
    BY <2>2, <2>3
<1>5. CASE \E r \in Run : Errored(r) \/ Closed(r)
  BY <1>5 DEF Errored, Closed, Released, ProcIsTold
<1>6. CASE Click \/ RunAsked \/ SaveFails \/ StartRefused \/ UNCHANGED vars
           \/ (\E r \in Run : PrintHalf(r) \/ Ends(r))
  BY <1>1, <1>6 DEF Click, RunAsked, SaveFails, StartRefused, PrintHalf, Ends, vars
<1>7. CASE CancelAsked \/ Dispose
  BY <1>1, <1>7 DEF CancelAsked, Dispose
<1> QED
  BY <1>2, <1>3, <1>4, <1>5, <1>6, <1>7 DEF Next, Host, Child

-----------------------------------------------------------------------------
(* The lines.                                                                *)

\* What the webview has got and will get of a child goes up, and has been read.
InOrder ==
  /\ \A r \in Run : \A k \in 1 .. Len(got[r]) :
       2 * got[r][k] <= read[r] /\ (k > 1 => got[r][k - 1] < got[r][k])
  /\ \A r \in Run, n \in 1 .. Lines, j \in 1 .. Len(toWeb) : toWeb[j] = Event(r, n) =>
       /\ 2 * n <= read[r]
       /\ \A k \in 1 .. Len(got[r]) : got[r][k] < n
       /\ \A i \in 1 .. Len(toWeb), m \in 1 .. Lines :
            i < j /\ toWeb[i] = Event(r, m) => m < n

\* While no spawn fails and no child is cut off, what has been read since the last
\* newline is in the buffer, and every line that was read is got or on its way.
Whole ==
  /\ \A r \in Run : read[r] % 2 = 1 => buf = << <<r, read[r]>> >>
  /\ (\A r \in Run : read[r] % 2 # 1) => buf = <<>>
  /\ \A r \in Run : \A k \in 1 .. Len(got[r]) : got[r][k] = k
  /\ \A r \in Run, n \in 1 .. Lines : 2 * n <= read[r] =>
       n <= Len(got[r]) \/ \E j \in 1 .. Len(toWeb) : toWeb[j] = Event(r, n)

\* A message tells what it is.
LEMMA Messages ==
  ASSUME NEW r, NEW n
  PROVE  /\ \A s : Event(r, n) # Status(s)
         /\ \A q, m : Event(r, n) = Event(q, m) => r = q /\ n = m
         /\ Event(r, n).kind = "event" /\ Event(r, n).run = r /\ Event(r, n).line = n
         /\ \A s : Status(s).kind = "status"
<1>1. \A q, m : /\ Event(q, m).kind = "event" /\ Event(q, m).run = q /\ Event(q, m).line = m
  BY DEF Event
<1>2. \A s : Status(s).kind = "status"
  BY DEF Status
<1>3. \A s : Event(r, n) # Status(s)
  BY <1>1, <1>2
<1>4. \A q, m : Event(r, n) = Event(q, m) => r = q /\ n = m
  BY <1>1
<1> QED
  BY <1>1, <1>2, <1>3, <1>4

\* What handleStdout does with half number h of child r.
LEMMA ReadOneMeans ==
  ASSUME TypeOK, NEW r \in Run, ReadOne(r)
  PROVE  /\ read[r] < printed[r] /\ read' = [read EXCEPT ![r] = read[r] + 1]
         /\ read[r] \in Nat /\ read[r] + 1 <= 2 * Lines
         /\ \A q \in Run : q # r => read'[q] = read[q]
         /\ read'[r] = read[r] + 1
         /\ (read[r] + 1) % 2 = 1 => buf' = Append(buf, <<r, read[r] + 1>>) /\ toWeb' = toWeb
         /\ (read[r] + 1) % 2 # 1 =>
              /\ buf' = <<>>
              /\ (read[r] + 1) \div 2 \in 1 .. Lines
              /\ 2 * ((read[r] + 1) \div 2) = read[r] + 1
              /\ toWeb' = toWeb \/ toWeb' = Append(toWeb, Event(r, (read[r] + 1) \div 2))
              /\ buf = << <<r, read[r]>> >> =>
                   toWeb' = Append(toWeb, Event(r, (read[r] + 1) \div 2))
         /\ got' = got
<1>1. read[r] \in Nat /\ printed[r] \in Nat /\ printed[r] <= 2 * Lines
  BY Constants DEF TypeOK
<1>2. read[r] < printed[r] /\ read' = [read EXCEPT ![r] = read[r] + 1] /\ got' = got
  BY DEF ReadOne, web
<1>3. read[r] + 1 \in Nat /\ read[r] + 1 <= 2 * Lines /\ read[r] + 1 - 1 = read[r]
  BY <1>1, <1>2, Constants
<1>4. /\ \A q \in Run : q # r => read'[q] = read[q]
      /\ read'[r] = read[r] + 1
  BY <1>2 DEF TypeOK
<1>5. (read[r] + 1) % 2 = 1 => buf' = Append(buf, <<r, read[r] + 1>>) /\ toWeb' = toWeb
  BY DEF ReadOne, Buffered
<1>6. (read[r] + 1) % 2 # 1 =>
        /\ buf' = <<>>
        /\ toWeb' = IF buf = << <<r, read[r]>> >>
                    THEN Append(toWeb, Event(r, (read[r] + 1) \div 2)) ELSE toWeb
  <2> DEFINE h == read[r] + 1
  <2>1. IF h % 2 = 1
        THEN buf' = Buffered(r, h) /\ UNCHANGED toWeb
        ELSE /\ buf' = <<>>
             /\ toWeb' = IF buf = << <<r, h - 1>> >>
                         THEN Append(toWeb, Event(r, h \div 2)) ELSE toWeb
    BY DEF ReadOne
  <2>2. h - 1 = read[r]
    BY <1>1
  <2> HIDE DEF h
  <2>3. h % 2 # 1 => /\ buf' = <<>>
                     /\ toWeb' = IF buf = << <<r, read[r]>> >>
                                 THEN Append(toWeb, Event(r, h \div 2)) ELSE toWeb
    BY <2>1, <2>2, Zenon
  <2> QED
    BY <2>3, Zenon DEF h
<1>7. (read[r] + 1) % 2 # 1 => /\ (read[r] + 1) \div 2 \in 1 .. Lines
                               /\ 2 * ((read[r] + 1) \div 2) = read[r] + 1
  BY <1>1, <1>3, Halves, Constants
<1> QED
  BY <1>1, <1>2, <1>3, <1>4, <1>5, <1>6, <1>7

\* What is counted and numbered are natural numbers.
LEMMA Numbers ==
  ASSUME TypeOK, NEW r \in Run
  PROVE  /\ read[r] \in Nat /\ printed[r] \in Nat /\ Len(got[r]) \in Nat
         /\ \A k \in 1 .. Len(got[r]) : got[r][k] \in 1 .. Lines
         /\ 1 .. Lines \subseteq Nat
<1>1. got[r] \in Seq(1 .. Lines)
  BY DEF TypeOK
<1>2. read[r] \in 0 .. 2 * Lines /\ printed[r] \in 0 .. 2 * Lines
  BY DEF TypeOK
<1> QED
  BY <1>1, <1>2, Constants

\* InOrder after a status has been sent.
LEMMA InOrderStatus ==
  ASSUME TypeOK, InOrder, NEW s, toWeb' = Append(toWeb, Status(s)), Status(s) \in Message,
         UNCHANGED <<got, read>>
  PROVE  InOrder'
<1>1. /\ Len(toWeb') = Len(toWeb) + 1 /\ Len(toWeb) \in Nat
      /\ toWeb'[Len(toWeb) + 1] = Status(s)
      /\ \A k \in 1 .. Len(toWeb) : toWeb'[k] = toWeb[k]
  BY Put DEF TypeOK
<1>2. ASSUME NEW r \in Run, NEW n \in 1 .. Lines, NEW j \in 1 .. Len(toWeb'),
             toWeb'[j] = Event(r, n)
      PROVE  j \in 1 .. Len(toWeb) /\ toWeb[j] = Event(r, n)
  <2>1. j # Len(toWeb) + 1
    BY <1>1, <1>2, Messages
  <2> QED
    BY <1>1, <1>2, <2>1
<1> QED
  BY <1>2 DEF InOrder

\* InOrder after half a line has been read: a line that is sent is the last.
LEMMA InOrderRead ==
  ASSUME TypeOK, InOrder, NEW r \in Run, ReadOne(r)
  PROVE  InOrder'
<1> DEFINE N == (read[r] + 1) \div 2
<1>1. /\ read[r] \in Nat /\ read'[r] = read[r] + 1 /\ got' = got
      /\ \A q \in Run : q # r => read'[q] = read[q]
  BY ReadOneMeans
<1>2. \A q \in Run : read[q] \in Nat /\ read'[q] \in Nat /\ read[q] <= read'[q]
  <2>1. ASSUME NEW q \in Run PROVE read[q] \in Nat /\ read'[q] \in Nat /\ read[q] <= read'[q]
    <3>1. CASE q = r
      BY <1>1, <3>1
    <3>2. CASE q # r
      BY <1>1, <3>2, Numbers
    <3> QED
      BY <3>1, <3>2
  <2> QED
    BY <2>1
<1>3. ASSUME NEW q \in Run, NEW k \in 1 .. Len(got'[q])
      PROVE  2 * got'[q][k] <= read'[q] /\ (k > 1 => got'[q][k - 1] < got'[q][k])
  <2>1. 2 * got[q][k] <= read[q] /\ (k > 1 => got[q][k - 1] < got[q][k])
    BY <1>1, <1>3 DEF InOrder
  <2>2. got[q][k] \in Nat
    BY <1>1, <1>3, Numbers
  <2> QED
    BY <1>1, <1>2, <2>1, <2>2
<1>4. CASE toWeb' = toWeb
  <2>1. ASSUME NEW q \in Run, NEW n \in 1 .. Lines, NEW j \in 1 .. Len(toWeb),
               toWeb[j] = Event(q, n)
        PROVE  2 * n <= read'[q]
    <3>1. 2 * n <= read[q] /\ n \in Nat
      BY <2>1, Constants DEF InOrder
    <3> QED
      BY <1>2, <3>1
  <2> QED
    BY <1>1, <1>3, <1>4, <2>1 DEF InOrder
<1>5. CASE toWeb' # toWeb
  <2>1. N \in 1 .. Lines /\ 2 * N = read[r] + 1 /\ toWeb' = Append(toWeb, Event(r, N))
    BY <1>5, ReadOneMeans
  <2> HIDE DEF N
  <2>2. Event(r, N) \in Message
    BY <2>1 DEF Event, Message
  <2>3. /\ Len(toWeb') = Len(toWeb) + 1 /\ Len(toWeb) \in Nat
        /\ toWeb'[Len(toWeb) + 1] = Event(r, N)
        /\ \A k \in 1 .. Len(toWeb) : toWeb'[k] = toWeb[k]
    BY <2>1, <2>2, Put DEF TypeOK
  <2>4. ASSUME NEW q \in Run, NEW n \in 1 .. Lines, NEW j \in 1 .. Len(toWeb'),
               toWeb'[j] = Event(q, n)
        PROVE  /\ 2 * n <= read'[q]
               /\ \A k \in 1 .. Len(got'[q]) : got'[q][k] < n
               /\ \A i \in 1 .. Len(toWeb'), m \in 1 .. Lines :
                    i < j /\ toWeb'[i] = Event(q, m) => m < n
    <3>1. CASE j \in 1 .. Len(toWeb)
      <4>1. toWeb[j] = Event(q, n)
        BY <2>3, <2>4, <3>1
      <4>2. /\ 2 * n <= read[q]
            /\ \A k \in 1 .. Len(got[q]) : got[q][k] < n
            /\ \A i \in 1 .. Len(toWeb), m \in 1 .. Lines :
                 i < j /\ toWeb[i] = Event(q, m) => m < n
        BY <3>1, <4>1 DEF InOrder
      <4>3. 2 * n <= read'[q]
        BY <1>2, <4>2, Numbers
      <4>4. \A i \in 1 .. Len(toWeb') : i < j => i \in 1 .. Len(toWeb)
        BY <2>3, <3>1
      <4> QED
        BY <1>1, <2>3, <4>2, <4>3, <4>4
    <3>2. CASE j \notin 1 .. Len(toWeb)
      <4>1. j = Len(toWeb) + 1
        BY <2>3, <3>2
      <4>2. q = r /\ n = N
        BY <2>3, <2>4, <4>1, Messages
      <4>3. 2 * n <= read'[q]
        BY <1>1, <2>1, <4>2
      <4>4. ASSUME NEW k \in 1 .. Len(got[r]) PROVE got[r][k] < N
        <5>1. 2 * got[r][k] <= read[r] /\ got[r][k] \in Nat
          BY Numbers DEF InOrder
        <5> QED
          BY <1>1, <2>1, <5>1
      <4>5. ASSUME NEW i \in 1 .. Len(toWeb'), NEW m \in 1 .. Lines, i < j,
                   toWeb'[i] = Event(r, m)
            PROVE  m < N
        <5>1. i \in 1 .. Len(toWeb) /\ toWeb[i] = Event(r, m)
          BY <2>3, <4>1, <4>5
        <5>2. 2 * m <= read[r]
          BY <5>1 DEF InOrder
        <5> QED
          BY <1>1, <2>1, <5>2
      <4> QED
        BY <1>1, <4>2, <4>3, <4>4, <4>5
    <3> QED
      BY <3>1, <3>2
  <2> QED
    BY <1>3, <2>4 DEF InOrder
<1> QED
  BY <1>4, <1>5

\* What the webview does with a message, and which messages are left.
LEMMA ReceiveMeans ==
  ASSUME TypeOK, WebReceives
  PROVE  /\ read' = read
         /\ Len(toWeb) \in Nat \ {0} /\ Len(toWeb') = Len(toWeb) - 1
         /\ \A j \in 1 .. Len(toWeb') : j + 1 \in 1 .. Len(toWeb) /\ toWeb'[j] = toWeb[j + 1]
         /\ \/ got' = got /\ \A r \in Run, n \in 1 .. Lines : toWeb[1] # Event(r, n)
            \/ \E r \in Run, n \in 1 .. Lines :
                 /\ toWeb[1] = Event(r, n)
                 /\ Len(got[r]) \in Nat /\ Len(got'[r]) = Len(got[r]) + 1
                 /\ got'[r][Len(got[r]) + 1] = n
                 /\ \A k \in 1 .. Len(got[r]) : got'[r][k] = got[r][k]
                 /\ \A q \in Run : q # r => got'[q] = got[q]
<1>1. /\ Len(toWeb) \in Nat \ {0} /\ toWeb' = Tail(toWeb) /\ Len(toWeb') = Len(toWeb) - 1
      /\ Head(toWeb) = toWeb[1] /\ toWeb[1] \in Message
      /\ \A j \in 1 .. Len(toWeb') : toWeb'[j] = toWeb[j + 1]
  BY Taken DEF WebReceives, TypeOK
<1>2. \A j \in 1 .. Len(toWeb') : j + 1 \in 1 .. Len(toWeb)
  BY <1>1
<1>3. read' = read
  BY DEF WebReceives, child
<1>4. CASE toWeb[1].kind = "status"
  <2>1. got' = got
    BY <1>1, <1>4 DEF WebReceives
  <2> QED
    BY <1>1, <1>2, <1>3, <1>4, <2>1, Messages
<1>5. CASE toWeb[1].kind # "status"
  <2>1. PICK r \in Run, n \in 1 .. Lines : toWeb[1] = Event(r, n)
    BY <1>1, <1>5 DEF Message, Event
  <2>2. toWeb[1].run = r /\ toWeb[1].line = n
    BY <2>1, Messages
  <2>3. got' = [got EXCEPT ![r] = Append(got[r], n)]
    BY <1>1, <1>5, <2>2 DEF WebReceives
  <2>4. got[r] \in Seq(1 .. Lines) /\ got'[r] = Append(got[r], n)
        /\ \A q \in Run : q # r => got'[q] = got[q]
    BY <2>3 DEF TypeOK
  <2>5. /\ Len(got[r]) \in Nat /\ Len(got'[r]) = Len(got[r]) + 1
        /\ got'[r][Len(got[r]) + 1] = n
        /\ \A k \in 1 .. Len(got[r]) : got'[r][k] = got[r][k]
    BY <2>4, Put
  <2> QED
    BY <1>1, <1>2, <1>3, <2>1, <2>4, <2>5
<1> QED
  BY <1>4, <1>5

\* InOrder after a message has been received: an event follows those got.
LEMMA InOrderReceive ==
  ASSUME TypeOK, InOrder, WebReceives
  PROVE  InOrder'
<1>1. /\ read' = read
      /\ Len(toWeb) \in Nat \ {0} /\ Len(toWeb') = Len(toWeb) - 1
      /\ \A j \in 1 .. Len(toWeb') : j + 1 \in 1 .. Len(toWeb) /\ toWeb'[j] = toWeb[j + 1]
  BY ReceiveMeans
<1>2. \A i, j \in 1 .. Len(toWeb') : i < j => i + 1 < j + 1
  BY <1>1
<1>3. \A j \in 1 .. Len(toWeb') : 1 < j + 1
  BY <1>1
<1>4. CASE got' = got
  BY <1>1, <1>2, <1>4 DEF InOrder
<1>5. CASE got' # got
  <2>1. PICK r \in Run, n \in 1 .. Lines :
          /\ toWeb[1] = Event(r, n)
          /\ Len(got[r]) \in Nat /\ Len(got'[r]) = Len(got[r]) + 1
          /\ got'[r][Len(got[r]) + 1] = n
          /\ \A k \in 1 .. Len(got[r]) : got'[r][k] = got[r][k]
          /\ \A q \in Run : q # r => got'[q] = got[q]
    BY <1>5, ReceiveMeans
  <2>2. 1 \in 1 .. Len(toWeb) /\ 2 * n <= read[r] /\ \A k \in 1 .. Len(got[r]) : got[r][k] < n
    BY <1>1, <2>1 DEF InOrder
  <2>3. ASSUME NEW q \in Run, NEW k \in 1 .. Len(got'[q])
        PROVE  2 * got'[q][k] <= read'[q] /\ (k > 1 => got'[q][k - 1] < got'[q][k])
    <3>1. CASE q # r
      BY <1>1, <2>1, <2>3, <3>1 DEF InOrder
    <3>2. CASE q = r /\ k \in 1 .. Len(got[r])
      <4>1. k > 1 => k - 1 \in 1 .. Len(got[r])
        BY <2>1, <3>2
      <4> QED
        BY <1>1, <2>1, <3>2, <4>1 DEF InOrder
    <3>3. CASE q = r /\ k \notin 1 .. Len(got[r])
      <4>1. k = Len(got[r]) + 1 /\ (k > 1 => k - 1 \in 1 .. Len(got[r]))
        BY <2>1, <2>3, <3>3
      <4>2. k > 1 => got'[r][k - 1] < n
        BY <2>1, <2>2, <4>1
      <4> QED
        BY <1>1, <2>1, <2>2, <3>3, <4>1, <4>2
    <3> QED
      BY <3>1, <3>2, <3>3
  <2>4. ASSUME NEW q \in Run, NEW m \in 1 .. Lines, NEW j \in 1 .. Len(toWeb'),
               toWeb'[j] = Event(q, m)
        PROVE  /\ 2 * m <= read'[q]
               /\ \A k \in 1 .. Len(got'[q]) : got'[q][k] < m
               /\ \A i \in 1 .. Len(toWeb'), l \in 1 .. Lines :
                    i < j /\ toWeb'[i] = Event(q, l) => l < m
    <3>1. j + 1 \in 1 .. Len(toWeb) /\ toWeb[j + 1] = Event(q, m)
      BY <1>1, <2>4
    <3>2. /\ 2 * m <= read[q]
          /\ \A k \in 1 .. Len(got[q]) : got[q][k] < m
          /\ \A i \in 1 .. Len(toWeb), l \in 1 .. Lines :
               i < j + 1 /\ toWeb[i] = Event(q, l) => l < m
      BY <3>1 DEF InOrder
    <3>3. \A k \in 1 .. Len(got'[q]) : got'[q][k] < m
      <4>1. CASE q # r
        BY <2>1, <3>2, <4>1
      <4>2. CASE q = r
        <5>1. n < m
          BY <1>3, <2>1, <2>2, <3>2, <4>2
        <5>2. \A k \in 1 .. Len(got'[r]) : k \in 1 .. Len(got[r]) \/ k = Len(got[r]) + 1
          BY <2>1
        <5> QED
          BY <2>1, <3>2, <4>2, <5>1, <5>2
      <4> QED
        BY <4>1, <4>2
    <3> QED
      BY <1>1, <1>2, <3>2, <3>3
  <2> QED
    BY <2>3, <2>4 DEF InOrder
<1> QED
  BY <1>4, <1>5

\* The end of a child sends at most a status.
LEMMA EndMeans ==
  ASSUME NEW r \in Run, Errored(r) \/ Closed(r)
  PROVE  /\ toWeb' = toWeb \/ \E s \in {"ok", "error", "cancelled"} :
                                 toWeb' = Append(toWeb, Status(s))
         /\ UNCHANGED <<got, read, printed, buf>>
<1>1. CASE Errored(r)
  BY <1>1 DEF Errored, Told, web
<1>2. CASE Closed(r)
  <2>1. Verdict(r) \in {"ok", "error", "cancelled"}
    BY DEF Verdict
  <2> QED
    BY <1>2, <2>1 DEF Closed, Told, web
<1> QED
  BY <1>1, <1>2

\* InOrder is inductive.
LEMMA InOrderStep ==
  ASSUME TypeOK, InOrder, [Next]_vars
  PROVE  InOrder'
<1> USE DEF runner, child, web
<1>1. CASE UNCHANGED <<toWeb, got, read>>
  BY <1>1 DEF InOrder
<1>2. CASE WebReceives
  BY <1>2, InOrderReceive
<1>3. ASSUME NEW r \in Run, Start(r) PROVE InOrder'
  BY <1>3, InOrderStatus, StatusIsMessage DEF Start, Announced
<1>4. ASSUME NEW r \in Run, ReadOne(r) PROVE InOrder'
  BY <1>4, InOrderRead
<1>5. ASSUME NEW r \in Run, Errored(r) \/ Closed(r) PROVE InOrder'
  <2>1. UNCHANGED <<got, read>>
    BY <1>5, EndMeans
  <2>2. CASE toWeb' = toWeb
    BY <1>1, <2>1, <2>2
  <2>3. CASE \E s \in {"ok", "error", "cancelled"} : toWeb' = Append(toWeb, Status(s))
    BY <2>1, <2>3, InOrderStatus, StatusIsMessage
  <2> QED
    BY <1>5, <2>2, <2>3, EndMeans
<1>6. CASE Click \/ RunAsked \/ SaveFails \/ StartRefused \/ UNCHANGED vars
           \/ (\E r \in Run : PrintHalf(r) \/ Ends(r))
  BY <1>1, <1>6 DEF Click, RunAsked, SaveFails, StartRefused, PrintHalf, Ends, vars
<1>7. CASE CancelAsked \/ Dispose
  BY <1>1, <1>7 DEF CancelAsked, Dispose
<1> QED
  BY <1>2, <1>3, <1>4, <1>5, <1>6, <1>7 DEF Next, Host, Child

\* A child that has been cut off stays one: what has ended prints no more.
LEMMA CutOffStays ==
  ASSUME TypeOK, [Next]_vars, ~CutOff'
  PROVE  ~CutOff
<1> USE DEF runner, child, web
<1> SUFFICES ASSUME NEW q \in Run, st[q] \in {"exited", "closed"}, printed[q] % 2 = 1
             PROVE  st'[q] \in {"exited", "closed"} /\ printed'[q] = printed[q]
  BY DEF CutOff
<1>1. CASE Stop /\ printed' = printed
  BY <1>1 DEF Stop, TypeOK
<1>2. CASE UNCHANGED <<st, printed>>
  BY <1>2
<1>3. ASSUME NEW r \in Run, Start(r) PROVE st'[q] = st[q] /\ printed' = printed
  BY <1>3 DEF Start, Unborn, TypeOK
<1>4. ASSUME NEW r \in Run, Ends(r) PROVE st'[q] = st[q] /\ printed' = printed
  BY <1>4 DEF Ends, TypeOK
<1>5. ASSUME NEW r \in Run, Errored(r) PROVE st'[q] = st[q] /\ printed' = printed
  BY <1>5 DEF Errored, TypeOK
<1>6. ASSUME NEW r \in Run, Closed(r)
      PROVE  st'[q] \in {"exited", "closed"} /\ printed' = printed
  BY <1>6 DEF Closed, TypeOK
<1>7. ASSUME NEW r \in Run, PrintHalf(r) PROVE st'[q] = st[q] /\ printed'[q] = printed[q]
  BY <1>7 DEF PrintHalf, TypeOK
<1>8. CASE Click \/ WebReceives \/ RunAsked \/ SaveFails \/ StartRefused \/ UNCHANGED vars
           \/ (\E r \in Run : ReadOne(r))
  BY <1>2, <1>8 DEF Click, WebReceives, RunAsked, SaveFails, StartRefused, ReadOne, vars
<1>9. CASE CancelAsked \/ Dispose
  BY <1>1, <1>9 DEF CancelAsked, Dispose
<1> QED
  BY <1>3, <1>4, <1>5, <1>6, <1>7, <1>8, <1>9 DEF Next, Host, Child

\* Only proc can have half a line in the buffer.
LEMMA HalfIsProcs ==
  ASSUME TypeOK, Ages, OneChild, ~SpawnFailed, ~CutOff, NEW r \in Run,
         read[r] < printed[r] \/ read[r] % 2 = 1
  PROVE  proc = r
<1>1. read[r] \in Nat /\ printed[r] \in Nat /\ read[r] <= printed[r]
  BY Numbers DEF TypeOK
<1>2. printed[r] # 0
  BY <1>1
<1>3. st[r] \notin {"none", "failed", "errored"}
  BY <1>2 DEF Ages
<1>4. st[r] # "closed"
  BY <1>1 DEF Ages, CutOff
<1>5. st[r] \in {"live", "exited"}
  BY <1>3, <1>4 DEF TypeOK
<1> QED
  BY <1>5 DEF OneChild

\* Whole after half a line has been read: the second half finds the first.
LEMMA WholeRead ==
  ASSUME TypeOK, Ages, OneChild, ~SpawnFailed, ~CutOff, Whole, NEW r \in Run, ReadOne(r)
  PROVE  Whole'
<1> DEFINE N == (read[r] + 1) \div 2
<1>1. /\ read[r] \in Nat /\ read'[r] = read[r] + 1 /\ got' = got /\ read[r] < printed[r]
      /\ \A q \in Run : q # r => read'[q] = read[q]
  BY ReadOneMeans
<1>2. \A q \in Run : q # r => read[q] % 2 # 1
  BY <1>1, HalfIsProcs, Constants
<1>3. read[r] % 2 = 1 <=> (read[r] + 1) % 2 # 1
  BY <1>1, Halves
<1>4. \A q \in Run : \A k \in 1 .. Len(got'[q]) : got'[q][k] = k
  BY <1>1 DEF Whole
<1>5. CASE (read[r] + 1) % 2 = 1
  <2>1. toWeb' = toWeb /\ buf' = Append(buf, <<r, read[r] + 1>>) /\ buf = <<>>
    BY <1>2, <1>3, <1>5, ReadOneMeans DEF Whole
  <2>2. buf' = << <<r, read'[r]>> >>
    BY <1>1, <2>1
  <2>3. ASSUME NEW q \in Run, NEW n \in 1 .. Lines, 2 * n <= read'[q]
        PROVE  2 * n <= read[q]
    <3>1. CASE q = r
      <4>1. n \in Nat /\ 2 * n # read[r] + 1
        BY <1>1, <1>5, Numbers
      <4> QED
        BY <1>1, <2>3, <3>1, <4>1
    <3>2. CASE q # r
      BY <1>1, <2>3, <3>2
    <3> QED
      BY <3>1, <3>2
  <2>4. \A q \in Run : read'[q] % 2 = 1 => buf' = << <<q, read'[q]>> >>
    BY <1>1, <1>2, <2>2
  <2>5. ~(\A q \in Run : read'[q] % 2 # 1)
    BY <1>1, <1>5
  <2>6. \A q \in Run, n \in 1 .. Lines : 2 * n <= read'[q] =>
          n <= Len(got'[q]) \/ \E j \in 1 .. Len(toWeb') : toWeb'[j] = Event(q, n)
    BY <1>1, <2>1, <2>3 DEF Whole
  <2> QED
    BY <1>4, <2>4, <2>5, <2>6 DEF Whole
<1>6. CASE (read[r] + 1) % 2 # 1
  <2>1. buf = << <<r, read[r]>> >>
    BY <1>3, <1>6 DEF Whole
  <2>2. /\ toWeb' = Append(toWeb, Event(r, N)) /\ N \in 1 .. Lines /\ 2 * N = read[r] + 1
        /\ buf' = <<>>
    BY <1>6, <2>1, ReadOneMeans
  <2> HIDE DEF N
  <2>3. Event(r, N) \in Message
    BY <2>2 DEF Event, Message
  <2>4. /\ Len(toWeb') = Len(toWeb) + 1 /\ Len(toWeb) \in Nat
        /\ toWeb'[Len(toWeb) + 1] = Event(r, N)
        /\ \A k \in 1 .. Len(toWeb) : toWeb'[k] = toWeb[k]
    BY <2>2, <2>3, Put DEF TypeOK
  <2>5. \A q \in Run : read'[q] % 2 # 1
    BY <1>1, <1>2, <1>6
  <2>6. ASSUME NEW q \in Run, NEW n \in 1 .. Lines, 2 * n <= read'[q]
        PROVE  n <= Len(got'[q]) \/ \E j \in 1 .. Len(toWeb') : toWeb'[j] = Event(q, n)
    <3>1. CASE q = r /\ n = N
      <4>1. Len(toWeb) + 1 \in 1 .. Len(toWeb')
        BY <2>4
      <4> QED
        BY <2>4, <3>1, <4>1
    <3>2. CASE ~(q = r /\ n = N)
      <4>1. 2 * n <= read[q]
        <5>1. CASE q = r
          <6>1. n \in Nat /\ N \in Nat /\ n # N
            BY <2>2, <3>2, <5>1, Numbers
          <6> QED
            BY <1>1, <2>2, <2>6, <5>1, <6>1
        <5>2. CASE q # r
          BY <1>1, <2>6, <5>2
        <5> QED
          BY <5>1, <5>2
      <4>2. n <= Len(got[q]) \/ \E j \in 1 .. Len(toWeb) : toWeb[j] = Event(q, n)
        BY <4>1 DEF Whole
      <4>3. \A j \in 1 .. Len(toWeb) : j \in 1 .. Len(toWeb')
        BY <2>4
      <4> QED
        BY <1>1, <2>4, <4>2, <4>3
    <3> QED
      BY <3>1, <3>2
  <2> QED
    BY <1>4, <2>2, <2>5, <2>6 DEF Whole
<1> QED
  BY <1>5, <1>6

\* Whole after a status has been sent.
LEMMA WholeStatus ==
  ASSUME TypeOK, Whole, NEW s \in {"running", "ok", "error", "cancelled"},
         toWeb' = Append(toWeb, Status(s)), UNCHANGED <<got, read, buf>>
  PROVE  Whole'
<1>1. /\ Len(toWeb') = Len(toWeb) + 1 /\ Len(toWeb) \in Nat
      /\ \A k \in 1 .. Len(toWeb) : toWeb'[k] = toWeb[k]
  BY Put, StatusIsMessage DEF TypeOK
<1>2. \A j \in 1 .. Len(toWeb) : j \in 1 .. Len(toWeb')
  BY <1>1
<1> QED
  BY <1>1, <1>2 DEF Whole

\* Whole after a message has been received: an event is the next line.
LEMMA WholeReceive ==
  ASSUME TypeOK, InOrder, Whole, WebReceives
  PROVE  Whole'
<1>1. /\ read' = read /\ buf' = buf
      /\ Len(toWeb) \in Nat \ {0} /\ Len(toWeb') = Len(toWeb) - 1
      /\ \A j \in 1 .. Len(toWeb') : toWeb'[j] = toWeb[j + 1]
  BY ReceiveMeans DEF WebReceives, runner
<1>2. \A j \in 1 .. Len(toWeb) : j # 1 => j - 1 \in 1 .. Len(toWeb') /\ toWeb'[j - 1] = toWeb[j]
  <2> SUFFICES ASSUME NEW j \in 1 .. Len(toWeb), j # 1
               PROVE  j - 1 \in 1 .. Len(toWeb') /\ toWeb'[j - 1] = toWeb[j]
    OBVIOUS
  <2>1. j - 1 \in 1 .. Len(toWeb') /\ (j - 1) + 1 = j
    BY <1>1
  <2> QED
    BY <1>1, <2>1
<1>3. CASE got' = got /\ \A r \in Run, n \in 1 .. Lines : toWeb[1] # Event(r, n)
  <2>1. ASSUME NEW q \in Run, NEW n \in 1 .. Lines, 2 * n <= read'[q]
        PROVE  n <= Len(got'[q]) \/ \E j \in 1 .. Len(toWeb') : toWeb'[j] = Event(q, n)
    <3>1. n <= Len(got[q]) \/ \E j \in 1 .. Len(toWeb) : toWeb[j] = Event(q, n)
      BY <1>1, <2>1 DEF Whole
    <3> QED
      BY <1>2, <1>3, <3>1
  <2> QED
    BY <1>1, <1>3, <2>1 DEF Whole
<1>4. ASSUME NEW r \in Run, NEW n \in 1 .. Lines,
             /\ toWeb[1] = Event(r, n)
             /\ Len(got[r]) \in Nat /\ Len(got'[r]) = Len(got[r]) + 1
             /\ got'[r][Len(got[r]) + 1] = n
             /\ \A k \in 1 .. Len(got[r]) : got'[r][k] = got[r][k]
             /\ \A q \in Run : q # r => got'[q] = got[q]
      PROVE  Whole'
  <2>1. 1 \in 1 .. Len(toWeb) /\ 2 * n <= read[r] /\ \A k \in 1 .. Len(got[r]) : got[r][k] < n
    BY <1>1, <1>4 DEF InOrder
  <2>2. n > Len(got[r])
    <3>1. CASE Len(got[r]) = 0
      BY <3>1, Numbers
    <3>2. CASE Len(got[r]) # 0
      <4>1. Len(got[r]) \in 1 .. Len(got[r])
        BY <1>4, <3>2
      <4>2. got[r][Len(got[r])] = Len(got[r])
        BY <4>1 DEF Whole
      <4>3. Len(got[r]) < n
        BY <2>1, <4>1, <4>2
      <4> QED
        BY <1>4, <4>3
    <3> QED
      BY <3>1, <3>2
  <2>3. n = Len(got[r]) + 1
    <3> SUFFICES ASSUME n # Len(got[r]) + 1 PROVE FALSE
      OBVIOUS
    <3>1. n \in Nat /\ n <= Lines /\ Lines \in Nat /\ read[r] \in Nat /\ Len(got[r]) \in Nat
          /\ 2 * n <= read[r] /\ n > Len(got[r])
      BY <1>4, <2>1, <2>2, Numbers, Constants
    <3> DEFINE len == Len(got[r])
               half == read[r]
    <3>2. len \in Nat /\ half \in Nat /\ n > len /\ n # len + 1 /\ 2 * n <= half
      BY <3>1
    <3> HIDE DEF len, half
    <3>3. len + 1 \in 1 .. Lines /\ 2 * (len + 1) <= half /\ ~(len + 1 <= len) /\ len + 1 < n
      BY <3>1, <3>2
    <3>4. Len(got[r]) + 1 \in 1 .. Lines /\ 2 * (Len(got[r]) + 1) <= read[r]
          /\ ~(Len(got[r]) + 1 <= Len(got[r])) /\ Len(got[r]) + 1 < n
      BY <3>3, Zenon DEF len, half
    <3>5. PICK j \in 1 .. Len(toWeb) : toWeb[j] = Event(r, Len(got[r]) + 1)
      BY <3>4 DEF Whole
    <3>6. j # 1
      BY <1>4, <3>4, <3>5, Messages
    <3>7. 1 < j
      BY <3>6
    <3>8. n < Len(got[r]) + 1
      BY <1>4, <2>1, <3>4, <3>5, <3>7 DEF InOrder
    <3> QED
      BY <1>4, <3>4, <3>8, Numbers
  <2>4. \A q \in Run : \A k \in 1 .. Len(got'[q]) : got'[q][k] = k
    <3>1. \A k \in 1 .. Len(got'[r]) : k \in 1 .. Len(got[r]) \/ k = Len(got[r]) + 1
      BY <1>4
    <3> QED
      BY <1>4, <2>3, <3>1 DEF Whole
  <2>5. ASSUME NEW q \in Run, NEW m \in 1 .. Lines, 2 * m <= read'[q]
        PROVE  m <= Len(got'[q]) \/ \E j \in 1 .. Len(toWeb') : toWeb'[j] = Event(q, m)
    <3>1. m <= Len(got[q]) \/ \E j \in 1 .. Len(toWeb) : toWeb[j] = Event(q, m)
      BY <1>1, <2>5 DEF Whole
    <3>2. CASE m <= Len(got[q])
      <4>1. CASE q = r
        <5>1. m \in Nat /\ Len(got[r]) \in Nat /\ Len(got'[r]) = Len(got[r]) + 1
          BY <1>4, Constants
        <5> QED
          BY <3>2, <4>1, <5>1
      <4>2. CASE q # r
        BY <1>4, <3>2, <4>2
      <4> QED
        BY <4>1, <4>2
    <3>3. CASE \E j \in 1 .. Len(toWeb) : toWeb[j] = Event(q, m) /\ j # 1
      BY <1>2, <3>3
    <3>4. CASE toWeb[1] = Event(q, m)
      <4>0. Event(r, n) = Event(q, m)
        BY <1>4, <3>4
      <4>1. q = r /\ m = n
        BY <4>0, Messages
      <4>2. m <= Len(got'[r])
        BY <1>4, <2>3, <4>1
      <4> QED
        BY <4>1, <4>2
    <3> QED
      BY <3>1, <3>2, <3>3, <3>4
  <2> QED
    BY <1>1, <2>4, <2>5 DEF Whole
<1> QED
  BY <1>3, <1>4, ReceiveMeans

\* While no spawn fails and no child is cut off, Whole is inductive.
LEMMA WholeStep ==
  ASSUME TypeOK, Ages, OneChild, InOrder, Whole, ~SpawnFailed, ~CutOff, [Next]_vars
  PROVE  Whole'
<1> USE DEF runner, child, web
<1>1. CASE UNCHANGED <<toWeb, got, read, buf>>
  BY <1>1 DEF Whole
<1>2. CASE WebReceives
  BY <1>2, WholeReceive
<1>3. ASSUME NEW r \in Run, Start(r) PROVE Whole'
  BY <1>3, WholeStatus DEF Start, Announced
<1>4. ASSUME NEW r \in Run, ReadOne(r) PROVE Whole'
  BY <1>4, WholeRead
<1>5. ASSUME NEW r \in Run, Errored(r) \/ Closed(r) PROVE Whole'
  <2>1. UNCHANGED <<got, read, buf>>
    BY <1>5, EndMeans
  <2>2. CASE toWeb' = toWeb
    BY <1>1, <2>1, <2>2
  <2>3. CASE \E s \in {"ok", "error", "cancelled"} : toWeb' = Append(toWeb, Status(s))
    BY <2>1, <2>3, WholeStatus
  <2> QED
    BY <1>5, <2>2, <2>3, EndMeans
<1>6. CASE Click \/ RunAsked \/ SaveFails \/ StartRefused \/ UNCHANGED vars
           \/ (\E r \in Run : PrintHalf(r) \/ Ends(r))
  BY <1>1, <1>6 DEF Click, RunAsked, SaveFails, StartRefused, PrintHalf, Ends, vars
<1>7. CASE CancelAsked \/ Dispose
  BY <1>1, <1>7 DEF CancelAsked, Dispose
<1> QED
  BY <1>2, <1>3, <1>4, <1>5, <1>6, <1>7 DEF Next, Host, Child

-----------------------------------------------------------------------------
(* The theorems.                                                             *)

\* The inductive invariant.  What a failed spawn may break is asked for only as
\* long as none has failed, and what half a line may break only as long as no
\* child was cut off in mid-line.
RunnerOK ==
  /\ TypeOK /\ Ages /\ ProcIsTold /\ InOrder
  /\ ~SpawnFailed => OneChild
  /\ ~SpawnFailed /\ ~CutOff => Whole

\* Nothing has been asked for yet.
LEMMA InitOK ==
  ASSUME Init
  PROVE  RunnerOK
<1>1. TypeOK
  <2>1. <<>> \in Seq(Run \X (1 .. 2 * Lines)) /\ <<>> \in Seq(Message)
    OBVIOUS
  <2>2. <<>> \in Seq({"run", "run-cancel"}) /\ Len(<<>>) = 0
    OBVIOUS
  <2>3. <<>> \in Seq(1 .. Lines) /\ <<>> \in Seq({"ok", "error", "cancelled"})
    OBVIOUS
  <2>4. 0 \in 0 .. 2 * Lines /\ 0 \in 0 .. MaxClicks
    BY Constants
  <2>5. /\ buf \in Seq(Run \X (1 .. 2 * Lines)) /\ toWeb \in Seq(Message)
        /\ toHost \in Seq({"run", "run-cancel"}) /\ Len(toHost) = 0
    BY <2>1, <2>2 DEF Init
  <2>6. /\ got \in [Run -> Seq(1 .. Lines)]
        /\ reports \in [Run -> Seq({"ok", "error", "cancelled"})]
    BY <2>3 DEF Init
  <2>7. /\ proc = None /\ cancelled \in BOOLEAN /\ disposed \in BOOLEAN
        /\ channel \in {"none", "open", "closed"} /\ saving = 0 /\ clicks = 0
        /\ shown \in {"idle", "running", "ok", "error", "cancelled"} /\ asked \subseteq Run
    BY DEF Init
  <2>8. /\ st \in [Run -> {"none", "live", "exited", "failed", "errored", "closed"}]
        /\ code \in [Run -> {"none", "ok", "bad", "killed", "failed"}]
        /\ printed \in [Run -> 0 .. 2 * Lines] /\ read \in [Run -> 0 .. 2 * Lines]
        /\ \A r \in Run : read[r] <= printed[r]
    BY <2>4 DEF Init
  <2> QED
    BY <2>4, <2>5, <2>6, <2>7, <2>8 DEF TypeOK
<1>2. Ages /\ ProcIsTold /\ OneChild
  BY DEF Init, Ages, ProcIsTold, OneChild
<1>3. InOrder /\ Whole
  <2>1. \A r \in Run : got[r] = <<>> /\ read[r] = 0
    BY DEF Init
  <2>2. toWeb = <<>> /\ buf = <<>>
    BY DEF Init
  <2>3. 1 .. Len(<<>>) = {} /\ 0 % 2 # 1
    OBVIOUS
  <2>4. \A n \in 1 .. Lines : ~(2 * n <= 0)
    BY Constants
  <2> QED
    BY <2>1, <2>2, <2>3, <2>4 DEF InOrder, Whole
<1> QED
  BY <1>1, <1>2, <1>3 DEF RunnerOK

\* Every step keeps the inductive invariant.
LEMMA StepOK ==
  ASSUME RunnerOK, [Next]_vars
  PROVE  RunnerOK'
<1> USE DEF RunnerOK
<1>1. TypeOK'
  BY TypeStep
<1>2. Ages'
  BY AgesStep
<1>3. ProcIsTold' /\ InOrder'
  BY ProcIsToldStep, InOrderStep
<1>4. ASSUME ~SpawnFailed' PROVE OneChild'
  BY <1>4, FailureStays, OneChildStep
<1>5. ASSUME ~SpawnFailed', ~CutOff' PROVE Whole'
  BY <1>5, FailureStays, CutOffStays, WholeStep
<1> QED
  BY <1>1, <1>2, <1>3, <1>4, <1>5

\* The inductive invariant holds.
LEMMA AlwaysOK == Spec => []RunnerOK
  BY InitOK, StepOK, PTL DEF Spec

\* Every variable of the run command keeps its type; a message to the host and a
\* save that runs each come from a click of their own (messageRouter.ts:23-39).
THEOREM Types == Spec => []TypeOK
<1>1. RunnerOK => TypeOK
  BY DEF RunnerOK
<1> QED
  BY <1>1, AlwaysOK, PTL

\* Unless a spawn has failed, runCommand.ts:43 keeps two children from running
\* at once, whatever is saved and cancelled meanwhile.
THEOREM OneAtATimeAlways == Spec => []OneAtATime
<1>1. ASSUME RunnerOK PROVE OneAtATime
  <2> DEFINE live == {r \in Run : st[r] = "live"}
  <2> SUFFICES ASSUME ~SpawnFailed PROVE Cardinality(live) <= 1
    BY DEF OneAtATime
  <2>1. \A r \in live : r = proc
    BY <1>1 DEF RunnerOK, OneChild
  <2>2. live = {} \/ live = {proc}
    BY <2>1
  <2> HIDE DEF live
  <2>3. Cardinality({}) = 0 /\ Cardinality({proc}) = 1
    BY FS_EmptySet, FS_Singleton
  <2> QED
    BY <2>2, <2>3
<1> QED
  BY <1>1, AlwaysOK, PTL

\* RunButton.tsx:13-17: a child that runs can be stopped: once all messages have
\* arrived the button is the stop button.
THEOREM StopIsOfferedAlways == Spec => []StopIsOffered
<1>1. ASSUME RunnerOK PROVE StopIsOffered
  <2> SUFFICES ASSUME ~SpawnFailed, toWeb = <<>>, NEW r \in Run, st[r] = "live"
               PROVE  shown = "running"
    BY DEF StopIsOffered
  <2>1. proc = r /\ proc # None
    BY <1>1, Constants DEF RunnerOK, OneChild
  <2>2. ToldRunning
    BY <1>1, <2>1 DEF RunnerOK, ProcIsTold
  <2>3. 0 .. Len(toWeb) = {0}
    OBVIOUS
  <2> QED
    BY <2>2, <2>3 DEF ToldRunning
<1> QED
  BY <1>1, AlwaysOK, PTL

\* runCommand.ts:28-31: unless a spawn has failed, the end of a child is reported
\* at most once, and as cancelled exactly when cancel() was to end it, however the
\* cancel, the end of the child and its `close` event fall.
THEOREM ReportedAsItEndedAlways == Spec => []ReportedAsItEnded
<1>1. ASSUME RunnerOK PROVE ReportedAsItEnded
  <2> SUFFICES ASSUME ~SpawnFailed, NEW r \in Run
               PROVE  /\ Len(reports[r]) <= 1
                      /\ reports[r] # <<>> => (reports[r][1] = "cancelled") = (r \in asked)
    BY DEF ReportedAsItEnded
  <2>1. reports[r] = <<>> \/ \E s \in {"ok", "error", "cancelled"} :
                                reports[r] = <<s>> /\ Truthful(r, s)
    BY <1>1 DEF RunnerOK, OneChild
  <2>2. CASE reports[r] = <<>>
    BY <2>2
  <2>3. ASSUME NEW s, reports[r] = <<s>>, Truthful(r, s)
        PROVE  /\ Len(reports[r]) <= 1
               /\ (reports[r][1] = "cancelled") = (r \in asked)
    <3>1. Len(<<s>>) = 1 /\ <<s>>[1] = s
      OBVIOUS
    <3>2. (s = "cancelled") = (r \in asked)
      BY <2>3 DEF Truthful
    <3>3. Len(reports[r]) = 1 /\ reports[r][1] = s
      BY <2>3, <3>1
    <3> QED
      BY <3>2, <3>3
  <2> QED
    BY <2>1, <2>2, <2>3
<1> QED
  BY <1>1, AlwaysOK, PTL

\* runCommand.ts:86-105: the webview gets each line at most once and in the order
\* printed, and all of them when a child ended well and none before was cut off.
THEOREM LinesArriveAlways == Spec => []LinesArrive
<1>1. ASSUME RunnerOK PROVE LinesArrive
  <2> SUFFICES ASSUME NEW r \in Run
               PROVE  /\ \A k \in 2 .. Len(got[r]) : got[r][k - 1] < got[r][k]
                      /\ ~SpawnFailed /\ ~CutOff /\ reports[r] = <<"ok">> /\ toWeb = <<>>
                           => Len(got[r]) = Lines
    BY DEF LinesArrive
  <2>0. TypeOK /\ Len(got[r]) \in Nat /\ Lines \in Nat
    BY <1>1, Numbers, Constants DEF RunnerOK
  <2>1. ASSUME NEW k \in 2 .. Len(got[r]) PROVE got[r][k - 1] < got[r][k]
    <3>1. k \in 1 .. Len(got[r]) /\ k > 1
      BY <2>0
    <3> QED
      BY <1>1, <3>1 DEF RunnerOK, InOrder
  <2>2. ASSUME ~SpawnFailed, ~CutOff, reports[r] = <<"ok">>, toWeb = <<>>
        PROVE  Len(got[r]) = Lines
    <3>1. OneChild /\ Whole /\ Ages
      BY <1>1, <2>2 DEF RunnerOK
    <3>2. reports[r] # <<>> /\ \A s : reports[r] = <<s>> => s = "ok"
      BY <2>2
    <3>3. code[r] = "ok" /\ st[r] = "closed"
      BY <3>1, <3>2 DEF OneChild, Truthful
    <3>4. read[r] = 2 * Lines
      BY <3>1, <3>3 DEF Ages
    <3>5. \A n \in 1 .. Lines : n <= Len(got[r])
      <4>1. 1 .. Len(toWeb) = {}
        BY <2>2
      <4>2. \A n \in 1 .. Lines : 2 * n <= read[r]
        BY <2>0, <3>4
      <4> QED
        BY <3>1, <4>1, <4>2 DEF Whole
    <3>6. \A k \in 1 .. Len(got[r]) : k \in 1 .. Lines
      BY <2>0, <3>1, Numbers DEF Whole
    <3> QED
      BY <2>0, <3>5, <3>6
  <2> QED
    BY <2>1, <2>2
<1> QED
  BY <1>1, AlwaysOK, PTL
=============================================================================
