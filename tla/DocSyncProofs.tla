--------------------------- MODULE DocSyncProofs ---------------------------
(* Proofs about the document and its two copies, for any number of changes  *)
(* and acts, any queue and any number of handlers under way.                 *)
EXTENDS DocSync, SequenceTheorems, TLAPS
LOCAL INSTANCE SequencesExt   \* RemoveAt

-----------------------------------------------------------------------------
(* Sequences.                                                                *)

\* The first message taken off a queue.
LEMMA Taken ==
  ASSUME NEW S, NEW s \in Seq(S), s # <<>>
  PROVE  /\ Head(s) \in S /\ Tail(s) \in Seq(S) /\ Len(Tail(s)) = Len(s) - 1
         /\ Len(s) \in Nat \ {0} /\ Head(s) = s[1]
         /\ \A k \in 1 .. Len(Tail(s)) : Tail(s)[k] = s[k + 1]
  OBVIOUS

\* One message put at the end, also as a sequence of one.
LEMMA Put ==
  ASSUME NEW S, NEW s \in Seq(S), NEW x \in S
  PROVE  /\ Append(s, x) \in Seq(S) /\ Len(Append(s, x)) = Len(s) + 1
         /\ Len(s) \in Nat /\ Append(s, x)[Len(s) + 1] = x
         /\ \A k \in 1 .. Len(s) : Append(s, x)[k] = s[k]
         /\ s \o <<>> = s /\ s \o <<x>> = Append(s, x)
  OBVIOUS

\* A handler that has ended is taken out of the list.
LEMMA TakenOut ==
  ASSUME NEW S, NEW s \in Seq(S), NEW k \in 1 .. Len(s)
  PROVE  /\ RemoveAt(s, k) \in Seq(S)
         /\ \A j \in 1 .. Len(RemoveAt(s, k)) : \E i \in 1 .. Len(s) : RemoveAt(s, k)[j] = s[i]
         /\ Len(s) <= 1 => RemoveAt(s, k) = <<>>
<1> DEFINE a == SubSeq(s, 1, k - 1)
           b == SubSeq(s, k + 1, Len(s))
<1>1. /\ a \in Seq(S) /\ Len(a) = k - 1
      /\ \A j \in 1 .. k - 1 : a[j] = s[j]
  <2>1. \A i \in 1 .. k - 1 : s[i] \in S
    OBVIOUS
  <2>2. 1 \in Int /\ k - 1 \in Int
    OBVIOUS
  <2> QED
    BY <2>1, <2>2, SubSeqProperties
<1>2. /\ b \in Seq(S) /\ Len(b) = Len(s) - k
      /\ \A j \in 1 .. Len(s) - k : b[j] = s[k + j]
  <2>1. \A i \in k + 1 .. Len(s) : s[i] \in S
    OBVIOUS
  <2>2. Len(s) \in Int /\ k + 1 \in Int
    OBVIOUS
  <2> QED
    BY <2>1, <2>2, SubSeqProperties
<1>3. RemoveAt(s, k) = a \o b
  BY DEF RemoveAt
<1> HIDE DEF a, b
<1>4. /\ a \o b \in Seq(S) /\ Len(a \o b) = Len(s) - 1
      /\ \A j \in 1 .. Len(s) - 1 :
           (a \o b)[j] = IF j <= k - 1 THEN a[j] ELSE b[j - (k - 1)]
  BY <1>1, <1>2, ConcatProperties
<1>5. ASSUME NEW j \in 1 .. Len(s) - 1
      PROVE  \E i \in 1 .. Len(s) : (a \o b)[j] = s[i]
  <2>1. CASE j <= k - 1
    BY <1>1, <1>4, <2>1
  <2>2. CASE ~(j <= k - 1)
    <3>1. (a \o b)[j] = b[j - (k - 1)] /\ j - (k - 1) \in 1 .. Len(s) - k
      BY <1>4, <2>2
    <3>2. b[j - (k - 1)] = s[j + 1] /\ j + 1 \in 1 .. Len(s)
      BY <1>2, <3>1
    <3> QED
      BY <3>1, <3>2
  <2> QED
    BY <2>1, <2>2
<1>6. Len(s) <= 1 => a \o b = <<>>
  BY <1>4
<1> QED
  BY <1>3, <1>4, <1>5, <1>6

\* A sequence is a function on its positions.
LEMMA Positions ==
  ASSUME NEW S, NEW s \in Seq(S)
  PROVE  /\ Len(s) \in Nat /\ DOMAIN s = 1 .. Len(s)
         /\ \A k \in 1 .. Len(s) : s[k] \in S
         /\ s = <<>> <=> Len(s) = 0
  OBVIOUS

-----------------------------------------------------------------------------
(* What the actions do.                                                      *)

\* No spec and no viewer state is None, and the file's own are among them.
LEMMA Constants ==
  /\ MaxActs \in Nat /\ None \notin SUBSET Changes /\ None \notin Views
  /\ View(View0) \in Views /\ View0 \in Views \cup {None} /\ {Base} \in SUBSET Changes
  /\ \A v \in Views \cup {None} : View(v) \in Views
  /\ \A v \in (SUBSET Changes) \cup {None} : View(v) \in SUBSET Changes
  /\ {} \in Views /\ None # {}
  BY DocSyncAssumption DEF Changes, Views, View

\* The steps of the webview that post what is pending: possibly a save, then
\* possibly a view save.
Posted ==
  \E mid \in Seq(HostMessage) :
    /\ \/ mid = toHost /\ dSave' = dSave
       \/ mid = toHost /\ dSave /\ View(rf) = {} /\ ~dSave'
       \/ /\ dSave /\ ~dSave' /\ rf # None
          /\ \E t \in Texts : /\ t.spec = rf /\ t.view = None
                              /\ mid = Append(toHost, [kind |-> "save", text |-> t])
    /\ \/ toHost' = mid /\ synced' = synced /\ dView' = dView
       \/ toHost' = mid /\ synced' = synced /\ ~dView' /\ vs = synced
       \/ /\ synced # None /\ synced' = vs /\ ~dView'
          /\ toHost' = Append(mid, [kind |-> "view-save", view |-> vs])
    /\ dSave' \in BOOLEAN /\ dView' \in BOOLEAN
    /\ UNCHANGED <<hostVars, rf, lastSpec, meta, vs, made, ran, acts, calm>>

\* A timer, a hidden page or the host's request for it.
LEMMA SavesAre ==
  ASSUME TypeOK
  PROVE  \/ Saves = <<>> /\ ~dSave
         \/ Saves = <<>> /\ dSave /\ View(rf) = {}
         \/ /\ dSave /\ rf # None
            /\ \E t \in Texts : /\ t.spec = rf /\ t.view = None
                                /\ Saves = << [kind |-> "save", text |-> t] >>
<1>1. CASE dSave /\ View(rf) # {}
  <2>1. rf # None
    BY <1>1 DEF View
  <2>2. Text(rf, None, meta, {}) \in Texts
    BY <2>1 DEF TypeOK, Text, Texts
  <2>3. Text(rf, None, meta, {}).spec = rf /\ Text(rf, None, meta, {}).view = None
    BY DEF Text
  <2> QED
    BY <1>1, <2>1, <2>2, <2>3 DEF Saves
<1>2. CASE ~(dSave /\ View(rf) # {})
  BY <1>2 DEF Saves
<1> QED
  BY <1>1, <1>2

\* The same for the viewer state.
LEMMA ViewSavesAre ==
  ASSUME TypeOK
  PROVE  \/ ViewSaves = <<>> /\ Synced = synced /\ (dView => vs = synced)
         \/ /\ ViewSaves = << [kind |-> "view-save", view |-> vs] >> /\ Synced = vs
            /\ synced # None
<1>1. CASE dView /\ synced # None /\ vs # synced
  <2>1. ViewSaves = << [kind |-> "view-save", view |-> vs] >>
    BY <1>1 DEF ViewSaves
  <2> QED
    BY <1>1, <2>1 DEF Synced
<1>2. CASE ~(dView /\ synced # None /\ vs # synced)
  <2>1. ViewSaves = <<>>
    BY <1>2 DEF ViewSaves
  <2> QED
    BY <1>2, <2>1 DEF Synced, TypeOK
<1> QED
  BY <1>1, <1>2

\* Messages of the webview.
LEMMA HostMessages ==
  /\ \A t \in Texts : [kind |-> "save", text |-> t] \in HostMessage
  /\ \A t \in Texts : [kind |-> "run", text |-> t] \in HostMessage
  /\ \A v \in Views : [kind |-> "view-save", view |-> v] \in HostMessage
  BY DEF HostMessage

\* What a timer, a hidden page or the host's flush request does.
LEMMA PostedBy ==
  ASSUME TypeOK, TimerSave \/ TimerView \/ PageHidden \/ Flush
  PROVE  /\ Posted
         /\ \/ toWeb' = toWeb
            \/ toWeb # <<>> /\ Head(toWeb).kind = "flush" /\ toWeb' = Tail(toWeb)
<1> DEFINE posts(q) == \/ q = toHost /\ ~dSave
                       \/ q = toHost /\ dSave /\ View(rf) = {}
                       \/ /\ dSave /\ rf # None
                          /\ \E t \in Texts :
                               /\ t.spec = rf /\ t.view = None
                               /\ q = Append(toHost, [kind |-> "save", text |-> t])
           mid == toHost \o Saves
<1>1. toHost \in Seq(HostMessage) /\ vs \in Views
  BY DEF TypeOK
<1>2. mid \in Seq(HostMessage) /\ posts(mid)
  <2>1. toHost \o <<>> = toHost
    BY <1>1
  <2>2. ASSUME NEW t \in Texts
        PROVE  LET m == [kind |-> "save", text |-> t]
               IN  toHost \o <<m>> = Append(toHost, m) /\ Append(toHost, m) \in Seq(HostMessage)
    <3>1. [kind |-> "save", text |-> t] \in HostMessage
      BY HostMessages
    <3> QED
      BY <1>1, <3>1, Put
  <2> QED
    BY <1>1, <2>1, <2>2, SavesAre
<1>3. \/ ViewSaves = <<>> /\ Synced = synced /\ (dView => vs = synced)
      \/ /\ ViewSaves = << [kind |-> "view-save", view |-> vs] >> /\ Synced = vs
         /\ synced # None
  BY ViewSavesAre
<1>4. ASSUME NEW q \in Seq(HostMessage)
      PROVE  /\ q \o <<>> = q
             /\ q \o << [kind |-> "view-save", view |-> vs] >>
                  = Append(q, [kind |-> "view-save", view |-> vs])
  <2>1. [kind |-> "view-save", view |-> vs] \in HostMessage
    BY <1>1, HostMessages
  <2> QED
    BY <2>1, Put
<1> HIDE DEF mid
<1>5. CASE TimerSave
  <2>1. toHost' = mid /\ ~dSave' /\ UNCHANGED <<synced, dView>>
    BY <1>5 DEF TimerSave, mid
  <2>2. UNCHANGED <<hostVars, toWeb, rf, lastSpec, meta, vs, made, ran, acts, calm>>
    BY <1>5 DEF TimerSave
  <2>3. dSave /\ dSave' \in BOOLEAN /\ dView' \in BOOLEAN
    BY <1>5 DEF TimerSave, TypeOK
  <2> QED
    BY <1>2, <2>1, <2>2, <2>3 DEF Posted
<1>6. CASE TimerView
  <2>1. toHost' = toHost \o ViewSaves /\ ~dView' /\ dView /\ synced' = Synced /\ dSave' = dSave
    BY <1>6 DEF TimerView
  <2>2. UNCHANGED <<hostVars, toWeb, rf, lastSpec, meta, vs, made, ran, acts, calm>>
    BY <1>6 DEF TimerView
  <2>3. dSave' \in BOOLEAN /\ dView' \in BOOLEAN
    BY <1>6 DEF TimerView, TypeOK
  <2> QED
    BY <1>1, <1>3, <1>4, <2>1, <2>2, <2>3 DEF Posted
<1>7. ASSUME FlushBoth PROVE Posted
  <2>1. /\ toHost' = mid \o ViewSaves /\ synced' = Synced
        /\ dSave' = FALSE /\ dView' = FALSE
        /\ UNCHANGED <<hostVars, rf, lastSpec, meta, vs, made, ran, acts, calm>>
    BY <1>7 DEF FlushBoth, mid
  <2>2. (~dSave => dSave' = dSave) /\ (~dView => dView' = dView) /\ ~dSave' /\ ~dView'
    BY <2>1 DEF TypeOK
  <2>3. \/ mid = toHost /\ dSave' = dSave
        \/ mid = toHost /\ dSave /\ View(rf) = {} /\ ~dSave'
        \/ /\ dSave /\ ~dSave' /\ rf # None
           /\ \E t \in Texts : /\ t.spec = rf /\ t.view = None
                               /\ mid = Append(toHost, [kind |-> "save", text |-> t])
    BY <1>2, <2>2
  <2>4. \/ toHost' = mid /\ synced' = synced /\ dView' = dView
        \/ toHost' = mid /\ synced' = synced /\ ~dView' /\ vs = synced
        \/ /\ synced # None /\ synced' = vs /\ ~dView'
           /\ toHost' = Append(mid, [kind |-> "view-save", view |-> vs])
    BY <1>2, <1>3, <1>4, <2>1, <2>2
  <2>5. /\ UNCHANGED <<hostVars, rf, lastSpec, meta, vs, made, ran, acts, calm>>
        /\ dSave' \in BOOLEAN /\ dView' \in BOOLEAN
    BY <2>1
  <2> QED
    BY <1>2, <2>3, <2>4, <2>5 DEF Posted
<1> QED
  BY <1>5, <1>6, <1>7 DEF PageHidden, Flush, Received

\* A handler is a record of these fields.
LEMMA Handlers ==
  ASSUME NEW h \in Handler
  PROVE  /\ h.kind \in {"save", "view-save", "run"} /\ h.text \in Texts
         /\ h.joined \in BOOLEAN /\ h.stale \in BOOLEAN /\ h.stage \in {"edit", "save"}
         /\ [h EXCEPT !.stale = TRUE] \in Handler
  BY DEF Handler

\* What two handlers of the same number always have in common.
SameHandler(g, h) == g.kind = h.kind /\ g.text = h.text /\ g.joined = h.joined

\* The handlers that are under way.
LEMMA UnderWay ==
  ASSUME TypeOK, NEW k \in DOMAIN jobs
  PROVE  k \in 1 .. Len(jobs) /\ jobs[k] \in Handler /\ jobs[k].text \in Texts
<1>1. k \in 1 .. Len(jobs) /\ jobs[k] \in Handler
  BY Positions DEF TypeOK
<1> QED
  BY <1>1, Handlers

\* A change makes the handlers' edits stale, and no more.
LEMMA StaleMeans ==
  ASSUME TypeOK
  PROVE  /\ Stale(jobs) \in Seq(Handler) /\ Len(Stale(jobs)) = Len(jobs)
         /\ \A j \in 1 .. Len(jobs) : /\ SameHandler(Stale(jobs)[j], jobs[j])
                                      /\ Stale(jobs)[j].stage = jobs[j].stage
                                      /\ Stale(jobs)[j].stale
<1>1. jobs \in Seq(Handler) /\ Len(jobs) \in Nat /\ DOMAIN jobs = 1 .. Len(jobs)
      /\ \A j \in 1 .. Len(jobs) : jobs[j] \in Handler
  BY Positions DEF TypeOK
<1>2. Stale(jobs) = [j \in 1 .. Len(jobs) |-> [jobs[j] EXCEPT !.stale = TRUE]]
  BY <1>1 DEF Stale
<1>3. \A j \in 1 .. Len(jobs) : Stale(jobs)[j] = [jobs[j] EXCEPT !.stale = TRUE]
  BY <1>2
<1>4. Stale(jobs) \in [1 .. Len(jobs) -> Handler]
  <2>1. \A j \in 1 .. Len(jobs) : [jobs[j] EXCEPT !.stale = TRUE] \in Handler
    BY <1>1, Handlers
  <2> QED
    BY <1>2, <2>1
<1>5. Stale(jobs) \in Seq(Handler)
  BY <1>1, <1>4, SeqDef
<1>6. Len(Stale(jobs)) = Len(jobs)
  BY <1>1, <1>4, <1>5
<1>7. \A h \in Handler : LET s == [h EXCEPT !.stale = TRUE]
                        IN  SameHandler(s, h) /\ s.stage = h.stage /\ s.stale
  BY DEF Handler, SameHandler
<1> QED
  BY <1>1, <1>3, <1>5, <1>6, <1>7

\* The edit of handler k is applied, and every other one is stale.
EditMade(k) ==
  /\ Change(jobs[k].text) /\ ~jobs'[k].stale
  /\ \A j \in 1 .. Len(jobs) : j # k => jobs'[j].stale

\* Or it is refused, which changes nothing.
EditRefused(k) ==
  /\ jobs[k].stale /\ UNCHANGED <<doc, announced, toWeb>>
  /\ \A j \in 1 .. Len(jobs) : jobs'[j].stale = jobs[j].stale

LEMMA AppliedMeans ==
  ASSUME TypeOK, NEW k \in 1 .. Len(jobs), EditApplied(k)
  PROVE  /\ jobs' \in Seq(Handler) /\ Len(jobs') = Len(jobs) /\ jobs[k].stage = "edit"
         /\ jobs'[k].stage = "save"
         /\ \A j \in 1 .. Len(jobs) : /\ SameHandler(jobs'[j], jobs[j])
                                      /\ j # k => jobs'[j].stage = jobs[j].stage
         /\ EditMade(k) \/ EditRefused(k)
<1>1. ASSUME NEW js \in Seq(Handler), Len(js) = Len(jobs), NEW h \in Handler,
             SameHandler(h, jobs[k]), h.stage = "save",
             \A j \in 1 .. Len(jobs) : SameHandler(js[j], jobs[j]) /\ js[j].stage = jobs[j].stage,
             jobs' = [js EXCEPT ![k] = h]
      PROVE  /\ jobs' \in Seq(Handler) /\ Len(jobs') = Len(jobs)
             /\ jobs'[k] = h /\ \A j \in 1 .. Len(jobs) : j # k => jobs'[j] = js[j]
             /\ jobs'[k].stage = "save"
             /\ \A j \in 1 .. Len(jobs) : /\ SameHandler(jobs'[j], jobs[j])
                                          /\ j # k => jobs'[j].stage = jobs[j].stage
  <2>1. /\ jobs' \in Seq(Handler) /\ Len(jobs') = Len(jobs)
        /\ jobs'[k] = h /\ \A j \in 1 .. Len(jobs) : j # k => jobs'[j] = js[j]
    BY <1>1, ExceptSeq
  <2> QED
    BY <1>1, <2>1
<1>2. jobs \in Seq(Handler) /\ jobs[k] \in Handler /\ jobs[k].stage = "edit"
  BY Positions DEF TypeOK, EditApplied
<1>3. CASE /\ Change(jobs[k].text)
           /\ jobs' = [Stale(jobs) EXCEPT ![k].stage = "save", ![k].stale = FALSE]
  <2>1. /\ Stale(jobs) \in Seq(Handler) /\ Len(Stale(jobs)) = Len(jobs)
        /\ \A j \in 1 .. Len(jobs) : /\ SameHandler(Stale(jobs)[j], jobs[j])
                                     /\ Stale(jobs)[j].stage = jobs[j].stage
                                     /\ Stale(jobs)[j].stale
    BY StaleMeans
  <2>2. Stale(jobs)[k] \in Handler /\ k \in DOMAIN Stale(jobs)
    BY <2>1, Positions
  <2>3. PICK h : h = [Stale(jobs)[k] EXCEPT !.stage = "save", !.stale = FALSE]
    OBVIOUS
  <2>4. h \in Handler /\ h.stage = "save" /\ ~h.stale /\ SameHandler(h, Stale(jobs)[k])
    BY <2>2, <2>3 DEF Handler, SameHandler
  <2>5. jobs' = [Stale(jobs) EXCEPT ![k] = h]
    BY <1>3, <2>2, <2>3
  <2>6. SameHandler(h, jobs[k])
    BY <2>1, <2>4 DEF SameHandler
  <2>7. /\ jobs' \in Seq(Handler) /\ Len(jobs') = Len(jobs)
        /\ jobs'[k] = h /\ \A j \in 1 .. Len(jobs) : j # k => jobs'[j] = Stale(jobs)[j]
        /\ jobs'[k].stage = "save"
        /\ \A j \in 1 .. Len(jobs) : /\ SameHandler(jobs'[j], jobs[j])
                                     /\ j # k => jobs'[j].stage = jobs[j].stage
    BY <1>1, <2>1, <2>4, <2>5, <2>6
  <2> QED
    BY <1>2, <1>3, <2>1, <2>4, <2>7 DEF EditMade
<1>4. CASE /\ jobs[k].stale /\ UNCHANGED <<doc, announced, toWeb>>
           /\ jobs' = [jobs EXCEPT ![k].stage = "save"]
  <2>1. PICK h : h = [jobs[k] EXCEPT !.stage = "save"]
    OBVIOUS
  <2>2. h \in Handler /\ h.stage = "save" /\ h.stale = jobs[k].stale /\ SameHandler(h, jobs[k])
    BY <1>2, <2>1 DEF Handler, SameHandler
  <2>3. jobs' = [jobs EXCEPT ![k] = h]
    BY <1>4, <2>1
  <2>4. \A j \in 1 .. Len(jobs) : SameHandler(jobs[j], jobs[j])
    BY DEF SameHandler
  <2>5. /\ jobs' \in Seq(Handler) /\ Len(jobs') = Len(jobs)
        /\ jobs'[k] = h /\ \A j \in 1 .. Len(jobs) : j # k => jobs'[j] = jobs[j]
        /\ jobs'[k].stage = "save"
        /\ \A j \in 1 .. Len(jobs) : /\ SameHandler(jobs'[j], jobs[j])
                                     /\ j # k => jobs'[j].stage = jobs[j].stage
    BY <1>1, <1>2, <2>2, <2>3, <2>4
  <2> QED
    BY <1>2, <1>4, <2>2, <2>5 DEF EditRefused
<1> QED
  BY <1>3, <1>4 DEF EditApplied

\* Messages of the host.
LEMMA WebMessages ==
  /\ [kind |-> "flush"] \in WebMessage
  /\ \A t \in Texts : [kind |-> "load", text |-> t] \in WebMessage
  /\ \A v \in Views \cup {None} : [kind |-> "view-load", view |-> v] \in WebMessage
  BY DEF WebMessage

\* The document changes, and the webview is told unless the change was announced.
LEMMA ChangeMeans ==
  ASSUME TypeOK, NEW t \in Texts, Change(t)
  PROVE  /\ doc' = t /\ ~announced' /\ announced' \in BOOLEAN
         /\ toWeb' \in Seq(WebMessage)
         /\ announced => toWeb' = toWeb
         /\ ~announced => toWeb' = Append(toWeb, [kind |-> "load", text |-> t])
<1>1. Append(toWeb, [kind |-> "load", text |-> t]) \in Seq(WebMessage)
  BY WebMessages, Put DEF TypeOK
<1> QED
  BY <1>1 DEF Change, TypeOK

\* A handler starts: what it wants is a text.
LEMMA StartMeans ==
  ASSUME TypeOK, StartEdit
  PROVE  /\ toHost # <<>> /\ Head(toHost) \in HostMessage /\ Head(toHost).kind # "ready"
         /\ toHost' = Tail(toHost) /\ toHost' \in Seq(HostMessage)
         /\ \E h \in Handler : /\ jobs' = Append(jobs, h) /\ jobs' \in Seq(Handler)
                               /\ h.kind = Head(toHost).kind /\ h.text = Wanted(Head(toHost))
                               /\ h.stage = "edit" /\ ~h.stale /\ (~h.joined => jobs = <<>>)
         /\ announced' /\ announced' \in BOOLEAN /\ calm' = (calm /\ jobs = <<>>)
         /\ UNCHANGED <<doc, disk, toWeb, webVars, made, ran, acts>>
<1>1. /\ toHost # <<>> /\ Head(toHost).kind # "ready" /\ toHost' = Tail(toHost)
      /\ announced' = TRUE /\ calm' = (calm /\ jobs = <<>>)
      /\ UNCHANGED <<doc, disk, toWeb, webVars, made, ran, acts>>
  BY DEF StartEdit, Calmly
<1>2. Head(toHost) \in HostMessage /\ Tail(toHost) \in Seq(HostMessage)
  BY <1>1, Taken DEF TypeOK
<1>3. Wanted(Head(toHost)) \in Texts
  <2>1. CASE Head(toHost).kind = "view-save"
    <3>1. Head(toHost).view \in Views
      BY <1>2, <2>1 DEF HostMessage
    <3>2. Wanted(Head(toHost)) = [doc EXCEPT !.view = Head(toHost).view]
      BY <2>1 DEF Wanted
    <3> QED
      BY <3>1, <3>2 DEF TypeOK, Texts
  <2>2. CASE Head(toHost).kind # "view-save"
    BY <1>1, <1>2, <2>2 DEF HostMessage, Wanted
  <2> QED
    BY <2>1, <2>2
<1>4. PICK h : h = [kind |-> Head(toHost).kind, text |-> Wanted(Head(toHost)),
                    joined |-> jobs # <<>>, stale |-> FALSE, stage |-> "edit"]
  OBVIOUS
<1>5. Head(toHost).kind \in {"save", "view-save", "run"}
  BY <1>1, <1>2 DEF HostMessage
<1>6. h \in Handler
  BY <1>3, <1>4, <1>5 DEF Handler
<1>7. jobs' = Append(jobs, h)
  BY <1>4 DEF StartEdit
<1>8. Append(jobs, h) \in Seq(Handler)
  BY <1>6, Put DEF TypeOK
<1>9. /\ h.kind = Head(toHost).kind /\ h.text = Wanted(Head(toHost))
      /\ h.stage = "edit" /\ ~h.stale /\ (~h.joined => jobs = <<>>)
  BY <1>4
<1> QED
  BY <1>1, <1>2, <1>6, <1>7, <1>8, <1>9

\* A handler ends, or fails.
LEMMA FinishMeans ==
  ASSUME TypeOK, NEW k \in 1 .. Len(jobs), Finish(k)
  PROVE  /\ jobs[k].stage = "save" /\ jobs' = RemoveAt(jobs, k) /\ jobs' \in Seq(Handler)
         /\ disk' = doc /\ ~announced' /\ announced' \in BOOLEAN
         /\ ran' = ran \/ ran' = ran \cup {Started(jobs[k], doc)}
         /\ ran' \subseteq Run
         /\ UNCHANGED <<doc, toHost, toWeb, webVars, made, acts, calm>>
<1>1. /\ jobs[k].stage = "save" /\ jobs' = RemoveAt(jobs, k) /\ disk' = doc /\ announced' = FALSE
      /\ UNCHANGED <<doc, toHost, toWeb, webVars, made, acts, calm>>
  BY DEF Finish
<1>2. ran' = ran \/ ran' = ran \cup {Started(jobs[k], doc)}
  BY DEF Finish
<1>3. jobs \in Seq(Handler) /\ jobs[k] \in Handler /\ doc \in Texts
  BY DEF TypeOK
<1>4. jobs[k].text.spec \in SUBSET Changes /\ doc.spec \in SUBSET Changes
  BY <1>3, Handlers DEF Texts
<1>5. ran' \subseteq Run
  <2>1. jobs[k].stale \in BOOLEAN
    BY <1>3, Handlers
  <2> QED
    BY <1>2, <1>4, <2>1 DEF TypeOK, Run, Started
<1>6. jobs' \in Seq(Handler)
  BY <1>1, <1>3, TakenOut
<1> QED
  BY <1>1, <1>2, <1>5, <1>6

\* The webview takes up a message.
LEMMA ReceiveMeans ==
  ASSUME TypeOK, NEW kind, Received(kind)
  PROVE  /\ toWeb # <<>> /\ toWeb' = Tail(toWeb) /\ toWeb' \in Seq(WebMessage)
         /\ Head(toWeb) \in WebMessage /\ Head(toWeb).kind = kind
         /\ kind = "load" => Head(toWeb).text \in Texts
         /\ kind = "view-load" => Head(toWeb).view \in Views \cup {None}
<1>1. toWeb # <<>> /\ toWeb' = Tail(toWeb) /\ Head(toWeb).kind = kind
  BY DEF Received
<1>2. Head(toWeb) \in WebMessage /\ Tail(toWeb) \in Seq(WebMessage)
  BY <1>1, Taken DEF TypeOK
<1>3. /\ kind = "load" => Head(toWeb).text \in Texts
      /\ kind = "view-load" => Head(toWeb).view \in Views \cup {None}
  BY <1>1, <1>2 DEF WebMessage
<1> QED
  BY <1>1, <1>2, <1>3

-----------------------------------------------------------------------------
(* Types.                                                                    *)

\* What is posted has its type.
LEMMA PostedTypes ==
  ASSUME TypeOK, Posted
  PROVE  /\ toHost' \in Seq(HostMessage) /\ synced' \in Views \cup {None}
         /\ dSave' \in BOOLEAN /\ dView' \in BOOLEAN /\ (synced' = None => ~dView')
<1>1. PICK mid \in Seq(HostMessage) :
        /\ dSave' \in BOOLEAN /\ dView' \in BOOLEAN
        /\ \/ toHost' = mid /\ synced' = synced /\ dView' = dView
           \/ toHost' = mid /\ synced' = synced /\ ~dView' /\ vs = synced
           \/ /\ synced # None /\ synced' = vs /\ ~dView'
              /\ toHost' = Append(mid, [kind |-> "view-save", view |-> vs])
  BY DEF Posted
<1>2. Append(mid, [kind |-> "view-save", view |-> vs]) \in Seq(HostMessage)
  <2>1. vs \in Views
    BY DEF TypeOK
  <2> QED
    BY <2>1, HostMessages, Put
<1>3. toHost' \in Seq(HostMessage)
  BY <1>1, <1>2
<1>4. synced' \in Views \cup {None} /\ (synced' = None => ~dView')
  BY <1>1, Constants DEF TypeOK
<1> QED
  BY <1>1, <1>3, <1>4

\* Every variable keeps its type.
LEMMA TypeStep ==
  ASSUME TypeOK, [Next]_vars
  PROVE  TypeOK'
<1> USE DEF hostVars, webVars
<1>1. CASE Ready
  <2>1. /\ toHost # <<>> /\ toHost' = Tail(toHost)
        /\ toWeb' = toWeb \o << [kind |-> "load", text |-> doc],
                                [kind |-> "view-load", view |-> doc.view] >>
        /\ UNCHANGED <<hostVars, webVars, made, ran, acts, calm>>
    BY <1>1 DEF Ready
  <2>2. toHost' \in Seq(HostMessage)
    BY <2>1, Taken DEF TypeOK
  <2>3. /\ [kind |-> "load", text |-> doc] \in WebMessage
        /\ [kind |-> "view-load", view |-> doc.view] \in WebMessage
    BY WebMessages DEF TypeOK, Texts
  <2>4. toWeb' \in Seq(WebMessage)
    <3>1. PICK m, n : m = [kind |-> "load", text |-> doc]
                      /\ n = [kind |-> "view-load", view |-> doc.view]
      OBVIOUS
    <3>2. toWeb' = toWeb \o <<m, n>> /\ m \in WebMessage /\ n \in WebMessage
      BY <2>1, <2>3, <3>1
    <3> QED
      BY <3>2 DEF TypeOK
  <2> QED
    BY <2>1, <2>2, <2>4 DEF TypeOK
<1>2. CASE StartEdit
  <2>1. /\ toHost' \in Seq(HostMessage) /\ jobs' \in Seq(Handler) /\ announced' \in BOOLEAN
        /\ calm' \in BOOLEAN /\ UNCHANGED <<doc, disk, toWeb, webVars, made, ran, acts>>
    BY <1>2, StartMeans
  <2> QED
    BY <2>1 DEF TypeOK
<1>3. ASSUME NEW k \in DOMAIN jobs, EditApplied(k) PROVE TypeOK'
  <2>1. k \in 1 .. Len(jobs) /\ jobs[k].text \in Texts
    BY UnderWay
  <2>2. UNCHANGED <<disk, toHost, webVars, made, ran, acts, calm>>
    BY <1>3 DEF EditApplied
  <2>3. jobs' \in Seq(Handler)
    BY <1>3, <2>1, AppliedMeans DEF EditMade, EditRefused, SameHandler
  <2>4. doc' \in Texts /\ announced' \in BOOLEAN /\ toWeb' \in Seq(WebMessage)
    <3>1. CASE Change(jobs[k].text)
      BY <2>1, <3>1, ChangeMeans
    <3>2. CASE UNCHANGED <<doc, announced, toWeb>>
      BY <3>2 DEF TypeOK
    <3> QED
      BY <1>3, <2>1, <3>1, <3>2, AppliedMeans DEF EditMade, EditRefused, SameHandler
  <2> QED
    BY <2>2, <2>3, <2>4 DEF TypeOK
<1>4. ASSUME NEW k \in DOMAIN jobs, Finish(k) PROVE TypeOK'
  <2>1. k \in 1 .. Len(jobs)
    BY Positions DEF TypeOK
  <2>2. /\ jobs' \in Seq(Handler) /\ disk' = doc /\ announced' \in BOOLEAN
        /\ ran' \subseteq Run
        /\ UNCHANGED <<doc, toHost, toWeb, webVars, made, acts, calm>>
    BY <1>4, <2>1, FinishMeans
  <2> QED
    BY <2>2 DEF TypeOK
<1>5. ASSUME NEW k \in DOMAIN jobs, Fail(k) PROVE TypeOK'
  <2>1. jobs \in Seq(Handler) /\ k \in 1 .. Len(jobs)
    BY Positions DEF TypeOK
  <2>2. jobs' \in Seq(Handler)
    BY <1>5, <2>1, TakenOut DEF Fail
  <2>3. calm' \in BOOLEAN
        /\ UNCHANGED <<doc, disk, announced, toHost, toWeb, webVars, made, ran, acts>>
    BY <1>5 DEF Fail, Calmly
  <2> QED
    BY <2>2, <2>3 DEF TypeOK
<1>6. ASSUME NEW x \in Outside, OutsideEdit(x) PROVE TypeOK'
  <2>1. PICK t : t = [doc EXCEPT !.spec = @ \cup {x}]
    OBVIOUS
  <2>2. t \in Texts
    BY <2>1 DEF TypeOK, Texts, Changes
  <2>3. /\ Change(t) /\ disk' = doc' /\ jobs' = Stale(jobs) /\ made' = made \cup {x}
        /\ acts' \in 0 .. MaxActs /\ calm' \in BOOLEAN
        /\ UNCHANGED <<toHost, webVars, ran>>
    BY <1>6, <2>1, Constants DEF OutsideEdit, Act, Calmly, TypeOK
  <2>4. doc' \in Texts /\ announced' \in BOOLEAN /\ toWeb' \in Seq(WebMessage)
    BY <2>2, <2>3, ChangeMeans
  <2>5. jobs' \in Seq(Handler) /\ made' \subseteq Changes
    BY <2>3, StaleMeans DEF TypeOK, Changes, SameHandler
  <2> QED
    BY <2>3, <2>4, <2>5 DEF TypeOK
<1>7. CASE Hide
  <2>1. toWeb' \in Seq(WebMessage)
    BY <1>7, WebMessages, Put DEF Hide, TypeOK
  <2> QED
    BY <1>7, <2>1 DEF Hide, TypeOK
<1>8. CASE TimerSave \/ TimerView \/ PageHidden \/ Flush
  <2>1. /\ toHost' \in Seq(HostMessage) /\ synced' \in Views \cup {None}
        /\ dSave' \in BOOLEAN /\ dView' \in BOOLEAN /\ (synced' = None => ~dView')
    BY <1>8, PostedBy, PostedTypes
  <2>2. UNCHANGED <<hostVars, rf, lastSpec, meta, vs, made, ran, acts, calm>>
    BY <1>8, PostedBy DEF Posted
  <2>3. toWeb' \in Seq(WebMessage)
    BY <1>8, PostedBy, Taken DEF TypeOK
  <2> QED
    BY <2>1, <2>2, <2>3 DEF TypeOK
<1>9. CASE Load
  <2>1. /\ toWeb' \in Seq(WebMessage) /\ Head(toWeb).text \in Texts
        /\ UNCHANGED <<hostVars, toHost, synced, dSave, made, ran, acts, calm>>
    BY <1>9, ReceiveMeans DEF Load
  <2>2. PICK t : t = Head(toWeb).text
    OBVIOUS
  <2>3. /\ vs' = vs \cup t.legacy /\ (dView' = (dView \/ (vs' # vs /\ synced # None)))
        /\ meta' = t.meta /\ lastSpec' = t.spec /\ rf' = t.spec
    BY <1>9, <2>2 DEF Load, Migrated
  <2>4. t \in Texts
    BY <2>1, <2>2
  <2>5. vs' \in Views
    BY <2>3, <2>4 DEF TypeOK, Texts, Views
  <2>6. meta' \in BOOLEAN /\ lastSpec' \in SUBSET Changes /\ rf' \in SUBSET Changes
    BY <2>3, <2>4 DEF Texts
  <2>7. dView' \in BOOLEAN /\ (synced' = None => ~dView')
    BY <2>1, <2>3 DEF TypeOK
  <2> QED
    BY <2>1, <2>5, <2>6, <2>7 DEF TypeOK
<1>10. CASE ViewLoad
  <2>1. /\ toWeb' \in Seq(WebMessage) /\ Head(toWeb).view \in Views \cup {None}
        /\ vs' = View(Head(toWeb).view) /\ synced' = vs' /\ rf' = lastSpec
        /\ UNCHANGED <<hostVars, toHost, lastSpec, meta, dSave, dView, made, ran, acts, calm>>
    BY <1>10, ReceiveMeans DEF ViewLoad
  <2>2. vs' \in Views /\ synced' \in Views /\ synced' # None
    BY <2>1, Constants
  <2> QED
    BY <2>1, <2>2 DEF TypeOK
<1>11. ASSUME NEW e \in Edit, EditSpec(e) PROVE TypeOK'
  <2>1. /\ made' \subseteq Changes /\ rf' \in SUBSET Changes /\ dSave' = TRUE
        /\ acts' \in 0 .. MaxActs /\ calm' \in BOOLEAN
        /\ UNCHANGED <<hostVars, toHost, toWeb, lastSpec, meta, vs, synced, dView, ran>>
    BY <1>11, Constants DEF EditSpec, Act, Calmly, TypeOK, Changes
  <2> QED
    BY <2>1 DEF TypeOK
<1>12. ASSUME NEW p \in Drag, DragNode(p) PROVE TypeOK'
  <2>1. /\ vs' \in Views /\ dSave' = TRUE /\ dView' = (dView \/ synced # None)
        /\ acts' \in 0 .. MaxActs /\ calm' \in BOOLEAN
        /\ UNCHANGED <<hostVars, toHost, toWeb, rf, lastSpec, meta, synced, made, ran>>
    BY <1>12, Constants DEF DragNode, Act, Calmly, TypeOK, Views
  <2>2. dView' \in BOOLEAN /\ (synced' = None => ~dView')
    BY <2>1 DEF TypeOK
  <2> QED
    BY <2>1, <2>2 DEF TypeOK
<1>13. CASE ClickRun
  <2>1. PICK t : t = Text(View(rf), None, FALSE, {})
    OBVIOUS
  <2>2. t \in Texts
    BY <2>1, Constants DEF Text, Texts, TypeOK
  <2>3. /\ toHost' = Append(toHost, [kind |-> "run", text |-> t])
        /\ acts' \in 0 .. MaxActs /\ calm' \in BOOLEAN
        /\ UNCHANGED <<hostVars, toWeb, webVars, made, ran>>
    BY <1>13, <2>1, Constants DEF ClickRun, Act, Calmly, TypeOK
  <2>4. toHost' \in Seq(HostMessage)
    BY <2>2, <2>3, HostMessages, Put DEF TypeOK
  <2> QED
    BY <2>3, <2>4 DEF TypeOK
<1>14. CASE UNCHANGED vars
  BY <1>14 DEF vars, TypeOK
<1> QED
  BY <1>1, <1>2, <1>3, <1>4, <1>5, <1>6, <1>7, <1>8, <1>9, <1>10, <1>11, <1>12, <1>13, <1>14
     DEF Next, HostReceives, WebReceives, JobStep

-----------------------------------------------------------------------------
(* The viewer state that the file had.                                       *)

\* A viewer state, if there is one, has what the file's had at first.
KeepsView(v) == v # None => View(View0) \subseteq v

\* Every copy that may reach the file keeps it: what the webview posts before it
\* has the file's viewer state has none, and `ready`, which asks for it, comes
\* before anything else.
ViewOK ==
  /\ KeepsView(doc.view) /\ KeepsView(disk.view)
  /\ \A k \in 1 .. Len(jobs) : KeepsView(jobs[k].text.view)
  /\ \A k \in 1 .. Len(toHost) :
       /\ toHost[k].kind = "view-save" => View(View0) \subseteq toHost[k].view
       /\ toHost[k].kind \in {"save", "run"} => toHost[k].text.view = None
       /\ toHost[k].kind = "ready" => k = 1 /\ jobs = <<>> /\ doc.view = View0
  /\ \A k \in 1 .. Len(toWeb) : toWeb[k].kind = "view-load" => toWeb[k].view = View0
  /\ synced # None => View(View0) \subseteq vs

\* ViewOK when the webview posts something.
LEMMA ViewPosted ==
  ASSUME TypeOK, ViewOK, Posted,
         toWeb' = toWeb \/ (toWeb # <<>> /\ toWeb' = Tail(toWeb))
  PROVE  ViewOK'
<1> USE DEF hostVars
<1> DEFINE fine(q) == \A k \in 1 .. Len(q) :
             /\ q[k].kind = "view-save" => View(View0) \subseteq q[k].view
             /\ q[k].kind \in {"save", "run"} => q[k].text.view = None
             /\ q[k].kind = "ready" => k = 1 /\ jobs = <<>> /\ doc.view = View0
<1>1. ASSUME NEW q \in Seq(HostMessage), fine(q), NEW m \in HostMessage, m.kind # "ready",
             m.kind = "view-save" => View(View0) \subseteq m.view,
             m.kind \in {"save", "run"} => m.text.view = None
      PROVE  fine(Append(q, m))
  <2>1. \A k \in 1 .. Len(Append(q, m)) :
          \/ k \in 1 .. Len(q) /\ Append(q, m)[k] = q[k]
          \/ Append(q, m)[k] = m
    BY Put
  <2> QED
    BY <1>1, <2>1
<1>2. PICK mid \in Seq(HostMessage) :
        /\ \/ mid = toHost
           \/ \E t \in Texts : /\ t.view = None
                               /\ mid = Append(toHost, [kind |-> "save", text |-> t])
        /\ \/ toHost' = mid /\ synced' = synced
           \/ /\ synced # None /\ synced' = vs
              /\ toHost' = Append(mid, [kind |-> "view-save", view |-> vs])
        /\ UNCHANGED <<doc, disk, jobs, vs>>
  BY DEF Posted
<1>3. fine(toHost) /\ toHost \in Seq(HostMessage)
  BY DEF ViewOK, TypeOK
<1>4. fine(mid)
  <2>1. CASE mid = toHost
    BY <1>3, <2>1
  <2>2. ASSUME NEW t \in Texts, t.view = None,
               mid = Append(toHost, [kind |-> "save", text |-> t])
        PROVE  fine(mid)
    <3>1. PICK m : m = [kind |-> "save", text |-> t]
      OBVIOUS
    <3>2. m \in HostMessage /\ m.kind = "save" /\ m.text = t
      BY <3>1, HostMessages
    <3> HIDE DEF fine
    <3> QED
      BY <1>1, <1>3, <2>2, <3>1, <3>2
  <2> QED
    BY <1>2, <2>1, <2>2
<1>5. fine(toHost')
  <2>1. CASE toHost' = mid
    BY <1>4, <2>1
  <2>2. CASE /\ synced # None
             /\ toHost' = Append(mid, [kind |-> "view-save", view |-> vs])
    <3>1. PICK m : m = [kind |-> "view-save", view |-> vs]
      OBVIOUS
    <3>2. m \in HostMessage /\ m.kind = "view-save" /\ m.view = vs
      BY <3>1, HostMessages DEF TypeOK
    <3>3. View(View0) \subseteq m.view
      BY <2>2, <3>2 DEF ViewOK
    <3> HIDE DEF fine
    <3> QED
      BY <1>1, <1>4, <2>2, <3>1, <3>2, <3>3
  <2> QED
    BY <1>2, <2>1, <2>2
<1>6. \A k \in 1 .. Len(toWeb') : toWeb'[k].kind = "view-load" => toWeb'[k].view = View0
  <2>1. CASE toWeb' = toWeb
    BY <2>1 DEF ViewOK
  <2>2. CASE toWeb # <<>> /\ toWeb' = Tail(toWeb)
    <3>1. \A k \in 1 .. Len(toWeb') : toWeb'[k] = toWeb[k + 1] /\ k + 1 \in 1 .. Len(toWeb)
      BY <2>2, Taken DEF TypeOK
    <3> QED
      BY <3>1 DEF ViewOK
  <2> QED
    BY <2>1, <2>2
<1>7. synced' # None => View(View0) \subseteq vs'
  BY <1>2 DEF ViewOK
<1> QED
  BY <1>2, <1>5, <1>6, <1>7 DEF ViewOK

\* ViewOK is inductive.
LEMMA ViewStep ==
  ASSUME TypeOK, ViewOK, [Next]_vars
  PROVE  ViewOK'
<1> USE DEF hostVars, webVars
<1>1. CASE Ready
  <2>1. /\ toHost # <<>> /\ Head(toHost).kind = "ready" /\ toHost' = Tail(toHost)
        /\ toWeb' = toWeb \o << [kind |-> "load", text |-> doc],
                                [kind |-> "view-load", view |-> doc.view] >>
        /\ UNCHANGED <<hostVars, webVars, made, ran, acts, calm>>
    BY <1>1 DEF Ready
  <2>2. \A k \in 1 .. Len(toHost') : toHost'[k] = toHost[k + 1] /\ k + 1 \in 1 .. Len(toHost)
                                    /\ k + 1 # 1
    BY <2>1, Taken DEF TypeOK
  <2>3. doc.view = View0
    <3>1. 1 \in 1 .. Len(toHost) /\ toHost[1].kind = "ready"
      BY <2>1, Taken DEF TypeOK
    <3> QED
      BY <3>1 DEF ViewOK
  <2>4. \A k \in 1 .. Len(toWeb') : \/ k \in 1 .. Len(toWeb) /\ toWeb'[k] = toWeb[k]
                                    \/ toWeb'[k].kind = "load"
                                    \/ toWeb'[k].view = View0
    <3>1. PICK m, n : m = [kind |-> "load", text |-> doc]
                      /\ n = [kind |-> "view-load", view |-> doc.view]
      OBVIOUS
    <3>2. m.kind = "load" /\ n.view = View0
      BY <2>3, <3>1
    <3>3. toWeb' = toWeb \o <<m, n>> /\ toWeb \in Seq(WebMessage)
      BY <2>1, <3>1 DEF TypeOK
    <3>4. \A k \in 1 .. Len(toWeb') : \/ k \in 1 .. Len(toWeb) /\ toWeb'[k] = toWeb[k]
                                      \/ toWeb'[k] = m
                                      \/ toWeb'[k] = n
      BY <3>3
    <3> QED
      BY <3>2, <3>4
  <2>5. \A k \in 1 .. Len(toWeb') : toWeb'[k].kind = "view-load" => toWeb'[k].view = View0
    BY <2>4 DEF ViewOK
  <2> QED
    BY <2>1, <2>2, <2>5, SMTT(30) DEF ViewOK
<1>2. CASE StartEdit
  <2>1. PICK h \in Handler :
          /\ toHost # <<>> /\ Head(toHost) \in HostMessage /\ Head(toHost).kind # "ready"
          /\ toHost' = Tail(toHost) /\ jobs' = Append(jobs, h)
          /\ h.text = Wanted(Head(toHost))
          /\ UNCHANGED <<doc, disk, toWeb, vs, synced>>
    BY <1>2, StartMeans
  <2>2. \A k \in 1 .. Len(toHost') : toHost'[k] = toHost[k + 1] /\ k + 1 \in 1 .. Len(toHost)
                                    /\ k + 1 # 1
    BY <2>1, Taken DEF TypeOK
  <2>3. 1 \in 1 .. Len(toHost) /\ Head(toHost) = toHost[1]
    BY <2>1, Taken DEF TypeOK
  <2>4. KeepsView(h.text.view)
    <3>1. CASE Head(toHost).kind = "view-save"
      <4>1. h.text = [doc EXCEPT !.view = Head(toHost).view]
        BY <2>1, <3>1 DEF Wanted
      <4>2. h.text.view = Head(toHost).view
        BY <4>1 DEF TypeOK, Texts
      <4> QED
        BY <2>3, <3>1, <4>2 DEF ViewOK, KeepsView
    <3>2. CASE Head(toHost).kind # "view-save"
      <4>1. Head(toHost).kind \in {"save", "run"}
        BY <2>1, <3>2 DEF HostMessage
      <4>2. h.text = Head(toHost).text
        BY <2>1, <3>2 DEF Wanted
      <4> QED
        BY <2>3, <4>1, <4>2 DEF ViewOK, KeepsView
    <3> QED
      BY <3>1, <3>2
  <2>5. \A k \in 1 .. Len(jobs') : (k \in 1 .. Len(jobs) /\ jobs'[k] = jobs[k]) \/ jobs'[k] = h
    BY <2>1, Put DEF TypeOK
  <2>6. \A k \in 1 .. Len(jobs') : KeepsView(jobs'[k].text.view)
    BY <2>4, <2>5 DEF ViewOK
  <2>7. \A k \in 1 .. Len(toHost') :
          /\ toHost'[k].kind = "view-save" => View(View0) \subseteq toHost'[k].view
          /\ toHost'[k].kind \in {"save", "run"} => toHost'[k].text.view = None
          /\ toHost'[k].kind # "ready"
    BY <2>2 DEF ViewOK
  <2> QED
    BY <2>1, <2>6, <2>7 DEF ViewOK, KeepsView
<1>3. ASSUME NEW k \in 1 .. Len(jobs),
             \A j \in 1 .. Len(jobs') : \E i \in 1 .. Len(jobs) : jobs'[j].text = jobs[i].text,
             KeepsView(doc'.view), KeepsView(disk'.view), UNCHANGED <<toHost, vs, synced>>,
             \A j \in 1 .. Len(toWeb') : \/ j \in 1 .. Len(toWeb) /\ toWeb'[j] = toWeb[j]
                                         \/ toWeb'[j].kind = "load"
      PROVE  ViewOK'
  <2>1. jobs # <<>>
    BY <1>3, Positions DEF TypeOK
  <2>2. \A j \in 1 .. Len(jobs') : KeepsView(jobs'[j].text.view)
    BY <1>3 DEF ViewOK
  <2>3. \A j \in 1 .. Len(toWeb') : toWeb'[j].kind = "view-load" => toWeb'[j].view = View0
    BY <1>3 DEF ViewOK
  <2> QED
    BY <1>3, <2>1, <2>2, <2>3 DEF ViewOK, KeepsView
<1>4. ASSUME NEW k \in DOMAIN jobs, EditApplied(k) PROVE ViewOK'
  <2>1. k \in 1 .. Len(jobs) /\ jobs[k].text \in Texts
    BY UnderWay
  <2>2. \A j \in 1 .. Len(jobs') : j \in 1 .. Len(jobs) /\ jobs'[j].text = jobs[j].text
    <3>1. /\ Len(jobs') = Len(jobs)
          /\ \A j \in 1 .. Len(jobs) : /\ jobs'[j].kind = jobs[j].kind
                                       /\ jobs'[j].text = jobs[j].text
                                       /\ j # k => jobs'[j].stage = jobs[j].stage
      BY <1>4, <2>1, AppliedMeans DEF EditMade, EditRefused, SameHandler
    <3> QED
      BY <3>1
  <2>3. UNCHANGED <<disk, toHost, vs, synced>>
    BY <1>4 DEF EditApplied
  <2>4. /\ KeepsView(doc'.view)
        /\ \A j \in 1 .. Len(toWeb') : \/ j \in 1 .. Len(toWeb) /\ toWeb'[j] = toWeb[j]
                                       \/ toWeb'[j].kind = "load"
    <3>1. CASE Change(jobs[k].text)
      <4>1. PICK m : m = [kind |-> "load", text |-> jobs[k].text]
        OBVIOUS
      <4>2. /\ doc' = jobs[k].text /\ m \in WebMessage /\ m.kind = "load"
            /\ toWeb' = toWeb \/ toWeb' = Append(toWeb, m)
        BY <2>1, <3>1, <4>1, ChangeMeans, WebMessages DEF TypeOK
      <4>3. toWeb \in Seq(WebMessage)
        BY DEF TypeOK
      <4> QED
        BY <2>1, <4>2, <4>3, Put DEF ViewOK
    <3>2. CASE UNCHANGED <<doc, announced, toWeb>>
      BY <3>2 DEF ViewOK
    <3> QED
      BY <1>4, <2>1, <3>1, <3>2, AppliedMeans DEF EditMade, EditRefused, SameHandler
  <2>5. KeepsView(disk'.view)
    BY <2>3 DEF ViewOK
  <2> QED
    BY <1>3, <2>1, <2>2, <2>3, <2>4, <2>5
<1>5. ASSUME NEW k \in DOMAIN jobs, Finish(k) \/ Fail(k) PROVE ViewOK'
  <2>1. jobs \in Seq(Handler) /\ k \in 1 .. Len(jobs)
    BY Positions DEF TypeOK
  <2>2. jobs' = RemoveAt(jobs, k) /\ doc' = doc /\ disk' \in {disk, doc}
        /\ UNCHANGED <<toHost, toWeb, vs, synced>>
    BY <1>5 DEF Finish, Fail
  <2>3. \A j \in 1 .. Len(jobs') : \E i \in 1 .. Len(jobs) : jobs'[j].text = jobs[i].text
    BY <2>1, <2>2, TakenOut
  <2>4. KeepsView(doc'.view) /\ KeepsView(disk'.view)
    BY <2>2 DEF ViewOK
  <2> QED
    BY <1>3, <2>1, <2>2, <2>3, <2>4
<1>6. ASSUME NEW x \in Outside, OutsideEdit(x) PROVE ViewOK'
  <2>1. PICK t : t = [doc EXCEPT !.spec = @ \cup {x}]
    OBVIOUS
  <2>2. t \in Texts /\ t.view = doc.view
    BY <2>1 DEF TypeOK, Texts, Changes
  <2>3. /\ Change(t) /\ disk' = doc' /\ jobs' = Stale(jobs)
        /\ UNCHANGED <<toHost, vs, synced>>
    BY <1>6, <2>1 DEF OutsideEdit
  <2>4. PICK m : m = [kind |-> "load", text |-> t]
    OBVIOUS
  <2>5. /\ doc' = t /\ m \in WebMessage /\ m.kind = "load"
        /\ toWeb' = toWeb \/ toWeb' = Append(toWeb, m)
    BY <2>2, <2>3, <2>4, ChangeMeans, WebMessages DEF TypeOK
  <2>6. /\ \A j \in 1 .. Len(toWeb') : toWeb'[j].kind = "view-load" => toWeb'[j].view = View0
    <3>1. toWeb \in Seq(WebMessage)
      BY DEF TypeOK
    <3>2. \A j \in 1 .. Len(toWeb') : (j \in 1 .. Len(toWeb) /\ toWeb'[j] = toWeb[j])
                                     \/ toWeb'[j] = m
      BY <2>5, <3>1, Put
    <3> QED
      BY <2>5, <3>2 DEF ViewOK
  <2>7. \A j \in 1 .. Len(jobs') : KeepsView(jobs'[j].text.view)
    BY <2>3, StaleMeans DEF ViewOK, SameHandler
  <2>8. jobs = <<>> => jobs' = <<>>
    <3>1. jobs \in Seq(Handler) /\ jobs' \in Seq(Handler) /\ Len(jobs') = Len(jobs)
      BY <2>3, StaleMeans DEF TypeOK, SameHandler
    <3> QED
      BY <3>1
  <2> QED
    BY <2>2, <2>3, <2>5, <2>6, <2>7, <2>8 DEF ViewOK
<1>7. CASE Hide
  <2>1. \A j \in 1 .. Len(toWeb') : (j \in 1 .. Len(toWeb) /\ toWeb'[j] = toWeb[j])
                                   \/ toWeb'[j].kind = "flush"
    <3>1. PICK m : m = [kind |-> "flush"]
      OBVIOUS
    <3>2. m \in WebMessage /\ m.kind = "flush" /\ toWeb' = Append(toWeb, m)
      BY <1>7, <3>1, WebMessages DEF Hide
    <3> QED
      BY <3>2, Put DEF TypeOK
  <2> QED
    BY <1>7, <2>1 DEF Hide, ViewOK
<1>8. CASE TimerSave \/ TimerView \/ PageHidden \/ Flush
  BY <1>8, PostedBy, ViewPosted
<1>9. CASE Load
  <2>1. toWeb # <<>> /\ toWeb' = Tail(toWeb)
    BY <1>9, ReceiveMeans DEF Load
  <2>2. \A k \in 1 .. Len(toWeb') : toWeb'[k] = toWeb[k + 1] /\ k + 1 \in 1 .. Len(toWeb)
    BY <2>1, Taken DEF TypeOK
  <2>3. vs \subseteq vs' /\ UNCHANGED <<doc, disk, jobs, toHost, synced>>
    BY <1>9 DEF Load, Migrated
  <2> QED
    BY <2>2, <2>3 DEF ViewOK
<1>10. CASE ViewLoad
  <2>1. toWeb # <<>> /\ toWeb' = Tail(toWeb) /\ Head(toWeb).kind = "view-load"
    BY <1>10, ReceiveMeans DEF ViewLoad
  <2>2. /\ \A k \in 1 .. Len(toWeb') : toWeb'[k] = toWeb[k + 1] /\ k + 1 \in 1 .. Len(toWeb)
        /\ Head(toWeb) = toWeb[1] /\ 1 \in 1 .. Len(toWeb)
    BY <2>1, Taken DEF TypeOK
  <2>3. vs' = View(View0) /\ UNCHANGED <<doc, disk, jobs, toHost>>
    BY <1>10, <2>1, <2>2 DEF ViewLoad, ViewOK
  <2> QED
    BY <2>2, <2>3 DEF ViewOK
<1>11. CASE \E e \in Edit : EditSpec(e)
  BY <1>11 DEF EditSpec, ViewOK
<1>12. CASE \E p \in Drag : DragNode(p)
  <2>1. vs \subseteq vs' /\ UNCHANGED <<doc, disk, jobs, toHost, toWeb, synced>>
    BY <1>12 DEF DragNode
  <2> QED
    BY <2>1 DEF ViewOK
<1>13. CASE ClickRun
  <2>1. PICK t, m : t = Text(View(rf), None, FALSE, {}) /\ m = [kind |-> "run", text |-> t]
    OBVIOUS
  <2>2. m \in HostMessage /\ m.kind = "run" /\ m.text.view = None
    <3>1. t \in Texts /\ t.view = None
      BY <2>1, Constants DEF Text, Texts, TypeOK
    <3> QED
      BY <2>1, <3>1, HostMessages
  <2>3. toHost' = Append(toHost, m) /\ UNCHANGED <<doc, disk, jobs, toWeb, vs, synced>>
    BY <1>13, <2>1 DEF ClickRun
  <2>4. \A k \in 1 .. Len(toHost') : (k \in 1 .. Len(toHost) /\ toHost'[k] = toHost[k])
                                    \/ toHost'[k] = m
    BY <2>2, <2>3, Put DEF TypeOK
  <2> QED
    BY <2>2, <2>3, <2>4 DEF ViewOK
<1>14. CASE UNCHANGED vars
  BY <1>14 DEF vars, ViewOK
<1> QED
  BY <1>1, <1>2, <1>4, <1>5, <1>6, <1>7, <1>8, <1>9, <1>10, <1>11, <1>12, <1>13, <1>14
     DEF Next, HostReceives, WebReceives, JobStep

-----------------------------------------------------------------------------
(* Handlers that overlap.                                                    *)

\* The edit is to come, and the document is still the one it was asked for.
Fresh(h) == h.stage = "edit" /\ ~h.stale

\* While a handler that started alone is fresh nobody has got any further: the
\* edit of another one would have changed the document, and VS Code refuses an
\* edit only after such a change.  So nobody has taken the announced version back.
Alone == (\E k \in 1 .. Len(jobs) : Fresh(jobs[k]) /\ ~jobs[k].joined) =>
           announced /\ \A j \in 1 .. Len(jobs) : Fresh(jobs[j])

\* A handler that saves finds its own text in the document, or is stale.
Edited == \A k \in 1 .. Len(jobs) :
            jobs[k].stage = "save" => jobs[k].stale \/ doc = jobs[k].text

HandlersOK == Alone /\ Edited /\ SavedBeforeRun

\* The steps that leave the handlers alone.
LEMMA HandlersStay ==
  ASSUME [Next]_vars
  PROVE  \/ UNCHANGED <<doc, announced, jobs, ran>>
         \/ StartEdit
         \/ \E k \in DOMAIN jobs : EditApplied(k) \/ Finish(k) \/ Fail(k)
         \/ \E x \in Outside : OutsideEdit(x)
<1> USE DEF hostVars, webVars
<1>1. CASE Ready \/ Hide \/ ClickRun
  BY <1>1 DEF Ready, Hide, ClickRun
<1>2. CASE TimerSave \/ TimerView \/ PageHidden \/ Flush
  BY <1>2 DEF TimerSave, TimerView, PageHidden, Flush, FlushBoth
<1>3. CASE Load \/ ViewLoad \/ UNCHANGED vars
  BY <1>3 DEF Load, ViewLoad, vars
<1>4. CASE (\E e \in Edit : EditSpec(e)) \/ (\E p \in Drag : DragNode(p))
  BY <1>4 DEF EditSpec, DragNode
<1> QED
  BY <1>1, <1>2, <1>3, <1>4 DEF Next, HostReceives, WebReceives, JobStep

\* HandlersOK is inductive, whatever crosses or fails.
LEMMA HandlersStep ==
  ASSUME TypeOK, HandlersOK, [Next]_vars
  PROVE  HandlersOK'
<1>1. CASE UNCHANGED <<doc, announced, jobs, ran>>
  BY <1>1 DEF HandlersOK, Alone, Edited, SavedBeforeRun
<1>2. CASE StartEdit
  <2>1. PICK h \in Handler : /\ jobs' = Append(jobs, h) /\ h.stage = "edit" /\ ~h.stale
                             /\ (~h.joined => jobs = <<>>)
                             /\ announced' /\ UNCHANGED <<doc, ran>>
    BY <1>2, StartMeans
  <2>2. /\ jobs \in Seq(Handler) /\ (jobs = <<>> => Len(jobs) = 0)
        /\ \A j \in 1 .. Len(jobs') : (j \in 1 .. Len(jobs) /\ jobs'[j] = jobs[j]) \/ jobs'[j] = h
    BY <2>1, Put, Positions DEF TypeOK
  <2>3. Alone'
    BY <2>1, <2>2 DEF HandlersOK, Alone, Fresh
  <2>4. Edited'
    BY <2>1, <2>2 DEF HandlersOK, Edited
  <2> QED
    BY <2>1, <2>3, <2>4 DEF HandlersOK, SavedBeforeRun
<1>3. ASSUME NEW k \in DOMAIN jobs, EditApplied(k) PROVE HandlersOK'
  <2>1. k \in 1 .. Len(jobs) /\ jobs[k].text \in Texts
    BY UnderWay
  <2>2. /\ Len(jobs') = Len(jobs) /\ jobs[k].stage = "edit" /\ jobs'[k].stage = "save"
        /\ \A j \in 1 .. Len(jobs) : /\ SameHandler(jobs'[j], jobs[j])
                                     /\ j # k => jobs'[j].stage = jobs[j].stage
        /\ EditMade(k) \/ EditRefused(k)
    BY <1>3, <2>1, AppliedMeans
  <2>3. ran' = ran
    BY <1>3 DEF EditApplied
  <2>4. CASE EditMade(k)
    <3>1. doc' = jobs[k].text
      BY <2>1, <2>4, ChangeMeans DEF EditMade
    <3>2. \A j \in 1 .. Len(jobs') : ~Fresh(jobs'[j])
      BY <2>2, <2>4 DEF EditMade, Fresh
    <3>3. Edited'
      BY <2>2, <2>4, <3>1 DEF EditMade, Edited, SameHandler
    <3> QED
      BY <2>3, <3>2, <3>3 DEF HandlersOK, Alone, SavedBeforeRun
  <2>5. CASE EditRefused(k)
    <3>1. ~Fresh(jobs[k])
      BY <2>5 DEF EditRefused, Fresh
    <3>2. \A j \in 1 .. Len(jobs') : Fresh(jobs'[j]) /\ ~jobs'[j].joined
                                      => Fresh(jobs[j]) /\ ~jobs[j].joined
      BY <2>2, <2>5 DEF EditRefused, Fresh, SameHandler
    <3>3. Alone'
      BY <2>1, <2>2, <3>1, <3>2 DEF HandlersOK, Alone
    <3>4. Edited'
      BY <2>2, <2>5 DEF HandlersOK, EditRefused, Edited, SameHandler
    <3> QED
      BY <2>3, <3>3, <3>4 DEF HandlersOK, SavedBeforeRun
  <2> QED
    BY <2>2, <2>4, <2>5
<1>4. ASSUME NEW k \in DOMAIN jobs, jobs' = RemoveAt(jobs, k), doc' = doc,
             announced' = announced \/ ~Fresh(jobs[k])
      PROVE  Alone' /\ Edited'
  <2>1. k \in 1 .. Len(jobs)
    BY <1>4, Positions DEF TypeOK
  <2>2. \A j \in 1 .. Len(jobs') : \E i \in 1 .. Len(jobs) : jobs'[j] = jobs[i]
    BY <1>4, <2>1, TakenOut DEF TypeOK
  <2>3. Alone'
    BY <1>4, <2>1, <2>2 DEF HandlersOK, Alone
  <2>4. Edited'
    BY <1>4, <2>2 DEF HandlersOK, Edited
  <2> QED
    BY <2>3, <2>4
<1>5. ASSUME NEW k \in DOMAIN jobs, Finish(k) PROVE HandlersOK'
  <2>1. k \in 1 .. Len(jobs)
    BY <1>5, Positions DEF TypeOK
  <2>2. /\ jobs[k].stage = "save" /\ jobs' = RemoveAt(jobs, k) /\ doc' = doc
        /\ ran' = ran \/ ran' = ran \cup {Started(jobs[k], doc)}
    BY <1>5, <2>1, FinishMeans
  <2>3. jobs[k].stale \/ doc = jobs[k].text
    BY <2>1, <2>2 DEF HandlersOK, Edited
  <2>4. LET r == Started(jobs[k], doc) IN r.stale \/ r.file = r.asked
    BY <2>3 DEF Started
  <2>5. SavedBeforeRun'
    BY <2>2, <2>4 DEF HandlersOK, SavedBeforeRun
  <2> QED
    BY <1>4, <2>2, <2>5 DEF HandlersOK, Fresh
<1>6. ASSUME NEW k \in DOMAIN jobs, Fail(k) PROVE HandlersOK'
  BY <1>4, <1>6 DEF Fail, HandlersOK, SavedBeforeRun
<1>7. ASSUME NEW x \in Outside, OutsideEdit(x) PROVE HandlersOK'
  <2>1. jobs' = Stale(jobs) /\ ran' = ran
    BY <1>7 DEF OutsideEdit
  <2>2. \A j \in 1 .. Len(jobs') : jobs'[j].stale
    BY <2>1, StaleMeans
  <2> QED
    BY <2>1, <2>2 DEF HandlersOK, Alone, Edited, SavedBeforeRun, Fresh
<1> QED
  BY <1>1, <1>2, <1>3, <1>5, <1>6, <1>7, HandlersStay

-----------------------------------------------------------------------------
(* One handler at a time.                                                    *)

\* As long as nothing crosses, a handler's edit is announced and not stale, what
\* it has put in the document is there until it ends, and between handlers the
\* file is the document.
OneJob ==
  /\ Len(jobs) <= 1
  /\ jobs = <<>> => ~announced /\ disk = doc
  /\ jobs # <<>> /\ jobs[1].stage = "edit" => ~jobs[1].stale /\ announced /\ disk = doc
  /\ jobs # <<>> /\ jobs[1].stage = "save" => ~announced /\ doc = jobs[1].text

\* What has crossed, has.
LEMMA CalmStays ==
  ASSUME TypeOK, [Next]_vars, calm'
  PROVE  calm
<1> USE DEF Calmly
<1>1. CASE HostReceives
  BY <1>1 DEF HostReceives, Ready, StartEdit
<1>2. CASE WebReceives \/ TimerSave \/ TimerView \/ PageHidden
  BY <1>2 DEF WebReceives, Flush, Load, ViewLoad, TimerSave, TimerView, PageHidden, FlushBoth
<1>3. CASE JobStep \/ \E k \in DOMAIN jobs : Fail(k)
  BY <1>3 DEF JobStep, EditApplied, Finish, Fail
<1>4. CASE (\E x \in Outside : OutsideEdit(x)) \/ Hide \/ ClickRun
  BY <1>4 DEF OutsideEdit, Hide, ClickRun
<1>5. CASE (\E e \in Edit : EditSpec(e)) \/ (\E p \in Drag : DragNode(p))
  BY <1>5 DEF EditSpec, DragNode
<1>6. CASE UNCHANGED vars
  BY <1>6 DEF vars
<1> QED
  BY <1>1, <1>2, <1>3, <1>4, <1>5, <1>6 DEF Next

\* The only handler under way is the first.
LEMMA TheJob ==
  ASSUME TypeOK, OneJob
  PROVE  /\ \A k \in DOMAIN jobs : k = 1 /\ k \in 1 .. Len(jobs) /\ jobs # <<>>
         /\ jobs # <<>> => 1 \in DOMAIN jobs /\ Len(jobs) = 1 /\ jobs[1] \in Handler
         /\ jobs = <<>> <=> Len(jobs) = 0
<1>1. jobs \in Seq(Handler) /\ Len(jobs) <= 1
  BY DEF TypeOK, OneJob
<1>2. Len(jobs) \in Nat /\ DOMAIN jobs = 1 .. Len(jobs) /\ (jobs = <<>> <=> Len(jobs) = 0)
      /\ \A k \in 1 .. Len(jobs) : jobs[k] \in Handler
  BY <1>1, Positions
<1>3. jobs # <<>> => Len(jobs) = 1
  BY <1>1, <1>2
<1>4. \A k \in 1 .. Len(jobs) : k = 1 /\ jobs # <<>>
  BY <1>1, <1>2
<1>5. jobs # <<>> => 1 \in 1 .. Len(jobs)
  BY <1>2, <1>3
<1> QED
  BY <1>2, <1>3, <1>4, <1>5

\* OneJob is inductive as long as nothing crosses.
LEMMA OneJobStep ==
  ASSUME TypeOK, OneJob, [Next]_vars, calm'
  PROVE  OneJob'
<1> USE DEF hostVars, webVars
<1>1. CASE StartEdit
  <2>1. PICK h \in Handler :
          /\ jobs' = Append(jobs, h) /\ h.stage = "edit" /\ ~h.stale
          /\ announced' /\ calm' = (calm /\ jobs = <<>>) /\ UNCHANGED <<doc, disk>>
    BY <1>1, StartMeans
  <2>2. jobs = <<>>
    BY <2>1
  <2>3. Len(jobs') = 1 /\ jobs'[1] = h
    BY <2>1, <2>2
  <2>4. disk' = doc' /\ jobs' # <<>> /\ Len(jobs') <= 1
    BY <2>1, <2>2, <2>3 DEF OneJob
  <2> QED
    BY <2>1, <2>3, <2>4 DEF OneJob
<1>2. ASSUME NEW k \in DOMAIN jobs, EditApplied(k) PROVE OneJob'
  <2>1. k = 1 /\ k \in 1 .. Len(jobs) /\ jobs # <<>> /\ Len(jobs) = 1 /\ jobs[1] \in Handler
    BY TheJob
  <2>2. /\ jobs' \in Seq(Handler) /\ Len(jobs') = Len(jobs) /\ jobs[k].stage = "edit"
        /\ jobs'[k].stage = "save" /\ jobs'[k].text = jobs[k].text
    BY <1>2, <2>1, AppliedMeans DEF EditMade, EditRefused, SameHandler
  <2>3. ~jobs[1].stale
    BY <2>1, <2>2 DEF OneJob
  <2>4. Change(jobs[k].text)
    BY <1>2, <2>1, <2>3, AppliedMeans DEF EditMade, EditRefused, SameHandler
  <2>5. doc' = jobs[k].text /\ ~announced'
    BY <2>1, <2>4, ChangeMeans, Handlers
  <2>6. jobs' # <<>>
    BY <2>1, <2>2
  <2> QED
    BY <2>1, <2>2, <2>5, <2>6 DEF OneJob
<1>3. ASSUME NEW k \in DOMAIN jobs, Finish(k) PROVE OneJob'
  <2>1. k = 1 /\ k \in 1 .. Len(jobs) /\ jobs # <<>> /\ Len(jobs) = 1 /\ jobs \in Seq(Handler)
    BY TheJob DEF TypeOK
  <2>2. /\ jobs[k].stage = "save" /\ jobs' = RemoveAt(jobs, k)
        /\ disk' = doc /\ doc' = doc /\ ~announced'
    BY <1>3, <2>1, FinishMeans
  <2>3. jobs' = <<>> /\ Len(<<>>) <= 1
    <3>1. jobs' = RemoveAt(jobs, 1) /\ 1 \in 1 .. Len(jobs) /\ Len(jobs) <= 1
      BY <2>1, <2>2
    <3>2. RemoveAt(jobs, 1) = <<>>
      BY <2>1, <3>1, TakenOut
    <3> QED
      BY <3>1, <3>2
  <2> QED
    BY <2>2, <2>3 DEF OneJob
<1>4. ASSUME NEW k \in DOMAIN jobs, Fail(k) PROVE OneJob'
  BY <1>4 DEF Fail, Calmly
<1>5. ASSUME NEW x \in Outside, OutsideEdit(x) PROVE OneJob'
  <2>1. jobs = <<>>
    BY <1>5 DEF OutsideEdit, Calmly, Busy
  <2>2. disk' = doc' /\ ~announced' /\ jobs' = Stale(jobs)
    BY <1>5 DEF OutsideEdit, Change
  <2>3. Len(jobs') = 0 /\ jobs' = <<>>
    BY <2>1, <2>2, StaleMeans DEF SameHandler
  <2> QED
    BY <2>2, <2>3 DEF OneJob
<1>6. CASE UNCHANGED <<doc, disk, announced, jobs>>
  BY <1>6 DEF OneJob
<1>7. CASE Ready \/ Hide \/ ClickRun \/ Load \/ ViewLoad \/ UNCHANGED vars
  BY <1>6, <1>7 DEF Ready, Hide, ClickRun, Load, ViewLoad, vars
<1>8. CASE TimerSave \/ TimerView \/ PageHidden \/ Flush
  BY <1>6, <1>8, PostedBy DEF Posted
<1>9. CASE (\E e \in Edit : EditSpec(e)) \/ (\E p \in Drag : DragNode(p))
  BY <1>6, <1>9 DEF EditSpec, DragNode
<1> QED
  BY <1>1, <1>2, <1>3, <1>4, <1>5, <1>7, <1>8, <1>9 DEF Next, HostReceives, WebReceives, JobStep

-----------------------------------------------------------------------------
(* Queues.                                                                   *)

\* There is a message of such a kind; at most one; the newest has this spec.
Some(q, kinds)      == \E k \in 1 .. Len(q) : q[k].kind \in kinds
Once(q, kinds)      == \A j, k \in 1 .. Len(q) :
                          q[j].kind \in kinds /\ q[k].kind \in kinds => j = k
Newest(q, kinds, s) == \A k \in 1 .. Len(q) :
  q[k].kind \in kinds /\ (\A j \in 1 .. Len(q) : j > k => q[j].kind \notin kinds)
    => q[k].text.spec = s

\* A message that is put at the end is the newest.
LEMMA SomePut ==
  ASSUME NEW S, NEW q \in Seq(S), NEW m \in S, NEW kinds
  PROVE  /\ Some(Append(q, m), kinds) <=> Some(q, kinds) \/ m.kind \in kinds
         /\ ~Some(q, kinds) => Once(Append(q, m), kinds)
         /\ m.kind \notin kinds /\ Once(q, kinds) => Once(Append(q, m), kinds)
         /\ m.kind \in kinds => Newest(Append(q, m), kinds, m.text.spec)
         /\ m.kind \notin kinds =>
              \A s : Newest(q, kinds, s) => Newest(Append(q, m), kinds, s)
<1> DEFINE p == Append(q, m)
<1>1. /\ Len(p) = Len(q) + 1 /\ Len(q) \in Nat /\ p[Len(q) + 1] = m
      /\ \A k \in 1 .. Len(q) : p[k] = q[k]
  BY Put
<1> HIDE DEF p
<1>2. \A k \in 1 .. Len(p) : k = Len(q) + 1 \/ k \in 1 .. Len(q)
  BY <1>1
<1>3. \A k \in 1 .. Len(q) : k \in 1 .. Len(p) /\ k < Len(q) + 1
  BY <1>1
<1>4. Len(q) + 1 \in 1 .. Len(p)
  BY <1>1
<1>5. Some(p, kinds) <=> Some(q, kinds) \/ m.kind \in kinds
  BY <1>1, <1>2, <1>3, <1>4 DEF Some
<1>6. ~Some(q, kinds) => Once(p, kinds)
  BY <1>1, <1>2 DEF Some, Once
<1>7. m.kind \notin kinds /\ Once(q, kinds) => Once(p, kinds)
  BY <1>1, <1>2 DEF Once
<1>8. m.kind \in kinds => Newest(p, kinds, m.text.spec)
  BY <1>1, <1>2, <1>3, <1>4 DEF Newest
<1>9. ASSUME m.kind \notin kinds, NEW s, Newest(q, kinds, s) PROVE Newest(p, kinds, s)
  <2> SUFFICES ASSUME NEW k \in 1 .. Len(p), p[k].kind \in kinds,
                      \A j \in 1 .. Len(p) : j > k => p[j].kind \notin kinds
               PROVE  p[k].text.spec = s
    BY DEF Newest
  <2>1. k \in 1 .. Len(q)
    BY <1>1, <1>2, <1>9
  <2>2. \A j \in 1 .. Len(q) : j > k => q[j].kind \notin kinds
    BY <1>1, <1>3
  <2> QED
    BY <1>1, <1>9, <2>1, <2>2 DEF Newest
<1> QED
  BY <1>5, <1>6, <1>7, <1>8, <1>9 DEF p

\* When the first message is taken off, the newest stays, unless it was alone.
LEMMA SomeTaken ==
  ASSUME NEW S, NEW q \in Seq(S), q # <<>>, NEW kinds
  PROVE  /\ Some(q, kinds) <=> Head(q).kind \in kinds \/ Some(Tail(q), kinds)
         /\ Once(q, kinds) => Once(Tail(q), kinds)
         /\ Once(q, kinds) /\ Head(q).kind \in kinds => ~Some(Tail(q), kinds)
         /\ \A s : Newest(q, kinds, s) => Newest(Tail(q), kinds, s)
         /\ \A s : Newest(q, kinds, s) /\ Head(q).kind \in kinds /\ ~Some(Tail(q), kinds)
                     => Head(q).text.spec = s
<1> DEFINE p == Tail(q)
           h == Head(q)
<1>1. /\ Len(p) = Len(q) - 1 /\ Len(q) \in Nat \ {0} /\ h = q[1]
      /\ \A k \in 1 .. Len(p) : p[k] = q[k + 1]
  BY Taken
<1> HIDE DEF p, h
<1>2. \A k \in 1 .. Len(p) : k + 1 \in 1 .. Len(q) /\ k + 1 # 1
  BY <1>1
<1>3. \A k \in 1 .. Len(q) : k # 1 => k - 1 \in 1 .. Len(p) /\ p[k - 1] = q[k]
  <2> SUFFICES ASSUME NEW k \in 1 .. Len(q), k # 1
               PROVE  k - 1 \in 1 .. Len(p) /\ p[k - 1] = q[k]
    OBVIOUS
  <2>1. k - 1 \in 1 .. Len(p) /\ (k - 1) + 1 = k
    BY <1>1
  <2> QED
    BY <1>1, <2>1
<1>4. 1 \in 1 .. Len(q)
  BY <1>1
<1>5. Some(q, kinds) <=> h.kind \in kinds \/ Some(p, kinds)
  BY <1>1, <1>2, <1>3, <1>4 DEF Some
<1>6. ASSUME Once(q, kinds) PROVE Once(p, kinds)
  <2> SUFFICES ASSUME NEW j \in 1 .. Len(p), NEW k \in 1 .. Len(p),
                      p[j].kind \in kinds, p[k].kind \in kinds
               PROVE  j = k
    BY DEF Once
  <2>1. j + 1 = k + 1
    BY <1>1, <1>2, <1>6 DEF Once
  <2> QED
    BY <2>1
<1>7. Once(q, kinds) /\ h.kind \in kinds => ~Some(p, kinds)
  BY <1>1, <1>2, <1>4 DEF Once, Some
<1>8. ASSUME NEW s, Newest(q, kinds, s) PROVE Newest(p, kinds, s)
  <2> SUFFICES ASSUME NEW k \in 1 .. Len(p), p[k].kind \in kinds,
                      \A j \in 1 .. Len(p) : j > k => p[j].kind \notin kinds
               PROVE  p[k].text.spec = s
    BY DEF Newest
  <2>1. ASSUME NEW j \in 1 .. Len(q), j > k + 1 PROVE q[j].kind \notin kinds
    <3>1. j # 1 /\ j - 1 > k
      BY <2>1
    <3> QED
      BY <1>3, <3>1
  <2> QED
    BY <1>1, <1>2, <1>8, <2>1 DEF Newest
<1>9. ASSUME NEW s, Newest(q, kinds, s), h.kind \in kinds, ~Some(p, kinds)
      PROVE  h.text.spec = s
  <2>1. \A j \in 1 .. Len(q) : j > 1 => q[j].kind \notin kinds
    BY <1>3, <1>9 DEF Some
  <2> QED
    BY <1>1, <1>4, <1>9, <2>1 DEF Newest
<1> QED
  BY <1>5, <1>6, <1>7, <1>8, <1>9 DEF p, h

\* The last message, if it is a view save, has this viewer state.
LastView(q, v) == q # <<>> => (q[Len(q)].kind = "view-save" => q[Len(q)].view = v)

\* The same for the last message.
LEMMA LastPutTaken ==
  ASSUME NEW S, NEW q \in Seq(S), NEW v
  PROVE  /\ \A m \in S : /\ (m.kind = "view-save" => m.view = v) => LastView(Append(q, m), v)
                         /\ Append(q, m) # <<>>
         /\ q # <<>> /\ LastView(q, v) => LastView(Tail(q), v)
         /\ q # <<>> /\ LastView(q, v) /\ Tail(q) = <<>> /\ Head(q).kind = "view-save"
              => Head(q).view = v
<1>1. ASSUME NEW m \in S
      PROVE  /\ (m.kind = "view-save" => m.view = v) => LastView(Append(q, m), v)
             /\ Append(q, m) # <<>>
  <2>1. Append(q, m)[Len(Append(q, m))] = m /\ Append(q, m) # <<>>
    OBVIOUS
  <2> QED
    BY <2>1 DEF LastView
<1>2. ASSUME q # <<>>, LastView(q, v) PROVE LastView(Tail(q), v)
  <2>1. ASSUME Tail(q) # <<>> PROVE Tail(q)[Len(Tail(q))] = q[Len(q)]
    <3>1. /\ Tail(q) \in Seq(S) /\ Len(Tail(q)) = Len(q) - 1 /\ Len(q) \in Nat
          /\ \A k \in 1 .. Len(Tail(q)) : Tail(q)[k] = q[k + 1]
      BY <1>2, Taken
    <3>2. Len(Tail(q)) \in 1 .. Len(Tail(q))
      BY <2>1, <3>1, Positions
    <3>3. Len(Tail(q)) + 1 = Len(q)
      BY <3>1
    <3> QED
      BY <3>1, <3>2, <3>3
  <2> DEFINE p == Tail(q)
  <2>2. p # <<>> => p[Len(p)] = q[Len(q)]
    BY <2>1
  <2> HIDE DEF p
  <2>3. LastView(p, v)
    BY <1>2, <2>2 DEF LastView
  <2> QED
    BY <2>3 DEF p
<1>3. ASSUME q # <<>>, LastView(q, v), Tail(q) = <<>>, Head(q).kind = "view-save"
      PROVE  Head(q).view = v
  <2>1. Head(q) = q[1] /\ Len(Tail(q)) = Len(q) - 1 /\ Len(q) \in Nat /\ Tail(q) \in Seq(S)
    BY <1>3, Taken
  <2>2. Len(Tail(q)) = 0
    BY <1>3, <2>1, Positions
  <2>3. Len(q) = 1
    <3> DEFINE n == Len(q)
               t == Len(Tail(q))
    <3>1. t = n - 1 /\ n \in Nat /\ t = 0
      BY <2>1, <2>2
    <3> HIDE DEF n, t
    <3>2. n = 1
      BY <3>1
    <3> QED
      BY <3>2 DEF n
  <2>4. PICK h : h = Head(q)
    OBVIOUS
  <2>5. q[Len(q)] = h /\ h.kind = "view-save"
    BY <1>3, <2>1, <2>3, <2>4
  <2>6. h.view = v
    BY <1>3, <2>5 DEF LastView
  <2> QED
    BY <2>4, <2>6
<1> QED
  BY <1>1, <1>2, <1>3

-----------------------------------------------------------------------------
(* What holds as long as nothing has crossed.                                *)

Specs    == {"save", "run"}
Requests == {"save", "run", "view-save"}

\* The webview asks for the file first.  Until it has both of what it asks for,
\* nothing else is on its way to the host, and no save is pending.
Opening ==
  /\ Some(toHost, {"ready"}) => synced = None /\ ~Some(toWeb, {"view-load"})
  /\ Some(toWeb, {"view-load"}) => synced = None
  /\ Once(toWeb, {"view-load"})
  /\ synced = None => /\ doc.view = View0 /\ jobs = <<>> /\ ~Some(toHost, Requests)
                      /\ Some(toHost, {"ready"}) \/ Some(toWeb, {"view-load"})
  /\ Loading => /\ ~dSave /\ ~Some(toHost, Specs)
                /\ jobs # <<>> => jobs[1].kind = "view-save"

\* Some handler has an edit to make.
Editing == jobs # <<>> /\ jobs[1].stage = "edit"

\* Every change of the spec is in the save that is pending, or else in the last
\* save on its way, or else in the one that is being made, or in the document.
SpecKept ==
  /\ Base \in made
  /\ Editing /\ jobs[1].kind = "view-save" => jobs[1].text.spec = doc.spec
  /\ ~dSave => Newest(toHost, Specs, made)
  /\ ~dSave /\ ~Some(toHost, Specs) =>
       /\ Editing => jobs[1].text.spec = made
       /\ ~Editing => doc.spec = made

\* Every change is in the last load on its way, or else on the canvas.
CanvasKept ==
  /\ Newest(toWeb, {"load"}, made)
  /\ ~Some(toWeb, {"load"}) /\ ~Some(toHost, {"ready"}) =>
       /\ rf = made
       /\ synced = None => lastSpec = made

\* The viewer state is in the view save that is pending, or else in the last
\* message, if that is one, or else in the document, unless a spec save has
\* dropped it.
ViewKept ==
  synced # None =>
    /\ dView \/ vs = synced
    /\ LastView(toHost, synced)
    /\ toHost = <<>> => /\ Editing => jobs[1].text.view \in {None, synced}
                        /\ ~Editing => doc.view \in {None, synced}

\* What the steps of a calm execution start from.
CalmFacts == TypeOK /\ ViewOK /\ OneJob /\ Opening /\ SpecKept /\ CanvasKept /\ ViewKept

\* A queue with none of a kind has no newest, and none of a smaller set of kinds.
LEMMA SomeMeans ==
  ASSUME NEW S, NEW q \in Seq(S)
  PROVE  /\ \A kinds : ~Some(q, kinds) =>
              /\ \A s : Newest(q, kinds, s)
              /\ Once(q, kinds)
              /\ \A fewer \in SUBSET kinds : ~Some(q, fewer)
         /\ \A kinds : ~Some(<<>>, kinds)
         /\ \A kinds, s : Newest(<<>>, kinds, s)
         /\ q = <<>> \/ \E k \in 1 .. Len(q) : TRUE
<1>1. \A kinds : ~Some(q, kinds) =>
        /\ \A s : Newest(q, kinds, s)
        /\ Once(q, kinds)
        /\ \A fewer \in SUBSET kinds : ~Some(q, fewer)
  BY DEF Some, Newest, Once
<1>2. /\ \A kinds : ~Some(<<>>, kinds)
      /\ \A kinds, s : Newest(<<>>, kinds, s)
  BY DEF Some, Newest
<1>3. q = <<>> \/ 1 \in 1 .. Len(q)
  BY Positions
<1> QED
  BY <1>1, <1>2, <1>3

\* `Busy` and `Loading` in the terms used here.
LEMMA LoadingMeans ==
  ASSUME TypeOK
  PROVE  /\ Loading <=> synced = None \/ Some(toWeb, {"load", "view-load"})
         /\ Busy <=> jobs # <<>> \/ Some(toHost, Requests)
<1>1. /\ DOMAIN toWeb = 1 .. Len(toWeb) /\ DOMAIN toHost = 1 .. Len(toHost)
      /\ \A k \in 1 .. Len(toWeb) : toWeb[k] \in WebMessage
      /\ \A k \in 1 .. Len(toHost) : toHost[k] \in HostMessage
  BY Positions DEF TypeOK
<1>2. \A m \in WebMessage : m.kind # "flush" <=> m.kind \in {"load", "view-load"}
  BY DEF WebMessage
<1>3. \A m \in HostMessage : m.kind # "ready" <=> m.kind \in Requests
  BY DEF HostMessage, Requests
<1>4. Loading <=> synced = None \/ Some(toWeb, {"load", "view-load"})
  BY <1>1, <1>2 DEF Loading, Some
<1>5. Busy <=> jobs # <<>> \/ Some(toHost, Requests)
  BY <1>1, <1>3 DEF Busy, Some
<1> QED
  BY <1>4, <1>5

\* The same after a step.
LEMMA LoadingMeansThen ==
  ASSUME TypeOK'
  PROVE  Loading' <=> synced' = None \/ Some(toWeb', {"load", "view-load"})
<1>1. /\ DOMAIN toWeb' = 1 .. Len(toWeb') /\ \A k \in 1 .. Len(toWeb') : toWeb'[k] \in WebMessage
  BY Positions DEF TypeOK
<1>2. \A m \in WebMessage : m.kind # "flush" <=> m.kind \in {"load", "view-load"}
  BY DEF WebMessage
<1> QED
  BY <1>1, <1>2 DEF Loading, Some

\* The file is asked for, and both answers are sent.
LEMMA ReadyCalm ==
  ASSUME CalmFacts, Ready
  PROVE  /\ synced = None /\ jobs = <<>> /\ ~dSave /\ ~Some(toHost, Specs)
         /\ ~Some(toHost', {"ready"}) /\ ~Some(toHost', Requests) /\ ~Some(toHost', Specs)
         /\ Some(toWeb', {"load"}) /\ Newest(toWeb', {"load"}, made)
         /\ Some(toWeb', {"view-load"}) /\ Once(toWeb', {"view-load"})
         /\ UNCHANGED <<hostVars, webVars, made, ran, acts, calm>>
<1>1. PICK m, n : /\ m = [kind |-> "load", text |-> doc]
                  /\ n = [kind |-> "view-load", view |-> doc.view]
  OBVIOUS
<1>2. /\ toHost # <<>> /\ Head(toHost).kind = "ready" /\ toHost' = Tail(toHost)
      /\ toWeb' = toWeb \o <<m, n>>
      /\ UNCHANGED <<hostVars, webVars, made, ran, acts, calm>>
  BY <1>1 DEF Ready
<1>3. /\ toHost \in Seq(HostMessage) /\ toWeb \in Seq(WebMessage)
      /\ m \in WebMessage /\ n \in WebMessage
      /\ m.kind = "load" /\ m.text = doc /\ n.kind = "view-load"
  BY <1>1, WebMessages DEF CalmFacts, TypeOK, Texts
<1>4. Some(toHost, {"ready"})
  BY <1>2, <1>3, SomeTaken
<1>5. /\ synced = None /\ jobs = <<>> /\ ~Some(toHost, Requests) /\ ~Some(toWeb, {"view-load"})
  BY <1>4 DEF CalmFacts, Opening
<1>6. Loading /\ ~dSave /\ ~Some(toHost, Specs)
  BY <1>5 DEF CalmFacts, Opening, Loading
<1>7. doc.spec = made
  BY <1>5, <1>6 DEF CalmFacts, SpecKept, Editing
<1>8. ~Some(toHost', {"ready"})
  <2>1. \A k \in 1 .. Len(toHost') : toHost'[k] = toHost[k + 1] /\ k + 1 \in 1 .. Len(toHost)
                                    /\ k + 1 # 1
    BY <1>2, <1>3, Taken
  <2> QED
    BY <2>1 DEF CalmFacts, ViewOK, Some
<1>9. ~Some(toHost', Requests) /\ ~Some(toHost', Specs)
  BY <1>2, <1>3, <1>5, <1>6, SomeTaken
<1>10. /\ toWeb' = Append(Append(toWeb, m), n) /\ Append(toWeb, m) \in Seq(WebMessage)
  BY <1>2, <1>3
<1>11. /\ Some(Append(toWeb, m), {"load"}) /\ Newest(Append(toWeb, m), {"load"}, made)
       /\ ~Some(Append(toWeb, m), {"view-load"})
  BY <1>3, <1>5, <1>7, SomePut
<1>12. /\ Some(toWeb', {"load"}) /\ Newest(toWeb', {"load"}, made)
       /\ Some(toWeb', {"view-load"}) /\ Once(toWeb', {"view-load"})
  BY <1>3, <1>10, <1>11, SomePut
<1> QED
  BY <1>2, <1>5, <1>6, <1>8, <1>9, <1>12

\* A handler starts while none is under way.
LEMMA StartCalm ==
  ASSUME CalmFacts, StartEdit, calm'
  PROVE  /\ jobs = <<>> /\ synced # None
         /\ toHost # <<>> /\ Head(toHost) \in HostMessage /\ Head(toHost).kind \in Requests
         /\ toHost' = Tail(toHost)
         /\ jobs' # <<>> /\ jobs'[1].stage = "edit" /\ jobs'[1].kind = Head(toHost).kind
         /\ jobs'[1].text = Wanted(Head(toHost))
         /\ UNCHANGED <<doc, disk, toWeb, webVars, made, ran, acts>>
<1>1. PICK h \in Handler :
        /\ toHost # <<>> /\ Head(toHost) \in HostMessage /\ Head(toHost).kind # "ready"
        /\ toHost' = Tail(toHost) /\ jobs' = Append(jobs, h)
        /\ h.kind = Head(toHost).kind /\ h.text = Wanted(Head(toHost)) /\ h.stage = "edit"
        /\ calm' = (calm /\ jobs = <<>>)
        /\ UNCHANGED <<doc, disk, toWeb, webVars, made, ran, acts>>
  BY StartMeans DEF CalmFacts
<1>2. jobs = <<>>
  BY <1>1
<1>3. jobs' # <<>> /\ jobs'[1] = h
  BY <1>1, <1>2
<1>4. Head(toHost).kind \in Requests
  BY <1>1 DEF HostMessage, Requests
<1>5. Some(toHost, Requests)
  BY <1>1, <1>4, SomeTaken DEF CalmFacts, TypeOK
<1>6. synced # None
  BY <1>5 DEF CalmFacts, Opening
<1> QED
  BY <1>1, <1>2, <1>3, <1>4, <1>6

\* The one handler's edit is applied, and the webview is not told.
LEMMA AppliedCalm ==
  ASSUME CalmFacts, NEW k \in DOMAIN jobs, EditApplied(k)
  PROVE  /\ Editing /\ synced # None /\ doc' = jobs[1].text
         /\ jobs' # <<>> /\ jobs'[1].kind = jobs[1].kind /\ jobs'[1].stage = "save"
         /\ UNCHANGED <<disk, toHost, toWeb, webVars, made, ran, acts, calm>>
<1>1. k = 1 /\ k \in 1 .. Len(jobs) /\ jobs # <<>> /\ jobs[1] \in Handler /\ Len(jobs) = 1
  BY TheJob DEF CalmFacts
<1>2. /\ jobs[1].stage = "edit" /\ jobs'[1].stage = "save" /\ jobs'[1].kind = jobs[1].kind
      /\ jobs' \in Seq(Handler) /\ Len(jobs') = 1
      /\ \/ Change(jobs[1].text)
         \/ jobs[1].stale
  BY <1>1, AppliedMeans DEF CalmFacts, EditMade, EditRefused, SameHandler
<1>3. Change(jobs[1].text) /\ announced
  BY <1>1, <1>2 DEF CalmFacts, OneJob
<1>4. doc' = jobs[1].text /\ toWeb' = toWeb
  BY <1>1, <1>3, ChangeMeans, Handlers DEF CalmFacts
<1>5. UNCHANGED <<disk, toHost, webVars, made, ran, acts, calm>>
  BY DEF EditApplied
<1>6. synced # None
  BY <1>1 DEF CalmFacts, Opening
<1>7. jobs' # <<>>
  <2>1. Len(<<>>) = 0 /\ Len(jobs') = 1
    BY <1>2
  <2> QED
    BY <2>1
<1> QED
  BY <1>1, <1>2, <1>4, <1>5, <1>6, <1>7 DEF Editing

\* The one handler ends.
LEMMA FinishCalm ==
  ASSUME CalmFacts, NEW k \in DOMAIN jobs, Finish(k)
  PROVE  /\ jobs # <<>> /\ ~Editing /\ jobs' = <<>> /\ synced # None
         /\ UNCHANGED <<doc, toHost, toWeb, webVars, made, acts, calm>>
<1>1. k = 1 /\ k \in 1 .. Len(jobs) /\ jobs # <<>> /\ Len(jobs) = 1 /\ jobs \in Seq(Handler)
  BY TheJob DEF CalmFacts, TypeOK
<1>2. /\ jobs[1].stage = "save" /\ jobs' = RemoveAt(jobs, 1)
      /\ UNCHANGED <<doc, toHost, toWeb, webVars, made, acts, calm>>
  BY <1>1, FinishMeans DEF CalmFacts
<1>3. 1 \in 1 .. Len(jobs) /\ Len(jobs) <= 1
  BY <1>1
<1>4. jobs' = <<>>
  BY <1>1, <1>2, <1>3, TakenOut
<1>5. synced # None
  BY <1>1 DEF CalmFacts, Opening
<1> QED
  BY <1>1, <1>2, <1>4, <1>5 DEF Editing

\* With nothing to load, the canvas has every change.
LEMMA CanvasCurrent ==
  ASSUME CalmFacts, ~Loading
  PROVE  /\ synced # None /\ rf = made /\ View(rf) = made /\ View(rf) # {}
         /\ ~Some(toWeb, {"load"}) /\ ~Some(toWeb, {"view-load"}) /\ ~Some(toHost, {"ready"})
<1>1. synced # None /\ ~Some(toWeb, {"load", "view-load"})
  BY LoadingMeans DEF CalmFacts
<1>2. {"load"} \in SUBSET {"load", "view-load"} /\ {"view-load"} \in SUBSET {"load", "view-load"}
  OBVIOUS
<1>3. ~Some(toWeb, {"load"}) /\ ~Some(toWeb, {"view-load"})
  BY <1>1, <1>2, SomeMeans DEF CalmFacts, TypeOK
<1>4. ~Some(toHost, {"ready"})
  BY <1>1 DEF CalmFacts, Opening
<1>5. rf = made
  BY <1>3, <1>4 DEF CalmFacts, CanvasKept
<1>6. made \in SUBSET Changes /\ Base \in made
  BY DEF CalmFacts, TypeOK, SpecKept
<1>7. View(rf) = made
  BY <1>5, <1>6, Constants DEF View
<1> QED
  BY <1>1, <1>3, <1>4, <1>5, <1>6, <1>7

\* What is posted: the canvas with every change, and the viewer state last.
LEMMA PostedCalm ==
  ASSUME CalmFacts, TimerSave \/ TimerView \/ PageHidden \/ Flush
  PROVE  /\ Some(toHost', {"ready"}) <=> Some(toHost, {"ready"})
         /\ synced' = None <=> synced = None
         /\ synced = None => toHost' = toHost /\ ~dSave'
         /\ \/ /\ dSave' = dSave
               /\ Some(toHost', Specs) <=> Some(toHost, Specs)
               /\ \A s : Newest(toHost, Specs, s) => Newest(toHost', Specs, s)
            \/ dSave /\ ~dSave' /\ Some(toHost', Specs) /\ Newest(toHost', Specs, made)
         /\ \/ /\ synced' = synced
               /\ dView' = dView \/ vs = synced
               /\ toHost' = toHost \/ (toHost' # <<>> /\ \A v : LastView(toHost', v))
            \/ synced' = vs /\ LastView(toHost', vs) /\ toHost' # <<>>
         /\ UNCHANGED <<hostVars, rf, lastSpec, meta, vs, made, ran, acts, calm>>
<1>1. PICK mid \in Seq(HostMessage) :
        /\ \/ mid = toHost /\ dSave' = dSave
           \/ mid = toHost /\ dSave /\ View(rf) = {} /\ ~dSave'
           \/ /\ dSave /\ ~dSave' /\ rf # None
              /\ \E t \in Texts : /\ t.spec = rf /\ t.view = None
                                  /\ mid = Append(toHost, [kind |-> "save", text |-> t])
        /\ \/ toHost' = mid /\ synced' = synced /\ dView' = dView
           \/ toHost' = mid /\ synced' = synced /\ ~dView' /\ vs = synced
           \/ /\ synced # None /\ synced' = vs /\ ~dView'
              /\ toHost' = Append(mid, [kind |-> "view-save", view |-> vs])
        /\ UNCHANGED <<hostVars, rf, lastSpec, meta, vs, made, ran, acts, calm>>
  BY PostedBy DEF CalmFacts, Posted
<1>2. toHost \in Seq(HostMessage) /\ vs \in Views /\ vs # None
  BY Constants DEF CalmFacts, TypeOK
<1>3. dSave => ~Loading
  BY DEF CalmFacts, Opening
<1>4. synced = None => ~dSave
  BY <1>3 DEF Loading
<1>5. /\ \/ mid = toHost
         \/ mid # <<>> /\ \A v : LastView(mid, v)
      /\ synced = None => mid = toHost /\ ~dSave'
      /\ Some(mid, {"ready"}) <=> Some(toHost, {"ready"})
      /\ \/ /\ dSave' = dSave
            /\ Some(mid, Specs) <=> Some(toHost, Specs)
            /\ \A s : Newest(toHost, Specs, s) => Newest(mid, Specs, s)
         \/ dSave /\ ~dSave' /\ Some(mid, Specs) /\ Newest(mid, Specs, made)
  <2>1. CASE mid = toHost /\ dSave' = dSave
    BY <1>4, <2>1
  <2>2. CASE mid = toHost /\ dSave /\ View(rf) = {} /\ ~dSave'
    BY <1>3, <2>2, CanvasCurrent
  <2>3. ASSUME dSave, ~dSave', rf # None, NEW t \in Texts, t.spec = rf,
               mid = Append(toHost, [kind |-> "save", text |-> t])
        PROVE  <1>5!1 /\ <1>5!2 /\ <1>5!3 /\ <1>5!4
    <3>1. PICK m : m = [kind |-> "save", text |-> t]
      OBVIOUS
    <3>2. m \in HostMessage /\ m.kind = "save" /\ m.text.spec = made /\ mid = Append(toHost, m)
      BY <1>3, <2>3, <3>1, HostMessages, CanvasCurrent
    <3>3. m.kind \notin {"ready"} /\ m.kind \in Specs /\ m.kind # "view-save"
      BY <3>2 DEF Specs
    <3>4. Some(mid, {"ready"}) <=> Some(toHost, {"ready"})
      BY <1>2, <3>2, <3>3, SomePut
    <3>5. Some(mid, Specs) /\ Newest(mid, Specs, made)
      BY <1>2, <3>2, <3>3, SomePut
    <3>6. mid # <<>> /\ \A v : LastView(mid, v)
      BY <1>2, <3>2, <3>3, LastPutTaken
    <3> QED
      BY <1>4, <2>3, <3>4, <3>5, <3>6
  <2> QED
    BY <1>1, <2>1, <2>2, <2>3
<1>6. CASE toHost' = mid /\ synced' = synced /\ (dView' = dView \/ vs = synced)
  BY <1>1, <1>5, <1>6
<1>7. CASE /\ synced # None /\ synced' = vs
           /\ toHost' = Append(mid, [kind |-> "view-save", view |-> vs])
  <2>1. PICK m : m = [kind |-> "view-save", view |-> vs]
    OBVIOUS
  <2>2. /\ m \in HostMessage /\ m.kind = "view-save" /\ m.view = vs
        /\ toHost' = Append(mid, m)
    BY <1>2, <1>7, <2>1, HostMessages
  <2>3. m.kind \notin {"ready"} /\ m.kind \notin Specs
    BY <2>2 DEF Specs
  <2>4. /\ Some(toHost', {"ready"}) <=> Some(mid, {"ready"})
        /\ Some(toHost', Specs) <=> Some(mid, Specs)
        /\ \A s : Newest(mid, Specs, s) => Newest(toHost', Specs, s)
    BY <2>2, <2>3, SomePut
  <2>5. toHost' # <<>> /\ LastView(toHost', vs)
    <3>1. \A v : (m.kind = "view-save" => m.view = v) => LastView(Append(mid, m), v)
      BY <2>2, LastPutTaken
    <3>2. Append(mid, m) # <<>>
      BY <2>2, LastPutTaken
    <3> QED
      BY <2>2, <3>1, <3>2
  <2>6. Some(toHost', {"ready"}) <=> Some(toHost, {"ready"})
    BY <1>5, <2>4
  <2>7. (synced' = None <=> synced = None) /\ (synced = None => toHost' = toHost /\ ~dSave')
    BY <1>2, <1>7
  <2>8. \/ /\ dSave' = dSave
           /\ Some(toHost', Specs) <=> Some(toHost, Specs)
           /\ \A s : Newest(toHost, Specs, s) => Newest(toHost', Specs, s)
        \/ dSave /\ ~dSave' /\ Some(toHost', Specs) /\ Newest(toHost', Specs, made)
    BY <1>5, <2>4
  <2> QED
    BY <1>1, <1>7, <2>5, <2>6, <2>7, <2>8
<1> QED
  BY <1>1, <1>6, <1>7

\* What holds as long as nothing has crossed, after a step.
Kept == Opening /\ SpecKept /\ CanvasKept /\ ViewKept

\* The host answers `ready`.
LEMMA KeptByReady ==
  ASSUME CalmFacts, Ready
  PROVE  Kept'
<1> USE DEF hostVars, webVars
<1>1. /\ synced = None /\ jobs = <<>> /\ ~dSave /\ ~Some(toHost, Specs)
      /\ ~Some(toHost', {"ready"}) /\ ~Some(toHost', Requests) /\ ~Some(toHost', Specs)
      /\ Some(toWeb', {"load"}) /\ Newest(toWeb', {"load"}, made)
      /\ Some(toWeb', {"view-load"}) /\ Once(toWeb', {"view-load"})
      /\ UNCHANGED <<hostVars, webVars, made, ran, acts, calm>>
  BY ReadyCalm
<1>2. Opening'
  BY <1>1 DEF CalmFacts, Opening
<1>3. SpecKept'
  <2>1. toHost \in Seq(HostMessage) /\ toHost # <<>> /\ toHost' = Tail(toHost)
    BY DEF CalmFacts, TypeOK, Ready
  <2>2. Newest(toHost, Specs, made) => Newest(toHost', Specs, made)
    BY <2>1, SomeTaken
  <2> QED
    BY <1>1, <2>2 DEF CalmFacts, SpecKept, Editing
<1>4. CanvasKept'
  BY <1>1 DEF CanvasKept
<1>5. ViewKept'
  BY <1>1 DEF ViewKept
<1> QED
  BY <1>2, <1>3, <1>4, <1>5 DEF Kept

\* A handler starts.
LEMMA KeptByStart ==
  ASSUME CalmFacts, StartEdit, calm'
  PROVE  Kept'
<1> USE DEF webVars
<1> DEFINE h == Head(toHost)
<1>1. /\ jobs = <<>> /\ synced # None /\ toHost # <<>> /\ h \in HostMessage
      /\ h.kind \in Requests /\ toHost' = Tail(toHost)
      /\ jobs' # <<>> /\ jobs'[1].stage = "edit" /\ jobs'[1].kind = h.kind
      /\ jobs'[1].text = Wanted(h)
      /\ UNCHANGED <<doc, disk, toWeb, webVars, made, ran, acts>>
  BY StartCalm
<1>2. toHost \in Seq(HostMessage) /\ doc \in Texts
  BY DEF CalmFacts, TypeOK
<1>3. /\ \A kinds : Some(toHost, kinds) <=> h.kind \in kinds \/ Some(toHost', kinds)
      /\ \A kinds, s : Newest(toHost, kinds, s) => Newest(toHost', kinds, s)
      /\ \A kinds, s : /\ Newest(toHost, kinds, s) /\ h.kind \in kinds /\ ~Some(toHost', kinds)
                       => h.text.spec = s
  BY <1>1, <1>2, SomeTaken
<1>4. h.kind = "view-save" => /\ Wanted(h).spec = doc.spec /\ Wanted(h).view = h.view
                              /\ h.kind \notin Specs
  BY <1>2 DEF Wanted, Specs, Texts
<1>5. h.kind # "view-save" => Wanted(h) = h.text /\ h.kind \in Specs
  BY <1>1 DEF Wanted, Specs, Requests
<1>6. h.kind \notin {"ready"}
  BY <1>1 DEF Requests
<1> HIDE DEF h
<1>7. Loading' <=> Loading
  BY <1>1 DEF Loading
<1>8. Opening'
  <2>1. ASSUME Loading' PROVE ~dSave' /\ ~Some(toHost', Specs) /\ jobs'[1].kind = "view-save"
    <3>1. ~dSave /\ ~Some(toHost, Specs)
      BY <1>7, <2>1 DEF CalmFacts, Opening
    <3> QED
      BY <1>1, <1>3, <1>5, <3>1
  <2>2. Some(toHost', {"ready"}) => Some(toHost, {"ready"})
    BY <1>3
  <2> QED
    BY <1>1, <2>1, <2>2 DEF CalmFacts, Opening
<1>9. SpecKept'
  <2>1. jobs'[1].kind = "view-save" => jobs'[1].text.spec = doc'.spec
    BY <1>1, <1>4
  <2>2. ~dSave' => Newest(toHost', Specs, made')
    BY <1>1, <1>3 DEF CalmFacts, SpecKept
  <2>3. ASSUME ~dSave', ~Some(toHost', Specs) PROVE jobs'[1].text.spec = made'
    <3>1. CASE h.kind = "view-save"
      <4>1. ~dSave /\ ~Some(toHost, Specs)
        BY <1>1, <1>3, <1>4, <2>3, <3>1
      <4>2. doc.spec = made
        BY <1>1, <4>1 DEF CalmFacts, SpecKept, Editing
      <4> QED
        BY <1>1, <1>4, <3>1, <4>2
    <3>2. CASE h.kind # "view-save"
      <4>1. h.text.spec = made
        BY <1>1, <1>3, <1>5, <2>3, <3>2 DEF CalmFacts, SpecKept
      <4> QED
        BY <1>1, <1>5, <3>2, <4>1
    <3> QED
      BY <3>1, <3>2
  <2>4. Editing'
    BY <1>1 DEF Editing
  <2>5. Base \in made'
    BY <1>1 DEF CalmFacts, SpecKept
  <2> QED
    BY <2>1, <2>2, <2>3, <2>4, <2>5 DEF SpecKept
<1>10. CanvasKept'
  <2>1. Some(toHost', {"ready"}) <=> Some(toHost, {"ready"})
    BY <1>3, <1>6
  <2> QED
    BY <1>1, <2>1 DEF CalmFacts, CanvasKept
<1>11. ViewKept'
  <2>1. LastView(toHost, synced) /\ (dView \/ vs = synced)
    BY <1>1 DEF CalmFacts, ViewKept
  <2>2. LastView(toHost', synced) /\ (toHost' = <<>> /\ h.kind = "view-save" => h.view = synced)
    BY <1>1, <1>2, <2>1, LastPutTaken DEF h
  <2>3. h.kind \in {"save", "run"} => h.text.view = None
    <3>1. 1 \in 1 .. Len(toHost) /\ h = toHost[1]
      BY <1>1, <1>2, Taken DEF h
    <3> QED
      BY <3>1 DEF CalmFacts, ViewOK
  <2>4. toHost' = <<>> => jobs'[1].text.view \in {None, synced}
    BY <1>1, <1>4, <1>5, <2>2, <2>3 DEF Specs
  <2>5. Editing'
    BY <1>1 DEF Editing
  <2> QED
    BY <1>1, <2>1, <2>2, <2>4, <2>5 DEF ViewKept
<1> QED
  BY <1>8, <1>9, <1>10, <1>11 DEF Kept

\* An edit is applied.
LEMMA KeptByApplied ==
  ASSUME CalmFacts, NEW k \in DOMAIN jobs, EditApplied(k)
  PROVE  Kept'
<1> USE DEF webVars
<1>1. /\ Editing /\ synced # None /\ doc' = jobs[1].text
      /\ jobs # <<>> /\ jobs' # <<>> /\ jobs'[1].kind = jobs[1].kind /\ ~Editing'
      /\ UNCHANGED <<disk, toHost, toWeb, webVars, made, ran, acts, calm>>
  BY AppliedCalm DEF Editing
<1>2. Loading' <=> Loading
  BY <1>1 DEF Loading
<1>3. Opening'
  BY <1>1, <1>2 DEF CalmFacts, Opening
<1>4. SpecKept'
  BY <1>1 DEF CalmFacts, SpecKept
<1>5. CanvasKept'
  BY <1>1 DEF CalmFacts, CanvasKept
<1>6. ViewKept'
  BY <1>1 DEF CalmFacts, ViewKept
<1> QED
  BY <1>3, <1>4, <1>5, <1>6 DEF Kept

\* A handler ends.
LEMMA KeptByFinish ==
  ASSUME CalmFacts, NEW k \in DOMAIN jobs, Finish(k)
  PROVE  Kept'
<1> USE DEF webVars
<1>1. /\ ~Editing /\ ~Editing' /\ jobs' = <<>> /\ synced # None
      /\ UNCHANGED <<doc, toHost, toWeb, webVars, made, acts, calm>>
  BY FinishCalm DEF Editing
<1>2. Loading' <=> Loading
  BY <1>1 DEF Loading
<1>3. Opening'
  BY <1>1, <1>2 DEF CalmFacts, Opening
<1>4. SpecKept'
  BY <1>1 DEF CalmFacts, SpecKept
<1>5. CanvasKept'
  BY <1>1 DEF CalmFacts, CanvasKept
<1>6. ViewKept'
  BY <1>1 DEF CalmFacts, ViewKept
<1> QED
  BY <1>3, <1>4, <1>5, <1>6 DEF Kept

\* Another editor writes while nothing is on its way to the file.
LEMMA KeptByOutside ==
  ASSUME CalmFacts, NEW x \in Outside, OutsideEdit(x), calm'
  PROVE  Kept'
<1> USE DEF webVars
<1>1. /\ ~dSave /\ jobs = <<>> /\ ~Some(toHost, Requests)
      /\ jobs' = Stale(jobs) /\ made' = made \cup {x}
      /\ Change([doc EXCEPT !.spec = @ \cup {x}])
      /\ UNCHANGED <<toHost, webVars, ran>>
  BY LoadingMeans DEF CalmFacts, OutsideEdit, Calmly
<1>2. jobs' = <<>> /\ ~Editing /\ ~Editing'
  <2>1. Len(jobs') = 0 /\ jobs' \in Seq(Handler)
    BY <1>1, StaleMeans DEF CalmFacts, SameHandler
  <2> QED
    BY <1>1, <2>1 DEF Editing
<1>3. toHost \in Seq(HostMessage) /\ toWeb \in Seq(WebMessage) /\ doc \in Texts
  BY DEF CalmFacts, TypeOK
<1>4. ~Some(toHost, Specs)
  <2>1. Specs \in SUBSET Requests
    BY DEF Specs, Requests
  <2> QED
    BY <1>1, <1>3, <2>1, SomeMeans
<1>5. doc.spec = made
  BY <1>1, <1>2, <1>4 DEF CalmFacts, SpecKept
<1>6. PICK t : t = [doc EXCEPT !.spec = @ \cup {x}]
  OBVIOUS
<1>7. t \in Texts /\ t.spec = made' /\ t.view = doc.view
  BY <1>1, <1>3, <1>5, <1>6 DEF Texts, Changes
<1>8. PICK m : m = [kind |-> "load", text |-> t]
  OBVIOUS
<1>9. m \in WebMessage /\ m.kind = "load" /\ m.text = t
  BY <1>7, <1>8, WebMessages
<1>10. /\ doc' = t /\ toWeb' = Append(toWeb, m)
  BY <1>1, <1>2, <1>6, <1>7, <1>8, ChangeMeans DEF CalmFacts, OneJob
<1>11. /\ Some(toWeb', {"view-load"}) <=> Some(toWeb, {"view-load"})
       /\ Once(toWeb, {"view-load"}) => Once(toWeb', {"view-load"})
  BY <1>3, <1>9, <1>10, SomePut
<1>12. Some(toWeb', {"load"}) /\ Newest(toWeb', {"load"}, made')
  BY <1>3, <1>7, <1>9, <1>10, SomePut
<1>13. Opening'
  BY <1>1, <1>2, <1>4, <1>7, <1>10, <1>11 DEF CalmFacts, Opening
<1>14. SpecKept'
  <2>1. Newest(toHost', Specs, made')
    BY <1>1, <1>3, <1>4, SomeMeans
  <2>2. doc'.spec = made' /\ Base \in made'
    BY <1>1, <1>7, <1>10 DEF CalmFacts, SpecKept
  <2> QED
    BY <1>2, <2>1, <2>2 DEF SpecKept
<1>15. CanvasKept'
  BY <1>12 DEF CanvasKept
<1>16. ViewKept'
  BY <1>1, <1>2, <1>7, <1>10 DEF CalmFacts, ViewKept
<1> QED
  BY <1>13, <1>14, <1>15, <1>16 DEF Kept

\* The host asks for what is pending.
LEMMA KeptByHide ==
  ASSUME CalmFacts, TypeOK', Hide
  PROVE  Kept'
<1> USE DEF hostVars, webVars
<1>1. PICK m : m = [kind |-> "flush"]
  OBVIOUS
<1>2. /\ toWeb' = Append(toWeb, m) /\ m \in WebMessage /\ m.kind = "flush"
      /\ toWeb \in Seq(WebMessage)
      /\ UNCHANGED <<hostVars, toHost, webVars, made, ran, acts, calm>>
  BY <1>1, WebMessages DEF Hide, CalmFacts, TypeOK
<1>3. \A kinds : "flush" \notin kinds =>
        /\ Some(toWeb', kinds) <=> Some(toWeb, kinds)
        /\ Once(toWeb, kinds) => Once(toWeb', kinds)
        /\ \A s : Newest(toWeb, kinds, s) => Newest(toWeb', kinds, s)
  BY <1>2, SomePut
<1>4. Loading' <=> Loading
  BY <1>2, <1>3, LoadingMeans, LoadingMeansThen DEF CalmFacts
<1>5. /\ Some(toWeb', {"view-load"}) <=> Some(toWeb, {"view-load"})
      /\ Once(toWeb, {"view-load"}) => Once(toWeb', {"view-load"})
      /\ Some(toWeb', {"load"}) <=> Some(toWeb, {"load"})
      /\ Newest(toWeb, {"load"}, made) => Newest(toWeb', {"load"}, made)
  BY <1>3
<1>6. Opening'
  BY <1>2, <1>4, <1>5 DEF CalmFacts, Opening
<1>7. SpecKept' /\ ViewKept'
  BY <1>2 DEF CalmFacts, SpecKept, ViewKept, Editing
<1>8. CanvasKept'
  BY <1>2, <1>5 DEF CalmFacts, CanvasKept
<1> QED
  BY <1>6, <1>7, <1>8 DEF Kept

\* What the webview's queue has lost by one message taken off.
LEMMA ReceivedCalm ==
  ASSUME CalmFacts, TypeOK', toWeb # <<>>, toWeb' = Tail(toWeb), synced' = synced \/ synced' # None
  PROVE  /\ Once(toWeb', {"view-load"}) /\ Newest(toWeb', {"load"}, made)
         /\ \A kinds : Some(toWeb, kinds) <=> Head(toWeb).kind \in kinds \/ Some(toWeb', kinds)
         /\ Loading' => Loading
<1>1. toWeb \in Seq(WebMessage)
  BY DEF CalmFacts, TypeOK
<1>2. \A kinds : Some(toWeb, kinds) <=> Head(toWeb).kind \in kinds \/ Some(toWeb', kinds)
  BY <1>1, SomeTaken
<1>3. Loading' => Loading
  BY <1>2, LoadingMeans, LoadingMeansThen DEF CalmFacts
<1>4. Once(toWeb', {"view-load"}) /\ Newest(toWeb', {"load"}, made)
  BY <1>1, SomeTaken DEF CalmFacts, Opening, CanvasKept
<1> QED
  BY <1>2, <1>3, <1>4

\* The webview posts what is pending.
LEMMA KeptByPosted ==
  ASSUME CalmFacts, TypeOK', TimerSave \/ TimerView \/ PageHidden \/ Flush
  PROVE  Kept'
<1> USE DEF hostVars
<1>1. /\ Some(toHost', {"ready"}) <=> Some(toHost, {"ready"})
      /\ synced' = None <=> synced = None
      /\ synced = None => toHost' = toHost /\ ~dSave'
      /\ \/ /\ dSave' = dSave
            /\ Some(toHost', Specs) <=> Some(toHost, Specs)
            /\ \A s : Newest(toHost, Specs, s) => Newest(toHost', Specs, s)
         \/ dSave /\ ~dSave' /\ Some(toHost', Specs) /\ Newest(toHost', Specs, made)
      /\ UNCHANGED <<doc, jobs, rf, lastSpec, vs, made>>
  BY PostedCalm
<1>2. /\ \/ /\ synced' = synced
            /\ dView' = dView \/ vs = synced
            /\ toHost' = toHost \/ (toHost' # <<>> /\ \A v : LastView(toHost', v))
         \/ synced' = vs /\ LastView(toHost', vs) /\ toHost' # <<>>
      /\ UNCHANGED <<doc, jobs, vs>>
  BY PostedCalm
<1>3. /\ \/ toWeb' = toWeb
         \/ toWeb # <<>> /\ Head(toWeb).kind = "flush" /\ toWeb' = Tail(toWeb)
  BY PostedBy DEF CalmFacts
<1>4. /\ Once(toWeb', {"view-load"}) /\ Newest(toWeb', {"load"}, made)
      /\ Some(toWeb', {"view-load"}) <=> Some(toWeb, {"view-load"})
      /\ Some(toWeb', {"load"}) <=> Some(toWeb, {"load"})
      /\ Loading' => Loading
  <2>1. CASE toWeb' = toWeb
    <3>1. Loading' => Loading
      BY <1>1, <2>1, LoadingMeans, LoadingMeansThen DEF CalmFacts
    <3> QED
      BY <2>1, <3>1 DEF CalmFacts, Opening, CanvasKept
  <2>2. CASE toWeb # <<>> /\ Head(toWeb).kind = "flush" /\ toWeb' = Tail(toWeb)
    <3>1. synced' = synced \/ synced' # None
      BY <1>1
    <3>2. \A kinds : Some(toWeb, kinds) <=> Head(toWeb).kind \in kinds \/ Some(toWeb', kinds)
      BY <2>2, <3>1, ReceivedCalm
    <3>3. /\ Some(toWeb', {"view-load"}) <=> Some(toWeb, {"view-load"})
          /\ Some(toWeb', {"load"}) <=> Some(toWeb, {"load"})
      BY <2>2, <3>2
    <3> QED
      BY <2>2, <3>1, <3>3, ReceivedCalm
  <2> QED
    BY <1>3, <2>1, <2>2
<1>5. Opening'
  <2>1. ASSUME Loading' PROVE ~dSave' /\ ~Some(toHost', Specs)
    <3>1. ~dSave /\ ~Some(toHost, Specs)
      BY <1>4, <2>1 DEF CalmFacts, Opening
    <3> QED
      BY <1>1, <3>1
  <2>2. Loading' => (jobs' # <<>> => jobs'[1].kind = "view-save")
    BY <1>1, <1>4 DEF CalmFacts, Opening
  <2>3. synced' = None =>
          /\ doc'.view = View0 /\ jobs' = <<>> /\ ~Some(toHost', Requests)
          /\ Some(toHost', {"ready"}) \/ Some(toWeb', {"view-load"})
    BY <1>1, <1>4 DEF CalmFacts, Opening
  <2>4. /\ Some(toHost', {"ready"}) => synced' = None /\ ~Some(toWeb', {"view-load"})
        /\ Some(toWeb', {"view-load"}) => synced' = None
    BY <1>1, <1>4 DEF CalmFacts, Opening
  <2> QED
    BY <1>4, <2>1, <2>2, <2>3, <2>4 DEF Opening
<1>6. SpecKept'
  <2>1. Editing' <=> Editing
    BY <1>1 DEF Editing
  <2>2. CASE /\ dSave' = dSave
             /\ Some(toHost', Specs) <=> Some(toHost, Specs)
             /\ \A s : Newest(toHost, Specs, s) => Newest(toHost', Specs, s)
    BY <1>1, <2>1, <2>2 DEF CalmFacts, SpecKept
  <2>3. CASE ~dSave' /\ Some(toHost', Specs) /\ Newest(toHost', Specs, made)
    BY <1>1, <2>1, <2>3 DEF CalmFacts, SpecKept
  <2> QED
    BY <1>1, <2>2, <2>3
<1>7. CanvasKept'
  BY <1>1, <1>4 DEF CalmFacts, CanvasKept
<1>8. ViewKept'
  <2>1. Editing' <=> Editing
    BY <1>1 DEF Editing
  <2>2. CASE /\ synced' = synced
             /\ dView' = dView \/ vs = synced
             /\ toHost' = toHost \/ (toHost' # <<>> /\ \A v : LastView(toHost', v))
    BY <1>2, <2>1, <2>2 DEF CalmFacts, ViewKept
  <2>3. CASE synced' = vs /\ LastView(toHost', vs) /\ toHost' # <<>>
    BY <1>2, <2>1, <2>3 DEF ViewKept
  <2> QED
    BY <1>2, <2>2, <2>3
<1> QED
  BY <1>5, <1>6, <1>7, <1>8 DEF Kept

\* The canvas shows the file.
LEMMA KeptByLoad ==
  ASSUME CalmFacts, TypeOK', Load
  PROVE  Kept'
<1> USE DEF hostVars
<1> DEFINE h == Head(toWeb)
<1>1. /\ toWeb # <<>> /\ h.kind = "load" /\ toWeb' = Tail(toWeb)
      /\ rf' = h.text.spec /\ lastSpec' = h.text.spec
      /\ UNCHANGED <<hostVars, toHost, synced, dSave, made, ran, acts, calm>>
  BY DEF Load, Received
<1>2. dView' = (dView \/ (vs' # vs /\ synced # None))
  BY DEF Load
<1>3. toWeb \in Seq(WebMessage) /\ synced' = synced
  BY <1>1 DEF CalmFacts, TypeOK
<1>4. /\ Once(toWeb', {"view-load"}) /\ Newest(toWeb', {"load"}, made)
      /\ Some(toWeb', {"view-load"}) <=> Some(toWeb, {"view-load"})
      /\ Loading' => Loading
  BY <1>1, <1>3, ReceivedCalm
<1>5. ~Some(toWeb', {"load"}) => h.text.spec = made
  BY <1>1, <1>3, SomeTaken DEF CalmFacts, CanvasKept
<1> HIDE DEF h
<1>6. Opening'
  BY <1>1, <1>4 DEF CalmFacts, Opening
<1>7. SpecKept'
  BY <1>1 DEF CalmFacts, SpecKept, Editing
<1>8. CanvasKept'
  BY <1>1, <1>4, <1>5 DEF CanvasKept
<1>9. ViewKept'
  <2>1. synced # None => dView' \/ vs' = synced
    BY <1>2 DEF CalmFacts, ViewKept, TypeOK
  <2> QED
    BY <1>1, <2>1 DEF CalmFacts, ViewKept, Editing
<1> QED
  BY <1>6, <1>7, <1>8, <1>9 DEF Kept

\* The viewer state arrives, when nothing else is under way.
LEMMA KeptByViewLoad ==
  ASSUME CalmFacts, TypeOK', ViewLoad
  PROVE  Kept'
<1> USE DEF hostVars
<1> DEFINE h == Head(toWeb)
<1>1. /\ toWeb # <<>> /\ h.kind = "view-load" /\ toWeb' = Tail(toWeb)
      /\ vs' = View(h.view) /\ synced' = vs' /\ rf' = lastSpec
      /\ UNCHANGED <<hostVars, toHost, lastSpec, meta, dSave, dView, made, ran, acts, calm>>
  BY DEF ViewLoad, Received
<1>2. /\ toWeb \in Seq(WebMessage) /\ toHost \in Seq(HostMessage)
  BY DEF CalmFacts, TypeOK
<1>3. h.view = View0
  <2>1. 1 \in 1 .. Len(toWeb) /\ h = toWeb[1]
    BY <1>1, <1>2, Taken
  <2> QED
    BY <1>1, <2>1 DEF CalmFacts, ViewOK
<1>4. vs' = View(View0) /\ synced' = View(View0) /\ synced' # None
  BY <1>1, <1>3, Constants
<1>5. /\ \A kinds : Some(toWeb, kinds) <=> h.kind \in kinds \/ Some(toWeb', kinds)
      /\ Newest(toWeb', {"load"}, made) /\ Once(toWeb', {"view-load"})
      /\ Loading' => Loading
  BY <1>1, <1>4, ReceivedCalm
<1>6. Some(toWeb, {"view-load"}) /\ (Some(toWeb, {"load"}) <=> Some(toWeb', {"load"}))
  BY <1>1, <1>5
<1>7. ~Some(toWeb', {"view-load"})
  BY <1>1, <1>2, SomeTaken DEF CalmFacts, Opening
<1> HIDE DEF h
<1>8. /\ synced = None /\ ~Some(toHost, {"ready"}) /\ jobs = <<>> /\ ~Some(toHost, Requests)
      /\ doc.view = View0
  BY <1>6 DEF CalmFacts, Opening
<1>9. toHost = <<>>
  <2>1. \A m \in HostMessage : m.kind \in {"ready"} \/ m.kind \in Requests
    BY DEF HostMessage, Requests
  <2>2. \A k \in 1 .. Len(toHost) : toHost[k] \in HostMessage
    BY <1>2
  <2>3. ~\E k \in 1 .. Len(toHost) : TRUE
    BY <1>8, <2>1, <2>2 DEF Some
  <2> QED
    BY <1>2, <2>3, SomeMeans
<1>10. Opening'
  BY <1>1, <1>4, <1>5, <1>7, <1>8 DEF CalmFacts, Opening
<1>11. SpecKept'
  BY <1>1 DEF CalmFacts, SpecKept, Editing
<1>12. CanvasKept'
  BY <1>1, <1>4, <1>5, <1>6, <1>8 DEF CalmFacts, CanvasKept
<1>13. ViewKept'
  <2>1. doc.view \in {None, View(View0)}
    BY <1>8 DEF View
  <2>2. ~Editing' /\ LastView(toHost', synced')
    BY <1>1, <1>8, <1>9 DEF Editing, LastView
  <2> QED
    BY <1>1, <1>4, <2>1, <2>2 DEF ViewKept
<1> QED
  BY <1>10, <1>11, <1>12, <1>13 DEF Kept

\* An edit of a canvas that has every change.
LEMMA KeptByEdit ==
  ASSUME CalmFacts, NEW e \in Edit, EditSpec(e), calm'
  PROVE  Kept'
<1> USE DEF hostVars
<1>1. /\ rf' = rf \cup {e} /\ made' = made \cup {e} /\ dSave' /\ ~Loading
      /\ UNCHANGED <<hostVars, toHost, toWeb, lastSpec, meta, vs, synced, dView, ran>>
  BY DEF EditSpec, Calmly
<1>2. /\ synced # None /\ rf = made /\ ~Some(toWeb, {"load"})
  BY <1>1, CanvasCurrent
<1>3. ~Loading'
  BY <1>1 DEF Loading
<1>4. Opening'
  BY <1>1, <1>2, <1>3 DEF CalmFacts, Opening
<1>5. SpecKept'
  <2>1. Editing' <=> Editing
    BY <1>1 DEF Editing
  <2>2. Base \in made'
    BY <1>1 DEF CalmFacts, SpecKept
  <2> QED
    BY <1>1, <2>1, <2>2 DEF CalmFacts, SpecKept
<1>6. CanvasKept'
  <2>1. Newest(toWeb', {"load"}, made')
    BY <1>1, <1>2, SomeMeans DEF CalmFacts, TypeOK
  <2> QED
    BY <1>1, <1>2, <2>1 DEF CanvasKept
<1>7. ViewKept'
  BY <1>1 DEF CalmFacts, ViewKept, Editing
<1> QED
  BY <1>4, <1>5, <1>6, <1>7 DEF Kept

\* A node is dragged.
LEMMA KeptByDrag ==
  ASSUME CalmFacts, NEW p \in Drag, DragNode(p), calm'
  PROVE  Kept'
<1> USE DEF hostVars
<1>1. /\ dSave' /\ ~Loading /\ dView' = (dView \/ synced # None)
      /\ UNCHANGED <<hostVars, toHost, toWeb, rf, lastSpec, meta, synced, made, ran>>
  BY DEF DragNode, Calmly
<1>2. synced # None
  BY <1>1, CanvasCurrent
<1>3. ~Loading' /\ dView'
  BY <1>1, <1>2 DEF Loading
<1>4. Opening'
  BY <1>1, <1>2, <1>3 DEF CalmFacts, Opening
<1>5. SpecKept' /\ CanvasKept'
  BY <1>1 DEF CalmFacts, SpecKept, CanvasKept, Editing
<1>6. ViewKept'
  BY <1>1, <1>3 DEF CalmFacts, ViewKept, Editing
<1> QED
  BY <1>4, <1>5, <1>6 DEF Kept

\* The run button is clicked on a canvas that has every change.
LEMMA KeptByClick ==
  ASSUME CalmFacts, ClickRun, calm'
  PROVE  Kept'
<1> USE DEF hostVars, webVars
<1>1. PICK t, m : t = Text(View(rf), None, FALSE, {}) /\ m = [kind |-> "run", text |-> t]
  OBVIOUS
<1>2. /\ toHost' = Append(toHost, m) /\ ~Loading /\ UNCHANGED <<hostVars, toWeb, webVars, made, ran>>
  BY <1>1 DEF ClickRun, Calmly
<1>3. /\ synced # None /\ View(rf) = made /\ ~Some(toHost, {"ready"})
  BY <1>2, CanvasCurrent
<1>4. m \in HostMessage /\ m.kind = "run" /\ m.text.spec = made
  <2>1. t \in Texts /\ t.spec = made
    BY <1>1, <1>3, Constants DEF Text, Texts, CalmFacts, TypeOK
  <2> QED
    BY <1>1, <2>1, HostMessages
<1>5. toHost \in Seq(HostMessage)
  BY DEF CalmFacts, TypeOK
<1>6. m.kind \notin {"ready"} /\ m.kind \in Specs
  BY <1>4 DEF Specs
<1>7. /\ ~Some(toHost', {"ready"})
      /\ Some(toHost', Specs) /\ Newest(toHost', Specs, made)
  BY <1>2, <1>3, <1>4, <1>5, <1>6, SomePut
<1>8. toHost' # <<>> /\ LastView(toHost', synced)
  <2>1. (m.kind = "view-save" => m.view = synced) => LastView(Append(toHost, m), synced)
    BY <1>4, <1>5, LastPutTaken
  <2>2. Append(toHost, m) # <<>>
    BY <1>4, <1>5, LastPutTaken
  <2> QED
    BY <1>2, <1>4, <2>1, <2>2
<1>9. ~Loading'
  BY <1>2 DEF Loading
<1>10. Opening'
  BY <1>2, <1>3, <1>7, <1>9 DEF CalmFacts, Opening
<1>11. SpecKept'
  BY <1>2, <1>7 DEF CalmFacts, SpecKept, Editing
<1>12. CanvasKept'
  BY <1>2, <1>3, <1>7 DEF CalmFacts, CanvasKept
<1>13. ViewKept'
  BY <1>2, <1>8 DEF CalmFacts, ViewKept
<1> QED
  BY <1>10, <1>11, <1>12, <1>13 DEF Kept

\* Kept is inductive as long as nothing crosses.
LEMMA KeptStep ==
  ASSUME CalmFacts, TypeOK', [Next]_vars, calm'
  PROVE  Kept'
<1>1. ASSUME NEW k \in DOMAIN jobs, Fail(k) PROVE Kept'
  BY <1>1 DEF Fail, Calmly
<1>2. CASE UNCHANGED vars
  BY <1>2 DEF vars, hostVars, webVars, CalmFacts, Kept, Opening, SpecKept, CanvasKept, ViewKept,
              Editing, Loading
<1> QED
  BY <1>1, <1>2, KeptByReady, KeptByStart, KeptByApplied, KeptByFinish, KeptByOutside,
     KeptByHide, KeptByPosted, KeptByLoad, KeptByViewLoad, KeptByEdit, KeptByDrag, KeptByClick
     DEF Next, HostReceives, WebReceives, JobStep

-----------------------------------------------------------------------------
(* The theorems.                                                             *)

\* The inductive invariant.
DocSyncOK == TypeOK /\ ViewOK /\ HandlersOK /\ (calm => OneJob /\ Kept)

\* It holds when the panel opens.
LEMMA InitOK == Init => DocSyncOK
<1> SUFFICES ASSUME Init PROVE DocSyncOK
  OBVIOUS
<1>1. PICK m : m = [kind |-> "ready"]
  OBVIOUS
<1>2. /\ m \in HostMessage /\ m.kind = "ready" /\ m.kind \notin Specs /\ m.kind \notin Requests
  BY <1>1 DEF HostMessage, Specs, Requests
<1>3. /\ toHost = Append(<<>>, m) /\ toHost = <<m>> /\ <<>> \in Seq(HostMessage)
      /\ toHost \in Seq(HostMessage) /\ Len(toHost) = 1 /\ toHost[1] = m
      /\ \A k \in 1 .. Len(toHost) : k = 1
  BY <1>1, <1>2 DEF Init
<1>4. PICK t : t = Text({Base}, View0, TRUE, Legacy0)
  OBVIOUS
<1>5. t \in Texts /\ t.spec = {Base} /\ t.view = View0
  BY <1>4, Constants DEF Text, Texts
<1>6. /\ doc = t /\ disk = t /\ ~announced /\ announced \in BOOLEAN /\ jobs = <<>> /\ toWeb = <<>>
      /\ rf = None /\ lastSpec = None /\ meta \in BOOLEAN
      /\ vs = {} /\ synced = None /\ ~dSave /\ dSave \in BOOLEAN /\ ~dView /\ dView \in BOOLEAN
      /\ made = {Base} /\ ran = {} /\ acts = 0 /\ calm \in BOOLEAN
  BY <1>4 DEF Init
<1>7. TypeOK
  <2>1. jobs \in Seq(Handler) /\ toWeb \in Seq(WebMessage)
    BY <1>6
  <2>2. vs \in Views /\ made \subseteq Changes /\ acts \in 0 .. MaxActs
    BY <1>6, Constants
  <2> QED
    BY <1>3, <1>5, <1>6, <2>1, <2>2 DEF TypeOK
<1>8. ViewOK
  <2>1. KeepsView(doc.view) /\ KeepsView(disk.view)
    BY <1>5, <1>6 DEF KeepsView, View
  <2>2. Len(jobs) = 0 /\ Len(toWeb) = 0
    BY <1>6
  <2> QED
    BY <1>2, <1>3, <1>5, <1>6, <2>1, <2>2 DEF ViewOK
<1>9. OneJob /\ HandlersOK
  BY <1>6 DEF OneJob, HandlersOK, Alone, Edited, SavedBeforeRun
<1>10. /\ Some(toHost, {"ready"}) /\ ~Some(toHost, Specs) /\ ~Some(toHost, Requests)
       /\ \A s : Newest(toHost, Specs, s)
  BY <1>2, <1>3 DEF Some, Newest
<1>11. /\ \A kinds : ~Some(toWeb, kinds) /\ Once(toWeb, kinds)
       /\ \A kinds, s : Newest(toWeb, kinds, s)
  BY <1>6 DEF Some, Once, Newest
<1>12. Opening
  BY <1>5, <1>6, <1>10, <1>11 DEF Opening
<1>13. SpecKept /\ CanvasKept /\ ViewKept
  BY <1>5, <1>6, <1>10, <1>11 DEF SpecKept, CanvasKept, ViewKept, Editing
<1> QED
  BY <1>7, <1>8, <1>9, <1>12, <1>13 DEF DocSyncOK, Kept

\* Every step keeps it.
LEMMA StepOK == DocSyncOK /\ [Next]_vars => DocSyncOK'
<1> SUFFICES ASSUME DocSyncOK, [Next]_vars PROVE DocSyncOK'
  OBVIOUS
<1>1. TypeOK' /\ ViewOK' /\ HandlersOK'
  BY TypeStep, ViewStep, HandlersStep DEF DocSyncOK
<1>2. ASSUME calm' PROVE OneJob' /\ Kept'
  <2>1. calm
    BY <1>2, CalmStays DEF DocSyncOK
  <2>2. CalmFacts /\ OneJob
    BY <2>1 DEF DocSyncOK, CalmFacts, Kept
  <2> QED
    BY <1>1, <1>2, <2>2, OneJobStep, KeptStep DEF CalmFacts
<1> QED
  BY <1>1, <1>2 DEF DocSyncOK

\* DocSyncOK is an invariant.
LEMMA Inductive == Spec => []DocSyncOK
  BY InitOK, StepOK, PTL DEF Spec

\* Every variable keeps its type, and no view save is scheduled before the view
\* has been loaded (save.ts:49-59, scheduleViewSave).
THEOREM Types == Spec => []TypeOK
<1>1. DocSyncOK => TypeOK
  BY DEF DocSyncOK
<1> QED
  BY <1>1, Inductive, PTL

\* Whatever crosses or fails, the viewer state that the file had is never
\* overwritten by one from before it was loaded (save.ts:50-53).
THEOREM ViewNeverClobbered == Spec => []ViewNotClobbered
<1>1. DocSyncOK => ViewNotClobbered
  BY DEF DocSyncOK, ViewOK, KeepsView, ViewNotClobbered
<1> QED
  BY <1>1, Inductive, PTL

\* The edit of a handler that found no other under way when it started, applied
\* to a document that nobody has changed since, is not sent back to the webview,
\* whatever handlers start, fail or end meanwhile (extension.ts:36-39, 50).
THEOREM NoEchoToTheFirst == Spec => NoEcho
<1>1. DocSyncOK /\ [Next]_vars =>
        [\A k \in DOMAIN jobs :
           ~jobs[k].joined /\ ~jobs[k].stale /\ EditApplied(k) => UNCHANGED toWeb]_vars
  <2> SUFFICES ASSUME DocSyncOK, NEW k \in DOMAIN jobs,
                      ~jobs[k].joined, ~jobs[k].stale, EditApplied(k)
               PROVE  UNCHANGED toWeb
    OBVIOUS
  <2>1. TypeOK /\ k \in 1 .. Len(jobs) /\ jobs[k].text \in Texts
    BY UnderWay DEF DocSyncOK
  <2>2. jobs[k].stage = "edit" /\ EditMade(k)
    BY <2>1, AppliedMeans DEF EditRefused
  <2>3. announced
    BY <2>1, <2>2 DEF DocSyncOK, HandlersOK, Alone, Fresh
  <2> QED
    BY <2>1, <2>2, <2>3, ChangeMeans DEF EditMade
<1> QED
  BY <1>1, Inductive, PTL DEF Spec, NoEcho

\* Whatever overlaps or fails, a run is started when the edited file has the spec
\* that was on the canvas at the click, unless somebody else has changed the
\* document (handle-message.ts:59-72).
THEOREM SavedBeforeEveryRun == Spec => []SavedBeforeRun
<1>1. DocSyncOK => SavedBeforeRun
  BY DEF DocSyncOK, HandlersOK
<1> QED
  BY <1>1, Inductive, PTL

\* As long as nothing crosses, no change of the spec is lost, the user's or
\* another editor's (save.ts:33-47, handle-load.ts, extension.ts:30-46).
THEOREM NoEditIsLost == Spec => []NoLostEdit
<1>1. ASSUME DocSyncOK, calm, Quiet PROVE made \subseteq disk.spec
  <2>1. ~Some(toHost, Specs) /\ ~Editing /\ disk = doc
    BY <1>1 DEF DocSyncOK, OneJob, Quiet, Editing, Some
  <2> QED
    BY <1>1, <2>1 DEF DocSyncOK, Kept, SpecKept, Quiet
<1>2. DocSyncOK => NoLostEdit
  BY <1>1 DEF NoLostEdit
<1> QED
  BY <1>2, Inductive, PTL

\* Then the canvas, the document and the file agree, and so do the viewer states.
THEOREM AlwaysSettled == Spec => []Settled
<1>1. ASSUME DocSyncOK, calm, Quiet
      PROVE  rf = doc.spec /\ disk = doc /\ (dView \/ doc.view \in {None, vs})
  <2>1. /\ ~Some(toHost, Specs) /\ ~Some(toHost, {"ready"}) /\ ~Editing /\ disk = doc
        /\ ~Some(toWeb, {"load"}) /\ ~Some(toWeb, {"view-load"})
    BY <1>1 DEF DocSyncOK, OneJob, Quiet, Editing, Some
  <2>2. doc.spec = made /\ rf = made
    BY <1>1, <2>1 DEF DocSyncOK, Kept, SpecKept, CanvasKept, Quiet
  <2>3. synced # None
    BY <1>1, <2>1 DEF DocSyncOK, Kept, Opening
  <2>4. dView \/ doc.view \in {None, vs}
    BY <1>1, <2>1, <2>3 DEF DocSyncOK, Kept, ViewKept, Quiet
  <2> QED
    BY <2>1, <2>2, <2>4
<1>2. DocSyncOK => Settled
  BY <1>1 DEF Settled
<1> QED
  BY <1>2, Inductive, PTL
=============================================================================
