------------------------------ MODULE DocSync ------------------------------
(***************************************************************************)
(* One topology.json open in the editor: the webview with its debounced    *)
(* saves, the extension host with its asynchronous message handlers, VS    *)
(* Code's document and the file.  The two sides exchange messages in       *)
(* order; a handler is not awaited before the next message is handled, so  *)
(* its steps interleave with those of later handlers, with other editors   *)
(* of the file, and with the user.                                         *)
(*                                                                         *)
(* A text is abstracted to the changes it contains: those of the spec,     *)
(* those of the viewer state under `view` (None: no such key), whether it  *)
(* has the top-level meta fields (timing, legend, ...), and the positions  *)
(* that an old file keeps on its nodes.  A file that fails to parse is     *)
(* left out.                                                               *)
(***************************************************************************)
EXTENDS Integers, Sequences
LOCAL INSTANCE SequencesExt   \* RemoveAt

CONSTANTS
  Edit,      \* changes of the spec the user can make
  Outside,   \* changes of the spec that other editors can make
  Drag,      \* changes of the viewer state: a node dragged
  Base,      \* the spec the file starts with, as a change
  View0,     \* the viewer state it starts with, or None
  Legacy0,   \* positions on the nodes of an old file, as viewer state
  MaxActs,   \* bound on what the user and other editors do: edit, drag, run
  MaxQueue,  \* bound on messages on their way in one direction, before another
             \* one may join them
  MaxJobs,   \* bound on handlers that await something
  None

\* A viewer state or a spec that may be missing; a missing one is empty.
View(v) == IF v = None THEN {} ELSE v

Changes == Edit \cup Outside \cup {Base}
Views   == SUBSET (Drag \cup Legacy0 \cup View(View0))

\* None is neither a spec nor a viewer state.
ASSUME DocSyncAssumption ==
  /\ MaxActs \in Nat /\ {MaxQueue, MaxJobs} \subseteq Nat \ {0}
  /\ \A s \in (SUBSET Changes) \cup Views : s # None

VARIABLES
  doc,            \* the text of VS Code's document
  disk,           \* the file
  announced,      \* lastAppliedVersion is one ahead of the document's version
  jobs,           \* message handlers that await something, oldest first
  toHost, toWeb,  \* messages on their way
  rf,             \* the spec the canvas shows, or None before the first load
  lastSpec, meta, \* lastSpec.current, and whether _specMeta has meta fields
  vs,             \* viewerState
  synced,         \* lastViewSyncedText, or None
  dSave, dView,   \* a debounced save, view save is pending
  made,           \* every change anybody made to the spec
  ran,            \* what each run was asked to start with, what the file had
                  \* then, and whether others had changed the document
  acts,           \* how many acts there were
  calm            \* nothing has crossed or failed so far, see below

hostVars == <<doc, disk, announced, jobs>>
webVars  == <<rf, lastSpec, meta, vs, synced, dSave, dView>>
vars     == <<hostVars, toHost, toWeb, webVars, made, ran, acts, calm>>

\* A topology.json, as flowToSpec writes it.
Text(spec, view, hasMeta, legacy) ==
  [spec |-> spec, view |-> view, meta |-> hasMeta, legacy |-> legacy]

\* A mistake: the view counts as synced before it has been loaded.
InitSynced ==
  /\ doc = Text({Base}, View0, TRUE, Legacy0) /\ disk = doc
  /\ announced = FALSE /\ jobs = <<>>
  /\ toHost = << [kind |-> "ready"] >> /\ toWeb = <<>>
  /\ rf = None /\ lastSpec = None /\ meta = FALSE
  /\ vs = {} /\ synced = {} /\ dSave = FALSE /\ dView = FALSE
  /\ made = {Base} /\ ran = {} /\ acts = 0 /\ calm = TRUE

Init ==
  /\ doc = Text({Base}, View0, TRUE, Legacy0) /\ disk = doc
  /\ announced = FALSE /\ jobs = <<>>
  /\ toHost = << [kind |-> "ready"] >> /\ toWeb = <<>>
  /\ rf = None /\ lastSpec = None /\ meta = FALSE
  /\ vs = {} /\ synced = None /\ dSave = FALSE /\ dView = FALSE
  /\ made = {Base} /\ ran = {} /\ acts = 0 /\ calm = TRUE

-----------------------------------------------------------------------------
(* When nothing crosses: `calm` stays TRUE as long as no handler starts     *)
(* while another one is under way, nobody edits a canvas that is about to   *)
(* be replaced, no other editor writes while a save is on its way, and no   *)
(* edit of the document fails.                                              *)

Busy == jobs # <<>> \/ \E k \in DOMAIN toHost : toHost[k].kind # "ready"
Loading == synced = None \/ \E k \in DOMAIN toWeb : toWeb[k].kind # "flush"
Calmly(cond) == calm' = (calm /\ cond)

Room(queue) == Len(queue) < MaxQueue

Act == acts < MaxActs /\ acts' = acts + 1

-----------------------------------------------------------------------------
(* The extension host. *)

\* A mistake: the webview is never told.
ChangeUntold(text) ==
  /\ doc' = text
  /\ announced' = FALSE
  /\ UNCHANGED toWeb

\* The document gets its next version, and onDidChangeTextDocument fires: the
\* new text goes to the webview unless that version was announced as our own.
Change(text) ==
  /\ doc' = text
  /\ announced' = FALSE
  /\ toWeb' = IF announced THEN toWeb
              ELSE Append(toWeb, [kind |-> "load", text |-> text])

Ready ==
  /\ toHost # <<>> /\ Head(toHost).kind = "ready"
  /\ toHost' = Tail(toHost)
  /\ toWeb' = toWeb \o << [kind |-> "load", text |-> doc],
                          [kind |-> "view-load", view |-> doc.view] >>
  /\ UNCHANGED <<hostVars, webVars, made, ran, acts, calm>>

\* What the document is to become: a view save is injected into the text the
\* document has now.
Wanted(msg) == IF msg.kind = "view-save" THEN [doc EXCEPT !.view = msg.view]
               ELSE msg.text

\* The document has changed under the handlers under way.
Stale(js) == [k \in DOMAIN js |-> [js[k] EXCEPT !.stale = TRUE]]

\* A mistake: the version our own edit will have is not announced.
StartEditUnannounced ==
  /\ toHost # <<>> /\ Head(toHost).kind # "ready" /\ Len(jobs) < MaxJobs
  /\ announced' = FALSE
  /\ jobs' = Append(jobs, [kind |-> Head(toHost).kind, text |-> Wanted(Head(toHost)),
                           joined |-> jobs # <<>>, stale |-> FALSE, stage |-> "edit"])
  /\ toHost' = Tail(toHost)
  /\ Calmly(jobs = <<>>)
  /\ UNCHANGED <<doc, disk, toWeb, webVars, made, ran, acts>>

\* save, view-save and run, up to the first await.  `joined` notes for the
\* properties that the handler is not the only one under way.
StartEdit ==
  /\ toHost # <<>> /\ Head(toHost).kind # "ready" /\ Len(jobs) < MaxJobs
  /\ announced' = TRUE
  /\ jobs' = Append(jobs, [kind |-> Head(toHost).kind, text |-> Wanted(Head(toHost)),
                           joined |-> jobs # <<>>, stale |-> FALSE, stage |-> "edit"])
  /\ toHost' = Tail(toHost)
  /\ Calmly(jobs = <<>>)
  /\ UNCHANGED <<doc, disk, toWeb, webVars, made, ran, acts>>

\* workspace.applyEdit replaces the whole text, or may refuse when the document
\* has changed since; nobody looks at the answer.  From then on `stale` says that
\* the document is not what the handler wanted it to be.
EditApplied(k) ==
  /\ jobs[k].stage = "edit"
  /\ \/ /\ Change(jobs[k].text)
        /\ jobs' = [Stale(jobs) EXCEPT ![k].stage = "save", ![k].stale = FALSE]
     \/ /\ jobs[k].stale
        /\ jobs' = [jobs EXCEPT ![k].stage = "save"]
        /\ UNCHANGED <<doc, announced, toWeb>>
  /\ UNCHANGED <<disk, toHost, webVars, made, ran, acts, calm>>

\* A run that handler job starts while the edited file is `file`.
Started(job, file) ==
  [asked |-> job.text.spec, file |-> file.spec, stale |-> job.stale]

\* A mistake: a run does not wait for the document to be saved.
FinishRunsEarly(k) ==
  /\ jobs[k].stage = "save"
  /\ disk' = doc
  /\ announced' = FALSE
  /\ ran' = IF jobs[k].kind = "run" THEN ran \cup {Started(jobs[k], disk)} ELSE ran
  /\ jobs' = RemoveAt(jobs, k)
  /\ UNCHANGED <<doc, toHost, toWeb, webVars, made, acts, calm>>

\* document.save(), and the handler ends: the document's version is noted, and
\* a run starts `go run .`.  What that reads, once it is compiled, is not this
\* file but topologies/line.json (runCommand.ts:59, main.go:66).
Finish(k) ==
  /\ jobs[k].stage = "save"
  /\ disk' = doc
  /\ announced' = FALSE
  /\ ran' = IF jobs[k].kind = "run" THEN ran \cup {Started(jobs[k], disk')} ELSE ran
  /\ jobs' = RemoveAt(jobs, k)
  /\ UNCHANGED <<doc, toHost, toWeb, webVars, made, acts, calm>>

\* applyEdit or save throws: save-error is posted, which the webview does not
\* handle, and what was announced stays announced.
Fail(k) ==
  /\ jobs' = RemoveAt(jobs, k)
  /\ Calmly(FALSE)
  /\ UNCHANGED <<doc, disk, announced, toHost, toWeb, webVars, made, ran, acts>>

JobStep == \E k \in DOMAIN jobs : EditApplied(k) \/ Finish(k)

\* Another editor of the document, or of the file, makes a change and saves it.
OutsideEdit(x) ==
  /\ Act /\ x \notin made /\ Room(toWeb)
  /\ made' = made \cup {x}
  /\ Change([doc EXCEPT !.spec = @ \cup {x}])
  /\ disk' = doc'
  /\ jobs' = Stale(jobs)
  /\ Calmly(~dSave /\ ~Busy)
  /\ UNCHANGED <<toHost, webVars, ran>>

\* The panel is hidden: the host asks for the pending saves (at most one such
\* message at a time, and none when there is nothing to flush).
Hide ==
  /\ dSave \/ dView
  /\ Room(toWeb)
  /\ ~\E k \in DOMAIN toWeb : toWeb[k].kind = "flush"
  /\ toWeb' = Append(toWeb, [kind |-> "flush"])
  /\ UNCHANGED <<hostVars, toHost, webVars, made, ran, acts, calm>>

-----------------------------------------------------------------------------
(* The webview. *)

\* A mistake: the spec of the last load is saved, not the one on the canvas.
SavesOfLastLoad ==
  IF dSave /\ View(rf) # {}
  THEN << [kind |-> "save", text |-> Text(lastSpec, None, meta, {})] >>
  ELSE <<>>

\* performSave: the spec derived from the canvas, without viewer state; an
\* empty canvas is not saved.
Saves == IF dSave /\ View(rf) # {}
         THEN << [kind |-> "save", text |-> Text(rf, None, meta, {})] >>
         ELSE <<>>

\* performViewSave: not before view-load, and only what is new.
ViewSaves == IF dView /\ synced # None /\ vs # synced
             THEN << [kind |-> "view-save", view |-> vs] >>
             ELSE <<>>

Synced == IF ViewSaves # <<>> THEN vs ELSE synced

TimerSave ==
  /\ dSave /\ Room(toHost)
  /\ toHost' = toHost \o Saves
  /\ dSave' = FALSE
  /\ UNCHANGED <<hostVars, toWeb, rf, lastSpec, meta, vs, synced, dView, made, ran, acts,
                 calm>>

TimerView ==
  /\ dView /\ Room(toHost)
  /\ toHost' = toHost \o ViewSaves
  /\ synced' = Synced
  /\ dView' = FALSE
  /\ UNCHANGED <<hostVars, toWeb, rf, lastSpec, meta, vs, dSave, made, ran, acts, calm>>

\* A mistake: the pending spec save is cancelled, not flushed.
FlushBothCancels ==
  /\ toHost' = toHost \o ViewSaves
  /\ synced' = Synced
  /\ dSave' = FALSE /\ dView' = FALSE
  /\ UNCHANGED <<hostVars, rf, lastSpec, meta, vs, made, ran, acts, calm>>

\* What is pending is posted now, the spec first.
FlushBoth ==
  /\ toHost' = toHost \o Saves \o ViewSaves
  /\ synced' = Synced
  /\ dSave' = FALSE /\ dView' = FALSE
  /\ UNCHANGED <<hostVars, rf, lastSpec, meta, vs, made, ran, acts, calm>>

\* visibilitychange, pagehide
PageHidden == (dSave \/ dView) /\ Room(toHost) /\ FlushBoth /\ UNCHANGED toWeb

Received(kind) == toWeb # <<>> /\ Head(toWeb).kind = kind /\ toWeb' = Tail(toWeb)

Flush == Received("flush") /\ FlushBoth

\* The viewer state with the positions that an old file has on its nodes.
Migrated(text) == vs \cup text.legacy

\* handleLoad: old positions are moved to the viewer state, then the canvas
\* shows the spec of the message.
Load ==
  /\ Received("load")
  /\ LET text == Head(toWeb).text
     IN  /\ vs' = Migrated(text)
         /\ dView' = (dView \/ (vs' # vs /\ synced # None))
         /\ meta' = text.meta
         /\ lastSpec' = text.spec
         /\ rf' = text.spec
  /\ UNCHANGED <<hostVars, toHost, synced, dSave, made, ran, acts, calm>>

\* handleViewLoad: the viewer state is replaced and the canvas drawn anew from
\* the spec of the last load.
ViewLoad ==
  /\ Received("view-load")
  /\ vs' = View(Head(toWeb).view)
  /\ synced' = vs'
  /\ rf' = lastSpec
  /\ UNCHANGED <<hostVars, toHost, lastSpec, meta, dSave, dView, made, ran, acts, calm>>

\* A change on the canvas: connect, reconnect, drop, rename, delete, ...
EditSpec(e) ==
  /\ Act /\ rf # None /\ e \notin made
  /\ made' = made \cup {e}
  /\ rf' = rf \cup {e}
  /\ dSave' = TRUE
  /\ Calmly(~Loading)
  /\ UNCHANGED <<hostVars, toHost, toWeb, lastSpec, meta, vs, synced, dView, ran>>

\* A mistake: a view save is scheduled before the view has been loaded.
DragNodeEager(p) ==
  /\ Act /\ rf # None /\ p \notin vs
  /\ vs' = vs \cup {p}
  /\ dView' = TRUE
  /\ dSave' = TRUE
  /\ Calmly(~Loading)
  /\ UNCHANGED <<hostVars, toHost, toWeb, rf, lastSpec, meta, synced, made, ran>>

\* A node is dragged: the viewer state changes and both saves are scheduled.
DragNode(p) ==
  /\ Act /\ rf # None /\ p \notin vs
  /\ vs' = vs \cup {p}
  /\ dView' = (dView \/ synced # None)
  /\ dSave' = TRUE
  /\ Calmly(~Loading)
  /\ UNCHANGED <<hostVars, toHost, toWeb, rf, lastSpec, meta, synced, made, ran>>

\* The run button posts the spec on the canvas, without meta fields, also when
\* the canvas is still empty.
ClickRun ==
  /\ Act /\ Room(toHost)
  /\ toHost' = Append(toHost, [kind |-> "run", text |-> Text(View(rf), None, FALSE, {})])
  /\ Calmly(rf # None /\ ~Loading)
  /\ UNCHANGED <<hostVars, toWeb, webVars, made, ran>>

HostReceives == Ready \/ StartEdit
WebReceives  == Flush \/ Load \/ ViewLoad

Next ==
  \/ HostReceives \/ WebReceives
  \/ JobStep \/ \E k \in DOMAIN jobs : Fail(k)
  \/ \E x \in Outside : OutsideEdit(x)
  \/ Hide \/ TimerSave \/ TimerView \/ PageHidden
  \/ \E e \in Edit : EditSpec(e)
  \/ \E p \in Drag : DragNode(p)
  \/ ClickRun

Spec == Init /\ [][Next]_vars

\* Messages arrive, promises settle, and debounce timers run out.
FairSpec == /\ Spec
            /\ WF_vars(HostReceives) /\ WF_vars(WebReceives) /\ WF_vars(JobStep)
            /\ WF_vars(TimerSave) /\ WF_vars(TimerView)

-----------------------------------------------------------------------------
(* Properties. *)

Texts   == [spec : SUBSET Changes, view : Views \cup {None}, meta : BOOLEAN,
            legacy : SUBSET Legacy0]

HostMessage == [kind : {"ready"}] \cup [kind : {"save", "run"}, text : Texts]
               \cup [kind : {"view-save"}, view : Views]
WebMessage  == [kind : {"flush"}] \cup [kind : {"load"}, text : Texts]
               \cup [kind : {"view-load"}, view : Views \cup {None}]
Handler     == [kind : {"save", "view-save", "run"}, text : Texts, joined : BOOLEAN,
                stale : BOOLEAN, stage : {"edit", "save"}]
Run         == [asked : SUBSET Changes, file : SUBSET Changes, stale : BOOLEAN]

\* Every variable has its type, and no view save is scheduled before the view
\* has been loaded (save.ts:49-59, scheduleViewSave).
TypeOK ==
  /\ doc \in Texts /\ disk \in Texts /\ announced \in BOOLEAN
  /\ jobs \in Seq(Handler) /\ toHost \in Seq(HostMessage) /\ toWeb \in Seq(WebMessage)
  /\ rf \in (SUBSET Changes) \cup {None} /\ lastSpec \in (SUBSET Changes) \cup {None}
  /\ meta \in BOOLEAN /\ vs \in Views /\ synced \in Views \cup {None}
  /\ dSave \in BOOLEAN /\ dView \in BOOLEAN /\ (synced = None => ~dView)
  /\ made \subseteq Changes /\ ran \subseteq Run
  /\ acts \in 0 .. MaxActs /\ calm \in BOOLEAN

\* Nothing is on its way between the canvas and the file.
Quiet == toHost = <<>> /\ toWeb = <<>> /\ jobs = <<>> /\ ~dSave

\* No change of the spec is lost, the user's or another editor's, as long as
\* nothing has crossed: saves replace the whole text and loads the whole
\* canvas, so each must have seen the other's changes.
NoLostEdit == calm /\ Quiet => made \subseteq disk.spec

\* Then the three copies agree as well: the canvas, the document, the file.
\* (The file's viewer state is the webview's, or a spec save has dropped it.)
Settled == calm /\ Quiet =>
             /\ rf = doc.spec /\ disk = doc
             /\ dView \/ doc.view \in {None, vs}

\* The edit of a handler that found no other under way when it started, applied
\* to a document that nobody has changed since, is not sent back to the webview
\* (extension.ts:36-39, 50), whatever handlers start, fail or end meanwhile: those
\* that come later share the one announced version, and the first of them to end
\* takes it back.  Of two handlers that overlap the second does get its own text
\* back, which the comment at extension.ts:36 does not say.
NoEcho == [][\A k \in DOMAIN jobs :
               ~jobs[k].joined /\ ~jobs[k].stale /\ EditApplied(k) => UNCHANGED toWeb]_vars

\* handle-message.ts:59-72: whatever overlaps or fails, when the host starts a
\* run the edited file has the spec that was on the canvas at the click, unless
\* somebody else has changed the document since the handler's edit, or before
\* it so that the edit was refused.
SavedBeforeRun == \A r \in ran : r.stale \/ r.file = r.asked

\* save.ts:50-53: whatever crosses or fails, the viewer state that the file
\* had is never overwritten by one from before it was loaded.
ViewNotClobbered == disk.view # None => View(View0) \subseteq disk.view

\* A change of the user's gets to the file without further doing.
SavedInTheEnd == \A e \in Edit : (e \in made) ~> (e \in disk.spec \/ ~calm)

\* sidecar.ts:3: viewer state lives at topology.json#view: once the dust has
\* settled, a file that had one still has it.
ViewSurvives == calm /\ Quiet /\ ~dView /\ View0 # None => disk.view # None
=============================================================================
