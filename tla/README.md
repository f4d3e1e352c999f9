# Formal models of wirefold

The repository holds a dataflow runtime in Go (nodes are goroutines, edges are
one-place channels) and a VS Code editor for the topologies it runs
(TypeScript: an extension host and a React Flow webview). This directory models
both in TLA+, checks the models with TLC on small instances, and proves the
safety properties of all of it (the runtime, the loader, the recorder, the editor's
document, canvas, trace pump and schema, and the run command) with TLAPS for every
instance.

## 1. Inventory

| Component | Source | State | Operations | Talks to | Model |
|---|---|---|---|---|---|
| Node kinds, SafeWorker | `nodes/*/` | per goroutine: position in the loop, value/has-value slots, `HeldValue`, index into `Init` | `Update` loops: poll, fire, offer | channels, trace recorder, context | `Runtime` |
| RunTest | `main.go` | phase of the run | start, sleep, cancel, wait, close | nodes (context, WaitGroup), recorder | `Runtime` |
| Trace recorder | `Trace/Trace.go` | bounded channel, event list, live stream, closed flag | Recv, Fire, Send, Emit, drain, Close | nodes, standard output | `Recorder`; in `Runtime` the channel as a count |
| Trace resolver | `Trace/Resolve.go` | (node, port) to edge map | build, resolve | trace files | `Pump` |
| Loader, builders, registry | `nodes/Wiring/` | channels per label, in- and outbound maps, priming values | the phases of LoadTopology, reflectBuild | topology file, nodes | `Wiring` |
| Shipped topology | `topologies/line.json` | none | none | loader | `Ring`, `MCLine` |
| Extension host | `extension.ts`, `extension/`, `sidecar.ts`, `messages.ts` | document version it has announced, handlers under way | ready, save, view-save, run, change event, hide | webview, VS Code document, file | `DocSync` |
| Run command | `runCommand.ts`, `RunButton.tsx` | child process, cancel flag, stdout line buffer | run, cancel, dispose, stdout, error, close | child process, webview | `Runner` |
| Save lifecycle | `save.ts`, `SaveLifecycle.tsx`, `main.tsx` | debounce timers, last synced view | schedule, perform, flush | host, canvas | `DocSync` |
| Load handlers | `rf/app/_handle-*.ts` and their helpers | canvas, last loaded spec, viewer state | load, view-load, migration | host, canvas | `DocSync`; what they draw in `Canvas`, the marks they drop in `Pump` |
| Canvas, folds, editing | `rf/adapter/`, `rf/app/`, `state/ops/` | RF nodes and edges, folds (kept twice), last loaded spec | connect, reconnect, drop, inline edit, delete, fold, drag | save lifecycle, history | `Canvas` |
| Undo history | `rf/history.ts` | two stacks of snapshots | pushSnapshot, undo, redo | canvas | `History` |
| Trace pump, animation | `rf/pump.ts`, `SubstrateEdge.tsx`, `use-fire-flash.ts`, `rf-imperative.ts` | pulse and flash marks, step shown last, timers and frames, updates React has queued | trace-event, rendering, effect, frame, timer | run command, canvas | `Pump` |
| Spec schema | `schema/` | none | parse, validatePorts | load handlers, loader | `Schema` |
| Rendering, logging, generators, scripts | the rest | | | | not modelled (section 8) |

What is hard in this code:

- **Concurrency without back-pressure.** A node never waits for room: `S.Send`
  drops a value that does not fit, silently. Everything the shipped topology
  promises rests on the shape of its wiring, in which one primed
  acknowledgement circulates.
- **Blocking in the wrong place.** Nodes do block on the recorder's bounded
  channel, also while RunTest waits for them; the loader blocks on one-place
  channels while no reader runs.
- **Asynchronous handlers.** The host does not await a message handler before
  the next message: the steps of two saves interleave with each other and with
  edits from outside, around one shared version number.
- **Whole-text replacement.** Saves replace the document, loads replace the
  canvas; each must have seen the other's changes.
- **State read before it is rendered.** The webview writes React's state through
  queued updates and reads it back from a copy made after the last rendering;
  a handler that writes and then reads sees the old canvas.
- **Two tables of one thing.** The editor and the loader know the ports of a
  kind, and look for mistakes in a file, each in its own way.
- **Process lifecycle.** A child may end, be killed or never start; Node tells
  of it by events that arrive late and, after a failed spawn, twice.

What makes each component correct:

- *Runtime*: no index past an end and no empty slot used; on the ring no value
  and no acknowledgement is dropped; input values enter the chain in order,
  once, paced by acknowledgements; shutdown ends, and nobody emits after it.
- *Recorder*: every event recorded once, in order per node, and on the stream
  in the recorded order; Close may be called twice and always returns.
- *Loader*: every edge becomes a private channel between its two ports, a slot
  is primed as its node asked, and loading ends.
- *Editor*: no change is lost while nothing crosses; the file's viewer state is
  not overwritten unseen; the edited file has what the canvas showed when a run is
  started; a handler that had the document to itself is not sent its own text.
- *Canvas*: whatever was edited, undone and redone, an edge joins ports that are
  on the canvas, with one sender per input port and one name per thing; an
  accepted edit is there afterwards; folds change what is shown and not the
  spec; undo and redo lose nothing.
- *Pump*: each item shows its last mark however many events one rendering
  gathers, animations end, and a live trace is drawn as a recorded one reads.
- *Schema*: what it accepts is wired as drawn, and what is wired right it accepts.
- *Run command*: one child at a time, always stoppable, its end reported once
  and truthfully, its lines whole, in order and before its end.

## 2. Modules

| Module | Models | State and actions against the code |
|---|---|---|
| `Runtime` | all goroutines of a run | `chan` is the one-place buffers, `pc` the place in each `Update` loop, `slot` the `Value/HasValue` pairs (for a ChainInhibitor the local `value`), `held` is `HeldValue`, `recvs/fires/sends` what was emitted, `tbuf` the recorder's channel, `main` RunTest. A step is the code between two accesses to shared state: `Check`, `Receive`, `TraceRecv`, `Fire`, `InputSend`, `Send`, `TraceSend`; `Cancel`, `Close`, `Drain`, `Exit` are RunTest and the drain goroutine. The wiring is a parameter. |
| `Ring` | the pacing ring, any length | names the ring's nodes in a `Runtime`, states what wiring it needs (`RingAssumption`), and the token; instantiates `Pacing` as what the runtime implements |
| `Pacing` | abstract specification | stop-and-wait delivery of a list: `Release`, `Acknowledge` |
| `Wiring` | LoadTopology and reflectBuild | one action per phase, one per primed port; the maps are those of the function: `edgeChan`, `inbound` and `outbound` by label and by port, `buf` the channels, `todo` what the priming loops have left to do, `ins` and `outs` the fields that reflectBuild sets |
| `MCLine` | `line.json` | the file as data, wired by the operators of `Wiring` and run by `Ring`: loader and runtime composed |
| `Schema` | `schema/` against `Wiring` | `NODE_TYPES`, `parseNode`, `parseEdge`, `validatePorts` and `parseSpec` as predicates on the files that `Wiring` loads |
| `MCWiring` | files to load | every topology of up to three edges over up to three nodes, the malformed ones included |
| `Recorder` | `Trace.go` | emitters, the channel, `drain` with its two writes, the standard output it shares with the nodes' prints, two callers of `Close`; a finished line is the events on it and whether a print ended it |
| `DocSync` | one open topology.json | `doc`, `disk`, `announced` and `jobs` are the host with its handlers, `rf`, `lastSpec`, `meta`, `vs`, `synced`, `dSave`, `dView` the webview, `toHost` and `toWeb` the messages; one action per handler step between awaits, per timer, and per act of the user |
| `History` | `history.ts` | `past`, `future` as in the code, `shown` the canvas between them; `undo`, `redo`, and `PushSnapshot` for the handlers to use |
| `Canvas` | the handlers of the webview that edit, fold, save and load | `shown` is React Flow's nodes, fold placeholders and edges, `folds` and `viewFolds` the two copies of the folds, `lastSpec`, `saved` the specs last loaded and saved, `synced` that the viewer state has come, `Files` the specs that a file may start with or an outside edit may put there; one action per gesture, with the snapshot, the drawing and the scheduling its handler does |
| `MCCanvas` | three nodes in a row, and a file in which two edges with one label end at one port | the viewer state comes without a fold, with a collapsed or with an expanded one |
| `Pump` | trace events on the canvas, and `Resolve.go` | `queue` is React's queue of updates, `drawing` what was rendered last, a spec and the collapsed folds, `edges` the edges on the canvas, which `Flow` makes of it as `specToFlow` does, `mark` the marks on them, `seen`, `lit`, `ticking` the hooks of nodes and edges with their timers and frames; `TraceEvent` is the pump, `Render` a rendering with its effects, `Redraw`, `Delete`, `Undo` what the handlers of `Canvas` do to the marks; `last`, `cut`, `raw`, `drawn`, `steady` are history variables of the properties |
| `MCPump` | two nodes, two or three edges | a port with two edges, one with one, which an outside edit may take away, a dead end; no fold, or a collapsed one with one node or both in it |
| `Runner` | BuildAndRunRunner and the button | `proc`, `cancelled`, `buf`, `channel` are its fields; `st`, `code`, `printed`, `read` the child processes as Node shows them |
| `RuntimeProofs`, `RingProofs`, `WiringProofs`, `RecorderProofs`, `DocSyncProofs`, `CanvasProofs`, `PumpProofs`, `RunnerProofs` | | theorems about `Runtime`, `Ring` and its refinement of `Pacing`, `Wiring` with `Schema`, `Recorder`, `DocSync`, `Canvas` with `History`, `Pump` and `Runner` (section 5) |

Every operator whose comment begins with "A mistake:" is a wrong version of the
definition that follows it; `PROJECT.json` pairs it with the property that
notices it. No specification uses one.

Abstractions worth knowing:

- `Runtime` has the events of the recorder as a count, because nodes only see
  whether there is room; `Recorder` has the events themselves and has nodes
  only as emitters.
- `Wiring` starts from parsed JSON and names a channel by the edge it was made
  for. A port that no edge reaches has a dead-end channel of its own, as in
  the code. A list that the loader fills edge by edge (the labels of an outbound
  port, the channels of a fan-out) is a function of the edges' numbers, whose
  order is the order of the list; `MCLine` makes the sequences of it that
  `Runtime` goes through.
- `DocSync` abstracts a text to the set of changes it contains, whether it has
  a `view` key and which, and whether it has meta fields. A text that does not
  parse is left out, and so is a collapsed fold: the canvas shows the whole
  spec.
- `DocSync` keeps `calm`, a history variable: TRUE as long as no handler
  starts while another is under way, nobody edits a canvas that is about to be
  replaced, no other editor writes while a save is on its way, and no edit
  fails. The code makes no attempt to merge, so outside `calm` a change can
  be lost; `ViewNotClobbered`, `NoEcho` and `SavedBeforeRun` are required regardless.
- `NoEcho` and `SavedBeforeRun` look at what a handler notes of itself: `joined`,
  that another was under way when it started, and `stale`, that the document is
  not what it made of it, because others changed it or the edit was refused. `ran` has
  of every run what the click asked for and what the edited file had when the
  host started it. What the program reads is not part of the model (section 3).
- `Canvas` has a save reach the file at once, since `DocSync` has the way there,
  and keeps of a node its id and its own input ports, of an edge its ends,
  handles, kind, id and label. An id or label made from names is the record of
  those names and the number that the code appends to tell it from others. A
  handler is one step: it runs to its end, and React Flow draws what it made
  before the next event. Where a handler reads the canvas back after it wrote
  it (`Rename`), the action has what React makes of both.
- `Pump` has the rendering as a step of its own, because trace events come faster than
  renderings. `After` applies the queued updates one by one, as React does, and
  `Resolve` goes over the events one by one, as `Resolve.go` does, with a map made of the
  spec's edges, while the pump looks among those on the canvas. Edges are a list,
  because the pump takes the first edge of a port and the resolver keeps the last; ids
  tell the edges of a drawing apart, which `Canvas` has as `Distinct`. Of a mark it
  keeps the step and the run it came from, and one snapshot of the undo stack stands
  for it. `redo` is left out: it brings marks back as `undo` does.
- `Schema` has the ports of a node as sets of names and drops kinds, legends and
  notes; a file is already JSON.
- `Runner` models Node's `child_process` from its documentation: `close` comes
  after the output has been read, and after `error` for a child that failed to
  spawn. After a failed spawn that late `close` clears whatever child is
  current; the properties that would not survive it exclude `SpawnFailed`.
  `LinesArrive` is one of them, since two children that run at once print into
  one `stdoutBuf`, where the halves of their lines mix. A child that is cut off in
  mid-line leaves a half behind (`CutOff`) that the next one's first line is put to.
- `Canvas` takes any file of `Files`, at the start and whenever another editor puts one
  in place; it may have several edges at an input port, and labels that edges share.
  What is still asked of a file: ids tell its nodes and its edges apart, a node
  that lists inputs lists at least those of its type, and an edge ends at a port that
  its node has (`parseSpec` refuses a file otherwise). `SharedPort` and `SharedLabel`
  are what files share; `OneSender` and `Distinct` say that nothing else is shared.

## 3. Runs

| Run | Checks | Bounds | Shows |
|---|---|---|---|
| `line_laps` | `TypeOK`, `OneToken`, `NoRingDrop`, `AckMeansIdle` | `line.json` with its side branch, two input values, recorder of one place | whatever the side branch loses, one token circulates and the ring drops nothing |
| `line_file` | `NoEmitAfterClose`, `Paced`, `PacedToTheEnd`, `ShutdownCompletes` | the ring with the file's Init list, recorder of one place, through shutdown | the runtime implements `Pacing`, to the end if not cancelled; cancelled, it shuts down |
| `wiring` | `EveryEdgeIsAWire`, `NoSharedChannel`, `PrimedAsAsked`, `AcceptedIsWired`, `LoadEnds` | all files of at most three of seven edges with all ways to share labels, over nodes that are primed, typed and given ports and ids of their own in nineteen ways | the loader on good files and bad, and on those the editor accepts |
| `wiring_opens` | `OpensInTheEditor`: violated | as `wiring` | a file that is wired right does not open |
| `recorder` | `NoPanic`, `PerNodeOrder`, `StreamMatchesRecord`, `ClosesReturn` | two emitters of two events, one place, two closers | nothing lost, overtaken, or emitted on a closed channel; Close returns when all is written |
| `doc_sync` | `TypeOK`, `NoLostEdit`, `Settled`, `SavedBeforeRun`, `ViewNotClobbered`, `NoEcho`, `SavedInTheEnd` | three acts out of an edit, a drag, runs and an outside edit; two handlers at once; one message on its way before another joins | saving and loading while nothing crosses; the viewer state, the save before a run and the first handler's edit whatever crosses |
| `doc_view` | `ViewSurvives`: violated | as `doc_sync` | a save of the spec drops the `view` key |
| `canvas` | `TypeOK`, `EdgesJoin`, `OneSender`, `Distinct`, `HistoryBounded`, `TimelineKept` | two files of three nodes, one in a row and one with two edges at a port, a fourth name, two fold ids, any three gestures, inline edits, undos, redos and outside edits with saves between them and the viewer state at any time, a history of two | every canvas that undo or redo can bring back has edges between ports that are there, and one sender per port and one name per thing but where a file shares them |
| `canvas_fold` | `FoldsLeaveSpec`: violated | as `canvas` | collapsing a fold changes the spec |
| `canvas_rename` | `RenameTakesEffect`: violated | as `canvas` | an accepted rename is undone by its own rerender |
| `runner` | `TypeOK`, `OneAtATime`, `StopIsOffered`, `ReportedAsItEnded`, `LinesArrive`, `RunEnds` | three children of two lines, three clicks | the run command, with cancels, failures and disposal at every moment |
| `pump` | `TypeOK`, `ShowsTheLast`, `AgreesWithResolve`, `AnimationsEnd` | two events a run, two acts out of new runs, redraws, deletions and undos, four drawings of which two have a collapsed fold | marks are shown in order, animations end, pump and resolver agree but for the sends of folded nodes |

Why the bounds are enough. A ring behaves the same on every lap after the
first, so two values with different contents show order, loss and repetition;
the file's own three are used where the side branch is left out. A recorder
channel of one place makes every emission wait, which is the worst case for
shutdown; larger ones only let nodes run on. Two edges on one port or label
already collide; a third shows that an innocent edge is left alone. Two nodes
of one id are enough to read one channel, and to prime it twice. Two
handlers overlap in every order that more could, pairwise. A second child is
what a late event of the first can hurt, and a third is what runs beside it then.
Three gestures reach every pair of
an edit with an undo or a redo after it, a history of two is full and drops a
snapshot in that time, and the fourth name lets a node be renamed or added and
its old name be used again. Two trace events are enough for
two updates of one item in a rendering, for a mark that replaces one that is
animated, and, with a new run between them, for two marks with the same step;
two acts take a mark away and bring it back. `MaxActs`, `MaxQueue`, `MaxJobs`
(DocSync), `MaxActs` (Canvas), `MaxRuns`, `MaxClicks`, `Lines` (Runner), `Burst`, `Buf` (Recorder),
`MaxEvents`, `MaxActs` (Pump) bound only what users, other editors and children start, never how what they
started goes on.

`Runtime` deadlocks nowhere before `exit`: deadlock is checked in all its runs
and in that of `Recorder`, whose ends are explicit stuttering
actions. It is not checked for `DocSync`, `Canvas`, `Runner` and `Pump`, where the user and
the child may stop acting, nor for `Wiring`, where a file that shares a label
or an id may block the loader for good.

### What the violated runs say

1. `doc_view`: `performSave` and the run button post a text without the `view`
   key and the host replaces the whole document with it, so the viewer state
   is gone from the file until the viewer state changes next.
2. `canvas_fold`: `flowToSpec` takes nodes and the ends of edges as the flow
   shows them. A collapsed fold has removed its members from the flow and
   rerouted the edges that cross it, so the next save or run writes a spec
   without the members and with edges to the fold's id, which no longer loads.
   `fold.ts` says that creating or toggling a fold never changes the spec.
3. `canvas_rename`: `beginRenameNodeId` queues the new id for React, and the
   rerender that ends every inline edit reads the canvas of the last rendering
   and sets all nodes and edges from it, which replaces what was queued. The
   comment on that rerender says that the state is already updated then. The
   same rerender makes the canvas it read the spec of the last load, so an edit
   that is merely cancelled while a fold is collapsed loses the members.
4. `wiring_opens`: the table that `node-types.ts` calls the single source of truth
   has `ToEdge` and `ToNextChainInhibitorNode` as the outputs of a
   ChainInhibitor; the Go struct has `ToNext`. So the schema refuses
   `topologies/line.json`, which the loader wires right.

Other things the models show have no run of their own:

- A fan-out skips a receiver whose channel is full and serves the other
  (`ChainInhibitorNode/SPEC.md:27` says all receivers get the old value); on
  `line.json` that concerns `inhibitRight0`, which is not on the ring.
  `Trace.Send` is called all the same, so the trace reports a value that was
  dropped, where `Trace.go:115` speaks of a successful send. On the ring every
  send goes out (`NothingDropped`), and an Input looks before it reports.
- Nothing checks that labels tell edges apart, and ids nodes (`Keyed`). Edges of one
  label share a channel; nodes of one id share all of theirs, and the schema's
  `byId` sees only the last of them. Two primed ports on one channel then block
  `LoadTopology` before any goroutine runs. So every property of the loader that
  is about single channels asks for `Keyed`, and fails on files that are not.
- A fan-out without an edge gets no channel at all, not the dead end that a comment
  of the loader (`loader.go:163`) promises; nodes that range over it do not mind.
- `drain` writes an event and its newline separately to the stream that the nodes
  print to, so a node's print may land on an event's line; the run command then
  takes neither for an event, although `main.go` documents one event per line.
- Two handlers that overlap announce one version. The first edit takes it, so the
  second one's text is sent back to the webview as an outside change, where
  `extension.ts:36` speaks of suppressing what we trigger ourselves. A flush posts
  `save` and `view-save` one behind the other, so this happens. `NoEcho` holds of the
  first (`joined` is FALSE).
- A run does not run what is edited. `RunButton.tsx:18-20` says that the host writes
  topology.json before the runtime loader reads it, but `runCommand.ts:59` starts
  `go run .` without `-topology`, whose default is `topologies/line.json`
  (`main.go:66`), and the editor opens `*topology.json`. It would also be read only
  after compilation, when a later save may have landed. `SavedBeforeRun` is the part
  of the claim that the host sees to: the edited file is written first.
- A mark that is taken away, by a load or an undo, or replaced by one with the
  same step, which the next run has, while its item is animated, stops the timer
  or the frames and starts none: the flash or the pulse stays on the screen until
  a later mark. `AnimationsEnd` excludes these items (`cut`), and no others.
- A pulse is drawn on the first edge of a port with several, the resolver has the
  last (`AgreesWithResolve` asks for the same edge only where there is one).
- `specToFlow` leads the edges of a collapsed fold to its placeholder, without their
  port, or drops them, so the pump does not find the edge of a send from a folded
  node and skips it; the resolver reads the spec and keeps it. A live trace
  thus has fewer sends than the same trace resolved, while a fold is collapsed.
  `AgreesWithResolve` compares the two on the other events.

## 4. Fairness

- `Runtime`: weak fairness for every node's step, for `Drain`, `Close` and
  `Exit`: the Go scheduler runs every runnable goroutine again and again. None
  for `Cancel`: RunTest sleeps for as long as it was told to, and
  `PacedToTheEnd` speaks of behaviours that are never cancelled.
- `Wiring`: weak fairness of the whole function; it is sequential.
- `Recorder`: weak fairness of the emitters, the drain goroutine and the
  callers of Close, by the same argument.
- `DocSync`: messages are delivered, promises settle, debounce timers run out.
  Nothing forces the user, other editors, or a failure.
- `Canvas`: none; it states no liveness, and a save that is scheduled is sent by
  `DocSync`'s argument.
- `Pump`: weak fairness of `queue' = <<>>`, which only `Render` does, and of the end of
  some timer or animation: React renders what is queued and the browser runs its
  timers. Not of each item's, which is not needed, because events are finite in number.
- `Runner`: messages and process events are delivered, and a child ends, since
  the program it runs cancels itself after a fixed time (`ShutdownCompletes`
  of `Runtime` is what justifies that).

## 5. Proofs

Every theorem is for all values of the constants that satisfy the module's
assumption; that the instances of section 3 satisfy it TLC evaluates in the runs.
Each proof states an inductive invariant and shows that every action keeps it.
Below is what each invariant adds to the property, and why the property needs it.

### The runtime

`RuntimeProofs`, for every set of nodes, every wiring, every recorder size,
under `RuntimeAssumption` (each kind has its number of ports; a buffer holds an
integer or nothing):

- `TypeCorrect`: `Spec => []TypeOK`. `TypeOK` is inductive: `NodeOK(n)` ties a
  node's place in its loop to its slots and its index. A step of n preserves
  `NodeOK(n)` action by action (`StepNodeOK`) and leaves the variables of all
  other nodes alone (`OnlyItself`, `Frame`).
- `ClosedIsQuiet`: `Spec => []NoEmitAfterClose`, inductive as it stands, by
  `DoneIsForGood`: a goroutine that has returned takes no step.

`RingProofs`, for a ring of any number of inhibitors with any other nodes
around it, under `RingAssumption` in addition (one ring output per ring node,
each ring channel leaves one ring node and enters one, which is what the loader's
`NoSharedChannel` gives, nobody else on the ring's channels, the acknowledgement
channel alone primed):

- `RingToken`: `Spec => []OneToken`. The invariant is the set `Tokens`, of ring
  channels that are full and ring nodes that hold a value, being a singleton;
  with `TypeOK` it is inductive. A receive moves the token from channel to
  node (`TokenReceived`), a send from node to channel (`TokenSent`), which
  finds it empty because the token is with the sender (`HolderAlone`); all
  other steps keep it where it is (`TokenStays`).
- `NothingDropped`: `Spec => []NoRingDrop`, and `GateWaitsForTheChain`:
  `Spec => []AckMeansIdle`, both from `OneToken`: the holder's existence means
  every ring channel is empty.

- `ValuesInLine`: `Spec => []Lined`. The values that have entered the chain are the
  first ones of the input list, and the gate's slot and the feed hold the next
  ones, so their numbers add up to what the Input has put there. `OneToken` alone
  says how many values are under way and not which.
- `RingIsPaced`: `Spec => Paced`, that every ring implements `Pacing`. The initial
  states are those of `Pacing`; a step of a node either leaves what has entered
  and the credit alone (`Idle`), returns the credit (`Acks`: the last inhibitor,
  and only while the token is with it), or lets the next value in (`Enters`: the
  gate, which has the credit and, by `Lined`, the value that is next).

### The loader and the schema

`WiringProofs`, for every topology file: any number of nodes and edges, any names,
kinds, slots and labels, every mistake. The assumptions are that a file is two
lists (`WiringAssumption`) and that `None` is no list of ports (`SchemaAssumption`).

- `LoadsAsWritten`: `Spec => []LoadInv`, the inductive invariant. Phase by phase it
  says which maps are still empty and that the others are what the loops make of
  the file; that what is left to prime was asked for; and, for files with labels
  and ids of their own, `Filled`: a channel has a value exactly if the priming of
  the port that it enters is done, and it is that port's slot. That last part is what
  makes the step of priming inductive: two ports with one channel would overwrite
  each other, and two that differ have different channels only because labels tell
  edges apart and ids ports.
- `ChannelsArePrivate`: `NoSharedChannel`. A writer of an edge's channel is a port
  with that edge in its list, so its name and its node's id are those of the edge's
  origin; a kind has each port once; the same for readers.
- `SlotsArePrimed`: `PrimedAsAsked`, from `Filled` when nothing is left to prime.
- `EdgesAreWires`: `EveryEdgeIsAWire`. Where ports exist and are not shared, the edge
  is the last one into its goal and the first one out of a single origin (`Ends`, for
  `Max` and `Min`), so both maps have it.
- `NeverBlocked`: the channel that is to be primed next is empty (`NextHasRoom`), for
  files with labels and ids of their own. It is the safety half of `LoadEnds`: the
  loader cannot get stuck, and it has finitely many sends to make.
- `AcceptedIsLoaded`: `AcceptedIsWired`. What the schema accepts, apart from the
  mistakes that the property names, has ports that exist: the handle of an edge is a
  port that the node lists for itself or that `NODE_TYPES` has, and the kind's
  struct has both.

### The recorder

`RecorderProofs`, for any number of nodes, events per node and callers of Close,
and a channel of any capacity, under `RecorderAssumption` (finitely many nodes,
each of which emits something, the channel has room for one, `Nobody` is not a
caller):

- `RecorderTypes`: `Spec => []TypeOK`, `NeverPanics`: `Spec => []NoPanic`, and
  `CloseDrains`: the call that closed the channel returns only when the channel
  is empty and the drain goroutine has left. None is inductive alone;
  `RecorderOK` is: a closed channel means that every node has returned, which is
  why nobody sends on it (`EmitOK`); it means an owner, who alone may wait, so a
  later caller closes nothing (`CallCloseOK`); and the drain goroutine has an
  event in hand when it writes and leaves only on a closed and empty channel
  (`DrainOK`).
- `OrderedPerNode`: `Spec => []PerNodeOrder`. Record and channel, one behind the
  other, are one sequence that all steps but `Emit` leave as it is (`SeenOr`), and
  `Emit` puts a node's next event at its end (`OrderStep`).
- `EverythingRecorded`: when the closing call has returned, every event is in the
  record, from `CloseDrains` and the order.
- `StreamIsTheRecord`: `Spec => []StreamMatchesRecord`. `StreamOK` says that
  standard output has all of the record but an event that the drain goroutine has
  in its hand; a print ends a line and takes nothing off it (`LineEnded`). That it
  is complete in the end is a count: node and number map the record onto all
  events one to one (`Counted`).

### The editor's document

`DocSyncProofs`, for any number of edits, drags, outside changes, acts, messages and
handlers at once, under `DocSyncAssumption` (the queues have room for one; `None` is
neither a spec nor a viewer state):

- `Types`: `TypeOK`, inductive with what it says of the messages and handlers.
- `ViewNeverClobbered`: `ViewNotClobbered`, whatever crosses. `ViewOK`: every copy of
  the viewer state that may reach the file, in a message, a handler or the webview,
  has what the file's had, because the webview posts none before it has the file's,
  and `ready` comes before anything else.
- `SavedBeforeEveryRun` and `NoEchoToTheFirst`: `SavedBeforeRun` and the action property
  `NoEcho`, whatever crosses. `HandlersOK`: a handler past its edit has its own text in
  the document or is stale (`Edited`); while one that found no other under way waits
  to make its edit on an unchanged document, nobody has got any further, since the
  edit of another one would have changed the document, so the version is still
  announced (`Alone`).
- `NoEditIsLost` and `AlwaysSettled`: `NoLostEdit` and `Settled`, as long as nothing
  crosses. The invariant is `TypeOK`, `ViewOK`, `HandlersOK`, and, while `calm`, `OneJob`
  and `Kept`. `OneJob`: one handler is under way, its edit is announced and not stale,
  and between handlers the file is the document. `Kept` follows the changes: each
  change of the spec is in the save that is pending, or else in the last save on its
  way, or else in the one that is being made, or else in the document (`SpecKept`); in
  the last load on its way or else on the canvas (`CanvasKept`); and so for the viewer
  state (`ViewKept`), except that a save of the spec may have dropped it from the
  file, which is the finding of `doc_view`. `Opening` is why a load cannot cross an
  edit at the start.

### The canvas

`CanvasProofs`, for every limit of the history and every canvas, whatever its
names, ports, folds and gestures, under `HistoryAssumption` (the limit is a
natural number) and `CanvasAssumption` (nodes and folds have different names, `None`
is not a port or a set of ports, and every file that may be loaded is `IsSpec`, which
allows several edges at a port and shared labels where a file has them):

- `HistoryStaysBounded`: `Spec => []HistoryBounded`. `redo` appends to `past`
  without the check that `pushSnapshot` makes, so a bound on `past` alone is not
  inductive; the sum of both stacks is, because undo and redo only move a
  snapshot from one to the other. With it goes that both stacks are lists
  (`HistoryOK`, `HistoryAlwaysOK`).
- `UndoLosesNothing`: `Spec => TimelineKept`, from `HistoryOK`: the sequence of
  `past`, canvas and reversed `future` is the same function before and after.
- `CanvasTypes`, `EdgesAlwaysJoin`, `OneSenderAlways`, `AlwaysDistinct`:
  `TypeOK`, `EdgesJoin`, `OneSender`, `Distinct`. `CanvasOK` has every canvas, on the
  screen or on a stack, `Good`, since undo may bring each back, and the specs that
  the canvas is drawn from and saved to `IsSpec`, since a load or an inline edit
  draws them. `Good` adds to the properties what they need of each other: an edge
  at a node has as its handle the port in its data, which is what is saved, a node
  has at least the ports of its type, and edges are finite in number. That drawing
  a spec gives a good canvas and saving one gives a spec is shown by folding and
  unfolding single edges; that a new edge gets an id of its own, by the pigeonhole
  principle and the least number (`FreeIsFree`).

### Trace events

`PumpProofs`, for all nodes, folds, drawings, events and bounds, under `PumpAssumption`
(events come from nodes and are of the three kinds; nodes and folds have different
names; a drawing is a list of edges between nodes, whose ids tell them apart, with a
fold or none for every node):

- `PumpTypes`, `LastMarksShown`, `PumpResolves`: `TypeOK`, `ShowsTheLast`,
  `AgreesWithResolve`. `PumpOK` has each of them one rendering ahead. `Due`: the
  rendering that is due shows the last marks, so that the one before need not be
  looked at when it is replaced. `Agreed`: as long as the drawing is the one the run
  began with, that rendering has it, as it does when nothing but marks is queued,
  which is when a new run may begin to compare. `Hooked`: what was cut off is not
  animated, without which the hooks' own bookkeeping is not kept. That the edges which the
  pump finds on the canvas are those of the port in the spec, or none if its node is
  folded, is `FoundInSpec`: an edge that is led to a fold starts at no node.

### The run command

`RunnerProofs`, for any number of children, lines and clicks, under
`RunnerAssumption` (they are numbers, and `None` is not):

- `Types`, `OneAtATimeAlways`, `StopIsOfferedAlways`, `ReportedAsItEndedAlways`,
  `LinesArriveAlways`: the properties of the same names. `RunnerOK` is `TypeOK`; what
  a child's state says of its output and its end (`Ages`); that the last status sent
  is `running` while there is a `proc` (`ProcIsTold`); that the lines on their way and
  those got go up (`InOrder`); while no spawn has failed, that `proc` is the one child
  that has not closed and the cancel flag is its own (`OneChild`); and, if moreover no
  child was cut off in mid-line, that what was read since the last newline is all that
  is in the buffer and every whole line is got or on its way (`Whole`). The guards are
  those of the properties: a failed spawn makes the second of two late events clear a
  newer child, and half a line spoils the next child's first.

### What a recursive definition computes

Streams (`Streamed`), rendered states (`After`), resolved events (`Resolve`, `Unfolded`) and free
names (`FirstFree`) are computed in a loop. The library's induction theorems cannot
be used by the provers here, so each of these definitions has its own lemmas, proved
by taking the least number for which they fail (`LeastNumber`): the function exists,
it gives nothing for nothing, and one thing more is one turn of the loop more. The
proofs of steps use only these.

### Only model-checked, and why

- Liveness, which is out of the prover's reach: `PacedToTheEnd`,
  `ShutdownCompletes`, `LoadEnds`, `ClosesReturn`, `SavedInTheEnd`, `RunEnds`,
  `AnimationsEnd`.

What these need of safety is proved: nothing on the ring is dropped (`NothingDropped`),
nobody emits after the end (`ClosedIsQuiet`), the loader is never blocked
(`NeverBlocked`), the closing call drains the channel (`CloseDrains`).

## 6. Hazards

`PROJECT.json` lists, line by line, what in this code is hard to test, and the
properties that would notice it going wrong; the ones without a property say
why.

## 7. Plan

Every module planned is written: `Runtime`, `Ring`, `Pacing`, `Wiring`, `Schema`,
`Recorder`, `DocSync`, `Runner`, `History`, `Canvas`, `Pump`. All safety properties
of the passing runs, invariants and action properties, are proved. What could be
added: that the loader makes of `line.json` a wiring that satisfies `RingAssumption`
is evaluated by TLC for the file and its shorter form; for a chain of any length it
would follow from `EdgesAreWires` and `SlotsArePrimed`, with a module that writes
such a file down.

Compositions: `MCLine` composes loader and runtime; `Schema` sets the editor
against the loader on the same files; `Canvas` composes the handlers with
`History`, and is the contents of what `DocSync` calls the canvas; `Pump` has what
they do to the marks; `Runner` and `Recorder` meet at the line format, and the
events that `LinesArrive` gets to the webview are those `Pump` starts from.

## 8. Not modelled

- Rendering (React components, SVG, geometry, camera, dimming): no state that
  a handler reads back. `PortRim.tsx` and `port-rim-grow.tsx` are imported by
  nothing; `ConnectGrow`, which only their handles lead to, is in `Canvas` because
  the handler is still there.
- Of the canvas: the inline edit of a sublabel, which starts from an element that
  nothing renders; positions, sublabels, notes, lanes, and data that is carried
  along; ports that must be connected (`validatePorts` knows them, no node type
  declares one); a node named like a fold (the
  constants keep the two apart); reopening the webview, which is `Init`.
- Logging: lines appended to a probe file that nothing reads.
- Code generators (`gen-node-defs`, `gen-kind-imports`): pure functions run at
  build time.
- Scripts, hooks, end-to-end tests and planning documents of the repository.
- Data races in the Go sense: nodes share nothing but channels, the recorder
  and the context. Their `fmt.Printf` is in `Recorder` as noise on the stream.
