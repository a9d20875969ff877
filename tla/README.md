# TLA+ verification of conservation-stream

conservation-stream takes video from cameras behind MediaMTX servers and forwards
it (over WHIP, Media over QUIC, RTSP), records clips on request, and ships logs.
Its processes are a Go command line (`packages/cstream-cli`), a Rust publisher it
starts (`packages/cstream-cli/moq-publisher`), and TypeScript services (a manager
in the site's API, an agent beside each MediaMTX server).  What is hard in it is
not any one computation but concurrency: tasks that share a catalog, goroutines
that shut one another down, sockets that end at one side before the other.  That
is what is modelled here.

Paths without `src/` below are relative to `src/packages/cstream-cli`.

## Inventory

| Component | State | Operations | Interacts with |
|---|---|---|---|
| **Catalog of the MoQ publisher** `moq-publisher/src/catalog.rs` | labels and tracks known, the filter, the last publication, the live catalog | `upsert_video_catalog`, `remove_label`, `sync_from`, `set_active`, `publish_if_changed` | every task of the publisher calls it; subscribers read the live catalog |
| **Rendition workers and control file task** `moq-publisher/src/jit.rs`, `main.rs` | the session of each rendition; the last control file applied | wait until advertised, open, seed, decode, stop, fail; poll the file | the catalog; RTSP sources; ffmpeg |
| **Syslog forwarder** `internal/logforwarder` | bounded channel, batch, WaitGroup, context | `Handle`, `enqueue`, `run`, `SendBatch`, `Close` | MediaMTX's syslog connections; an HTTP log endpoint |
| **WHIP forward** `internal/forward` | two goroutines, three error channels, a unit channel, a stall timer, an RTSP client, a peer connection, an HTTP session | `Run`, `Open`, `Publish`, `Receive`, `Close`, callbacks | camera, WHIP server |
| **MoQ publish with dynamic control** `internal/moq` | a control file, a WebSocket task, a child process | seed, update, run, cancel | the manager's WebSocket; the publisher process |
| **MoQ forward** `internal/moq/runner.go` `runPipe` | two processes, a pipe, two channels, a context | start, copy, wait, cancel | ffmpeg, moq-cli |
| **Dynamic bitrate** `src/apps/site/api/src/server/routes/index.ts`, `internal/cli/dynamic.go`, `internal/pipeline` | one publisher per path, sockets, the encoder's bitrate | connect, post, apply, exit, restart | mediamtx starts and restarts the publisher; whoever posts bitrates |
| **Recording requests** `src/packages/mtx-manager/src`, `src/packages/mtx-agent/src` | pending promises, the active agent, sockets, handlers, queues | request, init, report, reconnect, abort, restart | site API, the agent, object storage |
| **Agent log shipping** `src/packages/mtx-agent/src` | the log file, a reader, a batch queue and its timer, per handler | tail, push, flush, post, abort, dispose | mediamtx writes the file; the manager takes the posts |
| **Knowledge base bridge** `src/apps/kb/bridge/src` | none of its own: a document, a branch, a file, a pull request, a comment | `publishCommand`, `updateCommand` per webhook delivery | Outline, GitHub |
| RTP depacketising, timestamp probe of the publish pipeline, the rest of the site API, release workflow, command line wiring, user interface, deployment | see `PROJECT.json` | | not modelled yet, or not worth modelling: the last sections |

How the parts meet: the manager answers an agent's control socket with metadata;
each metadata message makes the agent abort and replace its two handlers, the one
that serves recordings, which opens a queue socket to the recording module, and
the one that ships mediamtx's log file.  The site's dynamic module forwards posted
bitrates to the `cstream publish` that mediamtx runs for the path.  `cstream moq publish` copies
messages of a WebSocket into the control file that the Rust publisher polls, and
the file decides which renditions' workers run and what the catalog shows.
`cstream` itself runs beside MediaMTX and forwards one source per process.

What makes each part correct, and what is hard about it:

* Catalog: subscribers see the tracks that are known and advertised.  Hard
  because a publication takes three locks in a row and holds none between them.
* Workers: advertised renditions run, others do not, and a dead session's track
  goes.  Hard because of failures between steps and of polling two things.
* Forwarder: an accepted record is not lost, a send never meets a closed channel,
  shutdown ends.  Hard because of the order in which `Close` takes things down.
* WHIP: whatever fails first is reported, everything is released, nothing hangs.
* MoQ publish: the publisher never reads half a file; either part ends the other.
* MoQ forward: success means everything arrived, either process ends the other.
  Hard because `Wait` also waits for the goroutines that copy.
* Dynamic bitrate: an encoder follows the posts for its own run, and the path is
  served again after every loss.  Hard because a restarted publisher may connect
  before the site has seen the end of the one before.
* Recording: a promise says what happened, it is settled when it can be, and the
  service comes back.  Hard because each side learns of a lost socket separately,
  and a handler may be superseded while it is starting.
* Agent log: lines are posted in order, once by each handler, and a superseded
  handler lets go of the file, which disposing empties under whoever reads it.
* Knowledge base: a comment never claims too much, and an older text does not
  replace a newer one.  Hard because a delivery takes minutes, may come twice, and
  each of its calls may fail.

The hazards, each at its line with the properties about it, are in
`PROJECT.json`.

## Modules

| Module | Models |
|---|---|
| `AdvertisedCatalog` | the abstract promise of the catalog: what is wanted changes, what is seen catches up |
| `OrderedDelivery` | the abstract promise of whatever passes something on: in order, each once, none left out between two others; with three endings (all is delivered, the rest is left, a new one begins) |
| `FilteredCatalog` | the catalog with each locked region as one action; implements `AdvertisedCatalog` when one task uses it |
| `JitPublisher` | extends `FilteredCatalog` with the workers and the control file task |
| `SyslogForwarder` | the log forwarder |
| `WhipForward` | `WHIPRunner.Run` with its source and its publisher |
| `MoqPublish` | `PublishRunner.runWithDynamicCatalogControl` with both of its goroutines and the child process |
| `MoqForward` | `runPipe` with both processes, the pipe and the copying goroutines of `os/exec` |
| `DynamicBitrate` | the site's dynamic module with the publisher's hook, `Pipeline.Run` and mediamtx's restarts |
| `RecordingService` | the manager's control socket and recording module with the agent's recording handlers |
| `AgentLog` | the agent's log handlers on one log file |
| `KnowledgeBase` | the bridge's two commands on one document, with Outline and GitHub |
| `CatalogProofs` (of `FilteredCatalog` and `JitPublisher`), `SyslogForwarderProofs`, `WhipForwardProofs`, `MoqProofs` (of `MoqPublish` and `MoqForward`), `RecordingServiceProofs`, `AgentLogProofs`, `KnowledgeBaseProofs`, `DynamicBitrateProofs` | theorems |
| `MC*` | constants for TLC |

**FilteredCatalog.**  `labels`, `active`, `full`, `lastPublished` are the fields
of `State`; `live` is the catalog in the producer.  `pc` and `next` are the
position and the local variable of a task in `publish_if_changed`:
`ComputeNext`, `WriteProducer` and `RecordPublished` are its three locked
regions.  An operation (`UpsertVideoCatalog` ...) is its own locked region and
leaves the task at the first of these.  `overlapped` is a history variable: a
publication was computed while another was between its first and its last lock.
Track names are numbers because `sync_from` numbers tracks in map order.

**JitPublisher.**  `phase[w]` is the place of a worker in
`run_rendition_worker`: waiting for the 100 ms poll to find the rendition
advertised, opening an RTSP source, waiting for parameter sets, seeded,
decoding, leaving.  A passthrough worker opens a source; the other kind starts
ffmpeg and goes straight to seeding.  Any error of a session is `SessionFails`,
which leaves the tracks in the catalog as the code does.  The control file has
four kinds (valid, not JSON, missing, unreadable).  A task makes no step of its
own while it is inside `publish_if_changed` (there is no `await` there).

**SyslogForwarder.**  `handler[c]` is a `Handle` goroutine; its shutdown check
and its send are separate steps.  `batcher`, `batch`, `sending`, `attempt` are
`run`, `flush` and `SendBatch`.  `closer[k]` is a `Close` call; `blocked` and
`waking` tell a `Wait` that sleeps from one that has been signalled while a
new `Add` arrived, which is where a `sync.WaitGroup` panics.  Records are
named by their connection and line number.

**WhipForward.**  A blocked Go `select` is woken by the first event and gets its
value; a `select` that finds several cases ready takes any.  The two are
different actions (`Wakes`, `ReachSelect`), because which of an error and the
cancellation it causes is seen first depends on it.  `waiter` is the goroutine
around the RTSP client's `Wait`; `callback` is a unit the RTP callback is about
to send without blocking.  Units are keyframes or other frames.

**MoqPublish.**  `file` is the control file including the moment where it would
be half written; `encoder` is an ffmpeg that survives the publisher and holds the
log pipe `piped`, which is what `cmd.Run` waits for; `silent` says its source
delivers nothing any more, so it never fails on its next write.

**MoqForward.**  `stage` is where `runPipe` is; `failing`, `draining`, `stopping`
and `canceling` are the four ends of its `select`.  `output` and `input` are the
goroutines that `os/exec` starts because neither `Stdout` nor `Stdin` is a file;
`Wait` returns only when the process and its goroutine have ended.  The io.Pipe
has no buffer, so that `Carry` takes a unit from ffmpeg's pipe into moq-cli's.

**DynamicBitrate.**  A run is one start of `cstream publish`, with its process
(`run`), its hook goroutine (`hook`) and its own socket, whose two ends are
separate as in `RecordingService`.  `agent` is the entry of the path in the map
of publishers.  mediamtx starts a run while the path has a source and none plays;
a run slot is used again when it is over on both sides, so that restarts are not
bounded by the number of slots.

**RecordingService.**  `control` is the control socket; each metadata message it
brings (`ReceiveMetadata`) aborts the handler before and starts another.  Both
ends of each queue socket are separate (`serverOpen`, `clientOpen`), with `broken`
for a link that carries nothing though neither side knows; `hello` is the init
message on its way, `inflight[s]` the requests on theirs.  A handler is starting
(until `mkdir` returned; a signal aborted in that time is not noticed by its
`Queue`), ended without a queue (`mkdir` failed: `NoDirectory`), waiting, working,
reporting success or failure, dead (its loop ended on an error, its queue still
connected) or gone.  `Restart` is a restart of the
manager: the map of promises (`known`) is gone and every report is answered 404.
`lost` collects the requests that no living handler will come to.

**AgentLog.**  Lines are numbers and the file is the interval above `base`;
disposing of a `Log` sets `base` to the last line written.  `log[h]` says who
disposes of the Log of handler h: its abort listener, its own loop, or nobody,
because the signal was aborted before the listener was registered; `pump[h]` is
`readLines`.  The file may fail to be created (`CreateFails`: the handler ends
without a `Log`) and to be emptied (`TruncateFails`: the handler ends with the
error, or the process does, when it is the abort listener's disposal).  A batch becomes ready because it is full, because the timer fires,
or because the queue is closed.  What the tailing library does when the file is
emptied under it is left open: it starts over, or stays at its offset and skips
what is written before it.

**KnowledgeBase.**  `place[w]` is the call that delivery w is about to make; each
call is one action that may fail, and what was read before it (`snap`, `base`,
`sha`) is the delivery's own.  A call of Outline may also throw, when its answer
cannot be parsed (`OutlineFails`), and a comment may have been changed although the
call that changed it failed.  A text is its revision; GitHub refuses a file whose
sha is not the one given, a branch that exists and a second pull request.

## Runs

All of them are small enough for two workers and a few minutes.

| Run | Instance | Shows |
|---|---|---|
| `catalog_stdin` | 1 task, 3 tracks, 2 renditions, 2 configurations | the stdin loop's catalog implements `AdvertisedCatalog`, with liveness |
| `jit_safety` | 2 ffmpeg workers with 2 tracks each, control file task | what the live catalog can and cannot contain in every interleaving of the locked regions |
| `jit_liveness` | 1 passthrough worker, every kind of control file | sessions follow the filter, the filter follows the file |
| `syslog` | 2 connections (2 and 1 records), 2 `Close` calls, queue of 1, batches of 2, 2 tries | nothing is lost or sent on a closed channel inside the pipeline, `Close` ends |
| `recording` | 2 requests, 3 handlers with 2 sockets each, 2 faults | what a settled promise means, when one stays pending, that service is restored or the latest handler ended without a queue, across crashes of the agent and restarts of the manager |
| `whip` | channel of 1 unit | what `Run` returns and leaves behind, that it returns |
| `moq_publish` | 2 updates | what the publisher can read, what `Run` returns and leaves, that it returns |
| `moq_forward` | 3 units, room for 1 in a process's pipe | what `runPipe` returns and leaves, that the end of either process ends it |
| `dynamic_bitrate` | 3 runs, 2 posts, 2 faults | the encoder follows the posts of its own run, the path is served again |
| `agent_log` | 2 handlers, 2 lines, batches of 2, 1 fault, any line malformed | lines are batched in order, when one can be posted twice, what ends a handler |
| `knowledge_base` | 2 deliveries, 3 revisions, 2 titles, 1 merge, 1 fault | a publish left alone succeeds, comments are true, when an older text wins |
| `jit_stale` | 1 worker with 2 tracks, control file task | a disagreement of the code with its documentation, see Findings |

Why these bounds are enough for the cases that matter: a publication overlaps
with at most one other worker's and the control file task's, so two workers and
the watcher give every pairwise and three-way overlap, and two tracks per worker
give a session and its successor.  A queue of one is full after one record, so a
producer blocks, hands over directly and is abandoned; batches of two leave a
partial batch.  Two sockets per handler are the old one the manager still thinks
open and the new one; three handlers are two that were superseded and compete
with their successor; two faults are enough for a fault during the recovery from
another.  A unit channel of one is full whenever the publish goroutine is busy,
and with room for one unit the three of `moq_forward` are one in each pipe and
one that ffmpeg cannot write.  Three runs of a publisher are the one that plays,
one the site still thinks open, and one refused because of it.  Two log handlers
are the superseded one and its successor; two lines fill a batch, or are a batch
by the timer and one after it.  Two deliveries overtake one another, and three
revisions let the document change before and between what they read.

Type invariants are proved rather than run, so that every property of a run is
about a hazard.

`CHECK_DEADLOCK FALSE` is given where the program ends (`Run` returned, `Close`
returned) or where everything may be at rest (no further request, no further
fault).  The catalog and the publisher run for ever and are checked for deadlock.

## Fairness

Every specification assumes that a task, goroutine or process that can take its
next step takes it, and nothing about its environment: no frame, record, message,
request, edit or failure ever has to come.  Beyond that:

* `tokio::select!` without `biased` picks a random ready branch and Go's `select`
  does too, so a branch that is ready again and again is taken: strong fairness
  of `NoticeInactive`, of `Tick`, of `EndPublishing` and `ReadCanceled`.
* A seeding attempt ends (`timeout` of 15 s in `jit.rs`); opening a source has no
  timeout and no fairness.
* HTTP requests of `internal/forward` and of the forwarder have a timeout.
* A blocked sender is served in turn (Go queues channel waiters): strong fairness
  of a send.
* An upload or a report of the agent ends one way or the other, and a lost socket
  is noticed by each end at some time.
* The agent reconnects its control socket, and the manager answers with metadata.
* mediamtx starts the publisher again whenever its path is ready (that is what
  `runOnReadyRestart` asks of it), and a source that went comes back.
* A directory or file the agent makes is made, or that fails.
* A batch of the forwarder ends.  With `Retries` other than 0 the tries run out; 0
  sets no limit, and then only backoff's own limit on the elapsed time ends it,
  which is not stated: the run has 2 tries.
* A log line that is in the file is read by whoever tails it, a timer fires and a
  post is answered.
* ffmpeg ends when nobody takes the output it wants to write; moq-cli reads its
  input and ends at its end.  A source may fall silent without ending, and does
  one or the other when the model has no more units for it.
* `KnowledgeBase` has no liveness: whether a command ends is up to Outline and
  GitHub.

The liveness properties name what is left open: a source that never answers
(`UnadvertisedStops`), an idle connection (`CloseTerminates`), a request that
was lost (`PendingSettles`), an encoder that holds the log pipe (`EitherEndsRun`),
a source that is silent while moq-cli has ended (`EitherEnds`), a superseded log
handler that has no line to read (`SupersededEnds`), a latest recording handler that
ended without a queue while no earlier one still has its own (`ServiceRestored`).
Some safety properties name an exception in the same way (`Released`,
`KeyframeFirst`, `NoRepost`, `AloneNeverRegresses`): the code does behave so, the
property says that nothing else leads there, and the hazard in `PROJECT.json` that
is excused says so in its note.

## Theorems

Proved with TLAPS, for every value of the constants that satisfies the named
assumptions of the modules.

| Theorem | Statement |
|---|---|
| `CatalogProofs!TypeCorrect` | `Spec => []TypeOK` |
| `CatalogProofs!SerialConvergence` | `Spec => []SerialPublishesConverge` |
| `CatalogProofs!StdinImplements` | `StdinSpec => Advertised!Init /\ [][Advertised!Next]_Advertised!vars` |
| `CatalogProofs!JitTypeCorrect` | `JitSpec => []JitTypeOK` |
| `CatalogProofs!JitUsesCatalog` | `JitSpec => Init /\ [][Next]_catalogVars` |
| `CatalogProofs!JitSerialConvergence` | `JitSpec => []SerialPublishesConverge` |
| `CatalogProofs!LabelsInStep` | `JitSpec => []LabelsMatchFull` |
| `CatalogProofs!SessionKeepsTrack` | `JitSpec => []SessionTrackKnown` |
| `CatalogProofs!LeftoversOfErrors` | `JitSpec => []DeadTracksOnlyAfterError` |
| `CatalogProofs!OneTrackShown` | `JitSpec => []OneTrackPerRendition` |
| `SyslogForwarderProofs!TypeCorrect` | `Spec => []TypeOK` |
| `SyslogForwarderProofs!NoSendOnClosed` | `Spec => []NeverSendOnClosed` |
| `SyslogForwarderProofs!NoRecordVanishes` | `Spec => []NothingVanishes` |
| `SyslogForwarderProofs!ClosedMeansDrained` | `Spec => []CloseDrains` |
| `SyslogForwarderProofs!OneLateRecord` | `Spec => []AtMostOneLateRecord` |
| `SyslogForwarderProofs!DeliveryIsBounded` | `Spec => []DeliveryBounds` |
| `SyslogForwarderProofs!ForwarderDelivers` | `Spec => Delivery!Init /\ [][Delivery!DrainedNext]_Delivery!vars` |
| `MoqProofs!TypeCorrect` | `Spec => []TypeOK` |
| `MoqProofs!FileIsWhole` | `Spec => []ControlFileWhole` |
| `MoqProofs!NothingLeft` | `Spec => []NothingOutlivesRun` |
| `MoqProofs!CauseReturned` | `Spec => []ReturnsItsCause` |
| `MoqProofs!ForwardTypeCorrect` | `ForwardSpec => []ForwardTypeOK` |
| `MoqProofs!ReturnedIsTrue` | `ForwardSpec => []ReturnIsTrue` |
| `WhipForwardProofs!TypeCorrect` | `Spec => []TypeOK` |
| `WhipForwardProofs!KeyframeIsFirst` | `Spec => []KeyframeFirst` |
| `WhipForwardProofs!ErrorReturned` | `Spec => []ErrorSurvives` |
| `WhipForwardProofs!EverythingReleased` | `Spec => []Released` |
| `RecordingServiceProofs!TypeCorrect` | `Spec => []TypeOK` |
| `RecordingServiceProofs!ActiveSocketOpen` | `Spec => []ActiveIsOpen` |
| `RecordingServiceProofs!AgentNeverTakenOver` | `Spec => NoTakeover` |
| `RecordingServiceProofs!SuccessHolds` | `Spec => []SuccessIsReal` |
| `RecordingServiceProofs!PendingIsFound` | `Spec => []PendingIsSomewhere` |
| `RecordingServiceProofs!RequestsMoveOn` | `Spec => [][MovesOn]_vars` |
| `AgentLogProofs!TypeCorrect` | `Spec => []TypeOK` |
| `AgentLogProofs!LinesInOrder` | `Spec => []PipelineInOrder` |
| `AgentLogProofs!PostedOnce` | `Spec => []NoRepost` |
| `AgentLogProofs!HandlerDelivers` | `g \in Handlers`: `Spec => Delivery(g)!Init /\ [][Delivery(g)!LossyNext]_(Delivery(g)!vars)` |
| `KnowledgeBaseProofs!TypeCorrect` | `Spec => []TypeOK` |
| `KnowledgeBaseProofs!ReportsTruthful` | `Spec => []ReportNeverAhead` |
| `KnowledgeBaseProofs!PublishSucceeds` | `Spec => []UndisturbedSucceeds` |
| `KnowledgeBaseProofs!OvertakenOnly` | `Spec => AloneNeverRegresses` |
| `DynamicBitrateProofs!TypeCorrect` | `Spec => []TypeOK` |
| `DynamicBitrateProofs!AgentStaysOpen` | `Spec => []AgentIsOpen` |
| `DynamicBitrateProofs!BitratesInOrder` | `Spec => []AppliedInOrder` |
| `DynamicBitrateProofs!RunDelivers` | `q \in Runs`: `Spec => Delivery(q)!Init /\ [][Delivery(q)!RenewedNext]_(Delivery(q)!vars)` |

*SerialConvergence.*  The property speaks of moments when no call is in
progress, and says nothing about the steps between.  `SerialInv` adds what the
three regions hand on to one another while no overlap has happened: at most one
task is between its first and last lock (`OnePublisher`), a task about to record
has just written what it holds, and `last_published`, when it exists and nobody
is in between, is the live catalog; a change of the state puts its caller at the
first region, so whoever leaves last compared with the current state.

*StdinImplements.*  With one task that reads the source, its operation is a
`Change` of `AdvertisedCatalog`, the region that computes is `Publish`, and the
other regions stutter: a task that records or writes changes only what is
already decided, because nobody else is between the locks.

*NoSendOnClosed.*  `ChannelInv` says that the channel is closed only when a
`Close` call saw no producer, that shutdown precedes it, and that a `Handle`
call gets to its send only through the shutdown check.  A connection that is
handed over later is in its scanner, passes no check, and never arrives there.

*NoRecordVanishes, ClosedMeansDrained.*  `PipelineInv` adds when each buffer is
empty (nothing is being sent while `run` is in its select; after the last
receive the queue and the batch are empty), with associativity of concatenation
for the rest.

*OneLateRecord.*  `LateInv`: a connection that is at its send when shutdown
begins has added nothing late, and after it nobody passes the check again.

*DeliveryIsBounded.*  `Numbered` says that no record is accepted twice, so by
`NothingVanishes` each is in one place of the pipeline.  `BoundsInv` gives the
count of each place: none before the send, at most one for each attempt that
ended while it is sent, and what was found then once it is settled.  The property
states the four bounds (not sent yet, being sent, settled and not reported failed,
the limit); `Retries` may be 0, which `WithMaxTries` takes for no limit and
`Config` does not refuse, and then the last one says nothing.

*The workers.*  `JitUsesCatalog` needs `SessionInv` (the track of a session is one
of its worker's own) because a decoded frame upserts the track remembered from
the seed.  With it every step is a catalog step and `SerialInv` carries over.
`TracksInv` joins the three properties of the maps with what makes them
inductive: labels stay with the worker that owns the track (`OwnLabels`, from
the assumption that workers' tracks differ) and no label has two tracks
(`OneTrackPerLabel`).  `OneTrackShown` adds that `live` and every `next` were
computed from such maps (`ShownInv`), which holds however publications overlap.

*MoqPublish.*  `RunInv` says that a goroutine reports once, at its end, and that
`Run` cleans up only after both reports, so nobody renames or reads the control
file when it is removed.  `CauseInv` says that before `Run` has chosen, only the
caller can have cancelled, so a cancellation that is reported and chosen is the
caller's.  `Holding` (a task that writes has an update) makes the types inductive.

*MoqForward.*  `ForwardInv` ties the reports to the processes: what is in a
channel tells how its process and its copying goroutine ended (`FfmpegReported`,
`MoqCliReported`), and unless the context is done nobody has closed an end of the
pipe early or killed a process (`Undisturbed`).  So a failure that `runPipe`
finds while its context is not done is the process's own, and success means that
the units that were carried are all there were.  `WaitsFor` says which reports
each of the four ends of the `select` has seen.

*WhipForward.*  `ErrorReturned`: until `Run` has chosen, a report that was made is
still in its channel (`WaitInv`), and whoever cancels reported first or reports a
cancellation (`CancelInv`), so a select that waits is woken by an error before
the cancellation it causes.  `EverythingReleased`: the deferred calls run in
their order, each place having done what those before it do (`DownInv`), and only
after both goroutines have ended, so nobody publishes on a closed connection.
`KeyframeIsFirst`: unless a keyframe was dropped, the first unit on its way to
the server, whether published, in the channel or in the callback, is a keyframe
(`FirstInv`).

*RecordingService.*  Types need `Unstarted` (a handler that did not start has no
place yet).  `ActiveIsOpen` is inductive with the types; `NoTakeover` follows
from the only two actions that change the active agent.  `RequestInv` carries the
other two: no queue or socket holds a request twice (`Distinct`), each request
is in at most one place (`OnePlace`), and the state of its promise says which
places, uploads and confirmations are possible (`PromiseInv`).  The cardinality in
`PendingIsSomewhere` follows because any two of its places are equal.
`RequestsMoveOn` is about steps: only `Request`, `Deliver` and `Take` put a
request anywhere, each from the place before it on its way.  With `OnePlace` it
says that no request is worked on twice or by a handler it was not sent to.

*AgentLog.*  The type of `ends` needs that the ends of the batches rise and stay
within the ready lines (`EndsInv`), because a batch is a subsequence between them,
and that a reader is never before the beginning of the file (`ReaderInv`).
`PipelineInv` is `PipelineInOrder` with what an ended handler leaves.
`PostedOnce` classifies the steps once more, by what they do to the readers
(`ReaderStep`).  `RereadInv` says that a disposed `Log` has read only lines that
were emptied from the file since (`ReadsInv`), and that of two `Log`s that were
never open together one was disposed of before the other's reader passed its
first line (`Apart`).

*KnowledgeBase.*  `ReportInv` ties what a comment says, step by step, to what its
delivery has done.  `PublishSucceeds` carries through every call what an
undisturbed delivery knows: the branch and file it saw are still there, the sha
is current.  `TextInv` says that a text anywhere on GitHub was read by some
delivery (`Sourced`), that no delivery holds a newer text than the document's
(`SnapsInv`), and that whoever read a newer text read it later (`OvertakenInv`).

*DynamicBitrate.*  `SocketsInv`: a run's ends of its socket, its init message and
its place in the map agree.  `StreamInv`: what was applied, with what is on its
way, is what was accepted, or a prefix once the link broke.

*ForwarderDelivers, HandlerDelivers, RunDelivers.*  The three components that pass
something on implement `OrderedDelivery`, each under the instance `Delivery` at
the end of its module.  What each invariant of the pipeline says of a state
(`PipelineInv`, `StreamInv`) gives that what is delivered is a front of what was
accepted; step by step, the end of `SendBatch`, a posted batch or a changed
bitrate is a `Deliver`, because the front it is taken from begins where the last
one ended.  The forwarder's batcher ends with a `Drain`: its final flush comes
after the channel is closed and empty, when nothing more is accepted.  A log
handler and a run may end with the rest undelivered (`End`), and a run's slot
that mediamtx starts again is a `Renew`.  These are statements about steps, with
no fairness: that something is delivered at all is for the runs.

Only model-checked: everything about liveness and `ENABLED` (the fairness of
`AdvertisedCatalog` among it).  Every invariant of a run is proved.

## Findings

`jit_stale` is the counterexample: `publish_if_changed` computes under one lock
and writes under another, so a worker can write an older catalog over a newer one.
An unadvertised track then stays in the live catalog until some later operation,
which need not come.  README.md:92: "Unadvertised tracks stay out of the live
catalog".  `SerialPublishesConverge` shows the overlap to be the only cause.

Read in the code, in part shown by weaker properties of the runs:

* One failed read of the control file (bytes that are not UTF-8, permissions)
  ends the task that watches it (`catalog.rs:384`; README.md:84 says the file "is
  watched while publishing").  `ControlFileApplied` states the exception.
* `{"advertise":[]}` at start-up means no filter (`catalog.rs:174`), so every
  rendition is started until the file is first polled (README.md:106); with
  dynamic control and no flags the seed file is exactly that.
* The forwarder's `Close` cancels the context the queue is drained with
  (`syslog_forwarder.go:97`): records still queued or batched are handed to a
  `SendBatch` that fails at once, printed and lost, although :75 says blocking
  "preserves logs" and :105 that the batcher drains any queued records.
* A goroutine of `internal/forward` that fails before `Run` reaches its `select`
  leaves an error and a cancelled context both ready, and `Run` may return
  `context.Canceled`, where `runner_test.go:91-103` expects the error.
  `ErrorSurvives` states what holds of it.
* `runPipe` cancels its context (`runner.go:198`) before it asks whether it was
  cancelled (:200), so a publisher that fails is always returned as
  `context.Canceled`, and :202 is never reached; a clean end is too when the
  publisher's is the one the `select` takes.
* A failed rendition session is retried at once, with no delay (`jit.rs:118`).
* `updateCommand` looks the sha up for one path and writes another
  (`update.ts:13,19`), so GitHub refuses it as soon as the two differ.  Events
  are not remembered, although `types/outline.ts:4` asks for each to be processed
  once.  When the branch has an open pull request the comment goes on saying that
  one is being created.  The installation token is fetched once per process.
* An error outside the `try` of `handleRecording` ends it, and `onMetadata` waits
  with `Promise.allSettled` (`mtx-agent/src/index.ts:23`), which swallows it.  When
  `mkdir` fails (`handlers/recording.ts:10`) there is no queue and nobody serves
  requests; when reporting a failure fails (:37) the queue stays the active agent's
  and its requests are lost.  Both last until the next metadata message
  (`ServiceRestored` and `PendingSettles` state the exceptions).
* A log file that cannot be created ends its handler in the same way.  One that
  cannot be emptied while the abort listener disposes of the `Log` is a rejection
  nobody handles (`log.ts:26`), which ends the agent.
* The agent ignores the status of its posts and a log handler whose post threw
  ends; nothing ships the log until the next metadata message.  A handler aborted
  while it creates the file tails it beside its successor (`NoRepost` names it).
* The session token in the agent's URLs is checked by a handler
  (`mtx-manager/src/index.ts:107`) that is registered after the routes it is for;
  a Hono application runs handlers in the order of registration, so a superseded
  handler's socket is let in.  The model lets it in.
* `Pipeline.Run` does not wait for its hook, and `watchBus` only logs an EOS and
  goes on (`pipeline.go:174`): `Run` is not told of it.
* `MemoryCachedProcess.clear()` races with a computation in progress; the class is
  not used so far.
* `runtime_fixes.go:112`: a shifted timestamp is written only at the buffer where
  the shift grows; the buffers after it keep their own, smaller ones.
* `types.go:34` (logforwarder) promises an HTTP sender when none is given; the
  first flush dereferences nil.  `types.go:57` says nothing is accepted after
  `Close` began; a record that had passed the check still is
  (`AtMostOneLateRecord` bounds it).
* The command line never cancels its context: an interrupt ends the process
  without the WHIP `DELETE` and without draining logs.
* The `runOnReady` commands of the site API (`routes/index.ts:151,156`) are
  `cstream publish` and `cstream forward`; the command line has `rtsp`, `webrtc`
  and `moq`.
* A WHIP `Open` that fails after its POST leaves the session and the peer
  connection (`Released` states the exception).

## Assumptions and abstractions

* Video data, timestamps, RTP, SDP, log parsing and the lists of ffmpeg
  arguments are left out: no property here depends on them.
* Messages on the manager's sockets are well formed.  Its restarts take the
  promises and the sockets of all modules at once.
* Go is 1.24: a stopped timer delivers nothing afterwards.
* Names of tracks made by different workers differ (they take them from the
  broadcast they share); without it `upsert` would relabel another's track.
* GitHub applies a call or refuses it as a whole, and tells what it did unless the
  call fails on the way.  One document and one branch are modelled: documents share
  nothing.  One path of the dynamic module likewise.
* A failure to make a directory or to write a file is a fault like a broken link:
  at any time, within the bound on faults.
* mediamtx does not rotate its log file; only disposing of a `Log` empties it.
* The control file's temporary and final names are in one directory, so the
  rename is atomic.

## Not modelled, and the plan

In this order:

1. `ReleaseWorkflow`: the release actions under `src/internal/actions` and the
   scripts beside them: tags that are made of the day, `latest` overwritten by
   overlapping runs, a release that is looked up and then created, and failed
   pushes that are not built again because the next one compares with its own
   predecessor.
2. `PublishTimestamps`: the probe of `runtime_fixes.go` as a function of a stream
   of timestamps against a reference definition (the one hazard of the list
   without a property).
3. `RtpTimestamps`: `AnnexBAccessUnits`, `FrameClock` and `ParameterSetSeed` of
   `jit.rs` likewise.
4. `CachedProcess`: `MemoryCachedProcess`, if it comes into use.

Little of the TypeScript can be modelled: most of it is generated clients and
schemas (`mtx-client`, `compose.types.ts`), user interface, database schemas and
declarations of deployments, which keep no state that steps change.  The
concurrent core is in Go and Rust.  Outside of what a model would add to are also
flag parsing and validation, and one-request handlers without state.
