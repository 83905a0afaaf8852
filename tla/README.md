# Maelstrom in TLA+

TLA+ models of the concurrent and stateful core of maelstrom-rust, a non-linear video editor in
Rust. The models are translated from the source under `src/`; `PROJECT.json` maps every
definition to the lines it stands for, and lists the hazards of the code with the properties
that cover them.

## 1. The system

### Components

| Component | State | Operations | Talks to |
| --- | --- | --- | --- |
| Monitor source coordinator, control plane (`nle-decode`) | source groups with weak references to actors, one lease and one deferred request per endpoint, session permits, reservations, handles waiting for their join | request, cancel, release, defer, retry, acquire, retire, join | actors, session pool, reaper thread |
| Source-lane actors, data plane (`nle-decode`) | one command slot per client, client queue and queued ids per actor, sticky libav sessions, event slot per decoder | scan, claim, decode, retarget, progress, fall back, settle, publish | endpoints, event slot, frame cache |
| Standalone monitor worker (`nle-decode`) | command slot, pending request, sessions | the same without coordinator | session pool, event slot, cache |
| Decoded-frame caches (`nle-cache`, `nle-decode`) | entries with access generations, used bytes; scrub index, anchors, latest targets, cache policy | get, insert, evict, clear, renumber; reset by policy, look up exactly or nearby, insert traversed frames and targets | decoding threads |
| Project store (`nle-project-io`) | project file, backup, staging file | save, load with recovery | writer threads, readers |
| Project saving and switching (`nle-app`) | coalescing map, command channel, retained failures; autosave schedule, hub, editor, dialog results | queue, coalesce, write, retry, flush, shut down; new, open, duplicate, edit, return to the hub, close | project store, event loop |
| Proxies (`nle-proxy`, `nle-app`) | the cache of finished proxies, a temporary file, one build and one removal worker with cancel flags, the validation queue with its epoch; per media a record, a status, a ticket, the user's wish | build, remove, prune, validate; generate, enable, cancel, delete, fall back, restore, poll | media tool, application, media analysis |
| Export jobs (`nle-export`) | staging file, child processes, progress | start, cancel, supervise, finish | ffmpeg child |
| Upscale jobs (`nle-upscale`) | worker, child process, events | start, cancel, poll | child process |
| Timeline model (`nle-timeline`) | tracks, clips, links, transitions, clip index, id counters, structural generation | edits, deltas, replay | editor |
| Editing session (`nle-ui-core`) | undo and redo stacks, checkpoint of a gesture, provisional clips and known durations, canvas cache | commands, gestures, probes, undo, redo | timeline |
| Audio engine (`nle-audio`) | lanes with their queues and the transport's generation, the pending decode job, sticky decoder sessions, `playing` and the device clock | seek, reconcile, pause, drop; decode; mix | decode worker, device callback |
| Waveform jobs (`nle-waveform`) | queue, cache | request, poll | workers |
| Application (`nle-app`) | monitor layers, background jobs | frame loop | everything above |
| User interface, rendering, titles (rest of `nle-ui-core`, `nle-render`, `nle-compositor`, `nle-title`) | widgets, GPU resources | drawing | application |

A *decoder* (`MonitorDecoder`) has one worker slot per lane: slot 0 is the foreground, the others
are background lanes that are prewarmed silently and used for reverse scrubs. Several decoders
share one `MonitorSourceCoordinator`. For every source (media, path, acceleration) and lane the
coordinator runs at most one *actor*, a thread that owns a libav session. Worker slots hold
*leases* on actors; the coordinator itself holds weak references. When the last lease goes, the
actor's handle is sent to the reaper, a thread that joins it. Requests travel through a one-place
slot per lease (the newest wins); pictures and errors come back through a one-place event slot
per decoder. Before it decodes, an actor looks in a frame cache that all decoders of a monitor
share; every look-up and every insertion takes the cache's lock once.

The *application* keeps one project in its editor. Its event loop queues the document with a
background writer after a quiet period, or at once on the way to the hub and on closing; the
writer coalesces requests by path and saves through the project store, which stages, backs up and
renames. Projects are opened and duplicated by threads of their own that touch the files directly
and report to the event loop.

The *editor* changes the timeline document through operators that may refuse, and records a batch
of edits with both sides of each, so that undo and redo replay it. A gesture takes a checkpoint when
it begins and becomes one batch when it ends. A clip placed before its media was probed has a
provisional length, which the probe's answer settles later, outside the history.

The *audio engine* is three threads over two mutexes and two atomics: the application seeks,
reconciles and pauses; the decode worker takes the newest job and fills the lanes' queues from
decoders that it keeps between jobs; the device callback takes one frame from every lane and
advances the clock. A generation number tells the worker that its job is no longer the current one.

A *proxy* is a smaller copy of a video that the monitor may decode instead. The application runs one
build or one removal at a time in a thread and asks a third thread whether a proxy still belongs to
its original before the monitor is switched to it; the event loop polls all three and keeps, for
each media, what the menu shows. Changing the project cancels the work but waits for none of it, so
answers arrive in a project they were not asked for, whose media have the same ids.

### What is hard

* Interleaving: calls on endpoints run against actors, other decoders' endpoints and the reaper;
  the lease, the slot, the queue and the queued ids have a lock each. Readers and copiers of
  projects run against the writer.
* State read before an unlock and used after it: the actor empties the command slot and puts
  retained work back later; the cache is prepared under one lock and read under the next.
* Limits: source groups, actors (live and unjoined), session permits, client queue, cache bytes,
  index entries, an access counter that rolls over.
* Partial failure: no thread, no permit, a source that does not open, a hardware decoder that
  fails in the middle, a save that fails at any step.
* Crashes: a save may die, or lose power, between any two of its file operations.
* Histories replayed over a document that something else has changed: probes answer between an edit
  and its undo, gestures overlap with shortcuts.
* Late answers: builds, removals, checks and discoveries of proxies report to an application whose
  user has chosen otherwise since, or has opened another project.
* Clocks: the audio clock goes on when the callback misses the lock, and lanes join, stay and leave
  while it runs; what is queued must still belong to the tick that is played.
* Liveness: joins happen in the order of retirement, behind decodes that may take long; wakes
  travel over channels of one place that drop what does not fit.

`PROJECT.json` lists the hazards by line, with the properties that cover them or the reason none does.

## 2. Modules

| Module | Models | Source |
| --- | --- | --- |
| `SourceCoordinator` | the control plane: leases, registry, deferral, permits, reservations, reaper | `nle-decode/src/lib.rs` |
| `SourceLane` | the data plane; extends `SourceCoordinator`, every step is a step of it or a stutter | `nle-decode/src/lib.rs` |
| `ClientQueue` | the client queue of one actor at the grain of its two locks | `nle-decode/src/lib.rs` |
| `Lru`, `LruCache` | the least-recently-used cache as operators on a sequence, and as a specification | `nle-cache/src/lib.rs` |
| `FrameCache` | the map with access counters that implements it | `nle-cache/src/lib.rs` |
| `MonitorCache` | the monitor's stream-aware cache and the threads that use it; built on `Lru` | `nle-decode/src/lib.rs` |
| `SaveService` | what the application relies on when it queues documents (abstract) | `nle-app/src/main.rs` |
| `ProjectWriter` | the project and the catalog writer; implements `SaveService` | `nle-app/src/main.rs` |
| `ProjectSession` | hub, editor, autosave, open, duplicate, close; extends `SaveService` | `nle-app/src/main.rs` |
| `AtomicFile` | a document replaced in one step (abstract) | `nle-project-io/src/lib.rs` |
| `ProjectStore` | staging file, backup, rename, loads, crashes; implements `AtomicFile` | `nle-project-io/src/lib.rs` |
| `Timeline` | the document and its edits as operators | `nle-timeline/src/lib.rs` |
| `History` | a line of versions that late facts revise (abstract) | `nle-ui-core/src/editor.rs` |
| `EditorHistory` | commands, gestures, probes, undo and redo over a timeline; implements `History` | `nle-ui-core/src/editor.rs`, `nle-timeline/src/lib.rs` |
| `ProxyWorkers` | the build and the removal worker and the cache of proxies they change | `nle-proxy/src/lib.rs` |
| `ProxyMedia` | the menu, the polls, the validation worker, the analysis and the change of project; extends `ProxyWorkers` | `nle-app/src/main.rs`, `nle-proxy/src/validation.rs` |
| `AudioEngine` | transport, decode worker, device callback | `nle-audio/src/lib.rs` |
| `Keeping` | `Kept`, the entries of a sequence that are in a set, as a recursive function | `nle-decode/src/lib.rs` (`retain`) |
| `SourceLaneProofs` (also of `SourceCoordinator`), `ClientQueueProofs`, `StoresProofs` (of `ProjectStore`, `FrameCache`, `MonitorCache`), `ProjectWriterProofs`, `ProjectSessionProofs`, `AudioEngineProofs`, `ProxyMediaProofs` | inductive invariants, what follows from them, and the refinements `LaneImplementsControl`, `WriterImplementsService`, `StoreImplementsFile`, `CacheImplementsLru` | |
| `KeepingProofs` | lemmas: induction over the natural numbers stated for sets, `Kept` with the order it keeps, queues as sets of entries | |
| `MC...` | instances for TLC: constant definitions and symmetry | |

The layers meet in five places. `SourceLane` extends `SourceCoordinator`, so each of its actions
names the control-plane action it contains. `ProjectSession` runs on `SaveService` and not on the
writer's channel and map, because `ProjectWriter` is proved to implement it. `MonitorCache` runs
on `Lru` and not on counters, because `FrameCache` is proved to implement it. `EditorHistory` takes
every edit from `Timeline`, so an undo meets the same index, links and transitions as the edit did.
`ProxyMedia` extends `ProxyWorkers`: starting a worker, setting its flag and taking its last event are
the application's actions on the workers' variables.

`MCStores` puts `FrameCache`, `MonitorCache` and `ProjectStore` side by side in one instance: `part`
is chosen at the start and only that store moves. They share nothing; a state of one is checked as
in an instance of its own. `MCDecodeControl` does the same with `SourceCoordinator` and `ClientQueue`,
and `MCBackgroundWork` with `ProjectWriter` and `ProxyMedia`, each with the fairness of its part.

### SourceCoordinator

An endpoint is one worker slot of one decoder; the calls on it are serialised by its `control`
mutex, so each is one action, except that a call which changes the source gives its lease back and
asks the registry in two (`SendAcquiring`, then `Acquire`): other endpoints run in between.

| State | Code |
| --- | --- |
| `groups`, `index` | the coordinator's map and its weak references; `index` forgets an actor when the last strong reference goes |
| `lease`, `deferred`, `acquiring` | `CoordinatorEndpoint::active`, `deferred_request`, and the request of a call between the two locks |
| `thread`, `source`, `joinQueue`, `reserved` | actor threads, the reaper's channel and its budget |
| `session`, `active` | sticky sessions and the pool's two counters |
| `latest` | history: the newest unanswered request of an endpoint |

| Action | Code |
| --- | --- |
| `RequestNew`, `RetryDeferred`, `Acquire` | `send_to_with_role`, `retry_deferred_requests`, `acquire` |
| `CancelPending`, `ReleaseLive`, `DeferLive`, `ReleaseSpeculative` | `cancel_pending`, `release_live_sessions`, `defer_live_sessions`, `release_speculative_sessions`; `Shutdown` is a `ReleaseLive` nothing follows |
| `OpenSession`, `CloseSession`, `ExitActor`, `Reap` | `open_sticky_monitor`, the drops of permits, the end of the actor's loop, the reaper |

Left out: diagnostic masks and timings, polling of the wake channel, the failure of FFmpeg's
initialisation and with it the `Closed` answer. The bound check and the increment of the
reservation counter are one step, as `try_reserve` makes them.

### SourceLane and ClientQueue

`SourceLane` adds the command slot of each client, the queue of an actor, the loop of the actor
(`Scan`, `Claim`, the decode steps, `Finish`, `Settle`, `Leave`) and the event slot with
`Publish` and `Receive`. A decode is what libav may do: open, fail to open, produce progress,
follow a newer target of its generation (`Retarget`), fall back to software once, answer, fail, or
notice that it is obsolete. `Finish` and `Settle` are two steps because the code takes the command
under one lock and acts on it under others. Cached pixels are an outcome (`AnswerFromCache`); the
cache itself is `MonitorCache`.

A submit is one step in `SourceLane`; `ClientQueue` takes it apart: two looks at the weak
references, the two mutexes, the actor's pops. There another caller keeps the actor leased, so the
queue lives on while leases come and go; an actor's end is `SourceCoordinator`'s affair.

### Caches

`FrameCache` is `nle-cache` operation by operation, with `MaxAccess` for `u64::MAX`. `LruCache` is
what a client may rely on: the same answers from a plain sequence, oldest first. `ByAge` reads that
sequence off the map: an entry's place is the number of entries accessed no later. `evict_to_budget`'s loop is
a recursive function (`Evicted`) that looks as often as there are entries and stops changing anything once
the bytes fit.

`MonitorCache` has the state of `MonitorFrameCache` (`recent` for the frames, `anchors`, `latest`,
`index`, `order`, `epoch`, `quality`, `sources`) and threads in `decode_monitor_request`:
`Prepare`, `LookUp`, `LookNearby`, `Traverse`, `Complete`, `GiveUp`, `Publish`, one action for each
time the lock is taken; `Reset` is `reset_live_cache`. Every frame has size 1, and the output
size, a part of the key as the medium is, is left out. The path and the scaling quality are not
part of the key; they are kept in the value, so that a frame shows how it was made. A decode ends
with the first frame at or after its target and fails past the last one.

### Projects

`ProjectWriter` has the owner thread (`pending`, the coalescing map; `channel`, one place) and the
worker (takes the map, writes path by path, retains what failed, answers flushes). The catalog
writer (`main.rs:1191`) is the same protocol for one path and drops a failed request; it is not
modelled a second time. A document is the number of its
request; histories `asked`, `image` and `reported` say what was queued and reported.

`ProjectSession` has the hub, the editor and the debounced schedule (`armed`, `due`, `saved`), the
readers and copiers (`job`), their results (`opened`) and the rounds of the final flush
(`closing`). Paths are project ids, as `project_document_path` makes them. The
projects of the first state are those the catalog of an earlier session lists. Left out: opening a
file picked in a dialog and exporting to one, thumbnails, a restore that fails and blocks saving.

`ProjectStore` takes `atomic_write` apart: create, write, sync, copy over the backup (emptied
first), rename; `read_document` reads two files one after the other. `SaveFails` may end a save
at any step, `Crash` and `PowerLoss` may fall between any two, and a power loss may tear what is
not synced. A rename counts as durable: the code's promise to the writer is about a file system
that orders a rename after the synced data. `Damage` is an accident to the primary file from
outside, which `AtomicFile` has as `Accident`. One thread saves, as in the application. A staging file that outlives a crash has a name
no other save uses and is not modelled.

### Timeline and editing session

A document is one value: tracks of clips, titles, transitions per kind of track, the index of clips,
the next ids and whether the canvas cache is still current. `Timeline` has the edits as operators on
that value; one that can be refused returns a set, empty for a refusal. A clip has its place, its
source offset, its link and two fades; gains, effects, colour, keyframes and nested sequences are left
out (the fades stand for what is clamped to a clip's length). `Delta` and `ApplyBatch` are the two
directions of `apply_timeline_delta`.

`EditorHistory` is the machine: `Place`, `Cut` and `Dress` are the commands, `Press`, `Drag` and
`Release` a gesture, `Probe` the answer of a background analysis, `Undo` and `Redo` the stacks. Every
action ends with the frame that follows it, in which the canvas cache is rebuilt if it says that it
is stale (`Show`). An entry of the history carries `seen`, the view that undoing it goes back to, for
the refinement of `History`.

The code leaves its line in three ways, which `Followed` switches on and section 5 describes: a probe
whose answer contradicts a version in the history (`"probe"`), a command or an undo while a gesture
is under way (`"gesture"`), and gestures that give up a clip's provisional length without an entry
(`"silent"`). The run has none of them, so its properties say what holds on the line the code was
written for; with a departure switched on TLC finds the behaviours of section 5.

### Audio engine

| State | Code |
| --- | --- |
| `generation`, `lanes` | `Shared` under its mutex; a lane is its queue, `origin_device_frames`, `decoded_frames`, path and tick |
| `pending`, `shutdown` | `SchedulerState` under its mutex |
| `playing`, `deviceFrames`, `error` | the atomics and the slot of `take_error` |
| `ui`, `callback`, `worker`, `sessions` | where the three threads stand, and the worker's decoders |
| `missed`, the lanes' `steady` | history: frames the callback gave up on since the last seek; no reconcile caught the lane's decoder off guard |

Calls of the application are cut where they give a mutex back: `Seek`, `ReplaceLanes`, `SubmitSeek`;
`Reconcile`, `SubmitReconcile`; `Pause`, `Rewind`; `Drop`, `Shut`, `Join`. The callback reads
`playing` (`CallbackReads`) before it locks (`CallbackMixes`) or gives up (`CallbackMisses`). The
worker takes a job, prepares or resumes a decoder per lane (`StartTarget`), decodes frame by frame
(`QueueFrame`, or `DrainFrame` for a job that was cancelled), and looks after each round for a newer
generation and a newer job. A device frame is one tick and a sample is the tick it was decoded
from, so that what is played can be compared with the clock.

### Proxies

| State | Code |
| --- | --- |
| `cache`, `part`, `content` | the finished files, the oldest first; a temporary file; a version for each original's size and time |
| `build`, `remover` | the two threads: where each stands, its cancel flag and the event it left |
| `app` | `proxy_records`, `proxy_status`, `proxy_validation_pending`, `desired_proxy_media`, `proxy_discovery_suppressed`, `proxy_reconcile_pending`, the two job slots with their media, and the validation requests |
| `results`, `analysis` | answers of the validation worker; a discovery the media analysis has made and not reported |
| `said`, `verified` | history: the user's last word on each media; the checks under way that have found what was recorded |

The build worker is `Prepare` (fingerprint, pruning, removal of what it replaces), `Encode`, `Publish`
(the rename, which looks at nothing), `Published` (the flag once more, then pruning), `Complete` and
`ExitBuild`; each may fail and `Panics` is the thread that unwinds. The removal worker is `RemoveFile`
and `ExitRemover`. `Generate`, `Cancel`, `Enable`, `Delete` and their refusals are the menu;
`PollProxyJob`, `PollProxyDelete` and `PollProxyValidation` are the polls of the event loop, with all
they call (`apply_proxy_event`, `reconcile_proxy_records`, `submit_deferred_proxy_checks`,
`queue_proxy_validation`) inside the same action; `Validate` is the validation worker, `FindCached` and
`RestoreCached` the analysis, `Fallback` a decoder that cannot read a proxy, `OpenProject` the change of
project.

Left out: the cache's limit in bytes, which is a pruning that takes more files than the limit in items
does; relinking an original, which the editor cannot do; the media tool's own process. The validation
worker takes, looks and answers in one step: an answer that has become stale meanwhile finds no ticket,
as one that waits in the channel does. Tokens are the least unused number instead of a counter.

## 3. What is checked

`CHECK_DEADLOCK FALSE` stands in the configurations whose identifiers, edits or saves are bounded:
there a behaviour may run out of them, and in the lane and queue models also because nothing is
left to do once callers are silent.

### Runs that pass

| Run | Properties | Bounds, and why they are enough |
| --- | --- | --- |
| `decode_control`, the coordinator | `BudgetsKept` (types, `LaneBudget`, `GroupBudget`), `LeasesAgree` (`Ownership`, `LeasedActorRuns`), `PermitsExact`, `LatestRetained`, `RetryNeverRegresses`, `RetiredActorsJoined` | three endpoints, two sources, a cap of one group and two actors, two requests: every cap is hit, a request is deferred, survives a later one and is retried, actors retire while others wait and queue behind each other for their join, identities are reused after it |
| `decode_control`, the client queue | `EntriesCounted`, `NoCircularWait`, and no deadlock | two callers and the actor on two mutexes, three clients, room for two: a full queue, and clients that die between the two looks of a prune |
| `source_lane_prewarm` | `SilentPrewarm`, `ActorKeepsToItsSource` | one background lane, two sources, two actors, three requests: silent, visible, silent with retargeting; the old actor is in a decode while the new one starts |
| `source_lane_shared` | `NoLostWakeup`, `QueuedClientServed` | two decoders on one actor, room for both in its queue: clients that are put back while the other submits, a client that dies while queued. With room for one the property fails, see section 4 |
| `stores`, part `frames` | `CacheTypeOK`, `ImplementsLru` | three keys, sizes one to four in a budget of three (a frame too large, one that evicts one, two or all), the counter rolls over after five |
| `stores`, part `monitor` | `CacheMatchesPolicy`, `HitIsNear`, `LatestIsKept` | two threads, a request and those that differ from it in one of epoch, medium, path, quality and scrubbing; three ticks in two anchor buckets, frames at two of them, a tolerance of one, room for two frames and two index entries: any part of the policy changes during a decode, index entries go stale, frames are evicted and inserted again |
| `stores`, part `files` | `SavedStaysReadable`, `ReadIsFresh`, `ImplementsAtomicFile` | four saves, up to two accidents, over nothing and over the file of a newer version: a backup two saves old, failures in succession |
| `background_work`, the writer | `NewestKept`, `FlushIsDurable`, `OwnerServed`, `ImplementsService` | two paths with two saves each: one coalesces or fails and one comes in between |
| `background_work`, the proxies | `StatusTrue`, `LastWordKept`, `CacheTidy`, `RouteIsChecked`, `MediaSettles` | two videos, originals that change once each, room for one proxy and one check, three choices of the user or events of the world in any order among all that goes on by itself (`Budget`): a proxy is built and deleted or switched while its check is under way, a second video finds the slot and the queue taken, a project is opened under a build, a check or a removal. A fourth choice exceeds what TLC finishes in minutes with the liveness properties |
| `project_session` | `ClosedIsSaved`, `LostByOpeningOnly`, `EditIsQueued` | two projects, each new or from an earlier session, three contents, one background job (two exceed what TLC finishes in minutes) |
| `editor_history` | `LayoutValid`, `CacheCurrent`, `OwnedUntouched`, `HistoryExact` | three sessions (a title just added, two linked pairs with a transition between them, a film placed before its probe beside a probed tune), two commands or gesture updates in any order with probes of two lengths, a history of two entries: entries are pushed out, redo is walked and cut off, transitions and links go and come back, a probe falls between an edit and its undo |
| `audio_engine` | `FrameFits`, `HeardOnTime`, `LanesFed`, `DropReturns` | two lanes, one of them on a file that may fail, two seek positions, three calls, packets of two frames, three packets per file, room for two or four frames per lane, two device frames, one missed lock: a job is overtaken before, in and after a packet, a lane joins late and its preroll falls inside a packet, the budget is divided anew while a queue is full |

Where a module's type invariant is no property of its own it is the first conjunct of one
(`ActorKeepsToItsSource`, `EntriesCounted`, `BudgetsKept`, `NewestKept`, `ClosedIsSaved`,
`CacheMatchesPolicy`, `SavedStaysReadable`, `StatusTrue`, `FrameFits`).

`NoCircularWait` stands where a liveness property of the queue's callers might: the standard mutexes
promise no order among waiters, so that a submit returns is not the code's to promise, while that no
two threads wait for each other's lock is.

`HeardOnTime` is about lanes that are `steady`: a reconcile that retained the lane found its decoder
at rest, prepared by the lane's own job and not behind the playhead. The other lanes are the subject
of `audio_retained`. It claims nothing between a seek's reset of the clock and the lanes that replace
the old ones.

### Runs that find what the code does differently

Each of these checks one property that quotes a comment or a document, and TLC's counterexample is
a behaviour of the code. `PROJECT.json` has the quotation and the lines.

| Run | What happens |
| --- | --- |
| `source_lane_latest` | retained work put back in the slot overwrites a newer request, which is never answered |
| `project_session_reopen` | a project opened again before the writer reached the disk comes back old, and is saved over the new state |
| `proxy_delete_intent` | delete is chosen for a video whose check is under way while the slot is taken: the wish is cleared and the delete refused, but the check goes on, and its answer switches the monitor to the proxy and puts the wish back into the project |
| `audio_retained` | a reconcile that overtakes the job of the seek before it: the retained lane's decoder is opened at the new position, the lane still counts from the old one, and it is heard ahead of the clock |

Section 5 lists what else was met.

### Fairness

* `CoordinatorSpec`, `LaneSpec`: weak fairness of the reaper and of every actor's own steps; both
  are threads, and calls into libav return. An endpoint's `Acquire` half completes. `Retarget` and
  `Progress` have no fairness: a decode is free not to do them.
* `WriterSpec`: the worker thread runs, and an owner inside a blocking call goes on when it can.
* `SessionSpec`: the event loop ticks and time passes.
* `ProxySpec`: the workers, the validation worker and the polls of the event loop go on; file operations
  and the media tool return. `WorkSpec` asks less: that something of all this goes on as long as
  anything can, which suffices because none of it goes on for ever.
* `AudioSpec`: a call of the application that began goes on (it waits for mutexes that are held for a
  packet or a mix at most), and the decode worker is a thread that runs. The device callback has no
  fairness: a device may stop calling, and nothing waits for it.
* `ClientQueue`, `EditorHistory` and the stores are checked for safety and refinement only.

Callers and users owe nothing in any of them.

## 4. What is proved

TLAPS checks the following for every value of the constants that satisfies the assumptions named. Each
inductive invariant was an invariant of a TLC run before it was proved.

| Component | Inductive invariant | Properties of the runs that follow |
| --- | --- | --- |
| coordinator | `CoordinatorInv`, `Owed` | `BudgetsKept`, `LeasesAgree`, `PermitsExact`, `LatestRetained`, `RetryNeverRegresses` |
| lanes | `CoordinatorInv`, `LaneInv`, `AllWoken` | `ActorKeepsToItsSource`, `SilentPrewarm`, `NoLostWakeup`; `LaneSafety => CoordinatorSafety` |
| client queue | `QueueInv` | `EntriesCounted`, `NoCircularWait` |
| frame cache | `FramesInv` | `CacheTypeOK`, `ImplementsLru` |
| monitor cache | `MonitorInv` | `CacheMatchesPolicy`, `HitIsNear`, `LatestIsKept` |
| project store | `StoreInv` | `SavedStaysReadable`, `ReadIsFresh`, `ImplementsAtomicFile` |
| project writer | `WriterInv` | `NewestKept`, `FlushIsDurable`, `ImplementsService` |
| projects | `SessionInv` | `ClosedIsSaved`, `LostByOpeningOnly` |
| audio engine | `AudioInv`, `HeardInv` | `FrameFits`, `HeardOnTime` |
| proxies | `ProxyInv` | `StatusTrue`, `LastWordKept`, `CacheTidy`, `RouteIsChecked` |

**Coordinator** (`SourceLaneProofs`, first part, under `CoordinatorConstants`: finite sets of endpoints, keys and
actors, natural caps). `LaneBudget` alone is not inductive: that `reserved` counts live
and unjoined actors needs the fact that a leased actor is never in the join queue
(`LeasedActorRuns`), that no handle waits twice (`Threads`), that the map's weak entries, the
leases and the actors' sources agree (`Ownership`), and that leased sources are among the capped
groups (`Groups`). `PermitsExact` needs that only a running thread holds a session. The proof has a lemma for
handing a lease back (the only step that changes the set of live actors downwards), one for each
way `acquire` ends, and one for each step of an actor and of the reaper. The newest request is never lost
because of `Owed`: outside a call it is the lease's or the deferred one, inside a call the one the call holds,
and a deferred request beside a lease is the lease's own, so that the retry of `retry_deferred_requests` puts
back what is already there.

**Lanes** (`SourceLaneProofs`, second part). `LaneImplementsControl` comes first: every step of the data plane is a step of
the control plane or leaves it alone, so all of the above holds of the lanes. `LaneInv` says where the actor's loop
is and what that means (`InLoop`), that its job is one of its own source and lane (`JobFits`), that its queue
has one entry per queued client (`QueueIsExact`), and that a client belongs to one actor even when its lease has gone. From it follow
`ActorKeepsToItsSource` and `SilentPrewarm`. `NoLostWakeup` has an invariant of its own, `AllWoken`: whoever has
something in the slot of a live lease has an entry in the queue, or the actor holds the client and has its
second look at the slot still to come, or the request waits as the endpoint's deferred one as well. It has a hypothesis, `Cardinality(Endpoint) <= ClientCap`, and needs it: the actor ignores the
refusal when it puts a client back into a full queue (`let _ = ...enqueue_client`,
`nle-decode/src/lib.rs:2449`), and with room for one client out of two and three requests TLC finds the one that nobody will look at. The
constants of the code satisfy the hypothesis by far: `MAX_SOURCE_ACTOR_CLIENTS` is 64
(`nle-decode/src/lib.rs:63`), the endpoints are at most `MONITOR_WORKER_COUNT` (4, `:58`) for each of
`PREVIEW_VIDEO_LAYER_COUNT` (4, `nle-ui-core/src/editor.rs:50`) layers.

**Client queue** (`ClientQueueProofs`, at the grain of the two locks). `QueueInv` relates entries and queued ids
at every point of a submit, of a prune between its two looks, and of a pop, and says which lock each place
in the code holds. That an id is queued without an entry only while its own submit or pop is between the two
locks is `EntriesCounted`; that the two locks are never held crosswise is `NoCircularWait`. A prune filters a sequence
(`Kept`), and what a filter keeps is a fact about a recursive definition: `KeepingProofs` proves it for all
sequences, from the library's theorem that a well-founded order has minimal elements, applied to the *set* of
lengths for which the fact fails (`LeastElement`, `NatSetInduction`, `KeptEntries`).

**Frame cache** (`StoresProofs`, under `FrameCacheConstants`: sizes and budget are numbers, and there are fewer keys
than access generations; the counter of the code is a `u64`, and a map of 2^64 entries does not exist). `FramesInv` says that
some sequence stands for the map: it has the map's keys, values and order of accesses
(`Models`), its bytes are the bytes counted, and they fit. There is only one such sequence, `ByAge` (`ModelsByAge`, by counting: the
rank of an entry is its place, `RankIsPlace`), so every operation is followed on sequences. `GenerationFacts` is the
roll-over: renumbering keeps the order and leaves a generation free, which is what the assumption is for.
`DropKeeps` and `AddKeeps` are the map without an entry and with a newest one; `BytesFreed` is the subtraction that
must not wrap. For the eviction, `EvictedFacts` shows by induction on the looks that what is left
is the sequence from the first place where it fits, and `NewestIsRest` that the abstract cache keeps the same.
`CacheImplementsLru` is the refinement: `GetFrame`, `InsertFrame`, `RemoveFrame` and `ClearFrames` are the operations of their names,
a refused frame is an insert that changes nothing. A byte sum is a recursive function; `BytesOfAppend`, `BytesOfRest` and `BytesWithout` say
what it does at both ends and when a key is taken out.

**Monitor cache** (`StoresProofs`, under `LruCapacity` and `MonitorCacheConstants`: positive limits and intervals, ticks that have frames).
The three properties rest on one invariant, `MonitorInv`. That the index stays within its limit follows only because
whatever is in it is also in its order, so that the oldest to be retired is found (`IndexTrue`). `HitsAreNear` needs that
each frame in the cache is the one a decode of its tick ends with and the keys differ (`Filled`), that an indexed tick is
its frame's own, and that only a thread with a scrub looks at the index (`WorkersTrue`). The frames' paths are those of the
map of sources because an insert happens only while the request is still accepted, and a change of the
sources or of the policy empties the cache in the same step. `LatestStays` needs that a stream's latest key is of that stream
(`StreamsTrue`): an insert takes out the previous latest only in the step that makes a different key the latest, so a latest
frame goes only by eviction.

**Project store** (`StoresProofs`, under `StoreConstants`: the three special contents differ from documents and
from each other). `StoreInv` is `Staged` (the staging file is whole once written and safe
once synced), `Sound` (the project file is never at risk and, unless damaged, holds the last
completed save), `Unsaved` (before the first save there is nothing to load) and `Fresh` (what a load
has seen is as new as what was committed when it began). `StoreImplementsFile` is the refinement of
`AtomicFile`: the rename is the commit, damage is the accident, everything else stutters. `LoadableStays` is
an action property: as long as nothing was damaged, a project that loads goes on loading at every step of a save, crash
or power loss.

**Project writer** (`ProjectWriterProofs`). `WriterInv` says that the newest document and the newest thumbnail
of a path are in the first of three places that has one, in this order: the coalescing map, the worker's
hands, the disk; that documents are in that order too; and which of the two threads a flush, a retry and a
shutdown wait for. A save that fails is put back under what was queued meanwhile (`Retain`), and the
lemmas `CoalesceFacts` and `RetainFacts` say that this keeps the newer document and the newest thumbnail.
`WriterImplementsService` maps what lies between disk and newest request to `SaveService`'s queue: a write
to disk advances the queue, skipping what was coalesced, and the owner's and worker's other steps are a save, a
report, a flush or a stutter.

**Projects** (`ProjectSessionProofs`, under `SessionConstants`: paths are numbers from one). `SessionInv`
adds to the types that a project the hub does not know has had no save (the next id is new because ids have a greatest one,
`GreatestNumber`), that outside the editor and in every round of the final flush the editor's content has been queued, and
what the last flush found. With any number of background threads `LostByOpeningOnly` held only after
`NewestHeld` was strengthened: of three copies under the same id, the last may by chance write what the first had, so
that the file is the newest content again while the editor, and the next save, have the second. `NewestHeld`
therefore asks the editor too.

**Audio engine** (`AudioEngineProofs`, under `AudioConstants`: a finite set of keys, non-empty line-ups that name a key
once, an allowance of at least one packet, positive packet length and budget; the editor makes one target per clip,
`nle-ui-core/src/editor.rs:4213`, and a reconcile refuses a key that is given twice, `nle-audio/src/lib.rs:561`). That a frame of the current job finds its
lane (`FrameFits`) needs that no job is newer than the transport and that the job of the current generation, pending or being
worked on, names only active lanes; a clear, a seek and a reconcile each bump the generation under the lock under
which they change the lanes. That a queue stays inside the hard limit needs that a packet of the current job was begun
below capacity, so that at most `at` frames were added since.

`HeardInv` is what makes `HeardOnTime` inductive. A queue alone says too little: whether the next frame is the one its lane waits for
depends on the worker's decoder, and that on the job. So one job answers for the lanes at any moment: it is about to be
submitted or waits to be taken (`Due`: every steady lane it resumes has its decoder at the frame awaited and untouched
by an older job, `Carried`; every other one begins at the job's tick), or it is the worker's (`Begun`: each
steady lane has failed, or has not had its turn, or its decoder is at the frame awaited or on its way there from before the
start, `UnderWay`). `QueueInTime` says of each queue that its samples are behind the device clock by no more frames
than the callback has missed.

**Proxies** (`ProxyMediaProofs`, under `WorkerConstants` and `MediaConstants`: finite sets of originals and media,
enough originals, a cache and a queue with at least one place). `ProxyInv` has a part for each question. `MediaTrue`: status, record and ticket of a
media agree. `TicketTrue`: a ticket waits for one check that is queued or answered, no other ticket has its token, a
request with its token is of the media's own record and original, and an answer that found it usable is among the
verified ones; this is what makes an answer that arrives late, or in the next project, meet its own ticket or none.
`WordTrue`: what the user said last holds, every media that was spoken about is closed to discoveries, and a build
that the user no longer wants is cancelled. `SlotsTrue` and `ShownTrue`: slots, threads and status agree;
a set flag of a build that has a media is the application's own cancel, so an event "cancelled" never surprises it.
`RoomKept`: while a proxy is made its name is free in the cache and there is room, so that publishing it neither
repeats a name nor exceeds the limit by more than one. A poll takes any number of answers and asks for any number of
deferred checks in the order of a hash map; both are recursive functions (`Answered`, `Asked`), and what they keep is shown
by induction on the number of answers and of media (`AnsweredFacts`, `AskedFacts`), with `Heard` and `Quiet` for what such a
prefix may have changed. There is always a token to spare (`FreshFacts`): a ticket's token is that of a queued request or of
an answer, and of each there are at most `Capacity`, so of the `2 * Capacity + 1` tokens one is free.

Only model-checked: liveness (fairness and ENABLED are beyond the prover), and so `RetiredActorsJoined`,
`QueuedClientServed`, `OwnerServed`, `MediaSettles`, `EditIsQueued`, `LanesFed` and `DropReturns`; and the timeline and its history (`LayoutValid`, `CacheCurrent`,
`OwnedUntouched`, `HistoryExact`), whose edits are folds over sequences of clips. What a fold computes is out of reach as an induction
with an operator parameter; `KeepingProofs` shows the way round for a recursive function, by which the sums and filters of the
caches are proved, and which the edits would need one by one.

## 5. Met while modelling

Behaviours of the code that the models have and that a comment, a document or a test describes
differently; no run is kept for them, and the properties above are stated so that they hold.

* A `Cancel` put into the slot between the actor's look and its restore is overwritten by the
  restore, and the cancelled request is decoded (`nle-decode/src/lib.rs:2447` against `:1671`; the
  comment at `:1391` says that queued work is cleared).
* A client that dies between the two looks of `prune_dead_clients` stays in `queued`, and is counted
  until the actor pops a dead entry or leaves (`nle-decode/src/lib.rs:2508`, `:2512`, `:2520`; the
  test at `:5669` has dead clients not saturate the queue).
* The cache is prepared under one lock and read under the next; another decoder's request may change
  the scaling quality in between, and the answer has that quality
  (`nle-decode/src/lib.rs:2587`, comment at `:2013`).
* A target inserted twice is no anchor the second time, so the next target removes it and its bucket
  is left without a frame (`nle-decode/src/lib.rs:2153`, `:2162`, comment at `:1961`).
* A save after damage to the primary file copies the damaged file over the only good backup before
  it renames; a crash in between leaves nothing to load (`nle-project-io/src/lib.rs:342`; test at
  `:1051`).
* An open that completes while another project is edited replaces the editor; what was edited in the
  quiet period is lost (`nle-app/src/main.rs:7159`, `:6936`; `ARCHITECTURE.md:264`).
* The id of a copy under way is not reserved: a project created meanwhile has the same path
  (`nle-app/src/main.rs:7286`, `:6976`; `README.md:134`).

In the editing session (`EditorHistory` has the first two under `Followed`):

* A probe that answers during a gesture that ripples (or while a transition stands at a provisional
  cut) changes durations outside the history (`nle-ui-core/src/editor.rs:3407`). Undo and redo then
  apply edits to a document they were not made for: clips overlap or a transition loses its handles,
  against the debug assertion at `nle-timeline/src/lib.rs:3436`, and `from_snapshot` refuses the saved
  project. Redoing an insertion made at the end of a clip that has grown since does the same;
  `reconcile_restored_known_durations` (`editor.rs:2447`) repairs only clips that are still provisional.
* Undo during a drag drops the gesture's checkpoint (`editor.rs:2533`, `:2562`) while the drag goes on,
  and a delete by key during a drag is recorded by itself and once more by the release. Undoing both
  entries leaves two titles with one id.
* Gestures that turn out to change nothing still take a clip from the probe, with no entry that gives
  it back.
* Undo of a replaced media changes no layout and therefore not the structural generation
  (`nle-timeline/src/lib.rs:2904`); the track cache keeps the old media column (`:6146`), though the
  comment at `:6191` says that a replaced source must invalidate it. `CacheCurrent` is about placement.
* A slip or a replacement of a provisional clip, undone after a probe, changes its length in the same
  batch, and the canvas stays as it was.
* `redo_timeline` does not clear the selection of a clip that the redo removes, as `undo_timeline` does.
* A click on a fade or gain handle begins a gesture on the press (`editor.rs:14300`), and only
  `drag_stopped` ends it (`:14812`). A press that never becomes a drag leaves the checkpoint behind: the
  next gesture keeps the older one (`:2472`).

In the audio engine (the states of the first four are those `steady` exempts):

* A job cancelled in the middle of a packet drains the packet and drops its frames
  (`nle-audio/src/lib.rs:1369`, `:1446`), so the decoder of a retained lane resumes beyond what the lane
  was given.
* A session that an earlier job left for the same key is resumed without `prepare` when the reconcile
  overtakes the lane's own job (`:1040`).
* A lane retained behind the playhead skips its late frames and then skips by the new job's tick again
  (`:1435`, `:663`).
* A reconcile that supersedes a pending reconcile takes lanes as retained that the superseded job would
  have prepared (`:722`).
* The callback reads `playing` before it locks; a seek in between has its lanes played and its clock
  moved before their job exists, although the comment at `:883` says that the clock is frozen
  (`ClockFrozen`, which the model violates). `HeardOnTime` holds all the same.

In the proxies (`ProxyMedia` has all of it):

* A build that is cancelled between the media tool's last look at the flag and the next one meets
  `unreachable!()` (`nle-proxy/src/lib.rs:328`): the thread panics without an event, and the poll reports a
  failure unless the user's own cancel is on record.
* A build that is cancelled after its last look at the flag (`nle-proxy/src/lib.rs:354`) leaves its file in
  the cache. The application ignores the event, and a later analysis finds the file.
* A build prunes before it encodes. When it then fails, proxies in use may be gone with no record
  checked again; the decoder's fallback is what covers that.

## 6. Not modelled

libav itself, scaling and packing of pixels, rendering, compositing, titles and the widgets of the
user interface: arithmetic and drawing without a protocol. The standalone monitor worker: the
application never builds one. Of the timeline: keyframes, colour, effects, gains and nested
sequences. Export, upscale and waveform jobs and the application's orchestration of monitors: see the
plan.

## 7. Plan

1. Done: the coordinator, the lanes, the client queue, the caches, saving and switching of
   projects, the project store; the timeline with its editing session; the audio engine; proxies. Proved: the
   safety properties of the coordinator, the lanes, the client queue, the store, the writer, the session,
   the caches, the audio engine and the proxies, and all refinements but that of `History`.
2. Jobs with child processes: export (staging, supervision, cancel), upscale, waveform; an abstract job (at most one result,
   no file left behind) that each implements.
3. The application's monitors: layers over decoders, epochs, generations, background preparation,
   composed with the coordinator's interface.
4. The standalone monitor worker, against the same abstract promise as the lanes: the newest
   target is answered or superseded.
5. Proofs: the invariants of the timeline, with its folds rewritten as recursive functions.
