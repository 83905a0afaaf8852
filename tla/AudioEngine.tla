------------------------------ MODULE AudioEngine ------------------------------
(*****************************************************************************)
(* The live audio transport: the application replaces, edits and clears the  *)
(* set of lanes, the decode worker fills their queues from sticky decoder    *)
(* sessions, and the device callback plays them and advances the clock.  The *)
(* three share the lanes under one mutex, the newest decode job under        *)
(* another, and `playing` and the device clock without any.                  *)
(*                                                                           *)
(* One tick of media is one device frame, a sample is the source tick it was *)
(* decoded from, and a clip's source and timeline positions agree.  Gains,   *)
(* fades, effects, meters and diagnostics are left out.                      *)
(*****************************************************************************)
EXTENDS Integers, Sequences, FiniteSets, SequencesExt

CONSTANTS
  Key,          \* lane keys: a track and a clip on it
  Path,         \* media files
  Damaged,      \* files that may fail to open or to decode
  Lineup,       \* what may be audible at once: sequences of [key, path] records
  Cue,          \* ticks a seek may start from
  PacketFrames, \* decoded frames of one packet, one tick each
  Packets,      \* packets of every file
  Reuse,        \* FORWARD_REUSE_TICKS
  Budget,       \* frames all the queues may hold together (MIX_BUFFER_SECONDS)
  Allowance,    \* MAX_DECODED_AUDIO_FRAME_SAMPLES, in frames
  NoJob, NoTick,
  MaxGeneration, MaxClock, MaxMissed \* bounds on calls, device frames and failed locks

ASSUME AudioConstants ==
  /\ IsFiniteSet(Key)
  /\ Damaged \subseteq Path
  /\ \A line \in Lineup :
       /\ line # <<>> /\ line \in Seq([key : Key, path : Path])
       /\ \A i, j \in DOMAIN line : line[i].key = line[j].key => i = j \* one target per clip
  /\ Cue \subseteq Nat
  /\ PacketFrames \in Nat \ {0} /\ Packets \in Nat \ {0}
  /\ Reuse \in Nat /\ Budget \in Nat \ {0}
  /\ Allowance \in Nat /\ Allowance >= PacketFrames \* no packet has more
  /\ MaxGeneration \in Nat /\ MaxClock \in Nat /\ MaxMissed \in Nat
  /\ NoTick \notin Int
  /\ NoJob \notin [generation : Nat, line : Lineup, tick : Nat, resume : SUBSET Key]

VARIABLES
  playing, deviceFrames, \* atomics
  generation, lanes,     \* Shared: the lanes are a function on the active keys
  pending, shutdown,     \* SchedulerState
  error,                 \* the slot take_error empties
  ui,                    \* the application's call: [pc, line, tick, resume]
  sourceTick,            \* where the last seek started
  callback,              \* the callback has read `playing` as TRUE and is to mix
  worker,                \* [pc, job, turn, resumed, done, at, full]
  sessions,              \* the worker's decoders, a function on lane keys
  missed                 \* history: frames the callback failed to lock for since the last seek

clockVars == <<playing, deviceFrames, sourceTick, missed>>
sharedVars == <<generation, lanes>>
queueVars == <<pending, shutdown>>
workVars == <<worker, sessions>>
audioVars == <<clockVars, sharedVars, queueVars, workVars, error, ui, callback>>

-----------------------------------------------------------------------------
(* Lanes.                                                                    *)

KeysOf(line) == {line[i].key : i \in DOMAIN line}
EntryOf(line, k) == CHOOSE e \in ToSet(line) : e.key = k

\* lane_capacity_samples: the lanes share one budget.
Capacity(count) == IF Budget \div count > 0 THEN Budget \div count ELSE 1

\* `steady` is history: no reconcile caught the lane's decoder off guard.
PlaybackLane(path, tick, origin) ==
  [queue |-> <<>>, origin |-> origin, decoded |-> 0, path |-> path, tick |-> tick, steady |-> TRUE]

PlaybackLanes(line, tick, origin) ==
  [k \in KeysOf(line) |-> PlaybackLane(EntryOf(line, k).path, tick, origin)]

\* Frames the device has played since the lane joined.
Consumed(lane) == IF deviceFrames > lane.origin THEN deviceFrames - lane.origin ELSE 0

\* stale_frames_to_skip
StaleFrames(consumed, decoded) == IF consumed > decoded THEN consumed - decoded ELSE 0

\* enqueue_decoded_frame, for the floats a decoded frame left after its preroll.
EnqueueDecodedFrame(k, floats) ==
  LET lane == lanes[k]
      stale == StaleFrames(Consumed(lane), lane.decoded)
      kept == SubSeq(floats, stale + 1, Len(floats))
  IN [lane EXCEPT !.queue = @ \o kept, !.decoded = @ + Len(floats)]

BeyondAllowance(lane) == Len(lane.queue) > Capacity(Cardinality(DOMAIN lanes)) + Allowance
ReachedCapacity(lane) == Len(lane.queue) >= Capacity(Cardinality(DOMAIN lanes))

-----------------------------------------------------------------------------
(* The decode worker's place.                                                *)

Targets == worker.job.line
Turn == Targets[worker.turn]
StillCurrent == worker.job.generation = generation

Resting == [pc |-> "wait", job |-> NoJob, turn |-> 1, resumed |-> {}, done |-> {},
            at |-> 0, full |-> FALSE]

Decoding(k) == worker.pc = "decode" /\ Turn.key = k

\* The decoder of lane k stands where a job for `tick` may resume it: the lane's
\* own job prepared it, it is between packets, and it is not late.
Settled(k, tick) ==
  /\ pending = NoJob
  /\ k \in worker.resumed
  /\ ~Decoding(k)
  /\ k \in DOMAIN sessions
  /\ sessions[k].cursor # NoTick
  /\ sessions[k].cursor >= tick

-----------------------------------------------------------------------------
AudioInit ==
  /\ playing = FALSE /\ deviceFrames = 0 /\ sourceTick = 0 /\ missed = 0
  /\ generation = 0 /\ lanes = <<>>
  /\ pending = NoJob /\ shutdown = FALSE
  /\ error = FALSE
  /\ ui = [pc |-> "idle", line |-> <<>>, tick |-> 0, resume |-> {}]
  /\ callback = FALSE
  /\ worker = Resting /\ sessions = <<>>

-----------------------------------------------------------------------------
(* The application thread.                                                   *)

Call(pc, line, tick, resume) == ui' = [pc |-> pc, line |-> line, tick |-> tick, resume |-> resume]
Return == ui' = [pc |-> "idle", line |-> <<>>, tick |-> 0, resume |-> {}]
Ready == ui.pc = "idle" /\ generation < MaxGeneration

\* seek_and_play_all freezes the clock,
Seek(line, tick) ==
  /\ Ready
  /\ playing' = FALSE
  /\ sourceTick' = tick
  /\ deviceFrames' = 0
  /\ missed' = 0
  /\ Call("replace", line, tick, {})
  /\ UNCHANGED <<sharedVars, queueVars, workVars, error, callback>>

\* replaces every lane under the lock,
ReplaceLanes ==
  /\ ui.pc = "replace"
  /\ generation' = generation + 1
  /\ lanes' = PlaybackLanes(ui.line, ui.tick, 0)
  /\ Call("submit", ui.line, ui.tick, {})
  /\ UNCHANGED <<clockVars, queueVars, workVars, error, callback>>

\* and starts the clock once its decode job is the pending one.
SubmitSeek ==
  /\ ui.pc = "submit"
  /\ pending' = [generation |-> generation, line |-> ui.line, tick |-> ui.tick, resume |-> {}]
  /\ playing' = TRUE
  /\ Return
  /\ UNCHANGED <<deviceFrames, sourceTick, missed, sharedVars, shutdown, workVars, error, callback>>

\* reconcile_targets: retained lanes keep queue and origin, joining ones start now.
Reconciled(line, tick) ==
  [k \in KeysOf(line) |->
     IF k \in DOMAIN lanes
     THEN [lanes[k] EXCEPT !.steady = @ /\ Settled(k, tick)]
     ELSE PlaybackLane(EntryOf(line, k).path, tick, deviceFrames)]

\* A lane whose media was replaced cannot be retained: the call is refused.
SameMedia(line) ==
  \A k \in KeysOf(line) \cap DOMAIN lanes : lanes[k].path = EntryOf(line, k).path

\* The application reconciles when the audible clips change and some stay; the targets
\* stand at the playhead, which follows the device clock.
Reconcile(line) ==
  LET tick == sourceTick + deviceFrames IN
  /\ Ready
  /\ playing
  /\ KeysOf(line) # DOMAIN lanes
  /\ KeysOf(line) \cap DOMAIN lanes # {}
  /\ SameMedia(line)
  /\ generation' = generation + 1
  /\ lanes' = Reconciled(line, tick)
  /\ Call("submit_reconcile", line, tick, KeysOf(line) \cap DOMAIN lanes)
  /\ UNCHANGED <<clockVars, queueVars, workVars, error, callback>>

SubmitReconcile ==
  /\ ui.pc = "submit_reconcile"
  /\ pending' = [generation |-> generation, line |-> ui.line, tick |-> ui.tick,
                 resume |-> ui.resume]
  /\ Return
  /\ UNCHANGED <<clockVars, sharedVars, shutdown, workVars, error, callback>>

\* A mutant: the job under way is not cancelled.
ClearLanesQuietly(next) ==
  /\ playing' = FALSE
  /\ generation' = generation
  /\ lanes' = <<>>
  /\ Call(next, <<>>, 0, {})
  /\ UNCHANGED <<deviceFrames, sourceTick, missed, queueVars, workVars, error, callback>>

\* pause clears the lanes,
ClearLanes(next) ==
  /\ playing' = FALSE
  /\ generation' = generation + 1
  /\ lanes' = <<>>
  /\ Call(next, <<>>, 0, {})
  /\ UNCHANGED <<deviceFrames, sourceTick, missed, queueVars, workVars, error, callback>>

Pause == Ready /\ ClearLanes("rewind")

\* then rewinds the clock and forgets the pending job.
Rewind ==
  /\ ui.pc = "rewind"
  /\ deviceFrames' = 0
  /\ missed' = 0
  /\ pending' = NoJob
  /\ Return
  /\ UNCHANGED <<playing, sourceTick, sharedVars, shutdown, workVars, error, callback>>

\* Dropping the engine pauses it,
Drop == ui.pc = "idle" /\ ClearLanes("shut")

\* shuts the scheduler down,
Shut ==
  /\ ui.pc = "shut"
  /\ deviceFrames' = 0
  /\ missed' = 0
  /\ pending' = NoJob
  /\ shutdown' = TRUE
  /\ Call("join", <<>>, 0, {})
  /\ UNCHANGED <<playing, sourceTick, sharedVars, workVars, error, callback>>

\* and joins the worker.
Join ==
  /\ ui.pc = "join"
  /\ worker.pc = "returned"
  /\ Call("dropped", <<>>, 0, {})
  /\ UNCHANGED <<clockVars, sharedVars, queueVars, workVars, error, callback>>

TakeError ==
  /\ ui.pc = "idle" /\ error
  /\ error' = FALSE
  /\ UNCHANGED <<clockVars, sharedVars, queueVars, workVars, ui, callback>>

-----------------------------------------------------------------------------
(* The device callback, one frame long.  It reads `playing` before it locks. *)

CallbackReads ==
  /\ ~callback
  /\ playing
  /\ deviceFrames < MaxClock
  /\ callback' = TRUE
  /\ UNCHANGED <<clockVars, sharedVars, queueVars, workVars, error, ui>>

\* pop_stereo_frame and the clock tick after it.
Popped(lane) == IF lane.queue = <<>> THEN lane ELSE [lane EXCEPT !.queue = Tail(@)]

CallbackMixes ==
  /\ callback
  /\ lanes' = [k \in DOMAIN lanes |-> Popped(lanes[k])]
  /\ deviceFrames' = deviceFrames + 1
  /\ callback' = FALSE
  /\ UNCHANGED <<playing, sourceTick, missed, generation, queueVars, workVars, error, ui>>

\* The lock stays contended: the device plays silence and the clock goes on.
CallbackMisses ==
  /\ callback
  /\ missed < MaxMissed
  /\ deviceFrames' = deviceFrames + 1
  /\ missed' = missed + 1
  /\ callback' = FALSE
  /\ UNCHANGED <<playing, sourceTick, sharedVars, queueVars, workVars, error, ui>>

-----------------------------------------------------------------------------
(* The decode worker.                                                        *)

Goto(pc) == worker' = [worker EXCEPT !.pc = pc]

WorkerTakes ==
  /\ worker.pc = "wait"
  /\ ~shutdown
  /\ pending # NoJob
  /\ worker' = [Resting EXCEPT !.pc = "target", !.job = [pending EXCEPT !.resume = {}],
                               !.resumed = pending.resume]
  /\ sessions' = [k \in DOMAIN sessions \cap KeysOf(pending.line) |-> sessions[k]]
  /\ pending' = NoJob
  /\ UNCHANGED <<clockVars, sharedVars, shutdown, error, ui, callback>>

WorkerReturns ==
  /\ worker.pc = "wait"
  /\ shutdown
  /\ worker' = [Resting EXCEPT !.pc = "returned"]
  /\ sessions' = <<>>
  /\ UNCHANGED <<clockVars, sharedVars, queueVars, error, ui, callback>>

NeedsOpen(k, path) == IF k \in DOMAIN sessions THEN sessions[k].path # path ELSE TRUE

OpenedSession(path) == [path |-> path, next |-> 0, cursor |-> NoTick, eof |-> FALSE]

\* The packet at or before a tick.
PacketAt(tick) == IF tick \div PacketFrames < Packets THEN tick \div PacketFrames ELSE Packets - 1

\* A mutant: a target behind the cursor is taken for a near one.
ContinuesNear(session, tick) == session.cursor # NoTick /\ tick - session.cursor <= Reuse

\* session_action, for a session of the target's file.
Continues(session, tick) ==
  /\ session.cursor # NoTick
  /\ tick > session.cursor
  /\ tick - session.cursor <= Reuse

Prepared(session, tick) ==
  IF Continues(session, tick) THEN session
  ELSE [session EXCEPT !.next = PacketAt(tick), !.cursor = NoTick, !.eof = FALSE]

With(f, k, v) == [x \in DOMAIN f \cup {k} |-> IF x = k THEN v ELSE f[x]]
Without(f, k) == [x \in DOMAIN f \ {k} |-> f[x]]

\* The loop over the targets of a round.
PassTarget(resumed, done) ==
  worker' = [worker EXCEPT !.pc = IF worker.turn < Len(Targets) THEN "target" ELSE "round",
                           !.turn = IF worker.turn < Len(Targets) THEN @ + 1 ELSE 1,
                           !.resumed = resumed, !.done = done, !.at = 0, !.full = FALSE]

TargetDecoded(k) ==
  PassTarget(worker.resumed \cup {k},
             IF sessions'[k].eof THEN worker.done \cup {k} ELSE worker.done)

SkipTarget ==
  /\ worker.pc = "target"
  /\ Turn.key \in worker.done
  /\ PassTarget(worker.resumed, worker.done)
  /\ UNCHANGED <<clockVars, sharedVars, queueVars, sessions, error, ui, callback>>

\* A mutant: a full lane is decoded on.
MayDecodeOn(k) == StillCurrent /\ k \in DOMAIN lanes

\* The lane has room; a job that is not the current one stops here.
MayDecode(k) ==
  /\ StillCurrent
  /\ k \in DOMAIN lanes
  /\ ~ReachedCapacity(lanes[k])

\* Only a decoder that was retained may skip prepare.
StartTarget ==
  LET k == Turn.key
      opened == IF NeedsOpen(k, Turn.path) THEN OpenedSession(Turn.path) ELSE sessions[k]
      resume == k \in worker.resumed /\ ~NeedsOpen(k, Turn.path)
  IN
  /\ worker.pc = "target"
  /\ k \notin worker.done
  /\ sessions' = With(sessions, k, IF resume THEN opened ELSE Prepared(opened, worker.job.tick))
  /\ IF MayDecode(k) THEN Goto("decode") ELSE TargetDecoded(k)
  /\ UNCHANGED <<clockVars, sharedVars, queueVars, error, ui, callback>>

\* An error ends the lane and is reported while its job is the current one.
TargetFails ==
  /\ PassTarget(worker.resumed \ {Turn.key}, worker.done \cup {Turn.key})
  /\ error' = (error \/ StillCurrent)
  /\ UNCHANGED <<clockVars, sharedVars, queueVars, ui, callback>>

DropSession == sessions' = Without(sessions, Turn.key)

\* The lane's decoder of another file stays if the target's cannot be opened,
OpenFails ==
  /\ worker.pc = "target"
  /\ Turn.key \notin worker.done
  /\ Turn.path \in Damaged
  /\ NeedsOpen(Turn.key, Turn.path)
  /\ UNCHANGED sessions
  /\ TargetFails

\* and is dropped if it cannot be moved to the target, be the lane full or the job cancelled.
PrepareFails ==
  LET k == Turn.key IN
  /\ worker.pc = "target"
  /\ k \notin worker.done
  /\ Turn.path \in Damaged
  /\ ~NeedsOpen(k, Turn.path) =>
       k \notin worker.resumed /\ ~Continues(sessions[k], worker.job.tick)
  /\ DropSession
  /\ TargetFails

\* decode_into_queue reads packets and drains the frames of each.  `at` counts the
\* frames of the last packet that are behind; at 0 the next frame needs a packet.
PacketsRead == IF worker.at = 0 THEN sessions[Turn.key].next + 1 ELSE sessions[Turn.key].next
FrameTick == (PacketsRead - 1) * PacketFrames + worker.at
FrameNext == worker.pc = "decode" /\ PacketsRead <= Packets
PacketEnds == worker.at + 1 = PacketFrames

\* What the preroll leaves of the frame.
Floats == IF FrameTick < worker.job.tick THEN <<>> ELSE <<FrameTick>>

\* The cursor moves with every frame, queued or not.
FrameDecoded ==
  sessions' = [sessions EXCEPT ![Turn.key].next = PacketsRead, ![Turn.key].cursor = FrameTick + 1]

QueueFrame ==
  LET lane == EnqueueDecodedFrame(Turn.key, Floats)
      full == worker.full \/ ReachedCapacity(lane)
  IN
  /\ FrameNext
  /\ StillCurrent
  /\ ~BeyondAllowance(lane)
  /\ FrameDecoded
  /\ lanes' = [lanes EXCEPT ![Turn.key] = lane]
  /\ IF ~PacketEnds THEN worker' = [worker EXCEPT !.at = @ + 1, !.full = full]
     ELSE IF full THEN TargetDecoded(Turn.key)
     ELSE worker' = [worker EXCEPT !.at = 0]
  /\ UNCHANGED <<clockVars, generation, queueVars, error, ui, callback>>

\* A cancelled job drains its packet and drops what it decodes.
DrainFrame ==
  /\ FrameNext
  /\ ~StillCurrent
  /\ FrameDecoded
  /\ IF PacketEnds THEN TargetDecoded(Turn.key) ELSE worker' = [worker EXCEPT !.at = @ + 1]
  /\ UNCHANGED <<clockVars, sharedVars, queueVars, error, ui, callback>>

DecodeFails ==
  /\ FrameNext
  /\ Turn.path \in Damaged \/ (StillCurrent /\ BeyondAllowance(EnqueueDecodedFrame(Turn.key, Floats)))
  /\ DropSession
  /\ TargetFails

\* Packets of other streams are skipped, but a cancelled job returns at one.
OtherStream ==
  /\ worker.pc = "decode" /\ worker.at = 0
  /\ ~StillCurrent
  /\ UNCHANGED sessions
  /\ TargetDecoded(Turn.key)
  /\ UNCHANGED <<clockVars, sharedVars, queueVars, error, ui, callback>>

ReadEnd ==
  /\ worker.pc = "decode"
  /\ PacketsRead > Packets
  /\ sessions' = [sessions EXCEPT ![Turn.key].eof = TRUE]
  /\ TargetDecoded(Turn.key)
  /\ UNCHANGED <<clockVars, sharedVars, queueVars, error, ui, callback>>

\* A mutant: only a pending job ends a round that has work left.
CheckGenerationNever ==
  /\ worker.pc = "round"
  /\ Goto("look")
  /\ UNCHANGED <<clockVars, sharedVars, queueVars, sessions, error, ui, callback>>

\* After a round: the generation, under the lock of the lanes,
CheckGeneration ==
  /\ worker.pc = "round"
  /\ worker' = IF StillCurrent THEN [worker EXCEPT !.pc = "look"] ELSE Resting
  /\ UNCHANGED <<clockVars, sharedVars, queueVars, sessions, error, ui, callback>>

\* A mutant: the first lane at its end stops the rounds.
CheckPendingAnyEnd ==
  /\ worker.pc = "look"
  /\ worker' = IF pending # NoJob THEN Resting
               ELSE [worker EXCEPT !.pc = IF worker.done # {} THEN "wait" ELSE "target"]
  /\ UNCHANGED <<clockVars, sharedVars, queueVars, sessions, error, ui, callback>>

\* then the pending job, under the scheduler's; with every lane at its end the
\* worker waits for the next job, otherwise it goes round again.
CheckPending ==
  /\ worker.pc = "look"
  /\ worker' = IF pending # NoJob THEN Resting
               ELSE [worker EXCEPT !.pc = IF worker.done = KeysOf(Targets) THEN "wait" ELSE "target"]
  /\ UNCHANGED <<clockVars, sharedVars, queueVars, sessions, error, ui, callback>>

-----------------------------------------------------------------------------
UiStep == ReplaceLanes \/ SubmitSeek \/ SubmitReconcile \/ Rewind \/ Shut \/ Join

CallbackStep == CallbackReads \/ CallbackMixes \/ CallbackMisses

WorkerStep ==
  \/ WorkerTakes \/ WorkerReturns
  \/ StartTarget \/ SkipTarget \/ OpenFails \/ PrepareFails
  \/ QueueFrame \/ DrainFrame \/ OtherStream \/ DecodeFails \/ ReadEnd
  \/ CheckGeneration \/ CheckPending

AudioNext ==
  \/ \E line \in Lineup, tick \in Cue : Seek(line, tick)
  \/ \E line \in Lineup : Reconcile(line)
  \/ Pause \/ Drop \/ TakeError
  \/ UiStep \/ CallbackStep \/ WorkerStep

AudioSafety == AudioInit /\ [][AudioNext]_audioVars

\* A call that began goes on, and the worker thread runs.
AudioSpec == AudioSafety /\ WF_audioVars(UiStep) /\ WF_audioVars(WorkerStep)

-----------------------------------------------------------------------------
(* Safety.                                                                   *)

Lane == [queue : Seq(Int), origin : Nat, decoded : Nat, path : Path, tick : Nat, steady : BOOLEAN]
Job == [generation : Nat, line : Lineup, tick : Nat, resume : SUBSET Key]
Session == [path : Path, next : Nat, cursor : Int \cup {NoTick}, eof : BOOLEAN]

FlagsTypeOK ==
  playing \in BOOLEAN /\ callback \in BOOLEAN /\ error \in BOOLEAN /\ shutdown \in BOOLEAN

TransportTypeOK ==
  /\ deviceFrames \in Nat /\ sourceTick \in Nat /\ missed \in Nat /\ generation \in Nat
  /\ pending \in Job \cup {NoJob}

LanesTypeOK == DOMAIN lanes \subseteq Key /\ lanes \in [DOMAIN lanes -> Lane]

SessionsTypeOK == DOMAIN sessions \subseteq Key /\ sessions \in [DOMAIN sessions -> Session]

UiTypeOK ==
  /\ ui \in [pc : {"idle", "replace", "submit", "submit_reconcile", "rewind", "shut", "join", "dropped"},
             line : Lineup \cup {<<>>}, tick : Nat, resume : SUBSET Key]
  /\ ui.pc \in {"replace", "submit", "submit_reconcile"} => ui.line \in Lineup

WorkerTypeOK ==
  /\ worker \in [pc : {"wait", "target", "decode", "round", "look", "returned"},
                 job : Job \cup {NoJob}, turn : Nat \ {0}, resumed : SUBSET Key, done : SUBSET Key,
                 at : Nat, full : BOOLEAN]
  /\ worker.pc \in {"target", "decode", "round", "look"} =>
       worker.job \in Job /\ worker.turn \in 1..Len(Targets)
  /\ worker.pc = "decode" => Turn.key \in DOMAIN sessions /\ worker.at < PacketFrames

AudioTypeOK ==
  /\ FlagsTypeOK /\ TransportTypeOK /\ LanesTypeOK
  /\ SessionsTypeOK /\ UiTypeOK /\ WorkerTypeOK

\* The variables have their types.  A frame decoded for the current job finds its lane (enqueue_decoded_frame expects an
\* "active audio lane"), and a packet that starts below capacity never runs into the hard
\* limit that ends the lane with an error, whatever clears, seeks and reconciles that
\* redivide the budget come meanwhile.
FrameFits ==
  /\ AudioTypeOK
  /\ FrameNext /\ StillCurrent =>
       /\ Turn.key \in DOMAIN lanes
       /\ ~BeyondAllowance(EnqueueDecodedFrame(Turn.key, Floats))

\* The next sample of a lane is the one for the device clock: never ahead of it,
\* and behind it by no more than the frames the callback failed to lock for.
\* Between a seek's reset of the clock and its new lanes nothing is claimed.
OnTime(lane) ==
  lane.queue # <<>> =>
    /\ Head(lane.queue) <= lane.tick + Consumed(lane)
    /\ Head(lane.queue) >= lane.tick + Consumed(lane) - missed

HeardOnTime == ui.pc # "replace" => \A k \in DOMAIN lanes : lanes[k].steady => OnTime(lanes[k])

\* The same for every lane a reconcile retained, wherever its decoder was.
RetainedHeardOnTime == ui.pc # "replace" => \A k \in DOMAIN lanes : OnTime(lanes[k])

\* The device clock stands at zero until the lanes it is to drive play.
ClockFrozen == ui.pc = "submit" => deviceFrames = 0

-----------------------------------------------------------------------------
(* Liveness.                                                                 *)

\* Every active lane is decoded to its capacity, to the end of its file or to an
\* error, unless the transport moves on.
Satisfied(k) ==
  k \in DOMAIN lanes => ReachedCapacity(lanes[k]) \/ k \in worker.done

LanesFed ==
  \A k \in Key : []<>(Satisfied(k) \/ ui.pc = "dropped")

\* Dropping the engine never waits for ever on its worker.
DropReturns == (ui.pc = "join") ~> (ui.pc = "dropped")
=============================================================================
