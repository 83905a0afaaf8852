-------------------------- MODULE AudioEngineProofs --------------------------
(*****************************************************************************)
(* Whatever clears, seeks and reconciles overlap with the decode worker and  *)
(* the device callback, a frame decoded for the current job finds its lane   *)
(* and fits in its queue, and what a lane plays belongs to the device clock; *)
(* for any number of lanes, files and calls.                                 *)
(*****************************************************************************)
EXTENDS AudioEngine, FiniteSetTheorems, SequenceTheorems, TLAPS

HasJob == worker.pc \in {"target", "decode", "round", "look"}

\* A job is not newer than the transport, and the current one has lanes.
Covered(job) ==
  /\ job.generation <= generation
  /\ job.generation = generation => KeysOf(job.line) \subseteq DOMAIN lanes

\* A packet was begun below capacity, and each of its frames adds at most one.
InPacket == Len(lanes[Turn.key].queue) < Capacity(Cardinality(DOMAIN lanes)) + worker.at

JobsCovered ==
  /\ ui.pc \in {"submit", "submit_reconcile"} => KeysOf(ui.line) = DOMAIN lanes
  /\ pending # NoJob => Covered(pending)
  /\ HasJob => Covered(worker.job)

PacketsFit ==
  /\ worker.pc \in {"target", "round", "look"} => worker.at = 0
  /\ worker.pc = "decode" /\ StillCurrent => InPacket

AudioInv == AudioTypeOK /\ JobsCovered /\ PacketsFit

-----------------------------------------------------------------------------
(* The operators.                                                            *)

LEMMA PacketLength == PacketFrames \in Nat \ {0}
BY AudioConstants

LEMMA CapacityIsPositive ==
  ASSUME NEW count \in Nat \ {0}
  PROVE  Capacity(count) \in Nat \ {0}
BY AudioConstants DEF Capacity

LEMMA LineKeys ==
  ASSUME NEW line \in Lineup
  PROVE  /\ KeysOf(line) \subseteq Key
         /\ \A i \in DOMAIN line : line[i] \in [key : Key, path : Path] /\ line[i].key \in KeysOf(line)
         /\ \A k \in KeysOf(line) : EntryOf(line, k) \in [key : Key, path : Path]
<1>1. line \in Seq([key : Key, path : Path])
  BY AudioConstants
<1>2. \A i \in DOMAIN line : line[i] \in [key : Key, path : Path]
  BY <1>1, LenProperties, ElementOfSeq
<1>3. \A i \in DOMAIN line : line[i].key \in KeysOf(line)
  BY DEF KeysOf
<1>4. KeysOf(line) \subseteq Key
  BY <1>2 DEF KeysOf
<1>5. ASSUME NEW k \in KeysOf(line)
      PROVE  EntryOf(line, k) \in [key : Key, path : Path]
  <2>1. PICK i \in DOMAIN line : line[i].key = k
    BY DEF KeysOf
  <2>2. line[i] \in ToSet(line)
    BY DEF ToSet
  <2>3. EntryOf(line, k) \in ToSet(line)
    BY <2>1, <2>2 DEF EntryOf
  <2> QED BY <2>3, <1>2 DEF ToSet
<1> QED BY <1>2, <1>3, <1>4, <1>5

LEMMA LaneCount ==
  ASSUME AudioTypeOK, NEW k \in DOMAIN lanes
  PROVE  Capacity(Cardinality(DOMAIN lanes)) \in Nat \ {0}
<1>1. IsFiniteSet(DOMAIN lanes)
  BY FS_Subset, AudioConstants DEF AudioTypeOK, LanesTypeOK
<1>2. Cardinality(DOMAIN lanes) \in Nat
  BY <1>1, FS_CardinalityType
<1>3. Cardinality(DOMAIN lanes) # 0
  BY <1>1, FS_EmptySet
<1> QED BY <1>2, <1>3, CapacityIsPositive

\* What is left of a decoded frame makes the queue at most one longer.
LEMMA Enqueued ==
  ASSUME AudioTypeOK, NEW k \in DOMAIN lanes,
         NEW floats, floats = <<>> \/ \E t \in Int : floats = <<t>>
  PROVE  /\ EnqueueDecodedFrame(k, floats) \in Lane
         /\ Len(EnqueueDecodedFrame(k, floats).queue) <= Len(lanes[k].queue) + 1
<1>1. lanes[k] \in Lane
  BY DEF AudioTypeOK, LanesTypeOK
<1>2. PICK stale \in Nat : stale = StaleFrames(Consumed(lanes[k]), lanes[k].decoded)
  BY <1>1 DEF AudioTypeOK, TransportTypeOK, StaleFrames, Consumed, Lane
<1> DEFINE kept == SubSeq(floats, stale + 1, Len(floats))
<1>3. floats \in Seq(Int) /\ (Len(floats) = 0 \/ Len(floats) = 1)
  <2>1. CASE floats = <<>>
    BY <2>1
  <2>2. ASSUME NEW t \in Int, floats = <<t>>
        PROVE  floats \in Seq(Int) /\ Len(floats) = 1
    BY <2>2
  <2> QED BY <2>1, <2>2
<1>4. kept \in Seq(Int) /\ (Len(kept) = 0 \/ Len(kept) = 1)
  <2>1. CASE Len(floats) < stale + 1
    <3>1. kept = <<>>
      BY <2>1, <1>2, <1>3, SubSeqEmpty
    <3> QED BY <3>1
  <2>2. CASE Len(floats) = 1 /\ stale = 0
    <3>1. kept = SubSeq(floats, 1, 1) /\ floats[1] \in Int
      BY <2>2, <1>3
    <3>2. \A i \in 1..1 : floats[i] \in Int
      BY <3>1
    <3> QED BY <3>1, <3>2, SubSeqProperties
  <2>3. ASSUME NEW n \in Nat, n = 0 \/ n = 1
        PROVE  n < stale + 1 \/ (n = 1 /\ stale = 0)
    BY <2>3
  <2>4. Len(floats) \in Nat /\ (Len(floats) = 0 \/ Len(floats) = 1)
    BY <1>3
  <2>5. Len(floats) < stale + 1 \/ (Len(floats) = 1 /\ stale = 0)
    BY <2>3, <2>4
  <2> QED BY <2>1, <2>2, <2>5
<1> DEFINE queue == lanes[k].queue \o kept
           decoded == lanes[k].decoded + Len(floats)
<1>5. queue \in Seq(Int) /\ Len(queue) <= Len(lanes[k].queue) + 1 /\ decoded \in Nat
  BY <1>1, <1>3, <1>4 DEF Lane
<1>6. EnqueueDecodedFrame(k, floats) = [lanes[k] EXCEPT !.queue = queue, !.decoded = decoded]
  BY <1>2 DEF EnqueueDecodedFrame
<1> HIDE DEF kept, queue, decoded
<1>7. [lanes[k] EXCEPT !.queue = queue, !.decoded = decoded] \in Lane
  BY <1>1, <1>5 DEF Lane
<1>8. [lanes[k] EXCEPT !.queue = queue, !.decoded = decoded].queue = queue
  BY <1>1 DEF Lane
<1> QED BY <1>5, <1>6, <1>7, <1>8

LEMMA FloatsOfAFrame ==
  ASSUME AudioTypeOK, worker.pc = "decode"
  PROVE  /\ FrameTick \in Int
         /\ PacketsRead \in Nat
         /\ Floats = <<>> \/ \E t \in Int : Floats = <<t>>
<1>1. sessions[Turn.key] \in Session /\ worker.at \in Nat
  BY DEF AudioTypeOK, SessionsTypeOK, WorkerTypeOK
<1>2. PacketsRead \in Nat /\ FrameTick \in Int
  BY <1>1, AudioConstants DEF PacketsRead, FrameTick, Session
<1> QED BY <1>2 DEF Floats

\* The target whose turn it is.
LEMMA TurnFacts ==
  ASSUME AudioTypeOK, HasJob
  PROVE  /\ worker.job \in Job /\ Targets \in Lineup /\ Len(Targets) \in Nat
         /\ Turn.key \in Key /\ Turn.path \in Path
         /\ Turn.key \in KeysOf(Targets) /\ KeysOf(Targets) \subseteq Key
<1>1. worker.job \in Job /\ worker.turn \in 1..Len(Targets)
  BY DEF AudioTypeOK, WorkerTypeOK, HasJob
<1>2. Targets \in Lineup
  BY <1>1 DEF Targets, Job
<1>3. Targets \in Seq([key : Key, path : Path])
  BY <1>2, AudioConstants
<1>4. worker.turn \in DOMAIN Targets /\ Len(Targets) \in Nat
  BY <1>1, <1>3, LenProperties
<1>5. Turn \in [key : Key, path : Path] /\ Turn.key \in KeysOf(Targets)
  BY <1>2, <1>4, LineKeys DEF Turn
<1> QED BY <1>1, <1>2, <1>4, <1>5, LineKeys

\* After a target the worker turns to the next one or ends the round.
TurnPassed ==
  WorkerTypeOK' /\ worker'.pc \in {"target", "round"} /\ worker'.job = worker.job /\ worker'.at = 0

LEMMA Passed ==
  ASSUME AudioTypeOK, HasJob, NEW resumed \in SUBSET Key, NEW done \in SUBSET Key,
         PassTarget(resumed, done)
  PROVE  TurnPassed
<1>1. worker.job \in Job /\ Len(Targets) \in Nat /\ worker.turn \in 1..Len(Targets)
  BY TurnFacts DEF AudioTypeOK, WorkerTypeOK, HasJob
<1>2. ASSUME NEW pc \in {"target", "round"}, NEW turn \in 1..Len(Targets),
             worker' = [worker EXCEPT !.pc = pc, !.turn = turn, !.resumed = resumed,
                                      !.done = done, !.at = 0, !.full = FALSE]
      PROVE  TurnPassed
  <2>1. worker'.pc = pc /\ worker'.job = worker.job /\ worker'.turn = turn /\ worker'.at = 0
    BY <1>2 DEF AudioTypeOK, WorkerTypeOK
  <2>2. Targets' = Targets
    BY <2>1 DEF Targets
  <2>3. turn \in Nat \ {0}
    BY <1>1
  <2>4. WorkerTypeOK'
    BY <1>1, <1>2, <2>1, <2>2, <2>3 DEF AudioTypeOK, WorkerTypeOK
  <2> QED BY <2>1, <2>4 DEF TurnPassed
<1>3. CASE worker.turn < Len(Targets)
  <2>1. worker.turn + 1 \in 1..Len(Targets)
    BY <1>1, <1>3
  <2>2. worker' = [worker EXCEPT !.pc = "target", !.turn = worker.turn + 1, !.resumed = resumed,
                                 !.done = done, !.at = 0, !.full = FALSE]
    BY <1>3 DEF PassTarget
  <2> QED BY <2>1, <2>2, <1>2
<1>4. CASE ~(worker.turn < Len(Targets))
  <2>1. 1 \in 1..Len(Targets)
    BY <1>1
  <2>2. worker' = [worker EXCEPT !.pc = "round", !.turn = 1, !.resumed = resumed,
                                 !.done = done, !.at = 0, !.full = FALSE]
    BY <1>4 DEF PassTarget
  <2> QED BY <2>1, <2>2, <1>2
<1> QED BY <1>3, <1>4

LEMMA DecodedPasses ==
  ASSUME AudioTypeOK, HasJob, TargetDecoded(Turn.key)
  PROVE  TurnPassed
<1>1. worker.resumed \cup {Turn.key} \in SUBSET Key /\ worker.done \cup {Turn.key} \in SUBSET Key
  BY TurnFacts DEF AudioTypeOK, WorkerTypeOK
<1>2. worker.done \in SUBSET Key
  BY DEF AudioTypeOK, WorkerTypeOK
<1> QED BY <1>1, <1>2, Passed DEF TargetDecoded

LEMMA PreparedSession ==
  ASSUME NEW session \in Session, NEW tick \in Nat
  PROVE  Prepared(session, tick) \in Session
<1>1. PacketAt(tick) \in Nat
  BY AudioConstants DEF PacketAt
<1> QED BY <1>1 DEF Prepared, Session

\* A step of the worker that leaves the transport and the lanes' keys alone leaves the
\* jobs covered.
LEMMA JobsStayCovered ==
  ASSUME JobsCovered, UNCHANGED <<ui, pending, generation>>, DOMAIN lanes' = DOMAIN lanes,
         HasJob' => HasJob /\ worker'.job = worker.job
  PROVE  JobsCovered'
BY DEF JobsCovered, Covered

LEMMA NewLanes ==
  ASSUME NEW line \in Lineup, NEW tick \in Nat, NEW origin \in Nat
  PROVE  PlaybackLanes(line, tick, origin) \in [KeysOf(line) -> Lane]
<1>1. <<>> \in Seq(Int)
  OBVIOUS
<1>2. ASSUME NEW k \in KeysOf(line)
      PROVE  PlaybackLane(EntryOf(line, k).path, tick, origin) \in Lane
  BY <1>1, LineKeys DEF PlaybackLane, Lane
<1> QED BY <1>2 DEF PlaybackLanes

LEMMA ReconciledLanes ==
  ASSUME AudioTypeOK, NEW line \in Lineup, NEW tick \in Nat
  PROVE  Reconciled(line, tick) \in [KeysOf(line) -> Lane]
<1>1. <<>> \in Seq(Int)
  OBVIOUS
<1>2. ASSUME NEW k \in KeysOf(line), k \in DOMAIN lanes
      PROVE  [lanes[k] EXCEPT !.steady = @ /\ Settled(k, tick)] \in Lane
  BY <1>2 DEF AudioTypeOK, LanesTypeOK, Lane
<1>3. ASSUME NEW k \in KeysOf(line)
      PROVE  PlaybackLane(EntryOf(line, k).path, tick, deviceFrames) \in Lane
  BY <1>1, LineKeys DEF PlaybackLane, Lane, AudioTypeOK, TransportTypeOK
<1> QED BY <1>2, <1>3 DEF Reconciled

\* What the application's thread does.
ApplicationStep ==
  \/ \E line \in Lineup, tick \in Cue : Seek(line, tick)
  \/ \E line \in Lineup : Reconcile(line)
  \/ Pause \/ Drop \/ TakeError \/ UiStep

LEMMA ApplicationKeeps ==
  ASSUME AudioInv, ApplicationStep
  PROVE  AudioInv'
<1>1. CASE \E line \in Lineup, tick \in Cue : Seek(line, tick)
  <2>1. FlagsTypeOK'
    BY <1>1 DEF AudioInv, AudioTypeOK, FlagsTypeOK, Seek, Call, Ready, queueVars
  <2>2. TransportTypeOK'
    BY <1>1, AudioConstants
    DEF AudioInv, AudioTypeOK, TransportTypeOK, Seek, Call, Ready, sharedVars, queueVars
  <2>3. LanesTypeOK' /\ SessionsTypeOK'
    BY <1>1
    DEF AudioInv, AudioTypeOK, LanesTypeOK, SessionsTypeOK, Seek, Call, Ready, sharedVars,
        workVars
  <2>4. UiTypeOK' /\ WorkerTypeOK'
    BY <1>1, AudioConstants
    DEF AudioInv, AudioTypeOK, UiTypeOK, WorkerTypeOK, Turn, Targets, Seek, Call, Ready,
        workVars
  <2>5. AudioTypeOK'
    BY <2>1, <2>2, <2>3, <2>4 DEF AudioTypeOK
  <2>6. JobsCovered'
    BY <1>1
    DEF AudioInv, AudioTypeOK, TransportTypeOK, WorkerTypeOK, JobsCovered, Covered, HasJob,
        Job, Seek, Call, Ready, sharedVars, queueVars, workVars
  <2>7. PacketsFit'
    BY <1>1
    DEF AudioInv, AudioTypeOK, TransportTypeOK, WorkerTypeOK, JobsCovered, Covered, HasJob,
        Job, PacketsFit, InPacket, StillCurrent, Turn, Targets, Seek, Call, Ready,
        sharedVars, queueVars, workVars
  <2> QED BY <2>5, <2>6, <2>7 DEF AudioInv
<1>2. CASE ReplaceLanes
  <2>1. ui.line \in Lineup /\ ui.tick \in Nat /\ ui.pc = "replace"
    BY <1>2 DEF AudioInv, AudioTypeOK, UiTypeOK, ReplaceLanes
  <2>2. lanes' \in [KeysOf(ui.line) -> Lane] /\ KeysOf(ui.line) \subseteq Key
    BY <1>2, <2>1, NewLanes, LineKeys DEF ReplaceLanes
  <2>3. ui' = [pc |-> "submit", line |-> ui.line, tick |-> ui.tick, resume |-> {}]
    BY <1>2 DEF ReplaceLanes, Call
  <2>4. generation \in Nat /\ generation' = generation + 1
    BY <1>2 DEF AudioInv, AudioTypeOK, TransportTypeOK, ReplaceLanes
  <2>5. LanesTypeOK'
    BY <2>2 DEF LanesTypeOK
  <2>6. UiTypeOK'
    BY <2>1, <2>3 DEF UiTypeOK
  <2>7. AudioTypeOK'
    BY <1>2, <2>4, <2>5, <2>6
    DEF AudioInv, AudioTypeOK, FlagsTypeOK, TransportTypeOK, SessionsTypeOK, WorkerTypeOK, Turn,
        Targets, ReplaceLanes, clockVars, queueVars, workVars
  <2>8. JobsCovered'
    BY <1>2, <2>2, <2>3, <2>4
    DEF AudioInv, AudioTypeOK, TransportTypeOK, WorkerTypeOK, JobsCovered, Covered, HasJob, Job,
        ReplaceLanes, queueVars, workVars
  <2>9. PacketsFit'
    BY <1>2, <2>4
    DEF AudioInv, AudioTypeOK, WorkerTypeOK, JobsCovered, Covered, HasJob, Job, PacketsFit,
        StillCurrent, ReplaceLanes, workVars
  <2> QED BY <2>7, <2>8, <2>9 DEF AudioInv
<1>3. CASE SubmitSeek
  <2>1. FlagsTypeOK'
    BY <1>3 DEF AudioInv, AudioTypeOK, FlagsTypeOK, SubmitSeek, Return
  <2>2. AudioTypeOK'
    BY <1>3, <2>1, AudioConstants
    DEF AudioInv, AudioTypeOK, TransportTypeOK, LanesTypeOK, SessionsTypeOK, UiTypeOK,
        WorkerTypeOK, Turn, Targets, Job, SubmitSeek, Return, sharedVars, workVars
  <2>3. JobsCovered'
    BY <1>3
    DEF AudioInv, AudioTypeOK, TransportTypeOK, WorkerTypeOK, JobsCovered, Covered, HasJob,
        Job, SubmitSeek, Return, sharedVars, workVars
  <2>4. PacketsFit'
    BY <1>3
    DEF AudioInv, AudioTypeOK, TransportTypeOK, WorkerTypeOK, JobsCovered, Covered, HasJob,
        Job, PacketsFit, InPacket, StillCurrent, Turn, Targets, SubmitSeek, Return,
        sharedVars, workVars
  <2> QED BY <2>2, <2>3, <2>4 DEF AudioInv
<1>4. ASSUME NEW line \in Lineup, Reconcile(line)
      PROVE  AudioInv'
  <2> DEFINE tick == sourceTick + deviceFrames
             resume == KeysOf(line) \cap DOMAIN lanes
  <2>1. tick \in Nat /\ resume \in SUBSET Key
    BY LineKeys DEF AudioInv, AudioTypeOK, TransportTypeOK
  <2>2. lanes' \in [KeysOf(line) -> Lane] /\ KeysOf(line) \subseteq Key
    BY <1>4, <2>1, ReconciledLanes, LineKeys DEF AudioInv, Reconcile
  <2>3. ui' = [pc |-> "submit_reconcile", line |-> line, tick |-> tick, resume |-> resume]
    BY <1>4 DEF Reconcile, Call
  <2>4. generation \in Nat /\ generation' = generation + 1
    BY <1>4 DEF AudioInv, AudioTypeOK, TransportTypeOK, Reconcile
  <2> HIDE DEF tick, resume
  <2>5. LanesTypeOK'
    BY <2>2 DEF LanesTypeOK
  <2>6. UiTypeOK'
    BY <2>1, <2>3 DEF UiTypeOK
  <2>7. AudioTypeOK'
    BY <1>4, <2>4, <2>5, <2>6
    DEF AudioInv, AudioTypeOK, FlagsTypeOK, TransportTypeOK, SessionsTypeOK, WorkerTypeOK, Turn,
        Targets, Reconcile, clockVars, queueVars, workVars
  <2>8. JobsCovered'
    BY <1>4, <2>2, <2>3, <2>4
    DEF AudioInv, AudioTypeOK, TransportTypeOK, WorkerTypeOK, JobsCovered, Covered, HasJob, Job,
        Reconcile, queueVars, workVars
  <2>9. PacketsFit'
    BY <1>4, <2>4
    DEF AudioInv, AudioTypeOK, WorkerTypeOK, JobsCovered, Covered, HasJob, Job, PacketsFit,
        StillCurrent, Reconcile, workVars
  <2> QED BY <2>7, <2>8, <2>9 DEF AudioInv
<1>5. CASE SubmitReconcile
  <2>1. FlagsTypeOK'
    BY <1>5 DEF AudioInv, AudioTypeOK, FlagsTypeOK, SubmitReconcile, Return, clockVars
  <2>2. AudioTypeOK'
    BY <1>5, <2>1, AudioConstants
    DEF AudioInv, AudioTypeOK, TransportTypeOK, LanesTypeOK, SessionsTypeOK, UiTypeOK,
        WorkerTypeOK, Turn, Targets, Job, SubmitReconcile, Return, clockVars, sharedVars,
        workVars
  <2>3. JobsCovered'
    BY <1>5
    DEF AudioInv, AudioTypeOK, TransportTypeOK, WorkerTypeOK, JobsCovered, Covered, HasJob,
        Job, SubmitReconcile, Return, sharedVars, workVars
  <2>4. PacketsFit'
    BY <1>5
    DEF AudioInv, AudioTypeOK, TransportTypeOK, WorkerTypeOK, JobsCovered, Covered, HasJob,
        Job, PacketsFit, InPacket, StillCurrent, Turn, Targets, SubmitReconcile, Return,
        sharedVars, workVars
  <2> QED BY <2>2, <2>3, <2>4 DEF AudioInv
<1>6. CASE Pause
  <2>1. FlagsTypeOK'
    BY <1>6 DEF AudioInv, AudioTypeOK, FlagsTypeOK, Pause, ClearLanes, Call, Ready, queueVars
  <2>2. TransportTypeOK'
    BY <1>6
    DEF AudioInv, AudioTypeOK, TransportTypeOK, Pause, ClearLanes, Call, Ready, queueVars
  <2>3. LanesTypeOK' /\ SessionsTypeOK'
    BY <1>6
    DEF AudioInv, AudioTypeOK, LanesTypeOK, SessionsTypeOK, Pause, ClearLanes, Call, Ready,
        workVars
  <2>4. UiTypeOK' /\ WorkerTypeOK'
    BY <1>6
    DEF AudioInv, AudioTypeOK, UiTypeOK, WorkerTypeOK, Turn, Targets, Pause, ClearLanes,
        Call, Ready, workVars
  <2>5. AudioTypeOK'
    BY <2>1, <2>2, <2>3, <2>4 DEF AudioTypeOK
  <2>6. JobsCovered'
    BY <1>6
    DEF AudioInv, AudioTypeOK, TransportTypeOK, WorkerTypeOK, JobsCovered, Covered, HasJob,
        Job, Pause, ClearLanes, Call, Ready, queueVars, workVars
  <2>7. PacketsFit'
    BY <1>6
    DEF AudioInv, AudioTypeOK, TransportTypeOK, WorkerTypeOK, JobsCovered, Covered, HasJob,
        Job, PacketsFit, InPacket, StillCurrent, Turn, Targets, Pause, ClearLanes, Call,
        Ready, queueVars, workVars
  <2> QED BY <2>5, <2>6, <2>7 DEF AudioInv
<1>7. CASE Rewind
  <2>1. FlagsTypeOK'
    BY <1>7 DEF AudioInv, AudioTypeOK, FlagsTypeOK, Rewind, Return
  <2>2. AudioTypeOK'
    BY <1>7, <2>1, AudioConstants
    DEF AudioInv, AudioTypeOK, TransportTypeOK, LanesTypeOK, SessionsTypeOK, UiTypeOK,
        WorkerTypeOK, Turn, Targets, Job, Rewind, Return, sharedVars, workVars
  <2>3. JobsCovered'
    BY <1>7
    DEF AudioInv, AudioTypeOK, TransportTypeOK, WorkerTypeOK, JobsCovered, Covered, HasJob,
        Job, Rewind, Return, sharedVars, workVars
  <2>4. PacketsFit'
    BY <1>7
    DEF AudioInv, AudioTypeOK, TransportTypeOK, WorkerTypeOK, JobsCovered, Covered, HasJob,
        Job, PacketsFit, InPacket, StillCurrent, Turn, Targets, Rewind, Return, sharedVars,
        workVars
  <2> QED BY <2>2, <2>3, <2>4 DEF AudioInv
<1>8. CASE Drop
  <2>1. FlagsTypeOK'
    BY <1>8 DEF AudioInv, AudioTypeOK, FlagsTypeOK, Drop, ClearLanes, Call, queueVars
  <2>2. TransportTypeOK'
    BY <1>8 DEF AudioInv, AudioTypeOK, TransportTypeOK, Drop, ClearLanes, Call, queueVars
  <2>3. LanesTypeOK' /\ SessionsTypeOK'
    BY <1>8
    DEF AudioInv, AudioTypeOK, LanesTypeOK, SessionsTypeOK, Drop, ClearLanes, Call,
        workVars
  <2>4. UiTypeOK' /\ WorkerTypeOK'
    BY <1>8
    DEF AudioInv, AudioTypeOK, UiTypeOK, WorkerTypeOK, Turn, Targets, Drop, ClearLanes,
        Call, workVars
  <2>5. AudioTypeOK'
    BY <2>1, <2>2, <2>3, <2>4 DEF AudioTypeOK
  <2>6. JobsCovered'
    BY <1>8
    DEF AudioInv, AudioTypeOK, TransportTypeOK, WorkerTypeOK, JobsCovered, Covered, HasJob,
        Job, Drop, ClearLanes, Call, queueVars, workVars
  <2>7. PacketsFit'
    BY <1>8
    DEF AudioInv, AudioTypeOK, TransportTypeOK, WorkerTypeOK, JobsCovered, Covered, HasJob,
        Job, PacketsFit, InPacket, StillCurrent, Turn, Targets, Drop, ClearLanes, Call,
        queueVars, workVars
  <2> QED BY <2>5, <2>6, <2>7 DEF AudioInv
<1>9. CASE Shut
  <2>1. FlagsTypeOK'
    BY <1>9 DEF AudioInv, AudioTypeOK, FlagsTypeOK, Shut, Call
  <2>2. AudioTypeOK'
    BY <1>9, <2>1, AudioConstants
    DEF AudioInv, AudioTypeOK, TransportTypeOK, LanesTypeOK, SessionsTypeOK, UiTypeOK,
        WorkerTypeOK, Turn, Targets, Job, Shut, Call, sharedVars, workVars
  <2>3. JobsCovered'
    BY <1>9
    DEF AudioInv, AudioTypeOK, TransportTypeOK, WorkerTypeOK, JobsCovered, Covered, HasJob,
        Job, Shut, Call, sharedVars, workVars
  <2>4. PacketsFit'
    BY <1>9
    DEF AudioInv, AudioTypeOK, TransportTypeOK, WorkerTypeOK, JobsCovered, Covered, HasJob,
        Job, PacketsFit, InPacket, StillCurrent, Turn, Targets, Shut, Call, sharedVars,
        workVars
  <2> QED BY <2>2, <2>3, <2>4 DEF AudioInv
<1>10. CASE Join
  <2>1. FlagsTypeOK'
    BY <1>10 DEF AudioInv, AudioTypeOK, FlagsTypeOK, Join, Call, clockVars, queueVars
  <2>2. AudioTypeOK'
    BY <1>10, <2>1, AudioConstants
    DEF AudioInv, AudioTypeOK, TransportTypeOK, LanesTypeOK, SessionsTypeOK, UiTypeOK,
        WorkerTypeOK, Turn, Targets, Job, Join, Call, clockVars, sharedVars, queueVars,
        workVars
  <2>3. JobsCovered'
    BY <1>10
    DEF AudioInv, AudioTypeOK, TransportTypeOK, WorkerTypeOK, JobsCovered, Covered, HasJob,
        Job, Join, Call, sharedVars, queueVars, workVars
  <2>4. PacketsFit'
    BY <1>10
    DEF AudioInv, AudioTypeOK, TransportTypeOK, WorkerTypeOK, JobsCovered, Covered, HasJob,
        Job, PacketsFit, InPacket, StillCurrent, Turn, Targets, Join, Call, sharedVars,
        queueVars, workVars
  <2> QED BY <2>2, <2>3, <2>4 DEF AudioInv
<1>11. CASE TakeError
  <2>1. FlagsTypeOK'
    BY <1>11 DEF AudioInv, AudioTypeOK, FlagsTypeOK, TakeError, clockVars, queueVars
  <2>2. AudioTypeOK'
    BY <1>11, <2>1, AudioConstants
    DEF AudioInv, AudioTypeOK, TransportTypeOK, LanesTypeOK, SessionsTypeOK, UiTypeOK,
        WorkerTypeOK, Turn, Targets, Job, TakeError, clockVars, sharedVars, queueVars,
        workVars
  <2>3. JobsCovered'
    BY <1>11
    DEF AudioInv, AudioTypeOK, TransportTypeOK, WorkerTypeOK, JobsCovered, Covered, HasJob,
        Job, TakeError, sharedVars, queueVars, workVars
  <2>4. PacketsFit'
    BY <1>11
    DEF AudioInv, AudioTypeOK, TransportTypeOK, WorkerTypeOK, JobsCovered, Covered, HasJob,
        Job, PacketsFit, InPacket, StillCurrent, Turn, Targets, TakeError, sharedVars,
        queueVars, workVars
  <2> QED BY <2>2, <2>3, <2>4 DEF AudioInv
<1> QED
  BY <1>1, <1>2, <1>3, <1>4, <1>5, <1>6, <1>7, <1>8, <1>9, <1>10, <1>11
  DEF ApplicationStep, UiStep

LEMMA CallbackKeeps ==
  ASSUME AudioInv, CallbackStep
  PROVE  AudioInv'
<1>1. CASE CallbackReads
  <2>1. FlagsTypeOK'
    BY <1>1 DEF AudioInv, AudioTypeOK, FlagsTypeOK, CallbackReads, clockVars, queueVars
  <2>2. AudioTypeOK'
    BY <1>1, <2>1, AudioConstants, SMTT(30)
    DEF AudioInv, AudioTypeOK, TransportTypeOK, LanesTypeOK, SessionsTypeOK, UiTypeOK,
        WorkerTypeOK, Turn, Targets, Job, CallbackReads, clockVars, sharedVars, queueVars,
        workVars
  <2>3. JobsCovered'
    BY <1>1
    DEF AudioInv, AudioTypeOK, TransportTypeOK, WorkerTypeOK, JobsCovered, Covered, HasJob,
        Job, CallbackReads, sharedVars, queueVars, workVars
  <2>4. PacketsFit'
    BY <1>1
    DEF AudioInv, AudioTypeOK, TransportTypeOK, WorkerTypeOK, JobsCovered, Covered, HasJob,
        Job, PacketsFit, InPacket, StillCurrent, Turn, Targets, CallbackReads, sharedVars,
        queueVars, workVars
  <2> QED BY <2>2, <2>3, <2>4 DEF AudioInv
<1>2. CASE CallbackMixes
  <2>1. ASSUME NEW k \in DOMAIN lanes
        PROVE  Popped(lanes[k]) \in Lane /\ Len(Popped(lanes[k]).queue) <= Len(lanes[k].queue)
    <3>1. lanes[k] \in Lane
      BY DEF AudioInv, AudioTypeOK, LanesTypeOK
    <3>2. CASE lanes[k].queue # <<>>
      <4>1. Tail(lanes[k].queue) \in Seq(Int) /\ Len(Tail(lanes[k].queue)) <= Len(lanes[k].queue)
        BY <3>1, <3>2 DEF Lane
      <4> QED BY <3>1, <3>2, <4>1 DEF Popped, Lane
    <3> QED BY <3>1, <3>2 DEF Popped, Lane
  <2>2. DOMAIN lanes' = DOMAIN lanes /\ \A k \in DOMAIN lanes : lanes'[k] = Popped(lanes[k])
    BY <1>2 DEF CallbackMixes
  <2>3. LanesTypeOK'
    BY <1>2, <2>1 DEF AudioInv, AudioTypeOK, LanesTypeOK, CallbackMixes
  <2>4. FlagsTypeOK'
    BY <1>2 DEF AudioInv, AudioTypeOK, FlagsTypeOK, CallbackMixes, queueVars
  <2>5. AudioTypeOK'
    BY <1>2, <2>3, <2>4
    DEF AudioInv, AudioTypeOK, TransportTypeOK, SessionsTypeOK, UiTypeOK, WorkerTypeOK, Turn,
        Targets, CallbackMixes, queueVars, workVars
  <2>6. JobsCovered'
    BY <1>2, <2>2, JobsStayCovered DEF AudioInv, HasJob, CallbackMixes, queueVars, workVars
  <2>7. worker.pc = "decode" /\ StillCurrent => Turn.key \in DOMAIN lanes
    BY TurnFacts DEF AudioInv, JobsCovered, Covered, HasJob, StillCurrent, Targets
  <2>8. worker.pc = "decode" /\ StillCurrent => InPacket'
    <3> SUFFICES ASSUME worker.pc = "decode", StillCurrent PROVE InPacket'
      OBVIOUS
    <3>1. Len(lanes'[Turn.key].queue) <= Len(lanes[Turn.key].queue)
      BY <2>1, <2>2, <2>7
    <3>2. Len(lanes'[Turn.key].queue) \in Nat /\ Len(lanes[Turn.key].queue) \in Nat
      BY <2>2, <2>3, <2>7 DEF AudioInv, AudioTypeOK, LanesTypeOK, Lane
    <3>3. Capacity(Cardinality(DOMAIN lanes)) \in Nat /\ worker.at \in Nat
      BY <2>7, LaneCount DEF AudioInv, AudioTypeOK, WorkerTypeOK
    <3>4. InPacket /\ Turn' = Turn /\ worker' = worker
      BY <1>2 DEF AudioInv, PacketsFit, CallbackMixes, workVars, Turn, Targets
    <3> QED BY <2>2, <3>1, <3>2, <3>3, <3>4 DEF InPacket
  <2>9. PacketsFit'
    BY <1>2, <2>8 DEF AudioInv, PacketsFit, StillCurrent, CallbackMixes, workVars
  <2> QED BY <2>5, <2>6, <2>9 DEF AudioInv
<1>3. CASE CallbackMisses
  <2>1. FlagsTypeOK'
    BY <1>3 DEF AudioInv, AudioTypeOK, FlagsTypeOK, CallbackMisses, queueVars
  <2>2. TransportTypeOK'
    BY <1>3 DEF AudioInv, AudioTypeOK, TransportTypeOK, CallbackMisses, sharedVars, queueVars
  <2>3. LanesTypeOK' /\ SessionsTypeOK'
    BY <1>3
    DEF AudioInv, AudioTypeOK, LanesTypeOK, SessionsTypeOK, CallbackMisses, sharedVars,
        workVars
  <2>4. UiTypeOK' /\ WorkerTypeOK'
    BY <1>3
    DEF AudioInv, AudioTypeOK, UiTypeOK, WorkerTypeOK, Turn, Targets, CallbackMisses,
        workVars
  <2>5. AudioTypeOK'
    BY <2>1, <2>2, <2>3, <2>4 DEF AudioTypeOK
  <2>6. JobsCovered'
    BY <1>3
    DEF AudioInv, AudioTypeOK, TransportTypeOK, WorkerTypeOK, JobsCovered, Covered, HasJob,
        Job, CallbackMisses, sharedVars, queueVars, workVars
  <2>7. PacketsFit'
    BY <1>3
    DEF AudioInv, AudioTypeOK, TransportTypeOK, WorkerTypeOK, JobsCovered, Covered, HasJob,
        Job, PacketsFit, InPacket, StillCurrent, Turn, Targets, CallbackMisses, sharedVars,
        queueVars, workVars
  <2> QED BY <2>5, <2>6, <2>7 DEF AudioInv
<1> QED
  BY <1>1, <1>2, <1>3 DEF CallbackStep

\* A decoder goes into the map, and a decoded frame moves one on.
LEMMA SessionSet ==
  ASSUME SessionsTypeOK, NEW k \in Key, NEW session \in Session, sessions' = With(sessions, k, session)
  PROVE  SessionsTypeOK' /\ DOMAIN sessions' = DOMAIN sessions \cup {k}
BY DEF SessionsTypeOK, With

LEMMA SessionMoved ==
  ASSUME AudioTypeOK, worker.pc = "decode", FrameDecoded
  PROVE  SessionsTypeOK' /\ DOMAIN sessions' = DOMAIN sessions
<1>1. sessions[Turn.key] \in Session
  BY DEF AudioTypeOK, SessionsTypeOK, WorkerTypeOK
<1>2. PacketsRead \in Nat /\ FrameTick + 1 \in Int
  BY FloatsOfAFrame
<1>3. [sessions[Turn.key] EXCEPT !.next = PacketsRead, !.cursor = FrameTick + 1] \in Session
  BY <1>1, <1>2 DEF Session
<1>4. sessions' = [sessions EXCEPT ![Turn.key] =
                     [sessions[Turn.key] EXCEPT !.next = PacketsRead, !.cursor = FrameTick + 1]]
  BY DEF FrameDecoded
<1> QED BY <1>3, <1>4 DEF AudioTypeOK, SessionsTypeOK

\* The end of a target leaves everything in order, if the decoders and lanes are typed.
LEMMA TargetEnds ==
  ASSUME AudioInv, TurnPassed, HasJob, SessionsTypeOK', LanesTypeOK', FlagsTypeOK',
         UNCHANGED <<clockVars, generation, queueVars, ui>>, DOMAIN lanes' = DOMAIN lanes
  PROVE  AudioInv'
<1>1. AudioTypeOK'
  BY DEF AudioInv, AudioTypeOK, TransportTypeOK, UiTypeOK, TurnPassed, clockVars, queueVars
<1>2. JobsCovered'
  BY JobsStayCovered DEF AudioInv, TurnPassed, HasJob, queueVars
<1>3. PacketsFit'
  BY DEF TurnPassed, PacketsFit
<1> QED BY <1>1, <1>2, <1>3 DEF AudioInv

\* So does an error.
LEMMA FailureKeeps ==
  ASSUME AudioInv, HasJob, TargetFails, UNCHANGED sessions \/ DropSession
  PROVE  AudioInv'
<1>1. TurnPassed
  <2>1. worker.resumed \ {Turn.key} \in SUBSET Key /\ worker.done \cup {Turn.key} \in SUBSET Key
    BY TurnFacts DEF AudioInv, AudioTypeOK, WorkerTypeOK
  <2> QED BY <2>1, Passed DEF TargetFails, AudioInv
<1>2. SessionsTypeOK'
  BY DEF AudioInv, AudioTypeOK, SessionsTypeOK, DropSession, Without
<1>3. FlagsTypeOK'
  BY DEF AudioInv, AudioTypeOK, FlagsTypeOK, TargetFails, StillCurrent, clockVars, queueVars
<1>4. LanesTypeOK' /\ lanes' = lanes
  BY DEF AudioInv, AudioTypeOK, LanesTypeOK, TargetFails, sharedVars
<1> QED BY <1>1, <1>2, <1>3, <1>4, TargetEnds DEF TargetFails, sharedVars

\* A step that moves the worker alone.
LEMMA WorkerRests ==
  ASSUME AudioInv, WorkerTypeOK', PacketsFit', HasJob' => HasJob /\ worker'.job = worker.job,
         UNCHANGED <<clockVars, sharedVars, queueVars, sessions, error, ui, callback>>
  PROVE  AudioInv'
<1>1. FlagsTypeOK' /\ SessionsTypeOK' /\ LanesTypeOK'
  BY DEF AudioInv, AudioTypeOK, FlagsTypeOK, SessionsTypeOK, LanesTypeOK, clockVars, sharedVars,
         queueVars
<1>2. AudioTypeOK'
  BY <1>1
  DEF AudioInv, AudioTypeOK, TransportTypeOK, UiTypeOK, clockVars, sharedVars, queueVars
<1>3. JobsCovered'
  BY JobsStayCovered DEF AudioInv, sharedVars, queueVars
<1> QED BY <1>2, <1>3 DEF AudioInv

LEMMA WorkerKeeps ==
  ASSUME AudioInv, WorkerStep
  PROVE  AudioInv'
<1> USE DEF AudioInv
<1>1. CASE WorkerTakes
  <2>1. pending \in Job /\ pending' = NoJob /\ KeysOf(pending.line) \subseteq Key
    BY <1>1, LineKeys DEF WorkerTakes, AudioTypeOK, TransportTypeOK, Job
  <2>2. worker' = [pc |-> "target", job |-> [pending EXCEPT !.resume = {}], turn |-> 1,
                   resumed |-> pending.resume, done |-> {}, at |-> 0, full |-> FALSE]
    BY <1>1 DEF WorkerTakes, Resting
  <2>3. 1 \in 1..Len(pending.line) /\ worker'.job \in Job /\ worker'.job.line = pending.line
    <3>1. pending.line \in Seq([key : Key, path : Path]) /\ pending.line # <<>>
      BY <2>1, AudioConstants DEF Job
    <3> QED BY <2>1, <2>2, <3>1 DEF Job
  <2>4. WorkerTypeOK'
    BY <2>1, <2>2, <2>3 DEF WorkerTypeOK, Targets, Job
  <2>5. SessionsTypeOK'
    BY <1>1 DEF AudioTypeOK, SessionsTypeOK, WorkerTakes
  <2>6. FlagsTypeOK'
    BY <1>1 DEF AudioTypeOK, FlagsTypeOK, WorkerTakes, clockVars
  <2>7. AudioTypeOK'
    BY <1>1, <2>1, <2>4, <2>5, <2>6
    DEF AudioTypeOK, TransportTypeOK, LanesTypeOK, UiTypeOK, WorkerTakes, clockVars, sharedVars
  <2>8. JobsCovered'
    BY <1>1, <2>1, <2>2 DEF JobsCovered, Covered, HasJob, Job, WorkerTakes, sharedVars
  <2>9. PacketsFit'
    BY <2>2 DEF PacketsFit
  <2> QED BY <2>7, <2>8, <2>9
<1>2. CASE WorkerReturns
  <2>1. worker' = [Resting EXCEPT !.pc = "returned"] /\ SessionsTypeOK'
    BY <1>2 DEF WorkerReturns, SessionsTypeOK
  <2>2. worker' = [pc |-> "returned", job |-> NoJob, turn |-> 1, resumed |-> {}, done |-> {},
                   at |-> 0, full |-> FALSE]
    BY <2>1 DEF Resting
  <2>3. WorkerTypeOK'
    BY <2>2 DEF WorkerTypeOK
  <2>4. PacketsFit'
    BY <2>2 DEF PacketsFit
  <2>5. FlagsTypeOK'
    BY <1>2 DEF AudioTypeOK, FlagsTypeOK, WorkerReturns, clockVars, queueVars
  <2>6. AudioTypeOK'
    BY <1>2, <2>1, <2>3, <2>5
    DEF AudioTypeOK, TransportTypeOK, LanesTypeOK, UiTypeOK, WorkerReturns, clockVars, sharedVars,
        queueVars
  <2>7. JobsCovered'
    BY <1>2, <2>2, JobsStayCovered DEF HasJob, WorkerReturns, sharedVars, queueVars
  <2> QED BY <2>4, <2>6, <2>7
<1>3. CASE StartTarget
  <2> DEFINE k == Turn.key
             opened == IF NeedsOpen(k, Turn.path) THEN OpenedSession(Turn.path) ELSE sessions[k]
  <2>1. HasJob /\ k \in Key /\ Turn.path \in Path /\ worker.job.tick \in Nat
    BY <1>3, TurnFacts DEF StartTarget, HasJob, Job
  <2>2. opened \in Session
    BY <2>1 DEF AudioTypeOK, SessionsTypeOK, NeedsOpen, OpenedSession, Session
  <2>3. Prepared(opened, worker.job.tick) \in Session
    BY <2>1, <2>2, PreparedSession
  <2>4. SessionsTypeOK' /\ k \in DOMAIN sessions'
    BY <1>3, <2>1, <2>2, <2>3, SessionSet DEF StartTarget, AudioTypeOK
  <2>5. FlagsTypeOK' /\ LanesTypeOK' /\ UNCHANGED <<clockVars, sharedVars, queueVars, ui>>
    BY <1>3 DEF AudioTypeOK, FlagsTypeOK, LanesTypeOK, StartTarget, clockVars, sharedVars, queueVars
  <2>6. CASE MayDecode(k)
    <3>1. worker' = [worker EXCEPT !.pc = "decode"] /\ worker.pc = "target" /\ worker.at = 0
      BY <1>3, <2>6 DEF StartTarget, Goto, PacketsFit
    <3>2. Turn' = Turn /\ Targets' = Targets /\ worker'.at = 0 /\ worker'.job = worker.job
      BY <3>1 DEF Turn, Targets, AudioTypeOK, WorkerTypeOK
    <3>3. WorkerTypeOK'
      BY <2>4, <3>1, <3>2, PacketLength DEF AudioTypeOK, WorkerTypeOK
    <3>4. AudioTypeOK'
      BY <2>4, <2>5, <3>3
      DEF AudioTypeOK, TransportTypeOK, UiTypeOK, clockVars, sharedVars, queueVars
    <3>5. JobsCovered'
      BY <2>1, <2>5, <3>2, JobsStayCovered DEF sharedVars, queueVars
    <3>6. Len(lanes[k].queue) < Capacity(Cardinality(DOMAIN lanes)) + 0
      <4>1. k \in DOMAIN lanes /\ lanes[k] \in Lane
        BY <2>6 DEF MayDecode, AudioTypeOK, LanesTypeOK
      <4>2. Len(lanes[k].queue) \in Nat /\ Capacity(Cardinality(DOMAIN lanes)) \in Nat
        BY <4>1, LaneCount DEF Lane
      <4> QED BY <2>6, <4>2 DEF MayDecode, ReachedCapacity
    <3>7. PacketsFit'
      BY <2>5, <3>1, <3>2, <3>6 DEF PacketsFit, InPacket, sharedVars, AudioTypeOK, WorkerTypeOK
    <3> QED BY <3>4, <3>5, <3>7
  <2>7. CASE ~MayDecode(k)
    <3>1. TurnPassed
      BY <1>3, <2>1, <2>7, DecodedPasses DEF StartTarget
    <3> QED BY <2>1, <2>4, <2>5, <3>1, TargetEnds DEF sharedVars
  <2> QED BY <2>6, <2>7
<1>4. CASE SkipTarget
  <2>1. HasJob /\ worker.resumed \in SUBSET Key /\ worker.done \in SUBSET Key
    BY <1>4 DEF SkipTarget, HasJob, AudioTypeOK, WorkerTypeOK
  <2>2. TurnPassed
    BY <1>4, <2>1, Passed DEF SkipTarget
  <2>3. SessionsTypeOK' /\ LanesTypeOK' /\ FlagsTypeOK'
    BY <1>4
    DEF AudioTypeOK, SessionsTypeOK, LanesTypeOK, FlagsTypeOK, SkipTarget, clockVars, sharedVars,
        queueVars
  <2> QED BY <1>4, <2>1, <2>2, <2>3, TargetEnds DEF SkipTarget, sharedVars
<1>5. CASE OpenFails \/ PrepareFails
  BY <1>5, FailureKeeps DEF OpenFails, PrepareFails, HasJob
<1>6. CASE QueueFrame
  <2> DEFINE k == Turn.key
             lane == EnqueueDecodedFrame(k, Floats)
             full == worker.full \/ ReachedCapacity(lane)
  <2>1. HasJob /\ worker.pc = "decode" /\ StillCurrent
    BY <1>6 DEF QueueFrame, FrameNext, HasJob
  <2>2. k \in DOMAIN lanes
    BY <2>1, TurnFacts DEF JobsCovered, Covered, StillCurrent, Targets
  <2>3. lane \in Lane /\ Len(lane.queue) <= Len(lanes[k].queue) + 1
    BY <2>1, <2>2, Enqueued, FloatsOfAFrame
  <2>4. lanes' = [lanes EXCEPT ![k] = lane] /\ DOMAIN lanes' = DOMAIN lanes /\ lanes'[k] = lane
    BY <1>6, <2>2 DEF QueueFrame
  <2> HIDE DEF lane
  <2>5. LanesTypeOK'
    BY <2>3, <2>4 DEF AudioTypeOK, LanesTypeOK
  <2>6. SessionsTypeOK' /\ DOMAIN sessions' = DOMAIN sessions
    BY <1>6, <2>1, SessionMoved DEF QueueFrame
  <2>7. FlagsTypeOK' /\ UNCHANGED <<clockVars, generation, queueVars, ui>>
    BY <1>6 DEF AudioTypeOK, FlagsTypeOK, QueueFrame, clockVars, queueVars
  <2>8. CASE PacketEnds /\ full
    <3>1. TurnPassed
      BY <1>6, <2>1, <2>8, DecodedPasses DEF QueueFrame, lane
    <3> QED BY <2>1, <2>4, <2>5, <2>6, <2>7, <3>1, TargetEnds
  <2>9. ASSUME ~(PacketEnds /\ full),
               NEW at \in Nat, NEW filled \in BOOLEAN, at < PacketFrames,
               worker' = [worker EXCEPT !.at = at, !.full = filled],
               Len(lane.queue) < Capacity(Cardinality(DOMAIN lanes)) + at
        PROVE  AudioInv'
    <3>1. /\ Turn' = Turn /\ Targets' = Targets /\ worker'.job = worker.job
          /\ worker'.at = at /\ worker'.pc = "decode"
      BY <2>1, <2>9 DEF Turn, Targets, AudioTypeOK, WorkerTypeOK
    <3>2. WorkerTypeOK'
      BY <2>6, <2>9, <3>1 DEF AudioTypeOK, WorkerTypeOK
    <3>3. AudioTypeOK'
      BY <2>5, <2>6, <2>7, <3>2
      DEF AudioTypeOK, TransportTypeOK, UiTypeOK, clockVars, queueVars
    <3>4. JobsCovered'
      BY <2>1, <2>4, <2>7, <3>1, JobsStayCovered DEF queueVars
    <3>5. PacketsFit'
      BY <2>4, <2>9, <3>1 DEF PacketsFit, InPacket
    <3> QED BY <3>3, <3>4, <3>5
  <2>10. /\ Len(lane.queue) \in Nat /\ worker.at \in Nat /\ worker.at < PacketFrames
         /\ Capacity(Cardinality(DOMAIN lanes)) \in Nat
         /\ Len(lane.queue) < Capacity(Cardinality(DOMAIN lanes)) + (worker.at + 1)
    <3>1. lanes[k] \in Lane
      BY <2>2 DEF AudioTypeOK, LanesTypeOK
    <3>2. Len(lane.queue) \in Nat /\ Len(lanes[k].queue) \in Nat
      BY <2>3, <3>1 DEF Lane
    <3>3. Len(lanes[k].queue) < Capacity(Cardinality(DOMAIN lanes)) + worker.at
      BY <2>1 DEF PacketsFit, InPacket
    <3>4. worker.at \in Nat /\ worker.at < PacketFrames
      BY <2>1 DEF AudioTypeOK, WorkerTypeOK
    <3> QED BY <2>2, <2>3, <3>2, <3>3, <3>4, LaneCount
  <2>11. CASE ~PacketEnds
    <3>1. worker' = [worker EXCEPT !.at = worker.at + 1, !.full = full]
      BY <1>6, <2>11 DEF QueueFrame, lane
    <3>2. full \in BOOLEAN
      BY DEF AudioTypeOK, WorkerTypeOK, ReachedCapacity
    <3>3. worker.at + 1 \in Nat /\ worker.at + 1 < PacketFrames
      BY <2>10, <2>11, AudioConstants DEF PacketEnds
    <3> HIDE DEF full
    <3> QED BY <2>9, <2>10, <2>11, <3>1, <3>2, <3>3
  <2>12. CASE PacketEnds /\ ~full
    <3>1. worker' = [worker EXCEPT !.at = 0, !.full = worker.full]
      <4>1. worker' = [worker EXCEPT !.at = 0]
        BY <1>6, <2>12 DEF QueueFrame, lane
      <4> QED BY <4>1 DEF AudioTypeOK, WorkerTypeOK
    <3>2. worker.full \in BOOLEAN
      BY DEF AudioTypeOK, WorkerTypeOK
    <3>3. Len(lane.queue) < Capacity(Cardinality(DOMAIN lanes)) + 0
      BY <2>10, <2>12 DEF ReachedCapacity
    <3>4. 0 \in Nat /\ 0 < PacketFrames
      BY AudioConstants
    <3> HIDE DEF full
    <3> QED BY <2>9, <2>12, <3>1, <3>2, <3>3, <3>4
  <2> QED BY <2>8, <2>11, <2>12
<1>7. CASE DrainFrame
  <2>1. HasJob /\ worker.pc = "decode" /\ ~StillCurrent
    BY <1>7 DEF DrainFrame, FrameNext, HasJob
  <2>2. SessionsTypeOK' /\ DOMAIN sessions' = DOMAIN sessions
    BY <1>7, <2>1, SessionMoved DEF DrainFrame
  <2>3. FlagsTypeOK' /\ LanesTypeOK' /\ UNCHANGED <<clockVars, sharedVars, queueVars, ui>>
    BY <1>7 DEF AudioTypeOK, FlagsTypeOK, LanesTypeOK, DrainFrame, clockVars, sharedVars, queueVars
  <2>4. CASE PacketEnds
    <3>1. TurnPassed
      BY <1>7, <2>1, <2>4, DecodedPasses DEF DrainFrame
    <3> QED BY <2>1, <2>2, <2>3, <3>1, TargetEnds DEF sharedVars
  <2>5. CASE ~PacketEnds
    <3>1. worker' = [worker EXCEPT !.at = worker.at + 1]
      BY <1>7, <2>5 DEF DrainFrame
    <3>2. /\ Turn' = Turn /\ Targets' = Targets /\ worker'.job = worker.job
          /\ worker'.at = worker.at + 1 /\ worker'.pc = "decode"
      BY <2>1, <3>1 DEF Turn, Targets, AudioTypeOK, WorkerTypeOK
    <3>3. WorkerTypeOK'
      BY <2>1, <2>2, <2>5, <3>1, <3>2, PacketLength DEF AudioTypeOK, WorkerTypeOK, PacketEnds
    <3>4. AudioTypeOK'
      BY <2>2, <2>3, <3>3
      DEF AudioTypeOK, TransportTypeOK, UiTypeOK, clockVars, sharedVars, queueVars
    <3>5. JobsCovered'
      BY <2>1, <2>3, <3>2, JobsStayCovered DEF sharedVars, queueVars
    <3>6. PacketsFit'
      BY <2>1, <2>3, <3>2 DEF PacketsFit, StillCurrent, sharedVars
    <3> QED BY <3>4, <3>5, <3>6
  <2> QED BY <2>4, <2>5
<1>8. CASE DecodeFails
  BY <1>8, FailureKeeps DEF DecodeFails, FrameNext, HasJob
<1>11. CASE OtherStream
  <2>1. HasJob /\ worker.pc = "decode"
    BY <1>11 DEF OtherStream, HasJob
  <2>2. SessionsTypeOK' /\ FlagsTypeOK' /\ LanesTypeOK'
    BY <1>11
    DEF AudioTypeOK, SessionsTypeOK, FlagsTypeOK, LanesTypeOK, OtherStream, clockVars, sharedVars,
        queueVars
  <2>3. TurnPassed
    BY <1>11, <2>1, DecodedPasses DEF OtherStream
  <2> QED BY <1>11, <2>1, <2>2, <2>3, TargetEnds DEF OtherStream, sharedVars
<1>9. CASE ReadEnd
  <2>1. HasJob /\ worker.pc = "decode"
    BY <1>9 DEF ReadEnd, HasJob
  <2>2. SessionsTypeOK'
    BY <1>9 DEF ReadEnd, AudioTypeOK, SessionsTypeOK, Session
  <2>3. FlagsTypeOK' /\ LanesTypeOK' /\ UNCHANGED <<clockVars, sharedVars, queueVars, ui>>
    BY <1>9 DEF AudioTypeOK, FlagsTypeOK, LanesTypeOK, ReadEnd, clockVars, sharedVars, queueVars
  <2>4. TurnPassed
    BY <1>9, <2>1, DecodedPasses DEF ReadEnd
  <2> QED BY <2>1, <2>2, <2>3, <2>4, TargetEnds DEF sharedVars
<1>10. CASE CheckGeneration \/ CheckPending
  <2>1. HasJob /\ worker.pc \in {"round", "look"} /\ worker.at = 0
    BY <1>10 DEF CheckGeneration, CheckPending, HasJob, PacketsFit
  <2>2. UNCHANGED <<clockVars, sharedVars, queueVars, sessions, error, ui, callback>>
    BY <1>10 DEF CheckGeneration, CheckPending
  <2>3. CASE worker' = Resting
    <3>1. WorkerTypeOK' /\ worker'.pc = "wait"
      BY <2>3 DEF Resting, WorkerTypeOK
    <3>2. PacketsFit' /\ ~HasJob'
      BY <3>1 DEF PacketsFit, HasJob
    <3> QED BY <2>2, <3>1, <3>2, WorkerRests
  <2>4. ASSUME NEW pc \in {"look", "wait", "target"}, worker' = [worker EXCEPT !.pc = pc]
        PROVE  AudioInv'
    <3>1. worker'.job = worker.job /\ worker'.turn = worker.turn /\ worker'.at = 0 /\ worker'.pc = pc
      BY <2>1, <2>4 DEF AudioTypeOK, WorkerTypeOK
    <3>2. WorkerTypeOK'
      BY <2>1, <2>4, <3>1 DEF AudioTypeOK, WorkerTypeOK, HasJob, Targets
    <3>3. PacketsFit' /\ (HasJob' => HasJob /\ worker'.job = worker.job)
      BY <2>1, <3>1 DEF PacketsFit
    <3> QED BY <2>2, <3>2, <3>3, WorkerRests
  <2> QED
    BY <1>10, <2>3, <2>4 DEF CheckGeneration, CheckPending, Goto
<1> QED
  BY <1>1, <1>2, <1>3, <1>4, <1>5, <1>6, <1>7, <1>8, <1>9, <1>10, <1>11 DEF WorkerStep

-----------------------------------------------------------------------------
(* Frames find their lanes and fit.                                          *)

LEMMA AudioInitially == AudioInit => AudioInv
<1> SUFFICES ASSUME AudioInit PROVE AudioInv
  OBVIOUS
<1>1. AudioTypeOK
  <2>1. FlagsTypeOK
    BY DEF AudioInit, FlagsTypeOK
  <2>2. TransportTypeOK
    BY DEF AudioInit, TransportTypeOK
  <2>3. DOMAIN <<>> = {} /\ <<>> \in [{} -> Lane] /\ <<>> \in [{} -> Session]
    OBVIOUS
  <2>4. LanesTypeOK /\ SessionsTypeOK
    BY <2>3 DEF AudioInit, LanesTypeOK, SessionsTypeOK
  <2>5. UiTypeOK
    BY DEF AudioInit, UiTypeOK
  <2>6. WorkerTypeOK
    BY DEF AudioInit, Resting, WorkerTypeOK
  <2> QED BY <2>1, <2>2, <2>4, <2>5, <2>6 DEF AudioTypeOK
<1>2. JobsCovered /\ PacketsFit
  BY DEF AudioInit, Resting, JobsCovered, PacketsFit, HasJob
<1> QED BY <1>1, <1>2 DEF AudioInv

LEMMA AudioStutters == AudioInv /\ UNCHANGED audioVars => AudioInv'
<1> SUFFICES ASSUME AudioInv, UNCHANGED audioVars PROVE AudioInv'
  OBVIOUS
<1>1. WorkerTypeOK' /\ PacketsFit' /\ (HasJob' => HasJob /\ worker'.job = worker.job)
  BY DEF AudioInv, AudioTypeOK, WorkerTypeOK, PacketsFit, InPacket, StillCurrent, HasJob, Turn,
         Targets, audioVars, workVars, sharedVars
<1> QED BY <1>1, WorkerRests DEF audioVars, workVars

\* The inductive invariant: jobs never newer than the transport, the current one with its
\* lanes in place, and packets begun below capacity.
THEOREM AudioInvariant == AudioSafety => []AudioInv
<1>1. AudioInit => AudioInv
  BY AudioInitially
<1>2. AudioInv /\ [AudioNext]_audioVars => AudioInv'
  BY ApplicationKeeps, CallbackKeeps, WorkerKeeps, AudioStutters DEF AudioNext, ApplicationStep
<1> QED BY <1>1, <1>2, PTL DEF AudioSafety

\* A frame decoded for the current job finds its lane, and fits in its queue.
THEOREM FramesFit == AudioSafety => []FrameFits
<1>1. AudioInv => FrameFits
  <2> SUFFICES ASSUME AudioInv, FrameNext, StillCurrent
               PROVE  /\ Turn.key \in DOMAIN lanes
                      /\ ~BeyondAllowance(EnqueueDecodedFrame(Turn.key, Floats))
    BY DEF FrameFits, AudioInv
  <2> DEFINE lane == EnqueueDecodedFrame(Turn.key, Floats)
  <2>1. worker.pc = "decode" /\ HasJob
    BY DEF FrameNext, HasJob
  <2>2. Turn.key \in DOMAIN lanes
    BY <2>1, TurnFacts DEF AudioInv, JobsCovered, Covered, StillCurrent, Targets
  <2>3. lane \in Lane /\ Len(lane.queue) <= Len(lanes[Turn.key].queue) + 1
    BY <2>1, <2>2, Enqueued, FloatsOfAFrame DEF AudioInv
  <2> HIDE DEF lane
  <2>4. lanes[Turn.key] \in Lane
    BY <2>2 DEF AudioInv, AudioTypeOK, LanesTypeOK
  <2>5. Len(lane.queue) \in Nat /\ Len(lanes[Turn.key].queue) \in Nat
    BY <2>3, <2>4 DEF Lane
  <2>6. Len(lanes[Turn.key].queue) < Capacity(Cardinality(DOMAIN lanes)) + worker.at
    BY <2>1 DEF AudioInv, PacketsFit, InPacket
  <2>7. worker.at \in Nat /\ worker.at < PacketFrames
    BY <2>1 DEF AudioInv, AudioTypeOK, WorkerTypeOK
  <2>8. Capacity(Cardinality(DOMAIN lanes)) \in Nat
    BY <2>2, LaneCount DEF AudioInv
  <2>9. ~BeyondAllowance(lane)
    BY <2>3, <2>5, <2>6, <2>7, <2>8, AudioConstants DEF BeyondAllowance
  <2> QED BY <2>2, <2>9 DEF lane
<1> QED BY <1>1, AudioInvariant, PTL

-----------------------------------------------------------------------------
(* What is heard.                                                            *)

\* A decoder that is not inside a packet stands at the end of one, or where a seek has put
\* it; the one inside a packet counts its frames.
SessionsAligned ==
  \A k \in DOMAIN sessions :
    IF Decoding(k) /\ worker.at > 0
    THEN /\ sessions[k].cursor = (sessions[k].next - 1) * PacketFrames + worker.at
         /\ sessions[k].next <= Packets
    ELSE sessions[k].cursor # NoTick => sessions[k].cursor = sessions[k].next * PacketFrames

\* The tick of the frame a decoder is to give next, and the tick a lane waits for.
Position(k) ==
  IF sessions[k].cursor = NoTick THEN sessions[k].next * PacketFrames ELSE sessions[k].cursor
Awaited(k) == lanes[k].tick + lanes[k].decoded

\* The i-th sample of a queue is the one for the i-th frame the device will play, or is behind it by
\* frames the callback failed to lock for; what is missing has been played or was late.
QueueInTime(lane) ==
  /\ lane.decoded <= Consumed(lane) + Len(lane.queue)
  /\ \A i \in 1..Len(lane.queue) :
       /\ lane.queue[i] < lane.tick + lane.decoded
       /\ lane.queue[i] <= lane.tick + Consumed(lane) + i - 1
       /\ lane.queue[i] >= lane.tick + Consumed(lane) + i - 1 - missed

LanesInTime ==
  \A k \in DOMAIN lanes :
    lanes[k].origin <= deviceFrames /\ (lanes[k].steady => QueueInTime(lanes[k]))

\* The lanes are those of a job, which does not start ahead of the playhead.
LanesOf(line, tick) ==
  /\ DOMAIN lanes = KeysOf(line)
  /\ \A k \in DOMAIN lanes : lanes[k].path = EntryOf(line, k).path
  /\ tick <= sourceTick + deviceFrames

\* The decoder of a retained lane stands at the frame the lane waits for, and what is left of
\* an older job does not touch it.
Carried(k, tick) ==
  /\ k \in DOMAIN sessions /\ sessions[k].path = lanes[k].path
  /\ sessions[k].cursor = Awaited(k) /\ tick <= Awaited(k)
  /\ pending = NoJob \/ pending.generation = generation
  /\ ~Decoding(k)
  /\ HasJob => k \in worker.resumed /\ (k \in KeysOf(Targets) => EntryOf(Targets, k).path = lanes[k].path)

\* The job of the lanes waits to be submitted or taken.
Due(line, tick, resume) ==
  /\ LanesOf(line, tick)
  /\ worker.job # NoJob => worker.job.generation < generation
  /\ \A k \in DOMAIN lanes : lanes[k].steady =>
       IF k \in resume THEN Carried(k, tick) ELSE Awaited(k) = tick

\* The job of the lanes is the worker's: a lane has failed, or has not had its turn, or its
\* decoder is at the frame it waits for or on its way there, from before the job's start.
UnderWay(k) ==
  \/ k \in worker.done /\ k \notin worker.resumed /\ ~Decoding(k)
  \/ k \notin worker.done /\ k \notin worker.resumed /\ ~Decoding(k) /\ Awaited(k) = worker.job.tick
  \/ /\ k \in worker.resumed \/ Decoding(k)
     /\ k \in DOMAIN sessions /\ sessions[k].path = lanes[k].path
     /\ worker.job.tick <= Awaited(k) /\ Position(k) <= Awaited(k)
     /\ Position(k) < Awaited(k) => Awaited(k) = worker.job.tick

Begun ==
  /\ worker.job # NoJob /\ StillCurrent
  /\ LanesOf(Targets, worker.job.tick)
  /\ \A k \in DOMAIN lanes : lanes[k].steady => UnderWay(k)

JobsOrdered ==
  /\ worker.job # NoJob => worker.job.generation <= generation
  /\ ui.pc \in {"submit", "submit_reconcile"} /\ pending # NoJob => pending.generation < generation
  /\ shutdown => ui.pc \in {"join", "dropped"}
  /\ ui.pc \in {"replace", "submit"} => ui.tick = sourceTick
  /\ ui.pc = "submit" => ui.resume = {}

LanesOwned ==
  CASE ui.pc \in {"submit", "submit_reconcile"} -> Due(ui.line, ui.tick, ui.resume)
    [] ui.pc = "idle" ->
         \/ lanes = <<>>
         \/ /\ pending # NoJob /\ pending.generation = generation
            /\ Due(pending.line, pending.tick, pending.resume)
         \/ pending = NoJob /\ Begun
    [] OTHER -> lanes = <<>>

HeardInv ==
  /\ SessionsAligned /\ JobsOrdered
  /\ ui.pc # "replace" => LanesInTime /\ LanesOwned

-----------------------------------------------------------------------------
(* Line-ups, packets and positions.                                          *)

LEMMA NoJobIsNone == NoJob \notin Job
BY AudioConstants DEF Job

LEMMA PacketsCounted == Packets \in Nat \ {0}
BY AudioConstants

\* The target whose turn it is, is the line-up's entry for its key.
LEMMA TurnIsItsEntry ==
  ASSUME AudioTypeOK, HasJob
  PROVE  EntryOf(Targets, Turn.key) = Turn
<1>1. Targets \in Lineup /\ worker.turn \in DOMAIN Targets
  <2>1. worker.job \in Job /\ worker.turn \in 1..Len(Targets)
    BY DEF AudioTypeOK, WorkerTypeOK, HasJob
  <2>2. Targets \in Lineup
    BY <2>1 DEF Targets, Job
  <2>3. Targets \in Seq([key : Key, path : Path])
    BY <2>2, AudioConstants
  <2> QED BY <2>1, <2>2, <2>3, LenProperties
<1>2. Turn \in ToSet(Targets)
  BY <1>1 DEF Turn, ToSet
<1>3. \A i, j \in DOMAIN Targets : Targets[i].key = Targets[j].key => i = j
  BY <1>1, AudioConstants
<1>4. ASSUME NEW e \in ToSet(Targets), e.key = Turn.key
      PROVE  e = Turn
  <2>1. PICK i \in DOMAIN Targets : e = Targets[i]
    BY DEF ToSet
  <2>2. i = worker.turn
    BY <1>1, <1>3, <1>4, <2>1 DEF Turn
  <2> QED BY <2>1, <2>2 DEF Turn
<1> QED BY <1>2, <1>4 DEF EntryOf

\* A seek to a tick starts with a packet that is not ahead of it.
LEMMA PacketStarts ==
  ASSUME NEW tick \in Nat
  PROVE  PacketAt(tick) \in Nat /\ PacketAt(tick) * PacketFrames <= tick
<1>1. PICK q \in Nat : q = tick \div PacketFrames /\ q * PacketFrames <= tick
  <2>1. PICK length \in Nat \ {0} : length = PacketFrames
    BY PacketLength
  <2>2. tick \div length \in Nat
    BY <2>1
  <2>3. tick = length * (tick \div length) + (tick % length) /\ (tick % length) \in 0..(length - 1)
    BY <2>1
  <2> QED BY <2>1, <2>2, <2>3
<1>2. CASE q < Packets
  BY <1>1, <1>2 DEF PacketAt
<1>3. CASE ~(q < Packets)
  <2>1. Packets - 1 \in Nat /\ Packets - 1 <= q
    BY <1>1, <1>3, PacketsCounted
  <2>2. (Packets - 1) * PacketFrames <= q * PacketFrames
    BY <2>1, <1>1, PacketLength
  <2>3. PacketAt(tick) = Packets - 1
    BY <1>1, <1>3 DEF PacketAt
  <2>4. (Packets - 1) * PacketFrames \in Int /\ q * PacketFrames \in Int
    BY <2>1, <1>1, PacketLength
  <2> QED BY <2>1, <2>2, <2>3, <2>4, <1>1
<1> QED BY <1>2, <1>3

LEMMA PacketAfter ==
  ASSUME NEW n \in Int
  PROVE  (n - 1) * PacketFrames + PacketFrames = n * PacketFrames
BY PacketLength

LEMMA Awaiting ==
  ASSUME AudioTypeOK, NEW k \in DOMAIN lanes
  PROVE  Awaited(k) \in Nat
BY DEF AudioTypeOK, LanesTypeOK, Lane, Awaited

LEMMA Positioned ==
  ASSUME AudioTypeOK, NEW k \in DOMAIN sessions
  PROVE  Position(k) \in Int
<1>1. sessions[k] \in Session
  BY DEF AudioTypeOK, SessionsTypeOK
<1> QED BY <1>1, PacketLength DEF Session, Position

\* The frame a decoder gives next is the one at its position.
LEMMA FrameAtPosition ==
  ASSUME AudioTypeOK, SessionsAligned, worker.pc = "decode"
  PROVE  /\ FrameTick = Position(Turn.key)
         /\ worker.at > 0 => PacketsRead <= Packets
<1>1. Turn.key \in DOMAIN sessions /\ worker.at \in Nat /\ Decoding(Turn.key)
  BY DEF AudioTypeOK, WorkerTypeOK, Decoding
<1>2. sessions[Turn.key] \in Session
  BY <1>1 DEF AudioTypeOK, SessionsTypeOK
<1>3. PICK s \in Session : s = sessions[Turn.key]
  BY <1>2
<1>4. CASE worker.at > 0
  <2>1. s.cursor = (s.next - 1) * PacketFrames + worker.at /\ s.next <= Packets
    BY <1>1, <1>3, <1>4 DEF SessionsAligned
  <2>2. s.cursor \in Int
    BY <1>1, <1>3, <2>1, PacketLength DEF Session
  <2>3. PacketsRead = s.next
    BY <1>1, <1>3, <1>4 DEF PacketsRead
  <2>4. FrameTick = s.cursor
    BY <2>1, <2>3 DEF FrameTick
  <2>5. s.cursor # NoTick
    BY <2>2, AudioConstants
  <2>6. Position(Turn.key) = s.cursor
    BY <1>3, <2>5 DEF Position
  <2> QED BY <2>1, <2>3, <2>4, <2>6
<1>5. CASE worker.at = 0
  <2>1. s.cursor # NoTick => s.cursor = s.next * PacketFrames
    BY <1>1, <1>3, <1>5 DEF SessionsAligned
  <2>2. PacketsRead = s.next + 1
    BY <1>3, <1>5 DEF PacketsRead
  <2>3. s.next \in Nat
    BY DEF Session
  <2>4. FrameTick = s.next * PacketFrames
    BY <2>2, <2>3, <1>5, PacketLength DEF FrameTick
  <2>5. Position(Turn.key) = s.next * PacketFrames
    BY <1>3, <2>1 DEF Position
  <2> QED BY <1>5, <2>4, <2>5
<1> QED BY <1>1, <1>4, <1>5

-----------------------------------------------------------------------------
(* The queues.                                                               *)

\* The numbers a queue is in time by.
InTime(sample, i, tick, consumed, decoded, lost) ==
  /\ sample < tick + decoded
  /\ sample <= tick + consumed + i - 1
  /\ sample >= tick + consumed + i - 1 - lost

LEMMA QueueNumbers ==
  ASSUME AudioTypeOK, NEW lane \in Lane, lane.origin <= deviceFrames
  PROVE  \E queue \in Seq(Int), consumed, tick, decoded, lost, origin \in Nat :
           /\ queue = lane.queue /\ tick = lane.tick /\ decoded = lane.decoded
           /\ origin = lane.origin /\ lost = missed /\ consumed = Consumed(lane)
           /\ deviceFrames = origin + consumed
           /\ QueueInTime(lane) <=>
                /\ decoded <= consumed + Len(queue)
                /\ \A i \in 1..Len(queue) : InTime(queue[i], i, tick, consumed, decoded, lost)
<1>1. /\ lane.queue \in Seq(Int) /\ lane.tick \in Nat /\ lane.decoded \in Nat
      /\ lane.origin \in Nat /\ missed \in Nat /\ deviceFrames \in Nat
  BY DEF Lane, AudioTypeOK, TransportTypeOK
<1>2. Consumed(lane) \in Nat /\ deviceFrames = lane.origin + Consumed(lane)
  BY <1>1 DEF Consumed
<1>3. QueueInTime(lane) <=>
        /\ lane.decoded <= Consumed(lane) + Len(lane.queue)
        /\ \A i \in 1..Len(lane.queue) :
             InTime(lane.queue[i], i, lane.tick, Consumed(lane), lane.decoded, missed)
  BY DEF QueueInTime, InTime
<1> QED BY <1>1, <1>2, <1>3

\* The same for a queue in time.
LEMMA TimedNumbers ==
  ASSUME AudioTypeOK, NEW lane \in Lane, lane.origin <= deviceFrames, QueueInTime(lane)
  PROVE  \E queue \in Seq(Int), consumed, tick, decoded, lost, origin \in Nat :
           /\ queue = lane.queue /\ tick = lane.tick /\ decoded = lane.decoded
           /\ origin = lane.origin /\ lost = missed /\ consumed = Consumed(lane)
           /\ deviceFrames = origin + consumed
           /\ decoded <= consumed + Len(queue)
           /\ \A i \in 1..Len(queue) : InTime(queue[i], i, tick, consumed, decoded, lost)
<1>1. PICK queue \in Seq(Int), consumed, tick, decoded, lost, origin \in Nat :
        /\ queue = lane.queue /\ tick = lane.tick /\ decoded = lane.decoded
        /\ origin = lane.origin /\ lost = missed /\ consumed = Consumed(lane)
        /\ deviceFrames = origin + consumed
        /\ QueueInTime(lane) <=>
             /\ decoded <= consumed + Len(queue)
             /\ \A i \in 1..Len(queue) : InTime(queue[i], i, tick, consumed, decoded, lost)
  BY QueueNumbers
<1>2. /\ decoded <= consumed + Len(queue)
      /\ \A i \in 1..Len(queue) : InTime(queue[i], i, tick, consumed, decoded, lost)
  BY <1>1
<1> QED BY <1>1, <1>2

\* A frame the lane waits for, or one of the preroll, leaves the queue in time.
LEMMA QueueGrows ==
  ASSUME AudioTypeOK, NEW k \in DOMAIN lanes, QueueInTime(lanes[k]),
         lanes[k].origin <= deviceFrames,
         NEW floats, floats = <<>> \/ floats = <<Awaited(k)>>
  PROVE  QueueInTime(EnqueueDecodedFrame(k, floats))
<1>1. PICK lane \in Lane : lane = lanes[k]
  BY DEF AudioTypeOK, LanesTypeOK
<1>2. PICK queue \in Seq(Int), consumed, tick, decoded, lost, origin \in Nat :
        /\ queue = lane.queue /\ tick = lane.tick /\ decoded = lane.decoded
        /\ origin = lane.origin /\ lost = missed /\ consumed = Consumed(lane)
        /\ deviceFrames = origin + consumed
        /\ decoded <= consumed + Len(queue)
        /\ \A i \in 1..Len(queue) : InTime(queue[i], i, tick, consumed, decoded, lost)
  <2>1. lane.origin <= deviceFrames /\ QueueInTime(lane)
    BY <1>1
  <2> QED BY <2>1, TimedNumbers
<1>3. PICK length \in Nat : length = Len(queue)
  OBVIOUS
<1>4. PICK sample \in Nat : sample = tick + decoded
  OBVIOUS
<1>5. floats = <<>> \/ floats = <<sample>>
  BY <1>1, <1>2, <1>4 DEF Awaited
<1> DEFINE kept == SubSeq(floats, StaleFrames(consumed, decoded) + 1, Len(floats))
<1>6. EnqueueDecodedFrame(k, floats)
        = [lane EXCEPT !.queue = queue \o kept, !.decoded = decoded + Len(floats)]
  BY <1>1, <1>2 DEF EnqueueDecodedFrame
<1> HIDE DEF kept
<1>7. ASSUME NEW all \in Seq(Int), all = queue \o kept, NEW now \in Nat, now = decoded + Len(floats),
             now <= consumed + Len(all),
             \A i \in 1..Len(all) : InTime(all[i], i, tick, consumed, now, lost)
      PROVE  QueueInTime(EnqueueDecodedFrame(k, floats))
  <2>1. PICK enqueued \in Lane :
          /\ enqueued = EnqueueDecodedFrame(k, floats)
          /\ enqueued.queue = all /\ enqueued.decoded = now
          /\ enqueued.tick = tick /\ enqueued.origin = origin
    <3>1. EnqueueDecodedFrame(k, floats) = [lane EXCEPT !.queue = all, !.decoded = now]
      BY <1>6, <1>7
    <3> QED BY <3>1, <1>2 DEF Lane
  <2>2. Consumed(enqueued) = consumed
    BY <1>2, <2>1 DEF Consumed
  <2> QED BY <1>2, <1>7, <2>1, <2>2 DEF QueueInTime, InTime
<1>8. ASSUME NEW now \in Nat, decoded <= now, NEW i \in Int, NEW heard \in Int,
             InTime(heard, i, tick, consumed, decoded, lost)
      PROVE  InTime(heard, i, tick, consumed, now, lost)
  BY <1>8 DEF InTime
<1>9. CASE floats = <<>>
  <2>1. kept = <<>> /\ Len(floats) = 0
    <3>1. StaleFrames(consumed, decoded) \in Nat
      BY DEF StaleFrames
    <3> QED BY <1>9, <3>1, SubSeqEmpty DEF kept
  <2>2. queue \o kept = queue
    BY <2>1
  <2>3. decoded + Len(floats) = decoded
    BY <2>1
  <2> QED BY <1>2, <1>7, <2>2, <2>3
<1>10. CASE floats = <<sample>> /\ consumed > decoded
  <2>1. kept = <<>> /\ Len(floats) = 1
    <3>1. PICK stale \in Nat : stale = StaleFrames(consumed, decoded) /\ stale > 0
      BY <1>10 DEF StaleFrames
    <3>2. floats \in Seq(Int) /\ Len(floats) = 1 /\ Len(floats) < stale + 1
      BY <1>10, <3>1
    <3>3. SubSeq(floats, stale + 1, Len(floats)) = <<>>
      BY <3>1, <3>2, SubSeqEmpty
    <3> QED BY <3>1, <3>2, <3>3 DEF kept
  <2>2. queue \o kept = queue
    BY <2>1
  <2>3. PICK now \in Nat : now = decoded + 1
    OBVIOUS
  <2>4. now <= consumed + length /\ decoded <= now
    BY <1>10, <2>3
  <2>5. ASSUME NEW i \in 1..Len(queue)
        PROVE  InTime(queue[i], i, tick, consumed, now, lost)
    <3>1. PICK heard \in Int : heard = queue[i] /\ i \in Int
      OBVIOUS
    <3>2. InTime(heard, i, tick, consumed, decoded, lost)
      BY <1>2, <3>1
    <3> QED BY <1>8, <2>4, <3>1, <3>2
  <2> QED BY <1>3, <1>7, <2>1, <2>2, <2>3, <2>4, <2>5
<1>11. CASE floats = <<sample>> /\ ~(consumed > decoded)
  <2>1. kept = <<sample>> /\ Len(floats) = 1
    <3>1. StaleFrames(consumed, decoded) + 1 = 1
      BY <1>11 DEF StaleFrames
    <3>2. <<sample>> \in Seq(Int) /\ Len(<<sample>>) = 1 /\ <<sample>>[1] = sample
      OBVIOUS
    <3>3. PICK one \in Seq(Int) : one = <<sample>>
      BY <3>2
    <3>4. /\ SubSeq(one, 1, 1) \in Seq(Int) /\ Len(SubSeq(one, 1, 1)) = 1
          /\ SubSeq(one, 1, 1)[1] = one[1]
      <4>1. \A i \in 1..1 : one[i] \in Int
        BY <3>2, <3>3
      <4>2. /\ SubSeq(one, 1, 1) \in Seq(Int)
            /\ Len(SubSeq(one, 1, 1)) = IF 1 <= 1 THEN 1 - 1 + 1 ELSE 0
            /\ \A i \in 1..(1 - 1 + 1) : SubSeq(one, 1, 1)[i] = one[1 + i - 1]
        BY <4>1, SubSeqProperties
      <4> QED BY <4>2
    <3>5. SubSeq(one, 1, 1) = one
      <4>1. Len(one) = 1 /\ \A i \in 1..1 : SubSeq(one, 1, 1)[i] = one[i]
        BY <3>2, <3>3, <3>4
      <4> QED BY <3>4, <4>1, SeqEqual
    <3>6. kept = SubSeq(one, 1, 1) /\ Len(floats) = 1
      BY <1>11, <3>1, <3>2, <3>3 DEF kept
    <3>7. kept = one
      BY <3>5, <3>6
    <3> QED BY <3>3, <3>6, <3>7
  <2>2. PICK all \in Seq(Int) : all = queue \o <<sample>>
    <3>1. queue \o <<sample>> \in Seq(Int)
      OBVIOUS
    <3> QED BY <3>1
  <2>3. /\ Len(all) = length + 1 /\ all[length + 1] = sample
        /\ \A i \in 1..Len(queue) : all[i] = queue[i]
    BY <1>3, <2>2
  <2>4. PICK now \in Nat : now = decoded + 1
    OBVIOUS
  <2>5. decoded >= consumed + length - lost
    <3>1. CASE length = 0
      BY <3>1, <1>11
    <3>2. CASE length # 0
      <4>1. length \in 1..Len(queue)
        BY <3>2, <1>3
      <4>2. PICK last \in Int : last = queue[length]
        BY <4>1
      <4>3. InTime(last, length, tick, consumed, decoded, lost)
        BY <4>1, <4>2, <1>2
      <4> QED BY <4>3 DEF InTime
    <3> QED BY <3>1, <3>2
  <2>6. InTime(sample, length + 1, tick, consumed, now, lost)
    <3>1. decoded <= consumed + length
      BY <1>2, <1>3
    <3> QED BY <1>4, <2>4, <2>5, <3>1 DEF InTime
  <2>7. ASSUME NEW i \in 1..Len(all)
        PROVE  InTime(all[i], i, tick, consumed, now, lost)
    <3>1. CASE i = length + 1
      BY <3>1, <2>3, <2>6
    <3>2. CASE i # length + 1
      <4>1. i \in 1..Len(queue) /\ decoded <= now
        BY <3>2, <1>3, <2>3, <2>4
      <4>2. PICK heard \in Int : heard = queue[i] /\ i \in Int
        BY <4>1
      <4>3. InTime(heard, i, tick, consumed, decoded, lost)
        BY <1>2, <4>1, <4>2
      <4>4. InTime(heard, i, tick, consumed, now, lost)
        BY <1>8, <4>1, <4>2, <4>3
      <4> QED BY <2>3, <4>1, <4>2, <4>4
    <3> QED BY <3>1, <3>2
  <2>8. now <= consumed + Len(all)
    <3>1. decoded <= consumed + length
      BY <1>2, <1>3
    <3> QED BY <3>1, <2>3, <2>4
  <2> QED BY <1>7, <2>1, <2>2, <2>4, <2>7, <2>8
<1> QED BY <1>5, <1>9, <1>10, <1>11

\* The device plays the head of a queue and its clock goes on.
LEMMA QueuePops ==
  ASSUME AudioTypeOK, NEW lane \in Lane, QueueInTime(lane), lane.origin <= deviceFrames,
         deviceFrames' = deviceFrames + 1, missed' = missed
  PROVE  QueueInTime(Popped(lane))'
<1>1. PICK queue \in Seq(Int), consumed, tick, decoded, lost, origin \in Nat :
        /\ queue = lane.queue /\ tick = lane.tick /\ decoded = lane.decoded
        /\ origin = lane.origin /\ lost = missed /\ consumed = Consumed(lane)
        /\ deviceFrames = origin + consumed
        /\ decoded <= consumed + Len(queue)
        /\ \A i \in 1..Len(queue) : InTime(queue[i], i, tick, consumed, decoded, lost)
  BY TimedNumbers, ZenonT(30)
<1>2. PICK length \in Nat : length = Len(queue)
  OBVIOUS
<1>3. PICK later \in Nat : later = consumed + 1
  OBVIOUS
<1>4. ASSUME NEW popped \in Lane, popped.decoded = decoded, popped.tick = tick,
             popped.origin = origin, decoded <= later + Len(popped.queue),
             \A i \in 1..Len(popped.queue) : InTime(popped.queue[i], i, tick, later, decoded, lost)
      PROVE  QueueInTime(popped)'
  <2>1. deviceFrames' = origin + later
    BY <1>1, <1>3
  <2>2. Consumed(popped)' = later
    BY <1>4, <2>1 DEF Consumed
  <2> QED BY <1>1, <1>4, <2>2 DEF QueueInTime, InTime
<1>5. CASE queue = <<>>
  <2>1. Popped(lane) = lane /\ length = 0 /\ Len(lane.queue) = 0
    BY <1>1, <1>2, <1>5 DEF Popped
  <2>2. decoded <= later + Len(lane.queue)
    BY <1>1, <1>3, <2>1
  <2>3. \A i \in 1..Len(lane.queue) : InTime(lane.queue[i], i, tick, later, decoded, lost)
    BY <2>1
  <2>4. QueueInTime(lane)'
    BY <1>1, <1>4, <2>2, <2>3
  <2> QED BY <2>1, <2>4
<1>6. CASE queue # <<>>
  <2>1. PICK rest \in Seq(Int) : rest = Tail(queue)
    <3>1. Tail(queue) \in Seq(Int)
      BY <1>6
    <3> QED BY <3>1
  <2>2. Len(rest) = length - 1 /\ \A i \in 1..Len(rest) : rest[i] = queue[i + 1]
    BY <1>2, <1>6, <2>1
  <2>3. PICK popped \in Lane :
          /\ popped = Popped(lane) /\ popped.queue = rest /\ popped.decoded = decoded
          /\ popped.tick = tick /\ popped.origin = origin
    <3>1. Popped(lane) = [lane EXCEPT !.queue = rest]
      BY <1>1, <1>6, <2>1 DEF Popped
    <3> QED BY <1>1, <3>1 DEF Lane
  <2>4. ASSUME NEW i \in 1..Len(rest)
        PROVE  InTime(rest[i], i, tick, later, decoded, lost)
    <3>1. i \in Int /\ i + 1 \in 1..Len(queue)
      <4>1. i \in Int /\ 1 <= i /\ i <= length - 1
        BY <2>2
      <4>2. i + 1 \in 1..length
        BY <4>1
      <4> QED BY <1>2, <4>1, <4>2
    <3>2. PICK heard \in Int : heard = queue[i + 1]
      BY <3>1
    <3>3. InTime(heard, i + 1, tick, consumed, decoded, lost)
      BY <1>1, <3>1, <3>2
    <3>4. InTime(heard, i, tick, later, decoded, lost)
      BY <1>3, <3>1, <3>3 DEF InTime
    <3> QED BY <2>2, <3>2, <3>4
  <2>5. decoded <= later + Len(rest)
    <3>1. decoded <= consumed + length
      BY <1>1, <1>2
    <3> QED BY <3>1, <1>3, <2>2
  <2> QED BY <1>4, <2>3, <2>4, <2>5
<1> QED BY <1>5, <1>6

\* When it fails to lock, the queue falls behind by a frame.
LEMMA QueueFallsBehind ==
  ASSUME AudioTypeOK, NEW lane \in Lane, QueueInTime(lane), lane.origin <= deviceFrames,
         deviceFrames' = deviceFrames + 1, missed' = missed + 1
  PROVE  QueueInTime(lane)'
<1>1. PICK queue \in Seq(Int), consumed, tick, decoded, lost, origin \in Nat :
        /\ queue = lane.queue /\ tick = lane.tick /\ decoded = lane.decoded
        /\ origin = lane.origin /\ lost = missed /\ consumed = Consumed(lane)
        /\ deviceFrames = origin + consumed
        /\ decoded <= consumed + Len(queue)
        /\ \A i \in 1..Len(queue) : InTime(queue[i], i, tick, consumed, decoded, lost)
  BY TimedNumbers, ZenonT(30)
<1>2. PICK later, more \in Nat : later = consumed + 1 /\ more = lost + 1
  OBVIOUS
<1>3. Consumed(lane)' = later /\ missed' = more
  <2>1. deviceFrames = origin + consumed /\ lane.origin = origin /\ lost = missed
    BY <1>1
  <2>2. QED
    BY <1>2, <2>1, SMTT(30) DEF Consumed
<1>4. decoded <= later + Len(queue)
  <2>1. PICK length \in Nat : length = Len(queue)
    OBVIOUS
  <2>2. decoded <= consumed + length
    BY <1>1, <2>1
  <2>3. decoded <= later + length
    BY <1>2, <2>2
  <2> QED BY <2>1, <2>3
<1>5. ASSUME NEW i \in 1..Len(queue)
      PROVE  InTime(queue[i], i, tick, later, decoded, more)
  <2>1. PICK heard \in Int : heard = queue[i] /\ i \in Int
    OBVIOUS
  <2>2. InTime(heard, i, tick, consumed, decoded, lost)
    BY <1>1, <2>1
  <2> QED BY <1>2, <2>1, <2>2 DEF InTime
<1> QED BY <1>1, <1>3, <1>4, <1>5 DEF QueueInTime, InTime

-----------------------------------------------------------------------------
(* What a step that keeps the lanes keeps.                                   *)

\* The lanes are the same ones, and the clock has not gone back.
LanesAlike ==
  /\ DOMAIN lanes' = DOMAIN lanes
  /\ \A k \in DOMAIN lanes : lanes'[k].path = lanes[k].path /\ lanes'[k].steady = lanes[k].steady
  /\ generation' = generation /\ sourceTick' = sourceTick
  /\ sourceTick + deviceFrames <= sourceTick' + deviceFrames'

LEMMA LanesOfKept ==
  ASSUME AudioTypeOK, LanesAlike, AudioTypeOK', NEW line, NEW tick \in Nat, LanesOf(line, tick)
  PROVE  LanesOf(line, tick)'
<1>1. PICK before, after \in Nat :
        before = sourceTick + deviceFrames /\ after = sourceTick' + deviceFrames'
  <2>1. sourceTick \in Nat /\ deviceFrames \in Nat
    BY DEF AudioTypeOK, TransportTypeOK
  <2>2. TransportTypeOK'
    BY DEF AudioTypeOK
  <2>3. sourceTick' \in Nat /\ deviceFrames' \in Nat
    BY <2>2 DEF TransportTypeOK
  <2>4. sourceTick + deviceFrames \in Nat
    BY <2>1
  <2>5. sourceTick' + deviceFrames' \in Nat
    <3>1. ASSUME NEW a \in Nat, NEW b \in Nat PROVE a + b \in Nat
      OBVIOUS
    <3> QED BY <2>3, <3>1
  <2> QED BY <2>4, <2>5
<1>2. sourceTick + deviceFrames <= sourceTick' + deviceFrames'
  BY DEF LanesAlike
<1>3. tick <= sourceTick + deviceFrames
  BY DEF LanesOf
<1>4. tick <= sourceTick' + deviceFrames'
  BY <1>1, <1>2, <1>3
<1> QED BY <1>4 DEF LanesAlike, LanesOf

LEMMA DueKept ==
  ASSUME AudioTypeOK, LanesAlike, AudioTypeOK',
         NEW line, NEW tick \in Nat, NEW resume, Due(line, tick, resume),
         worker'.job = worker.job \/ worker'.job = NoJob,
         \A k \in DOMAIN lanes : Awaited(k)' = Awaited(k),
         \A k \in DOMAIN lanes : Carried(k, tick) => Carried(k, tick)'
  PROVE  Due(line, tick, resume)'
<1>1. LanesOf(line, tick)'
  BY LanesOfKept DEF Due
<1>2. (worker.job # NoJob => worker.job.generation < generation)'
  BY DEF Due, LanesAlike
<1>3. (\A k \in DOMAIN lanes : lanes[k].steady =>
         IF k \in resume THEN Carried(k, tick) ELSE Awaited(k) = tick)'
  BY DEF Due, LanesAlike
<1> QED BY <1>1, <1>2, <1>3 DEF Due

LEMMA BegunKept ==
  ASSUME AudioTypeOK, LanesAlike, AudioTypeOK', Begun, worker'.job = worker.job,
         \A k \in DOMAIN lanes : UnderWay(k) => UnderWay(k)'
  PROVE  Begun'
<1>1. PICK line \in Lineup, tick \in Nat : line = Targets /\ tick = worker.job.tick
  BY DEF Begun, AudioTypeOK, WorkerTypeOK, Targets, Job
<1>2. Targets' = line /\ worker'.job.tick = tick
  BY <1>1 DEF Targets
<1>3. LanesOf(line, tick)'
  BY <1>1, LanesOfKept DEF Begun
<1>4. LanesOf(Targets, worker.job.tick)'
  BY <1>2, <1>3 DEF LanesOf
<1>5. (\A k \in DOMAIN lanes : lanes[k].steady => UnderWay(k))'
  BY DEF Begun, LanesAlike
<1> QED BY <1>4, <1>5 DEF Begun, StillCurrent, LanesAlike

\* A step of the worker or of the callback that leaves the jobs' places as they were.
LEMMA OwnedKept ==
  ASSUME AudioTypeOK, LanesAlike, LanesOwned, UNCHANGED <<ui, pending>>,
         lanes = <<>> => lanes' = <<>>,
         ASSUME NEW line \in Lineup, NEW tick \in Nat, NEW resume, Due(line, tick, resume),
                pending # NoJob => pending.generation = generation \/ ui.pc # "idle"
         PROVE  Due(line, tick, resume)',
         ui.pc = "idle" /\ pending = NoJob /\ Begun => Begun'
  PROVE  LanesOwned'
<1>1. CASE ui.pc \in {"submit", "submit_reconcile"}
  <2>1. PICK line \in Lineup, tick \in Nat, resume \in SUBSET Key : line = ui.line /\ tick = ui.tick /\ resume = ui.resume
    BY <1>1 DEF AudioTypeOK, UiTypeOK
  <2>2. Due(line, tick, resume)'
    BY <1>1, <2>1 DEF LanesOwned
  <2>3. ui'.line = line /\ ui'.tick = tick /\ ui'.resume = resume
    BY <2>1
  <2>4. Due(ui.line, ui.tick, ui.resume)'
    BY <2>2, <2>3 DEF Due, LanesOf, Carried
  <2> QED BY <1>1, <2>4 DEF LanesOwned
<1>2. CASE ui.pc = "idle"
  <2>1. CASE lanes = <<>>
    BY <1>2, <2>1 DEF LanesOwned
  <2>2. CASE /\ pending # NoJob /\ pending.generation = generation
             /\ Due(pending.line, pending.tick, pending.resume)
    <3>1. PICK line \in Lineup, tick \in Nat, resume \in SUBSET Key :
            line = pending.line /\ tick = pending.tick /\ resume = pending.resume
      BY <2>2 DEF AudioTypeOK, TransportTypeOK, Job
    <3>2. Due(line, tick, resume)'
      BY <2>2, <3>1
    <3>3. pending'.line = line /\ pending'.tick = tick /\ pending'.resume = resume
      BY <3>1
    <3>4. Due(pending.line, pending.tick, pending.resume)'
      BY <3>2, <3>3 DEF Due, LanesOf, Carried
    <3> QED BY <1>2, <2>2, <3>4 DEF LanesOwned, LanesAlike
  <2>3. CASE pending = NoJob /\ Begun
    BY <1>2, <2>3 DEF LanesOwned
  <2> QED BY <1>2, <2>1, <2>2, <2>3 DEF LanesOwned
<1>3. CASE ui.pc \notin {"idle", "submit", "submit_reconcile"}
  BY <1>3 DEF LanesOwned
<1> QED BY <1>1, <1>2, <1>3

\* Nothing but the error slot or the callback's flag moves.
LEMMA HeardStays ==
  ASSUME AudioInv, AudioInv', HeardInv,
         UNCHANGED <<deviceFrames, sourceTick, missed, generation, lanes, pending, shutdown, worker,
                     sessions, ui>>
  PROVE  HeardInv'
<1>1. SessionsAligned' /\ JobsOrdered'
  BY DEF HeardInv, SessionsAligned, Decoding, Turn, Targets, JobsOrdered
<1>2. LanesInTime => LanesInTime'
  BY DEF LanesInTime, QueueInTime, Consumed
<1>3. LanesAlike /\ AudioTypeOK /\ AudioTypeOK'
  BY DEF LanesAlike, AudioInv, AudioTypeOK, TransportTypeOK
<1>4. \A k \in DOMAIN lanes : Awaited(k)' = Awaited(k)
  BY DEF Awaited
<1>5. ASSUME NEW tick, NEW k
      PROVE  Carried(k, tick) => Carried(k, tick)'
  BY DEF Carried, Awaited, Decoding, Turn, Targets, HasJob
<1>6. ASSUME NEW k
      PROVE  UnderWay(k) => UnderWay(k)'
  BY DEF UnderWay, Awaited, Position, Decoding, Turn, Targets
<1>7. LanesOwned => LanesOwned'
  BY <1>3, <1>4, <1>5, <1>6, DueKept, BegunKept, OwnedKept
<1> QED BY <1>1, <1>2, <1>7 DEF HeardInv

-----------------------------------------------------------------------------
(* The device callback.                                                      *)

LEMMA CallbackHeard ==
  ASSUME AudioInv, AudioInv', HeardInv, CallbackStep
  PROVE  HeardInv'
<1> USE DEF AudioInv
<1>1. CASE CallbackReads
  BY <1>1, HeardStays DEF CallbackReads, clockVars, sharedVars, queueVars, workVars
<1>2. ASSUME NEW lost \in {0, 1}, missed' = missed + lost, deviceFrames' = deviceFrames + 1,
             UNCHANGED <<sourceTick, generation, pending, shutdown, worker, sessions, ui>>,
             DOMAIN lanes' = DOMAIN lanes,
             \A k \in DOMAIN lanes :
               /\ lanes'[k].path = lanes[k].path /\ lanes'[k].steady = lanes[k].steady
               /\ lanes'[k].tick = lanes[k].tick /\ lanes'[k].decoded = lanes[k].decoded
               /\ lanes'[k].origin = lanes[k].origin
               /\ QueueInTime(lanes[k]) /\ lanes[k].origin <= deviceFrames => QueueInTime(lanes[k])'
      PROVE  HeardInv'
  <2>1. SessionsAligned' /\ JobsOrdered'
    BY <1>2 DEF HeardInv, SessionsAligned, Decoding, Turn, Targets, JobsOrdered
  <2>2. sourceTick \in Nat /\ deviceFrames \in Nat
    BY DEF AudioTypeOK, TransportTypeOK
  <2>3. ASSUME LanesInTime, NEW k \in DOMAIN lanes
        PROVE  lanes'[k].origin <= deviceFrames' /\ (lanes'[k].steady => QueueInTime(lanes[k])')
    <3>1. lanes[k].origin \in Nat /\ lanes[k].origin <= deviceFrames
      BY <2>3 DEF LanesInTime, AudioTypeOK, LanesTypeOK, Lane
    <3>2. lanes[k].origin <= deviceFrames + 1
      BY <2>2, <3>1
    <3> QED BY <1>2, <2>3, <3>1, <3>2 DEF LanesInTime
  <2>4. LanesInTime => LanesInTime'
    BY <1>2, <2>3 DEF LanesInTime
  <2>5. LanesAlike
    BY <1>2, <2>2 DEF LanesAlike
  <2>6. \A k \in DOMAIN lanes : Awaited(k)' = Awaited(k)
    BY <1>2 DEF Awaited
  <2>7. ASSUME NEW tick, NEW k \in DOMAIN lanes
        PROVE  Carried(k, tick) => Carried(k, tick)'
    BY <1>2 DEF Carried, Awaited, Decoding, Turn, Targets, HasJob
  <2>8. ASSUME NEW k \in DOMAIN lanes
        PROVE  UnderWay(k) => UnderWay(k)'
    BY <1>2 DEF UnderWay, Awaited, Position, Decoding, Turn, Targets
  <2>9. lanes = <<>> => lanes' = <<>>
    BY <1>2
  <2>10. LanesOwned => LanesOwned'
    BY <1>2, <2>5, <2>6, <2>7, <2>8, <2>9, DueKept, BegunKept, OwnedKept
  <2> QED BY <1>2, <2>1, <2>4, <2>10 DEF HeardInv
<1>3. CASE CallbackMixes
  <2>1. missed' = missed + 0
    BY <1>3 DEF CallbackMixes, AudioTypeOK, TransportTypeOK
  <2>2. ASSUME NEW k \in DOMAIN lanes
        PROVE  /\ lanes'[k] = Popped(lanes[k])
               /\ lanes'[k].path = lanes[k].path /\ lanes'[k].steady = lanes[k].steady
               /\ lanes'[k].tick = lanes[k].tick /\ lanes'[k].decoded = lanes[k].decoded
               /\ lanes'[k].origin = lanes[k].origin
    <3>1. PICK lane \in Lane : lane = lanes[k]
      BY DEF AudioTypeOK, LanesTypeOK
    <3>2. lanes'[k] = Popped(lane)
      BY <1>3, <3>1 DEF CallbackMixes
    <3> QED BY <3>1, <3>2 DEF Popped, Lane
  <2>3. ASSUME NEW k \in DOMAIN lanes, QueueInTime(lanes[k]), lanes[k].origin <= deviceFrames
        PROVE  QueueInTime(lanes[k])'
    <3>1. PICK lane \in Lane : lane = lanes[k]
      BY DEF AudioTypeOK, LanesTypeOK
    <3>2. QueueInTime(Popped(lane))'
      BY <1>3, <2>3, <3>1, QueuePops DEF CallbackMixes
    <3>3. PICK popped : popped = Popped(lane)
      OBVIOUS
    <3>4. lanes'[k] = popped /\ QueueInTime(popped)'
      BY <2>2, <3>1, <3>2, <3>3
    <3> QED BY <3>4 DEF QueueInTime, Consumed
  <2>4. DOMAIN lanes' = DOMAIN lanes
    BY <1>3 DEF CallbackMixes
  <2> QED BY <1>2, <1>3, <2>1, <2>2, <2>3, <2>4 DEF CallbackMixes, queueVars, workVars
<1>4. CASE CallbackMisses
  <2>1. ASSUME NEW k \in DOMAIN lanes, QueueInTime(lanes[k]), lanes[k].origin <= deviceFrames
        PROVE  QueueInTime(lanes[k])'
    <3>1. PICK lane \in Lane : lane = lanes[k]
      BY DEF AudioTypeOK, LanesTypeOK
    <3>2. QueueInTime(lane)'
      BY <1>4, <2>1, <3>1, QueueFallsBehind DEF CallbackMisses
    <3>3. lanes'[k] = lane
      BY <1>4, <3>1 DEF CallbackMisses, sharedVars
    <3> QED BY <3>2, <3>3 DEF QueueInTime, Consumed
  <2> QED BY <1>2, <1>4, <2>1 DEF CallbackMisses, sharedVars, queueVars, workVars
<1> QED BY <1>1, <1>3, <1>4 DEF CallbackStep

-----------------------------------------------------------------------------
(* The application.                                                          *)

\* The decoders and the worker do not move.
WorkerStays == worker' = worker /\ sessions' = sessions

LEMMA AlignedStays ==
  ASSUME SessionsAligned, WorkerStays
  PROVE  SessionsAligned'
BY DEF SessionsAligned, WorkerStays, Decoding, Turn, Targets

LEMMA SeekHeard ==
  ASSUME AudioInv, HeardInv, NEW line \in Lineup, NEW tick \in Cue, Seek(line, tick)
  PROVE  HeardInv'
<1>1. WorkerStays /\ ui'.pc = "replace" /\ ui'.tick = sourceTick'
  BY DEF Seek, Call, WorkerStays, workVars
<1>2. JobsOrdered'
  BY <1>1 DEF HeardInv, JobsOrdered, Seek, Ready, sharedVars, queueVars, WorkerStays
<1> QED BY <1>1, <1>2, AlignedStays DEF HeardInv

\* After a seek every lane waits for the tick it was asked for.
LEMMA ReplaceHeard ==
  ASSUME AudioInv, AudioInv', HeardInv, ReplaceLanes
  PROVE  HeardInv'
<1> USE DEF AudioInv
<1>1. PICK line \in Lineup, tick \in Nat : line = ui.line /\ tick = ui.tick /\ ui.pc = "replace"
  BY DEF ReplaceLanes, AudioTypeOK, UiTypeOK
<1>2. /\ ui' = [pc |-> "submit", line |-> line, tick |-> tick, resume |-> {}]
      /\ WorkerStays /\ generation' = generation + 1 /\ generation \in Nat
      /\ UNCHANGED <<pending, shutdown, sourceTick, deviceFrames, missed>>
      /\ sourceTick \in Nat /\ deviceFrames \in Nat
  BY <1>1
  DEF ReplaceLanes, Call, WorkerStays, workVars, queueVars, clockVars, AudioTypeOK, TransportTypeOK
<1>3. DOMAIN lanes' = KeysOf(line)
  BY <1>1 DEF ReplaceLanes, PlaybackLanes
<1>4. ASSUME NEW k \in KeysOf(line)
      PROVE  /\ lanes'[k].path = EntryOf(line, k).path /\ lanes'[k].tick = tick
             /\ lanes'[k].origin = 0 /\ lanes'[k].decoded = 0 /\ lanes'[k].queue = <<>>
  <2>1. PICK path : path = EntryOf(line, k).path
    OBVIOUS
  <2>2. lanes'[k] = PlaybackLane(path, tick, 0)
    BY <1>1, <2>1 DEF ReplaceLanes, PlaybackLanes
  <2> QED BY <2>1, <2>2 DEF PlaybackLane
<1>5. tick = sourceTick
  BY <1>1 DEF HeardInv, JobsOrdered
<1>6. worker.job # NoJob => worker.job.generation \in Nat /\ worker.job.generation <= generation
  BY DEF HeardInv, JobsOrdered, AudioTypeOK, WorkerTypeOK, Job
<1>7. pending # NoJob => pending.generation \in Nat /\ pending.generation <= generation
  BY DEF JobsCovered, Covered, AudioTypeOK, TransportTypeOK, Job
<1>8. JobsOrdered'
  BY <1>1, <1>2, <1>5, <1>6, <1>7 DEF HeardInv, JobsOrdered, WorkerStays
<1>9. LanesInTime'
  <2>1. ASSUME NEW k \in KeysOf(line)
        PROVE  lanes'[k].origin <= deviceFrames' /\ QueueInTime(lanes[k])'
    <3>1. lanes'[k].origin = 0 /\ lanes'[k].queue = <<>> /\ lanes'[k].decoded = 0
      BY <1>4
    <3>2. Consumed(lanes[k])' \in Nat
      BY <1>2, <3>1 DEF Consumed
    <3>3. 1..Len(lanes'[k].queue) = {} /\ 0 <= Consumed(lanes[k])' + Len(lanes'[k].queue)
      BY <3>1, <3>2
    <3> QED BY <1>2, <3>1, <3>3 DEF QueueInTime
  <2> QED BY <1>3, <2>1 DEF LanesInTime
<1>10. LanesOf(line, tick)'
  BY <1>2, <1>3, <1>4, <1>5 DEF LanesOf
<1>11. \A k \in KeysOf(line) : Awaited(k)' = tick
  BY <1>4 DEF Awaited
<1>12. Due(line, tick, {})'
  BY <1>2, <1>3, <1>6, <1>10, <1>11 DEF Due, WorkerStays
<1>13. LanesOwned'
  BY <1>2, <1>12 DEF LanesOwned, Due, LanesOf, Carried
<1> QED BY <1>2, <1>8, <1>9, <1>13, AlignedStays DEF HeardInv

\* A job goes to the worker's slot: what waited to be submitted waits to be taken.
LEMMA SubmitHeard ==
  ASSUME AudioInv, AudioInv', HeardInv, SubmitSeek \/ SubmitReconcile
  PROVE  HeardInv'
<1> USE DEF AudioInv
<1>1. PICK line \in Lineup, tick \in Nat, resume \in SUBSET Key :
        /\ line = ui.line /\ tick = ui.tick /\ resume = ui.resume
        /\ ui.pc \in {"submit", "submit_reconcile"}
  BY DEF SubmitSeek, SubmitReconcile, AudioTypeOK, UiTypeOK
<1>2. pending' = [generation |-> generation, line |-> line, tick |-> tick, resume |-> resume]
  BY <1>1 DEF HeardInv, JobsOrdered, SubmitSeek, SubmitReconcile
<1>3. /\ ui'.pc = "idle" /\ WorkerStays
      /\ UNCHANGED <<generation, lanes, shutdown, sourceTick, deviceFrames, missed>>
  BY DEF SubmitSeek, SubmitReconcile, Return, WorkerStays, workVars, sharedVars, clockVars
<1>4. pending' # NoJob
  <2>1. pending' \in Job
    BY <1>1, <1>2 DEF AudioTypeOK, TransportTypeOK, Job
  <2> QED BY <2>1, NoJobIsNone
<1>5. JobsOrdered'
  BY <1>1, <1>3 DEF HeardInv, JobsOrdered, WorkerStays
<1>6. LanesInTime'
  BY <1>1, <1>3 DEF HeardInv, LanesInTime, QueueInTime, Consumed
<1>7. Due(line, tick, resume)
  BY <1>1 DEF HeardInv, LanesOwned
<1>8. LanesAlike
  BY <1>3 DEF LanesAlike, AudioTypeOK, TransportTypeOK
<1>9. ASSUME NEW k \in DOMAIN lanes, Carried(k, tick)
      PROVE  Carried(k, tick)'
  BY <1>2, <1>3, <1>9 DEF Carried, Awaited, Decoding, Turn, Targets, HasJob, WorkerStays
<1>10. Due(line, tick, resume)'
  BY <1>3, <1>7, <1>8, <1>9, DueKept DEF Awaited, WorkerStays
<1>11. Due(pending.line, pending.tick, pending.resume)'
  BY <1>2, <1>10 DEF Due, LanesOf, Carried
<1>12. LanesOwned'
  BY <1>2, <1>3, <1>4, <1>11 DEF LanesOwned
<1> QED BY <1>3, <1>5, <1>6, <1>12, AlignedStays DEF HeardInv

\* A decoder that may be resumed stands at the frame its lane waits for.
LEMMA SettledIsDue ==
  ASSUME AudioTypeOK, NEW k \in DOMAIN lanes, NEW tick \in Nat, Settled(k, tick),
         UnderWay(k), worker.job \in Job, worker.job.tick <= tick
  PROVE  sessions[k].cursor = Awaited(k) /\ tick <= Awaited(k) /\ sessions[k].path = lanes[k].path
<1>1. k \in worker.resumed /\ ~Decoding(k) /\ k \in DOMAIN sessions /\ sessions[k].cursor # NoTick
  BY DEF Settled
<1>2. PICK cursor \in Int : cursor = sessions[k].cursor /\ cursor >= tick
  <2>1. sessions[k] \in Session
    BY <1>1 DEF AudioTypeOK, SessionsTypeOK
  <2>2. sessions[k].cursor \in Int
    BY <1>1, <2>1 DEF Session
  <2> QED BY <2>2 DEF Settled
<1>3. Position(k) = cursor
  BY <1>1, <1>2 DEF Position
<1>4. PICK awaited, start \in Nat : awaited = Awaited(k) /\ start = worker.job.tick
  BY Awaiting DEF Job
<1>5. sessions[k].path = lanes[k].path /\ cursor <= awaited /\ (cursor < awaited => awaited = start)
  BY <1>1, <1>3, <1>4 DEF UnderWay
<1>6. start <= tick
  BY <1>4
<1>7. cursor = awaited /\ tick <= awaited
  BY <1>2, <1>5, <1>6
<1> QED BY <1>2, <1>4, <1>5, <1>7

\* A reconcile leaves the lanes it retains where their decoders are, unless it catches a
\* decoder off guard, and starts the others now.
LEMMA ReconcileHeard ==
  ASSUME AudioInv, AudioInv', HeardInv, NEW line \in Lineup, Reconcile(line)
  PROVE  HeardInv'
<1> USE DEF AudioInv
<1>1. sourceTick \in Nat /\ deviceFrames \in Nat /\ generation \in Nat /\ ui.pc = "idle"
  BY DEF Reconcile, Ready, AudioTypeOK, TransportTypeOK
<1>2. PICK tick \in Nat : tick = sourceTick + deviceFrames
  BY <1>1
<1>3. PICK resume : resume = KeysOf(line) \cap DOMAIN lanes
  OBVIOUS
<1>4. /\ ui' = [pc |-> "submit_reconcile", line |-> line, tick |-> tick, resume |-> resume]
      /\ WorkerStays /\ generation' = generation + 1
      /\ UNCHANGED <<pending, shutdown, sourceTick, deviceFrames, missed>>
  BY <1>2, <1>3 DEF Reconcile, Call, WorkerStays, workVars, queueVars, clockVars
<1>5. DOMAIN lanes' = KeysOf(line) /\ lanes # <<>>
  <2>1. DOMAIN lanes' = KeysOf(line) /\ DOMAIN lanes # {}
    BY DEF Reconcile, Reconciled
  <2> QED BY <2>1
<1>6. ASSUME NEW k \in resume
      PROVE  /\ lanes'[k].path = lanes[k].path /\ lanes'[k].tick = lanes[k].tick
             /\ lanes'[k].origin = lanes[k].origin /\ lanes'[k].decoded = lanes[k].decoded
             /\ lanes'[k].queue = lanes[k].queue
             /\ lanes'[k].steady => lanes[k].steady /\ Settled(k, tick)
  <2>1. k \in KeysOf(line) /\ k \in DOMAIN lanes /\ lanes[k] \in Lane
    BY <1>3 DEF AudioTypeOK, LanesTypeOK
  <2>2. PICK steady : steady = (lanes[k].steady /\ Settled(k, tick))
    OBVIOUS
  <2>3. lanes'[k] = [lanes[k] EXCEPT !.steady = steady]
    BY <1>2, <2>1, <2>2 DEF Reconcile, Reconciled
  <2> QED BY <2>1, <2>2, <2>3 DEF Lane
<1>7. ASSUME NEW k \in KeysOf(line), k \notin resume
      PROVE  /\ lanes'[k].path = EntryOf(line, k).path /\ lanes'[k].tick = tick
             /\ lanes'[k].origin = deviceFrames /\ lanes'[k].decoded = 0 /\ lanes'[k].queue = <<>>
  <2>1. PICK path : path = EntryOf(line, k).path
    OBVIOUS
  <2>2. lanes'[k] = PlaybackLane(path, tick, deviceFrames)
    BY <1>2, <1>3, <1>7, <2>1 DEF Reconcile, Reconciled
  <2> QED BY <2>1, <2>2 DEF PlaybackLane
<1>8. worker.job # NoJob => worker.job.generation \in Nat /\ worker.job.generation <= generation
  BY DEF HeardInv, JobsOrdered, AudioTypeOK, WorkerTypeOK, Job
<1>9. pending # NoJob => pending.generation \in Nat /\ pending.generation <= generation
  BY DEF JobsCovered, Covered, AudioTypeOK, TransportTypeOK, Job
<1>10. JobsOrdered'
  BY <1>1, <1>4, <1>8, <1>9 DEF HeardInv, JobsOrdered, WorkerStays
<1>11. LanesInTime'
  <2>1. ASSUME NEW k \in resume
        PROVE  lanes'[k].origin <= deviceFrames' /\ (lanes'[k].steady => QueueInTime(lanes[k])')
    <3>1. lanes[k].origin <= deviceFrames /\ (lanes[k].steady => QueueInTime(lanes[k]))
      BY <1>1, <1>3 DEF HeardInv, LanesInTime
    <3> QED BY <1>4, <1>6, <3>1 DEF QueueInTime, Consumed
  <2>2. ASSUME NEW k \in KeysOf(line), k \notin resume
        PROVE  lanes'[k].origin <= deviceFrames' /\ QueueInTime(lanes[k])'
    <3>1. lanes'[k].origin = deviceFrames' /\ lanes'[k].queue = <<>> /\ lanes'[k].decoded = 0
      BY <1>4, <1>7, <2>2
    <3>2. Consumed(lanes[k])' \in Nat /\ lanes'[k].origin <= deviceFrames'
      BY <1>1, <1>4, <3>1 DEF Consumed
    <3>3. 1..Len(lanes'[k].queue) = {} /\ 0 <= Consumed(lanes[k])' + Len(lanes'[k].queue)
      BY <3>1, <3>2
    <3> QED BY <3>1, <3>2, <3>3 DEF QueueInTime
  <2> QED BY <1>3, <1>5, <2>1, <2>2 DEF LanesInTime
<1>12. LanesOf(line, tick)'
  <2>1. ASSUME NEW k \in KeysOf(line)
        PROVE  lanes'[k].path = EntryOf(line, k).path
    BY <1>3, <1>6, <1>7 DEF Reconcile, SameMedia
  <2>2. tick <= sourceTick' + deviceFrames'
    BY <1>1, <1>2, <1>4
  <2> QED BY <1>5, <2>1, <2>2 DEF LanesOf
<1>13. ASSUME NEW k \in resume, lanes'[k].steady
       PROVE  Carried(k, tick)'
  <2>1. k \in DOMAIN lanes /\ lanes[k].steady /\ Settled(k, tick)
    BY <1>3, <1>6, <1>13
  <2>2. pending = NoJob /\ k \in worker.resumed /\ ~Decoding(k) /\ k \in DOMAIN sessions
    BY <2>1 DEF Settled
  <2>3. Begun
    BY <1>1, <1>5, <2>2 DEF HeardInv, LanesOwned
  <2>4. UnderWay(k) /\ worker.job \in Job /\ worker.job.tick <= tick
    BY <1>2, <2>1, <2>3 DEF Begun, LanesOf, AudioTypeOK, WorkerTypeOK
  <2>5. sessions[k].cursor = Awaited(k) /\ tick <= Awaited(k) /\ sessions[k].path = lanes[k].path
    BY <2>1, <2>4, SettledIsDue
  <2>6. Awaited(k)' = Awaited(k)
    BY <1>6 DEF Awaited
  <2>7. EntryOf(Targets, k).path = lanes[k].path
    BY <2>1, <2>3 DEF Begun, LanesOf
  <2>8. Targets' = Targets /\ worker' = worker /\ sessions' = sessions /\ Decoding(k)' = Decoding(k)
    BY <1>4 DEF WorkerStays, Targets, Turn, Decoding
  <2> QED BY <1>4, <1>6, <2>2, <2>5, <2>6, <2>7, <2>8 DEF Carried, EntryOf, HasJob
<1>14. ASSUME NEW k \in KeysOf(line), k \notin resume
       PROVE  Awaited(k)' = tick
  BY <1>7, <1>14 DEF Awaited
<1>15. (worker.job # NoJob => worker.job.generation < generation)'
  BY <1>1, <1>4, <1>8 DEF WorkerStays
<1>16. Due(line, tick, resume)'
  BY <1>5, <1>12, <1>13, <1>14, <1>15 DEF Due
<1>17. LanesOwned'
  BY <1>4, <1>16 DEF LanesOwned, Due, LanesOf, Carried
<1> QED BY <1>4, <1>10, <1>11, <1>17, AlignedStays DEF HeardInv

\* Without lanes there is nothing to hear.
LEMMA SilenceHeard ==
  ASSUME SessionsAligned', JobsOrdered', lanes' = <<>>,
         ui'.pc \notin {"submit", "submit_reconcile"}
  PROVE  HeardInv'
<1>1. DOMAIN lanes' = {}
  OBVIOUS
<1>2. LanesInTime' /\ LanesOwned'
  BY <1>1 DEF LanesInTime, LanesOwned
<1> QED BY <1>2 DEF HeardInv

LEMMA ApplicationHeard ==
  ASSUME AudioInv, AudioInv', HeardInv, ApplicationStep
  PROVE  HeardInv'
<1>1. CASE \E line \in Lineup, tick \in Cue : Seek(line, tick)
  BY <1>1, SeekHeard
<1>2. CASE \E line \in Lineup : Reconcile(line)
  BY <1>2, ReconcileHeard
<1>3. CASE Pause \/ Drop
  <2>1. PICK next \in {"rewind", "shut"} : ClearLanes(next) /\ ui.pc = "idle"
    BY <1>3 DEF Pause, Drop, Ready
  <2>2. /\ WorkerStays /\ ui'.pc = next /\ lanes' = <<>> /\ generation' = generation + 1
        /\ UNCHANGED <<pending, shutdown>>
    BY <2>1 DEF ClearLanes, Call, WorkerStays, workVars, queueVars
  <2>3. worker.job # NoJob => worker.job.generation <= generation + 1
    <3>1. worker.job # NoJob => worker.job.generation \in Nat /\ worker.job.generation <= generation
      BY DEF HeardInv, JobsOrdered, AudioInv, AudioTypeOK, WorkerTypeOK, Job
    <3>2. generation \in Nat
      BY DEF AudioInv, AudioTypeOK, TransportTypeOK
    <3> QED BY <3>1, <3>2
  <2>4. JobsOrdered'
    BY <2>1, <2>2, <2>3 DEF HeardInv, JobsOrdered, WorkerStays
  <2>5. SessionsAligned'
    BY <2>2, AlignedStays DEF HeardInv
  <2> QED BY <2>2, <2>4, <2>5, SilenceHeard
<1>4. CASE ReplaceLanes
  BY <1>4, ReplaceHeard
<1>5. CASE SubmitSeek \/ SubmitReconcile
  BY <1>5, SubmitHeard
<1>6. CASE Rewind \/ Shut \/ Join
  <2>1. /\ WorkerStays /\ generation' = generation /\ lanes' = lanes
        /\ ui'.pc \in {"idle", "join", "dropped"} /\ (shutdown' => ui'.pc \in {"join", "dropped"})
        /\ ui.pc \in {"rewind", "shut", "join"}
    BY <1>6
    DEF Rewind, Shut, Join, Return, Call, WorkerStays, workVars, sharedVars, HeardInv, JobsOrdered
  <2>2. lanes = <<>>
    BY <2>1 DEF HeardInv, LanesOwned
  <2>3. JobsOrdered'
    BY <2>1 DEF HeardInv, JobsOrdered, WorkerStays
  <2>4. SessionsAligned'
    BY <2>1, AlignedStays DEF HeardInv
  <2> QED BY <2>1, <2>2, <2>3, <2>4, SilenceHeard
<1>7. CASE TakeError
  BY <1>7, HeardStays DEF TakeError, clockVars, sharedVars, queueVars, workVars
<1> QED BY <1>1, <1>2, <1>3, <1>4, <1>5, <1>6, <1>7 DEF ApplicationStep, UiStep

-----------------------------------------------------------------------------
(* The decode worker.                                                        *)

\* A step of the worker that takes no job.
WorkerMoves ==
  /\ UNCHANGED <<deviceFrames, sourceTick, missed, generation, pending, shutdown, ui>>
  /\ LanesAlike
  /\ (HasJob /\ StillCurrent) \/ lanes' = lanes
  /\ worker'.job # worker.job => worker'.job = NoJob /\ (pending # NoJob \/ ~StillCurrent)

LEMMA WorkerMoved ==
  ASSUME AudioInv, AudioInv', HeardInv, WorkerMoves, SessionsAligned', LanesInTime => LanesInTime',
         ASSUME NEW k \in DOMAIN lanes, NEW tick \in Nat, Carried(k, tick),
                ~(HasJob /\ StillCurrent), lanes' = lanes
         PROVE  Carried(k, tick)',
         ASSUME NEW k \in DOMAIN lanes, UnderWay(k), Begun, pending = NoJob
         PROVE  UnderWay(k)'
  PROVE  HeardInv'
<1> USE DEF AudioInv
<1>1. JobsOrdered'
  BY DEF HeardInv, JobsOrdered, WorkerMoves
<1>2. LanesAlike /\ UNCHANGED <<ui, pending>> /\ (lanes = <<>> => lanes' = <<>>)
  <2>1. DOMAIN lanes' = DOMAIN lanes
    BY DEF WorkerMoves, LanesAlike
  <2>2. lanes = <<>> => DOMAIN lanes' = {}
    BY <2>1
  <2>3. DOMAIN lanes' = {} => lanes' = <<>>
    BY DEF AudioTypeOK, LanesTypeOK
  <2> QED BY <2>2, <2>3 DEF WorkerMoves
<1>3. HasJob => worker.job \in Job /\ worker.job # NoJob
  BY NoJobIsNone DEF HasJob, AudioTypeOK, WorkerTypeOK
<1>4. ASSUME NEW line \in Lineup, NEW tick \in Nat, NEW resume, Due(line, tick, resume)
      PROVE  Due(line, tick, resume)'
  <2>1. ~(HasJob /\ StillCurrent)
    <3>1. HasJob => worker.job.generation < generation /\ worker.job.generation \in Nat
      BY <1>3, <1>4 DEF Due, Job
    <3>2. generation \in Nat
      BY DEF AudioTypeOK, TransportTypeOK
    <3> QED BY <3>1, <3>2 DEF StillCurrent
  <2>2. lanes' = lanes
    BY <2>1 DEF WorkerMoves
  <2>3. \A k \in DOMAIN lanes : Awaited(k)' = Awaited(k)
    BY <2>2 DEF Awaited
  <2>4. \A k \in DOMAIN lanes : Carried(k, tick) => Carried(k, tick)'
    BY <2>1, <2>2
  <2>5. worker'.job = worker.job \/ worker'.job = NoJob
    BY DEF WorkerMoves
  <2> QED BY <1>2, <1>4, <2>3, <2>4, <2>5, DueKept
<1>5. ASSUME pending = NoJob, Begun
      PROVE  Begun'
  <2>1. worker'.job = worker.job
    BY <1>5 DEF Begun, WorkerMoves
  <2>2. \A k \in DOMAIN lanes : UnderWay(k) => UnderWay(k)'
    BY <1>5
  <2> QED BY <1>2, <1>5, <2>1, <2>2, BegunKept
<1>6. LanesOwned => LanesOwned'
  BY <1>2, <1>4, <1>5, OwnedKept
<1> QED BY <1>1, <1>6 DEF HeardInv, WorkerMoves

LEMMA LanesKeepTime ==
  ASSUME LanesInTime, UNCHANGED <<lanes, deviceFrames, missed>>
  PROVE  LanesInTime'
BY DEF LanesInTime, QueueInTime, Consumed

\* A decoder no one touches stays where it was carried to.
LEMMA CarriedKept ==
  ASSUME NEW k \in DOMAIN lanes, NEW tick, Carried(k, tick),
         UNCHANGED <<lanes, pending, generation>>,
         k \in DOMAIN sessions', sessions'[k] = sessions[k], ~Decoding(k)',
         HasJob' => HasJob /\ worker'.job = worker.job /\ k \in worker'.resumed
  PROVE  Carried(k, tick)'
<1>1. Awaited(k)' = Awaited(k)
  BY DEF Awaited
<1>2. HasJob' => KeysOf(Targets)' = KeysOf(Targets) /\ EntryOf(Targets, k)' = EntryOf(Targets, k)
  BY DEF Targets, KeysOf, EntryOf
<1>3. (HasJob => k \in worker.resumed
                 /\ (k \in KeysOf(Targets) => EntryOf(Targets, k).path = lanes[k].path))'
  BY <1>2 DEF Carried
<1> QED BY <1>1, <1>3 DEF Carried

LEMMA UnderWayKept ==
  ASSUME NEW k \in DOMAIN lanes, UnderWay(k), worker'.job = worker.job, lanes'[k] = lanes[k],
         k \in DOMAIN sessions => k \in DOMAIN sessions' /\ sessions'[k] = sessions[k],
         Decoding(k)' <=> Decoding(k),
         k \in worker'.resumed <=> k \in worker.resumed,
         k \in worker'.done <=> k \in worker.done
  PROVE  UnderWay(k)'
<1>1. Awaited(k)' = Awaited(k)
  BY DEF Awaited
<1>2. k \in DOMAIN sessions => Position(k)' = Position(k)
  BY DEF Position
<1> QED BY <1>1, <1>2 DEF UnderWay

\* A decoder between packets, for a lane that still awaits what it awaited.
LEMMA UnderWayNow ==
  ASSUME NEW k \in DOMAIN lanes, worker'.job = worker.job,
         k \in worker'.resumed \/ Decoding(k)', k \in DOMAIN sessions',
         NEW session, session = sessions'[k], session.path = lanes'[k].path,
         NEW position \in Int, NEW awaited \in Int, NEW start \in Int,
         position = IF session.cursor = NoTick THEN session.next * PacketFrames ELSE session.cursor,
         awaited = lanes'[k].tick + lanes'[k].decoded, start = worker.job.tick,
         start <= awaited, position <= awaited, position < awaited => awaited = start
  PROVE  UnderWay(k)'
<1>1. Awaited(k)' = awaited /\ Position(k)' = position
  BY DEF Awaited, Position
<1> QED BY <1>1 DEF UnderWay

LEMMA PassedTo ==
  ASSUME AudioTypeOK, NEW resumed, NEW done, PassTarget(resumed, done)
  PROVE  /\ worker'.pc \in {"target", "round"} /\ worker'.job = worker.job /\ worker'.at = 0
         /\ worker'.resumed = resumed /\ worker'.done = done
<1>1. PICK turn, pc : /\ pc \in {"target", "round"}
                      /\ worker' = [worker EXCEPT !.pc = pc, !.turn = turn, !.resumed = resumed,
                                                  !.done = done, !.at = 0, !.full = FALSE]
  <2>1. CASE worker.turn < Len(Targets)
    BY <2>1 DEF PassTarget
  <2>2. CASE ~(worker.turn < Len(Targets))
    BY <2>2 DEF PassTarget
  <2> QED BY <2>1, <2>2
<1> QED BY <1>1 DEF AudioTypeOK, WorkerTypeOK

\* The end of a target that was decoded.
LEMMA DecodedTo ==
  ASSUME AudioTypeOK, NEW k, TargetDecoded(k)
  PROVE  /\ worker'.pc \in {"target", "round"} /\ worker'.job = worker.job /\ worker'.at = 0
         /\ worker'.resumed = worker.resumed \cup {k}
         /\ \A x : x # k => (x \in worker'.done <=> x \in worker.done)
<1>1. PICK done \in {worker.done, worker.done \cup {k}} : PassTarget(worker.resumed \cup {k}, done)
  <2>1. CASE sessions'[k].eof
    BY <2>1 DEF TargetDecoded
  <2>2. CASE ~sessions'[k].eof
    BY <2>2 DEF TargetDecoded
  <2> QED BY <2>1, <2>2
<1> QED BY <1>1, PassedTo

LEMMA LanesUntouched ==
  ASSUME AudioTypeOK, UNCHANGED <<clockVars, sharedVars, queueVars, ui>>,
         worker'.job # worker.job => worker'.job = NoJob /\ (pending # NoJob \/ ~StillCurrent)
  PROVE  WorkerMoves /\ (LanesInTime => LanesInTime')
<1>1. LanesAlike
  BY DEF LanesAlike, clockVars, sharedVars, AudioTypeOK, TransportTypeOK
<1>2. WorkerMoves
  BY <1>1 DEF WorkerMoves, clockVars, sharedVars, queueVars
<1>3. LanesInTime => LanesInTime'
  BY LanesKeepTime DEF clockVars, sharedVars
<1> QED BY <1>2, <1>3

\* The decoder a target starts with: a resumed one stays where it is, another is at or
\* before the job's start.
LEMMA StartedSession ==
  ASSUME AudioInv, SessionsAligned, StartTarget
  PROVE  \E new \in Session :
           /\ sessions' = With(sessions, Turn.key, new)
           /\ new.path = Turn.path
           /\ new.cursor # NoTick => new.cursor = new.next * PacketFrames
           /\ Turn.key \in worker.resumed /\ Turn.key \in DOMAIN sessions
                /\ sessions[Turn.key].path = Turn.path => new = sessions[Turn.key]
           /\ Turn.key \notin worker.resumed =>
                (IF new.cursor = NoTick THEN new.next * PacketFrames ELSE new.cursor) <= worker.job.tick
<1> USE DEF AudioInv
<1>1. PICK k \in Key, path \in Path, tick \in Nat : k = Turn.key /\ path = Turn.path /\ tick = worker.job.tick
  BY TurnFacts DEF StartTarget, HasJob, Job
<1>2. worker.pc = "target" /\ worker.at = 0 /\ ~Decoding(k)
  BY DEF StartTarget, PacketsFit, Decoding
<1>3. PICK opened : opened = IF NeedsOpen(k, path) THEN OpenedSession(path) ELSE sessions[k]
  OBVIOUS
<1>4. /\ opened \in Session /\ opened.path = path
      /\ opened.cursor # NoTick => opened.cursor = opened.next * PacketFrames
      /\ k \in DOMAIN sessions /\ sessions[k].path = path => opened = sessions[k]
  <2>1. CASE NeedsOpen(k, path)
    BY <1>3, <2>1 DEF NeedsOpen, OpenedSession, Session
  <2>2. CASE ~NeedsOpen(k, path)
    <3>1. k \in DOMAIN sessions /\ sessions[k].path = path /\ opened = sessions[k]
      BY <1>3, <2>2 DEF NeedsOpen
    <3>2. opened.cursor # NoTick => opened.cursor = opened.next * PacketFrames
      BY <1>2, <3>1 DEF SessionsAligned
    <3>3. opened \in Session
      BY <3>1 DEF AudioTypeOK, SessionsTypeOK
    <3> QED BY <3>1, <3>2, <3>3
  <2> QED BY <2>1, <2>2
<1>5. PICK new : new = IF k \in worker.resumed /\ ~NeedsOpen(k, path) THEN opened
                       ELSE Prepared(opened, tick)
  OBVIOUS
<1>6. sessions' = With(sessions, k, new)
  BY <1>1, <1>3, <1>5 DEF StartTarget
<1>7. /\ Prepared(opened, tick) \in Session /\ Prepared(opened, tick).path = path
      /\ Prepared(opened, tick).cursor # NoTick =>
           Prepared(opened, tick).cursor = Prepared(opened, tick).next * PacketFrames
      /\ (IF Prepared(opened, tick).cursor = NoTick
          THEN Prepared(opened, tick).next * PacketFrames ELSE Prepared(opened, tick).cursor) <= tick
  <2>1. CASE Continues(opened, tick)
    <3>1. Prepared(opened, tick) = opened /\ opened.cursor # NoTick /\ tick > opened.cursor
      BY <2>1 DEF Prepared, Continues
    <3>2. opened.cursor \in Int
      BY <1>4, <3>1 DEF Session
    <3> QED BY <1>4, <3>1, <3>2
  <2>2. CASE ~Continues(opened, tick)
    <3>1. PICK at \in Nat : at = PacketAt(tick) /\ at * PacketFrames <= tick
      BY PacketStarts
    <3>2. PICK prepared : prepared = [opened EXCEPT !.next = at, !.cursor = NoTick, !.eof = FALSE]
      OBVIOUS
    <3>3. Prepared(opened, tick) = prepared
      BY <2>2, <3>1, <3>2 DEF Prepared
    <3>4. prepared \in Session /\ prepared.path = path /\ prepared.cursor = NoTick /\ prepared.next = at
      BY <1>4, <3>2 DEF Session
    <3> QED BY <3>1, <3>3, <3>4
  <2> QED BY <2>1, <2>2
<1>8. new \in Session /\ new.path = path /\ (new.cursor # NoTick => new.cursor = new.next * PacketFrames)
  BY <1>4, <1>5, <1>7
<1>9. k \in worker.resumed /\ k \in DOMAIN sessions /\ sessions[k].path = path => new = sessions[k]
  BY <1>4, <1>5 DEF NeedsOpen
<1>10. k \notin worker.resumed =>
         (IF new.cursor = NoTick THEN new.next * PacketFrames ELSE new.cursor) <= tick
  BY <1>5, <1>7
<1> QED BY <1>1, <1>6, <1>8, <1>9, <1>10

LEMMA StartHeard ==
  ASSUME AudioInv, AudioInv', HeardInv, StartTarget
  PROVE  HeardInv'
<1> USE DEF AudioInv
<1>1. HasJob /\ worker.pc = "target" /\ worker.at = 0 /\ Turn.key \notin worker.done
  BY DEF StartTarget, HasJob, PacketsFit
<1>2. PICK j \in Key, path \in Path, tick \in Nat : j = Turn.key /\ path = Turn.path /\ tick = worker.job.tick
  BY <1>1, TurnFacts DEF Job
<1>3. PICK new \in Session :
        /\ sessions' = With(sessions, j, new) /\ new.path = path
        /\ new.cursor # NoTick => new.cursor = new.next * PacketFrames
        /\ j \in worker.resumed /\ j \in DOMAIN sessions /\ sessions[j].path = path
             => new = sessions[j]
        /\ j \notin worker.resumed =>
             (IF new.cursor = NoTick THEN new.next * PacketFrames ELSE new.cursor) <= tick
  BY <1>2, StartedSession DEF HeardInv
<1>4. DOMAIN sessions' = DOMAIN sessions \cup {j} /\ sessions'[j] = new
      /\ \A k \in DOMAIN sessions : k # j => sessions'[k] = sessions[k]
  BY <1>3 DEF With
<1>5. UNCHANGED <<clockVars, sharedVars, queueVars, ui>>
  BY DEF StartTarget
<1>6. /\ worker'.job = worker.job /\ worker'.at = 0
      /\ \A k : k # j => /\ ~Decoding(k)'
                         /\ k \in worker'.resumed <=> k \in worker.resumed
                         /\ k \in worker'.done <=> k \in worker.done
      /\ j \in worker'.resumed \/ (MayDecode(j) /\ Decoding(j)')
  <2>1. CASE MayDecode(j)
    <3>1. worker' = [worker EXCEPT !.pc = "decode"]
      BY <1>2, <2>1 DEF StartTarget, Goto
    <3>2. /\ worker'.job = worker.job /\ worker'.at = 0 /\ worker'.turn = worker.turn
          /\ worker'.resumed = worker.resumed /\ worker'.done = worker.done /\ worker'.pc = "decode"
      BY <1>1, <3>1 DEF AudioTypeOK, WorkerTypeOK
    <3>3. Turn' = Turn
      BY <3>2 DEF Turn, Targets
    <3> QED BY <1>2, <2>1, <3>2, <3>3 DEF Decoding
  <2>2. CASE ~MayDecode(j)
    <3>1. TargetDecoded(j)
      BY <1>2, <2>2 DEF StartTarget
    <3> QED BY <3>1, DecodedTo DEF Decoding
  <2> QED BY <2>1, <2>2
<1>7. SessionsAligned'
  <2>1. ASSUME NEW k \in DOMAIN sessions, k # j
        PROVE  sessions[k].cursor # NoTick => sessions[k].cursor = sessions[k].next * PacketFrames
    BY <1>1 DEF HeardInv, SessionsAligned
  <2>2. ~(worker'.at > 0)
    BY <1>6
  <2> QED BY <1>3, <1>4, <2>1, <2>2 DEF SessionsAligned
<1>8. ASSUME NEW k \in DOMAIN lanes, NEW start \in Nat, Carried(k, start),
             ~(HasJob /\ StillCurrent), lanes' = lanes
      PROVE  Carried(k, start)'
  <2>1. /\ k \in DOMAIN sessions /\ sessions[k].path = lanes[k].path /\ k \in worker.resumed
        /\ k \in KeysOf(Targets) => EntryOf(Targets, k).path = lanes[k].path
    BY <1>1, <1>8 DEF Carried
  <2>2. CASE k = j
    <3>1. lanes[k].path = path
      BY <1>1, <1>2, <2>1, <2>2, TurnFacts, TurnIsItsEntry
    <3>2. sessions'[k] = sessions[k]
      BY <1>3, <1>4, <2>1, <2>2, <3>1
    <3>3. ~MayDecode(j)
      BY <1>1, <1>8 DEF MayDecode
    <3>4. ~Decoding(k)'
      BY <1>2, <2>2, <3>3, DecodedTo DEF StartTarget, Decoding
    <3> QED
      BY <1>1, <1>4, <1>5, <1>6, <1>8, <2>1, <2>2, <3>2, <3>3, <3>4, CarriedKept
      DEF sharedVars, queueVars
  <2>3. CASE k # j
    BY <1>1, <1>4, <1>5, <1>6, <1>8, <2>1, <2>3, CarriedKept DEF sharedVars, queueVars
  <2> QED BY <2>2, <2>3
<1>9. ASSUME NEW k \in DOMAIN lanes, UnderWay(k), Begun
      PROVE  UnderWay(k)'
  <2>1. lanes' = lanes
    BY <1>5 DEF sharedVars
  <2>2. CASE k # j
    <3>1. ~Decoding(k)
      BY <1>1 DEF Decoding
    <3> QED BY <1>4, <1>6, <1>9, <2>1, <2>2, <3>1, UnderWayKept
  <2>3. CASE k = j
    <3>1. lanes[k].path = path
      BY <1>1, <1>2, <1>9, <2>3, TurnIsItsEntry DEF Begun, LanesOf
    <3>2. PICK awaited \in Nat : awaited = Awaited(k)
      BY Awaiting
    <3>3. PICK position \in Int :
            position = IF new.cursor = NoTick THEN new.next * PacketFrames ELSE new.cursor
      BY <1>3, PacketLength DEF Session
    <3>4. tick <= awaited /\ position <= awaited /\ (position < awaited => awaited = tick)
      <4>1. CASE k \in worker.resumed
        <5>1. /\ k \in DOMAIN sessions /\ sessions[k].path = lanes[k].path
              /\ tick <= awaited /\ Position(k) <= awaited
              /\ Position(k) < awaited => awaited = tick
          BY <1>2, <1>9, <3>2, <4>1 DEF UnderWay
        <5>2. new = sessions[k]
          BY <1>3, <2>3, <3>1, <4>1, <5>1
        <5> QED BY <3>3, <5>1, <5>2 DEF Position
      <4>2. CASE k \notin worker.resumed
        <5>1. awaited = tick
          BY <1>1, <1>2, <1>9, <2>3, <3>2, <4>2 DEF UnderWay, Decoding
        <5> QED BY <1>3, <2>3, <3>3, <4>2, <5>1
      <4> QED BY <4>1, <4>2
    <3>5. awaited = lanes'[k].tick + lanes'[k].decoded
      BY <2>1, <3>2 DEF Awaited
    <3>6. k \in worker'.resumed \/ Decoding(k)'
      BY <1>6, <2>3
    <3> QED
      BY <1>2, <1>3, <1>4, <1>6, <2>1, <2>3, <3>1, <3>3, <3>4, <3>5, <3>6, UnderWayNow
  <2> QED BY <2>2, <2>3
<1> QED BY <1>5, <1>6, <1>7, <1>8, <1>9, LanesUntouched, WorkerMoved

LEMMA SkipHeard ==
  ASSUME AudioInv, AudioInv', HeardInv, SkipTarget
  PROVE  HeardInv'
<1> USE DEF AudioInv
<1>1. UNCHANGED <<clockVars, sharedVars, queueVars, ui>> /\ lanes' = lanes /\ sessions' = sessions
  BY DEF SkipTarget, sharedVars
<1>2. /\ worker'.job = worker.job /\ worker'.at = 0 /\ HasJob /\ worker.at = 0
      /\ worker'.resumed = worker.resumed /\ worker'.done = worker.done
      /\ \A k : ~Decoding(k) /\ ~Decoding(k)'
  BY PassedTo DEF SkipTarget, HasJob, Decoding, PacketsFit
<1>3. SessionsAligned'
  BY <1>1, <1>2 DEF HeardInv, SessionsAligned
<1>4. ASSUME NEW k \in DOMAIN lanes, NEW start \in Nat, Carried(k, start)
      PROVE  Carried(k, start)'
  <2>1. k \in DOMAIN sessions /\ k \in worker.resumed
    BY <1>2, <1>4 DEF Carried
  <2> QED BY <1>1, <1>2, <1>4, <2>1, CarriedKept DEF sharedVars, queueVars
<1>5. ASSUME NEW k \in DOMAIN lanes, UnderWay(k)
      PROVE  UnderWay(k)'
  BY <1>1, <1>2, <1>5, UnderWayKept
<1> QED BY <1>1, <1>2, <1>3, <1>4, <1>5, LanesUntouched, WorkerMoved

\* Without a key, a function is what it was on the others.
LEMMA WithoutKeeps ==
  ASSUME NEW f, NEW j
  PROVE  /\ \A k \in DOMAIN f : k # j => k \in DOMAIN Without(f, j)
         /\ \A k \in DOMAIN Without(f, j) : k \in DOMAIN f /\ Without(f, j)[k] = f[k]
<1>1. /\ DOMAIN Without(f, j) = DOMAIN f \ {j}
      /\ \A k \in DOMAIN f \ {j} : Without(f, j)[k] = f[k]
  BY DEF Without
<1> QED BY <1>1

\* A lane that failed promises nothing more.
LEMMA FailureHeard ==
  ASSUME AudioInv, AudioInv', HeardInv, HasJob, TargetFails, UNCHANGED sessions \/ DropSession,
         \/ worker.pc = "decode" /\ DropSession
         \/ worker.pc = "target" /\ (NeedsOpen(Turn.key, Turn.path) \/ Turn.key \notin worker.resumed)
  PROVE  HeardInv'
<1> USE DEF AudioInv
<1>1. UNCHANGED <<clockVars, sharedVars, queueVars, ui>> /\ lanes' = lanes
  BY DEF TargetFails, sharedVars
<1>2. PICK j \in Key : j = Turn.key
  BY TurnFacts
<1>3. /\ worker'.job = worker.job /\ worker'.at = 0
      /\ worker'.resumed = worker.resumed \ {j} /\ worker'.done = worker.done \cup {j}
      /\ \A k : ~Decoding(k)' /\ (k # j => ~Decoding(k))
  BY <1>2, PassedTo DEF TargetFails, Decoding
<1>4. /\ \A k \in DOMAIN sessions : k # j => k \in DOMAIN sessions'
      /\ \A k \in DOMAIN sessions' : k \in DOMAIN sessions /\ sessions'[k] = sessions[k]
  <2>1. CASE UNCHANGED sessions
    BY <2>1
  <2>2. CASE DropSession
    <3>1. sessions' = Without(sessions, j)
      BY <1>2, <2>2 DEF DropSession
    <3> QED BY <3>1, WithoutKeeps
  <2> QED BY <2>1, <2>2
<1>5. SessionsAligned'
  <2>1. SUFFICES ASSUME NEW k \in DOMAIN sessions'
                 PROVE  sessions[k].cursor # NoTick
                          => sessions[k].cursor = sessions[k].next * PacketFrames
    BY <1>3, <1>4 DEF SessionsAligned
  <2>2. k \in DOMAIN sessions /\ ~Decoding(k)
    <3>1. CASE worker.pc = "decode" /\ DropSession
      <4>1. k \in DOMAIN Without(sessions, j)
        BY <1>2, <3>1 DEF DropSession
      <4>2. k # j
        BY <4>1 DEF Without
      <4> QED BY <1>3, <1>4, <4>2
    <3>2. CASE worker.pc = "target"
      BY <1>4, <3>2 DEF Decoding
    <3> QED BY <3>1, <3>2
  <2> QED BY <2>2 DEF HeardInv, SessionsAligned
<1>6. ASSUME NEW k \in DOMAIN lanes, NEW start \in Nat, Carried(k, start)
      PROVE  Carried(k, start)'
  <2>1. /\ k \in DOMAIN sessions /\ sessions[k].path = lanes[k].path /\ ~Decoding(k)
        /\ k \in worker.resumed
        /\ k \in KeysOf(Targets) => EntryOf(Targets, k).path = lanes[k].path
    BY <1>6 DEF Carried
  <2>2. k # j
    <3>1. CASE worker.pc = "decode"
      BY <1>2, <2>1, <3>1 DEF Decoding
    <3>2. CASE NeedsOpen(Turn.key, Turn.path)
      BY <1>2, <2>1, <3>2, TurnFacts, TurnIsItsEntry DEF NeedsOpen
    <3>3. CASE Turn.key \notin worker.resumed
      BY <1>2, <2>1, <3>3
    <3> QED BY <3>1, <3>2, <3>3
  <2>3. k \in DOMAIN sessions' /\ k \in worker'.resumed
    BY <1>3, <1>4, <2>1, <2>2
  <2> QED BY <1>1, <1>3, <1>4, <1>6, <2>3, CarriedKept DEF sharedVars, queueVars
<1>7. ASSUME NEW k \in DOMAIN lanes, UnderWay(k)
      PROVE  UnderWay(k)'
  <2>1. CASE k = j
    BY <1>3, <2>1 DEF UnderWay
  <2>2. CASE k # j
    BY <1>1, <1>3, <1>4, <1>7, <2>2, UnderWayKept
  <2> QED BY <2>1, <2>2
<1> QED BY <1>1, <1>3, <1>5, <1>6, <1>7, LanesUntouched, WorkerMoved

\* The decoder of the target in its turn goes on by itself: the others are not touched.
LEMMA OthersStay ==
  ASSUME AudioInv, worker.pc = "decode", NEW j, j = Turn.key,
         worker'.job = worker.job,
         worker'.resumed = worker.resumed \/ worker'.resumed = worker.resumed \cup {j},
         \A k : k # j => (k \in worker'.done <=> k \in worker.done),
         \A k : k # j => ~Decoding(k)',
         DOMAIN sessions' = DOMAIN sessions,
         \A k \in DOMAIN sessions : k # j => sessions'[k] = sessions[k]
  PROVE  /\ \A k \in DOMAIN lanes, start \in Nat :
              Carried(k, start) /\ UNCHANGED <<lanes, pending, generation>> => Carried(k, start)'
         /\ \A k \in DOMAIN lanes :
              k # j /\ UnderWay(k) /\ lanes'[k] = lanes[k] => UnderWay(k)'
         /\ \A k \in DOMAIN sessions :
              k # j /\ SessionsAligned /\ sessions[k].cursor # NoTick
                => sessions'[k].cursor = sessions'[k].next * PacketFrames
<1>1. ASSUME NEW k \in DOMAIN lanes, NEW start \in Nat, Carried(k, start),
             UNCHANGED <<lanes, pending, generation>>
      PROVE  Carried(k, start)'
  <2>1. k \in DOMAIN sessions /\ k # j /\ k \in worker.resumed /\ HasJob
    BY <1>1 DEF Carried, Decoding, HasJob
  <2> QED BY <1>1, <2>1, CarriedKept
<1>2. ASSUME NEW k \in DOMAIN lanes, k # j, UnderWay(k), lanes'[k] = lanes[k]
      PROVE  UnderWay(k)'
  <2>1. ~Decoding(k)
    BY <1>2 DEF Decoding
  <2> QED BY <1>2, <2>1, UnderWayKept
<1>3. ASSUME NEW k \in DOMAIN sessions, k # j, SessionsAligned, sessions[k].cursor # NoTick
      PROVE  sessions'[k].cursor = sessions'[k].next * PacketFrames
  BY <1>3 DEF SessionsAligned, Decoding
<1> QED BY <1>1, <1>2, <1>3

\* A job no longer current that returns between packets: no lane's promise rests on it.
LEMMA OtherStreamHeard ==
  ASSUME AudioInv, AudioInv', HeardInv, OtherStream
  PROVE  HeardInv'
<1> USE DEF AudioInv
<1>1. UNCHANGED <<clockVars, sharedVars, queueVars, ui>> /\ lanes' = lanes /\ sessions' = sessions
  BY DEF OtherStream, sharedVars
<1>2. HasJob /\ worker.pc = "decode" /\ worker.at = 0 /\ ~StillCurrent
  BY DEF OtherStream, HasJob
<1>3. PICK j : j = Turn.key
  OBVIOUS
<1>4. /\ worker'.job = worker.job /\ worker'.at = 0 /\ worker'.resumed = worker.resumed \cup {j}
      /\ \A k : ~Decoding(k)'
  BY <1>3, DecodedTo DEF OtherStream, Decoding
<1>5. SessionsAligned'
  BY <1>1, <1>2, <1>4 DEF HeardInv, SessionsAligned
<1>6. ASSUME NEW k \in DOMAIN lanes, NEW start \in Nat, Carried(k, start)
      PROVE  Carried(k, start)'
  <2>1. k \in DOMAIN sessions /\ k \in worker.resumed
    BY <1>2, <1>6 DEF Carried
  <2> QED BY <1>1, <1>2, <1>4, <1>6, <2>1, CarriedKept DEF sharedVars, queueVars
<1>7. ~Begun
  BY <1>2 DEF Begun
<1> QED BY <1>1, <1>4, <1>5, <1>6, <1>7, LanesUntouched, WorkerMoved

LEMMA EndHeard ==
  ASSUME AudioInv, AudioInv', HeardInv, ReadEnd
  PROVE  HeardInv'
<1> USE DEF AudioInv
<1>1. UNCHANGED <<clockVars, sharedVars, queueVars, ui>> /\ lanes' = lanes
  BY DEF ReadEnd, sharedVars
<1>2. HasJob /\ worker.pc = "decode" /\ PacketsRead > Packets
  BY DEF ReadEnd, HasJob
<1>3. PICK j \in Key : j = Turn.key
  BY <1>2, TurnFacts
<1>4. j \in DOMAIN sessions /\ sessions[j] \in Session /\ Decoding(j)
  BY <1>2, <1>3 DEF AudioTypeOK, WorkerTypeOK, SessionsTypeOK, Decoding
<1>5. /\ worker'.job = worker.job /\ worker'.at = 0 /\ worker'.resumed = worker.resumed \cup {j}
      /\ \A k : ~Decoding(k)' /\ (k # j => (k \in worker'.done <=> k \in worker.done))
  BY <1>3, DecodedTo DEF ReadEnd, Decoding
<1>6. /\ DOMAIN sessions' = DOMAIN sessions
      /\ \A k \in DOMAIN sessions : k # j => sessions'[k] = sessions[k]
      /\ sessions'[j].cursor = sessions[j].cursor /\ sessions'[j].next = sessions[j].next
      /\ sessions'[j].path = sessions[j].path
  BY <1>3, <1>4 DEF ReadEnd, Session
<1>7. worker.at = 0
  <2>1. worker.at \in Nat /\ PacketsRead \in Nat /\ ~(PacketsRead <= Packets)
    BY <1>2, PacketsCounted, FloatsOfAFrame DEF AudioTypeOK, WorkerTypeOK
  <2> QED BY <1>2, <2>1, FrameAtPosition DEF HeardInv
<1>8. sessions'[j].cursor # NoTick => sessions'[j].cursor = sessions'[j].next * PacketFrames
  BY <1>4, <1>6, <1>7 DEF HeardInv, SessionsAligned
<1>9. SessionsAligned'
  <2>1. ASSUME NEW k \in DOMAIN sessions', sessions'[k].cursor # NoTick
        PROVE  sessions'[k].cursor = sessions'[k].next * PacketFrames
    BY <1>2, <1>3, <1>5, <1>6, <1>8, <2>1, OthersStay DEF HeardInv
  <2> QED BY <1>5, <2>1 DEF SessionsAligned
<1>10. ASSUME NEW k \in DOMAIN lanes, UnderWay(k)
       PROVE  UnderWay(k)'
  <2>1. CASE k = j
    <3>1. Awaited(k)' = Awaited(k) /\ Position(k)' = Position(k)
      BY <1>1, <1>6, <2>1 DEF Awaited, Position
    <3>2. /\ sessions[k].path = lanes[k].path
          /\ worker.job.tick <= Awaited(k) /\ Position(k) <= Awaited(k)
          /\ Position(k) < Awaited(k) => Awaited(k) = worker.job.tick
      BY <1>4, <1>10, <2>1 DEF UnderWay
    <3> QED BY <1>1, <1>4, <1>5, <1>6, <2>1, <3>1, <3>2 DEF UnderWay
  <2>2. CASE k # j
    BY <1>1, <1>2, <1>3, <1>5, <1>6, <1>10, <2>2, OthersStay
  <2> QED BY <2>1, <2>2
<1>11. ASSUME NEW k \in DOMAIN lanes, NEW start \in Nat, Carried(k, start)
       PROVE  Carried(k, start)'
  BY <1>1, <1>2, <1>3, <1>5, <1>6, <1>11, OthersStay DEF sharedVars, queueVars
<1> QED BY <1>1, <1>5, <1>9, <1>10, <1>11, LanesUntouched, WorkerMoved

\* The worker rests, or goes round again.
LEMMA CheckHeard ==
  ASSUME AudioInv, AudioInv', HeardInv, CheckGeneration \/ CheckPending
  PROVE  HeardInv'
<1> USE DEF AudioInv
<1>1. /\ UNCHANGED <<clockVars, sharedVars, queueVars, ui>> /\ lanes' = lanes
      /\ sessions' = sessions /\ worker.pc \in {"round", "look"} /\ HasJob /\ worker.at = 0
  BY DEF CheckGeneration, CheckPending, sharedVars, HasJob, PacketsFit
<1>2. \/ worker' = Resting /\ (pending # NoJob \/ ~StillCurrent)
      \/ \E pc \in {"look", "wait", "target"} : worker' = [worker EXCEPT !.pc = pc]
  BY DEF CheckGeneration, CheckPending
<1>3. \/ /\ worker'.job = NoJob /\ (pending # NoJob \/ ~StillCurrent) /\ ~HasJob'
         /\ worker'.at = 0 /\ worker'.pc = "wait"
      \/ /\ worker'.job = worker.job /\ worker'.resumed = worker.resumed
         /\ worker'.done = worker.done /\ worker'.at = 0 /\ worker'.pc # "decode"
  <2>1. CASE worker' = Resting /\ (pending # NoJob \/ ~StillCurrent)
    BY <2>1 DEF Resting, HasJob
  <2>2. CASE \E pc \in {"look", "wait", "target"} : worker' = [worker EXCEPT !.pc = pc]
    BY <1>1, <2>2 DEF AudioTypeOK, WorkerTypeOK
  <2> QED BY <1>2, <2>1, <2>2
<1>4. \A k : ~Decoding(k) /\ ~Decoding(k)'
  BY <1>1, <1>3 DEF Decoding
<1>5. SessionsAligned'
  BY <1>1, <1>4 DEF HeardInv, SessionsAligned
<1>6. ASSUME NEW k \in DOMAIN lanes, NEW start \in Nat, Carried(k, start)
      PROVE  Carried(k, start)'
  <2>1. k \in DOMAIN sessions /\ k \in worker.resumed
    BY <1>1, <1>6 DEF Carried
  <2> QED BY <1>1, <1>3, <1>4, <1>6, <2>1, CarriedKept DEF sharedVars, queueVars
<1>7. ASSUME NEW k \in DOMAIN lanes, UnderWay(k), Begun, pending = NoJob
      PROVE  UnderWay(k)'
  <2>1. /\ worker'.job = worker.job /\ worker'.resumed = worker.resumed
        /\ worker'.done = worker.done
    BY <1>3, <1>7 DEF Begun
  <2> QED BY <1>1, <1>4, <1>7, <2>1, UnderWayKept
<1> QED BY <1>1, <1>3, <1>5, <1>6, <1>7, LanesUntouched, WorkerMoved

\* What a decoded frame does to its decoder, and where it leaves the worker.
LEMMA FrameMoves ==
  ASSUME AudioInv, FrameNext, FrameDecoded, NEW j, j = Turn.key
  PROVE  /\ DOMAIN sessions' = DOMAIN sessions /\ j \in DOMAIN sessions
         /\ \A k \in DOMAIN sessions : k # j => sessions'[k] = sessions[k]
         /\ sessions'[j].path = sessions[j].path /\ sessions'[j].cursor = FrameTick + 1
         /\ sessions'[j].next = PacketsRead /\ PacketsRead \in Nat
         /\ sessions'[j].cursor = (sessions'[j].next - 1) * PacketFrames + (worker.at + 1)
         /\ PacketEnds => sessions'[j].cursor = sessions'[j].next * PacketFrames
<1> USE DEF AudioInv
<1>1. worker.pc = "decode" /\ worker.at \in Nat /\ j \in DOMAIN sessions /\ sessions[j] \in Session
  BY DEF FrameNext, AudioTypeOK, WorkerTypeOK, SessionsTypeOK
<1>2. PICK packets \in Nat, frame \in Int : packets = PacketsRead /\ frame = FrameTick
  BY <1>1, FloatsOfAFrame
<1>3. PICK next \in Int : next = frame + 1
  OBVIOUS
<1>4. /\ DOMAIN sessions' = DOMAIN sessions
      /\ \A k \in DOMAIN sessions : k # j => sessions'[k] = sessions[k]
      /\ sessions'[j] = [sessions[j] EXCEPT !.next = packets, !.cursor = next]
  BY <1>1, <1>2, <1>3 DEF FrameDecoded
<1>5. sessions'[j].path = sessions[j].path /\ sessions'[j].cursor = next /\ sessions'[j].next = packets
  BY <1>1, <1>4 DEF Session
<1>6. next = (packets - 1) * PacketFrames + (worker.at + 1)
  <2>1. PICK before \in Int : before = (packets - 1) * PacketFrames
    BY PacketLength
  <2>2. frame = before + worker.at
    BY <1>2, <2>1 DEF FrameTick
  <2> QED BY <1>1, <1>3, <2>1, <2>2
<1>7. PacketEnds => next = packets * PacketFrames
  BY <1>6, PacketAfter DEF PacketEnds
<1> QED BY <1>1, <1>2, <1>3, <1>4, <1>5, <1>6, <1>7

AfterFrame(j) ==
  /\ worker'.job = worker.job
  /\ \/ /\ ~PacketEnds /\ worker'.at = worker.at + 1 /\ Decoding(j)'
        /\ worker'.resumed = worker.resumed /\ worker'.done = worker.done
     \/ /\ PacketEnds /\ worker'.at = 0 /\ Decoding(j)'
        /\ worker'.resumed = worker.resumed /\ worker'.done = worker.done
     \/ /\ PacketEnds /\ worker'.at = 0 /\ worker'.pc # "decode"
        /\ worker'.resumed = worker.resumed \cup {j}
        /\ \A k : k # j => (k \in worker'.done <=> k \in worker.done)

LEMMA FrameTurns ==
  ASSUME AudioInv, QueueFrame \/ DrainFrame, NEW j, j = Turn.key
  PROVE  AfterFrame(j)
<1> USE DEF AudioInv
<1>1. worker.pc = "decode"
  BY DEF QueueFrame, DrainFrame, FrameNext
<1>2. \/ PacketEnds /\ TargetDecoded(j)
      \/ PacketEnds /\ worker' = [worker EXCEPT !.at = 0]
      \/ ~PacketEnds /\ \E full : worker' = [worker EXCEPT !.at = worker.at + 1, !.full = full]
  <2>1. CASE QueueFrame
    BY <2>1 DEF QueueFrame
  <2>2. CASE DrainFrame /\ PacketEnds
    BY <2>2 DEF DrainFrame
  <2>3. CASE DrainFrame /\ ~PacketEnds
    <3>1. worker' = [worker EXCEPT !.at = worker.at + 1]
      BY <2>3 DEF DrainFrame
    <3>2. worker' = [worker EXCEPT !.at = worker.at + 1, !.full = worker.full]
      BY <3>1 DEF AudioTypeOK, WorkerTypeOK
    <3> QED BY <2>3, <3>2
  <2> QED BY <2>1, <2>2, <2>3
<1>3. CASE PacketEnds /\ TargetDecoded(j)
  BY <1>3, DecodedTo DEF AfterFrame
<1>4. CASE PacketEnds /\ worker' = [worker EXCEPT !.at = 0]
  <2>1. /\ worker'.job = worker.job /\ worker'.pc = "decode" /\ worker'.turn = worker.turn
        /\ worker'.at = 0 /\ worker'.resumed = worker.resumed /\ worker'.done = worker.done
    BY <1>1, <1>4 DEF AudioTypeOK, WorkerTypeOK
  <2>2. Decoding(j)'
    BY <2>1 DEF Decoding, Turn, Targets
  <2> QED BY <1>4, <2>1, <2>2 DEF AfterFrame
<1>5. CASE ~PacketEnds /\ \E full : worker' = [worker EXCEPT !.at = worker.at + 1, !.full = full]
  <2>1. /\ worker'.job = worker.job /\ worker'.pc = "decode" /\ worker'.turn = worker.turn
        /\ worker'.at = worker.at + 1 /\ worker'.resumed = worker.resumed
        /\ worker'.done = worker.done
    BY <1>1, <1>5 DEF AudioTypeOK, WorkerTypeOK
  <2>2. Decoding(j)'
    BY <2>1 DEF Decoding, Turn, Targets
  <2> QED BY <1>5, <2>1, <2>2 DEF AfterFrame
<1> QED BY <1>2, <1>3, <1>4, <1>5

LEMMA FrameAligned ==
  ASSUME AudioInv, SessionsAligned, FrameNext, FrameDecoded, NEW j, j = Turn.key, AfterFrame(j)
  PROVE  /\ SessionsAligned'
         /\ \A k \in DOMAIN lanes, start \in Nat :
              Carried(k, start) /\ UNCHANGED <<lanes, pending, generation>> => Carried(k, start)'
         /\ \A k \in DOMAIN lanes :
              k # j /\ UnderWay(k) /\ lanes'[k] = lanes[k] => UnderWay(k)'
<1>1. worker.pc = "decode" /\ worker.at \in Nat
  BY DEF FrameNext, AudioInv, AudioTypeOK, WorkerTypeOK
<1>2. /\ DOMAIN sessions' = DOMAIN sessions /\ j \in DOMAIN sessions
      /\ \A k \in DOMAIN sessions : k # j => sessions'[k] = sessions[k]
      /\ sessions'[j].next = PacketsRead
      /\ sessions'[j].cursor = (sessions'[j].next - 1) * PacketFrames + (worker.at + 1)
      /\ PacketEnds => sessions'[j].cursor = sessions'[j].next * PacketFrames
  BY FrameMoves
<1>3. /\ worker'.job = worker.job
      /\ worker'.resumed = worker.resumed \/ worker'.resumed = worker.resumed \cup {j}
      /\ \A k : k # j => (k \in worker'.done <=> k \in worker.done)
      /\ \A k : k # j => ~Decoding(k)'
  BY DEF AfterFrame, Decoding
<1>4. /\ \A k \in DOMAIN lanes, start \in Nat :
           Carried(k, start) /\ UNCHANGED <<lanes, pending, generation>> => Carried(k, start)'
      /\ \A k \in DOMAIN lanes :
           k # j /\ UnderWay(k) /\ lanes'[k] = lanes[k] => UnderWay(k)'
      /\ \A k \in DOMAIN sessions :
           k # j /\ SessionsAligned /\ sessions[k].cursor # NoTick
             => sessions'[k].cursor = sessions'[k].next * PacketFrames
  BY <1>1, <1>2, <1>3, OthersStay
<1>5. SessionsAligned'
  <2>1. ASSUME NEW k \in DOMAIN sessions', k # j, sessions'[k].cursor # NoTick
        PROVE  sessions'[k].cursor = sessions'[k].next * PacketFrames
    BY <1>2, <1>4, <2>1
  <2>2. CASE ~PacketEnds
    <3>1. worker'.at = worker.at + 1 /\ worker'.at > 0 /\ Decoding(j)'
      BY <1>1, <2>2 DEF AfterFrame
    <3>2. sessions'[j].next <= Packets
      BY <1>2 DEF FrameNext
    <3> QED BY <1>2, <1>3, <2>1, <3>1, <3>2 DEF SessionsAligned
  <2>3. CASE PacketEnds
    <3>1. ~(worker'.at > 0)
      BY <2>3 DEF AfterFrame
    <3> QED BY <1>2, <2>1, <2>3, <3>1 DEF SessionsAligned
  <2> QED BY <2>2, <2>3
<1> QED BY <1>4, <1>5

\* A job no longer current drops the frames it decodes, and no lane's promise rests on it.
LEMMA DrainHeard ==
  ASSUME AudioInv, AudioInv', HeardInv, DrainFrame
  PROVE  HeardInv'
<1>1. UNCHANGED <<clockVars, sharedVars, queueVars, ui>> /\ lanes' = lanes
  BY DEF DrainFrame, sharedVars
<1>2. PICK j : j = Turn.key
  OBVIOUS
<1>3. AfterFrame(j) /\ FrameNext /\ FrameDecoded /\ ~StillCurrent
  BY <1>2, FrameTurns DEF DrainFrame
<1>4. SessionsAligned'
  BY <1>2, <1>3, FrameAligned DEF HeardInv
<1>5. ASSUME NEW k \in DOMAIN lanes, NEW start \in Nat, Carried(k, start)
      PROVE  Carried(k, start)'
  BY <1>1, <1>2, <1>3, <1>5, FrameAligned DEF HeardInv, sharedVars, queueVars
<1>6. ~Begun
  BY <1>3 DEF Begun
<1>7. worker'.job = worker.job
  BY <1>3 DEF AfterFrame
<1> QED BY <1>1, <1>4, <1>5, <1>6, <1>7, LanesUntouched, WorkerMoved DEF AudioInv

\* A frame of the current job is behind the job's start, or the one its lane waits for.
LEMMA FrameAwaited ==
  ASSUME AudioInv, SessionsAligned, worker.pc = "decode", NEW j, j = Turn.key,
         j \in DOMAIN lanes, UnderWay(j)
  PROVE  /\ Floats = <<>> \/ Floats = <<Awaited(j)>>
         /\ sessions[j].path = lanes[j].path
         /\ worker.job.tick <= Awaited(j) + Len(Floats)
         /\ FrameTick + 1 <= Awaited(j) + Len(Floats)
         /\ FrameTick + 1 < Awaited(j) + Len(Floats) => Awaited(j) + Len(Floats) = worker.job.tick
<1> USE DEF AudioInv
<1>1. PICK start, awaited \in Nat : start = worker.job.tick /\ awaited = Awaited(j)
  BY Awaiting, TurnFacts DEF HasJob, Job
<1>2. PICK frame \in Int : frame = FrameTick /\ frame = Position(j)
  BY FloatsOfAFrame, FrameAtPosition
<1>3. /\ sessions[j].path = lanes[j].path /\ start <= awaited /\ frame <= awaited
      /\ frame < awaited => awaited = start
  BY <1>1, <1>2 DEF UnderWay, Decoding
<1>4. CASE frame < start
  <2>1. Floats = <<>> /\ Len(Floats) = 0
    BY <1>1, <1>2, <1>4 DEF Floats
  <2>2. awaited + 0 = awaited /\ frame + 1 <= awaited /\ (frame + 1 < awaited => awaited = start)
    BY <1>3, <1>4
  <2> QED BY <1>1, <1>2, <1>3, <2>1, <2>2
<1>5. CASE ~(frame < start)
  <2>1. frame = awaited
    BY <1>3, <1>5
  <2>2. Floats = <<awaited>> /\ Len(Floats) = 1
    BY <1>1, <1>2, <1>5, <2>1 DEF Floats
  <2>3. start <= awaited + 1 /\ frame + 1 <= awaited + 1 /\ ~(frame + 1 < awaited + 1)
    BY <1>3, <2>1
  <2> QED BY <1>1, <1>2, <1>3, <2>2, <2>3
<1> QED BY <1>4, <1>5

LEMMA QueueHeard ==
  ASSUME AudioInv, AudioInv', HeardInv, QueueFrame
  PROVE  HeardInv'
<1> USE DEF AudioInv
<1>1. HasJob /\ worker.pc = "decode" /\ StillCurrent /\ FrameNext /\ FrameDecoded
  BY DEF QueueFrame, FrameNext, HasJob
<1>2. PICK j \in Key : j = Turn.key /\ j \in DOMAIN lanes
  BY <1>1, TurnFacts DEF JobsCovered, Covered, StillCurrent, Targets
<1>3. PICK floats : floats = Floats /\ (floats = <<>> \/ \E t \in Int : floats = <<t>>)
  BY <1>1, FloatsOfAFrame
<1>4. PICK length \in {0, 1} : length = Len(floats)
  BY <1>3
<1>5. PICK lane \in Lane : lane = EnqueueDecodedFrame(j, floats)
  BY <1>2, <1>3, Enqueued
<1>6. /\ lane.path = lanes[j].path /\ lane.tick = lanes[j].tick /\ lane.origin = lanes[j].origin
      /\ lane.steady = lanes[j].steady /\ lane.decoded = lanes[j].decoded + length
  <2>1. PICK queue, decoded : /\ decoded = lanes[j].decoded + length
                              /\ lane = [lanes[j] EXCEPT !.queue = queue, !.decoded = decoded]
    BY <1>4, <1>5 DEF EnqueueDecodedFrame
  <2>2. lanes[j] \in Lane
    BY <1>2 DEF AudioTypeOK, LanesTypeOK
  <2> QED BY <2>1, <2>2 DEF Lane
<1>7. DOMAIN lanes' = DOMAIN lanes /\ lanes'[j] = lane
      /\ \A k \in DOMAIN lanes : k # j => lanes'[k] = lanes[k]
  BY <1>2, <1>3, <1>5 DEF QueueFrame
<1>8. UNCHANGED <<deviceFrames, sourceTick, missed, playing, generation, pending, shutdown, ui>>
  BY DEF QueueFrame, clockVars, queueVars
<1>9. AfterFrame(j)
  BY <1>2, FrameTurns
<1>10. SessionsAligned' /\ worker'.job = worker.job
  BY <1>1, <1>2, <1>9, FrameAligned DEF HeardInv, AfterFrame
<1>11. CASE ui.pc = "replace"
  <2>1. JobsOrdered'
    BY <1>8, <1>10 DEF HeardInv, JobsOrdered
  <2> QED BY <1>8, <1>10, <1>11, <2>1 DEF HeardInv
<1>12. CASE ui.pc # "replace"
  <2>1. worker.job \in Job /\ worker.job # NoJob /\ ~(worker.job.generation < generation)
    <3>1. worker.job \in Job /\ worker.job # NoJob
      BY <1>1, NoJobIsNone DEF HasJob, AudioTypeOK, WorkerTypeOK
    <3> QED BY <1>1, <3>1 DEF Job, StillCurrent
  <2>2. Begun
    <3>1. lanes # <<>>
      BY <1>2
    <3> QED BY <1>12, <2>1, <3>1 DEF HeardInv, LanesOwned, Due
  <2>3. WorkerMoves
    <3>1. LanesAlike
      <4>1. sourceTick \in Nat /\ deviceFrames \in Nat
        BY DEF AudioTypeOK, TransportTypeOK
      <4>2. sourceTick + deviceFrames <= sourceTick' + deviceFrames'
        BY <1>8, <4>1
      <4> QED BY <1>6, <1>7, <1>8, <4>2 DEF LanesAlike
    <3> QED BY <1>1, <1>8, <1>10, <3>1 DEF WorkerMoves
  <2>4. ASSUME NEW k \in DOMAIN lanes, k # j, LanesInTime
        PROVE  lanes'[k].origin <= deviceFrames' /\ (lanes'[k].steady => QueueInTime(lanes[k])')
    <3>1. lanes[k].origin <= deviceFrames /\ (lanes[k].steady => QueueInTime(lanes[k]))
      BY <2>4 DEF LanesInTime
    <3> QED BY <1>7, <1>8, <2>4, <3>1 DEF QueueInTime, Consumed
  <2>5. ASSUME lanes[j].steady
        PROVE  UnderWay(j) /\ (floats = <<>> \/ floats = <<Awaited(j)>>)
    BY <1>1, <1>2, <1>3, <2>2, <2>5, FrameAwaited DEF HeardInv, Begun
  <2>6. ASSUME LanesInTime
        PROVE  lanes'[j].origin <= deviceFrames' /\ (lanes'[j].steady => QueueInTime(lanes[j])')
    <3>1. lanes[j].origin <= deviceFrames /\ (lanes[j].steady => QueueInTime(lanes[j]))
      BY <1>2, <2>6 DEF LanesInTime
    <3>2. lanes[j].steady => QueueInTime(lane)
      BY <1>2, <1>5, <2>5, <3>1, QueueGrows
    <3>3. lanes[j].steady => QueueInTime(lane)'
      BY <1>8, <3>2 DEF QueueInTime, Consumed
    <3>4. lanes[j].steady => QueueInTime(lanes[j])'
      BY <1>7, <3>3 DEF QueueInTime, Consumed
    <3> QED BY <1>6, <1>7, <1>8, <3>1, <3>4
  <2>7. LanesInTime => LanesInTime'
    BY <1>7, <2>4, <2>6 DEF LanesInTime
  <2>8. ASSUME UnderWay(j)
        PROVE  UnderWay(j)'
    <3>1. PICK start, awaited \in Nat : start = worker.job.tick /\ awaited = Awaited(j)
      BY <1>2, <2>1, Awaiting DEF Job
    <3>2. PICK now \in Nat : now = awaited + length
      OBVIOUS
    <3>3. PICK position \in Int : position = FrameTick + 1
      BY <1>1, FloatsOfAFrame
    <3>4. /\ start <= now /\ position <= now /\ (position < now => now = start)
          /\ sessions[j].path = lanes[j].path
      BY <1>1, <1>2, <1>3, <1>4, <2>8, <3>1, <3>2, <3>3, FrameAwaited DEF HeardInv
    <3>5. PICK session : session = sessions'[j]
      OBVIOUS
    <3>6. /\ session.path = lanes'[j].path /\ session.cursor = position /\ session.cursor # NoTick
          /\ j \in DOMAIN sessions'
      <4>1. /\ session.path = sessions[j].path /\ session.cursor = position
            /\ j \in DOMAIN sessions'
        BY <1>1, <1>2, <3>3, <3>5, FrameMoves
      <4>2. position # NoTick
        BY AudioConstants
      <4> QED BY <1>6, <1>7, <3>4, <4>1, <4>2
    <3>7. now = lanes'[j].tick + lanes'[j].decoded
      <4>1. lanes[j].tick \in Nat /\ lanes[j].decoded \in Nat
        BY <1>2 DEF AudioTypeOK, LanesTypeOK, Lane
      <4> QED BY <1>4, <1>6, <1>7, <3>1, <3>2, <4>1 DEF Awaited
    <3>8. j \in worker'.resumed \/ Decoding(j)'
      BY <1>9 DEF AfterFrame
    <3> QED
      BY <1>2, <1>10, <3>1, <3>4, <3>5, <3>6, <3>7, <3>8, UnderWayNow
  <2>9. ASSUME NEW k \in DOMAIN lanes, UnderWay(k)
        PROVE  UnderWay(k)'
    <3>1. k # j => UnderWay(k)'
      BY <1>1, <1>2, <1>7, <1>9, <2>9, FrameAligned DEF HeardInv
    <3> QED BY <2>8, <2>9, <3>1
  <2> QED BY <1>1, <1>10, <2>3, <2>7, <2>9, WorkerMoved
<1> QED BY <1>11, <1>12

\* The worker takes a job: the lanes' own, or one that no lane rests on any more.
LEMMA TakeHeard ==
  ASSUME AudioInv, AudioInv', HeardInv, WorkerTakes
  PROVE  HeardInv'
<1> USE DEF AudioInv
<1>1. PICK line \in Lineup, tick, number \in Nat, resume \in SUBSET Key :
        pending = [generation |-> number, line |-> line, tick |-> tick, resume |-> resume]
  BY DEF WorkerTakes, AudioTypeOK, TransportTypeOK, Job
<1>2. /\ worker'.job = [generation |-> number, line |-> line, tick |-> tick, resume |-> {}]
      /\ worker'.resumed = resume /\ worker'.done = {} /\ worker'.at = 0 /\ worker'.pc = "target"
  BY <1>1 DEF WorkerTakes, Resting
<1>3. /\ sessions' = [k \in DOMAIN sessions \cap KeysOf(line) |-> sessions[k]]
      /\ pending # NoJob /\ pending' = NoJob /\ worker.pc = "wait" /\ lanes' = lanes
      /\ UNCHANGED <<deviceFrames, sourceTick, missed, generation, shutdown, ui>>
  BY <1>1 DEF WorkerTakes, clockVars, sharedVars
<1>4. \A k : ~Decoding(k) /\ ~Decoding(k)'
  BY <1>2, <1>3 DEF Decoding
<1>5. SessionsAligned'
  BY <1>3, <1>4 DEF HeardInv, SessionsAligned
<1>6. number <= generation /\ generation \in Nat
  BY <1>1, <1>3 DEF JobsCovered, Covered, AudioTypeOK, TransportTypeOK
<1>7. JobsOrdered'
  BY <1>2, <1>3, <1>6 DEF HeardInv, JobsOrdered
<1>8. LanesInTime => LanesInTime'
  BY <1>3, LanesKeepTime
<1>9. \A k \in DOMAIN lanes : Awaited(k)' = Awaited(k)
  BY <1>3 DEF Awaited
<1>10. CASE ui.pc \in {"submit", "submit_reconcile"}
  <2>1. number < generation
    BY <1>1, <1>3, <1>10 DEF HeardInv, JobsOrdered
  <2>2. \A k \in DOMAIN lanes, start \in Nat : ~Carried(k, start)
    BY <1>1, <1>3, <1>6, <2>1 DEF Carried
  <2>3. PICK soon \in Lineup, start \in Nat, again \in SUBSET Key :
          soon = ui.line /\ start = ui.tick /\ again = ui.resume
    BY <1>10 DEF AudioTypeOK, UiTypeOK
  <2>4. Due(soon, start, again)
    BY <1>10, <2>3 DEF HeardInv, LanesOwned
  <2>5. ASSUME NEW k \in DOMAIN lanes, lanes[k].steady
        PROVE  k \notin again /\ Awaited(k)' = start
    BY <1>9, <2>2, <2>4, <2>5 DEF Due
  <2>6. LanesOf(soon, start)'
    BY <1>3, <2>4 DEF Due, LanesOf
  <2>7. (worker.job # NoJob => worker.job.generation < generation)'
    BY <1>2, <1>3, <2>1
  <2>8. Due(soon, start, again)'
    BY <1>3, <2>5, <2>6, <2>7 DEF Due
  <2>9. ui'.line = soon /\ ui'.tick = start /\ ui'.resume = again
    BY <1>3, <2>3
  <2>10. Due(ui.line, ui.tick, ui.resume)'
    BY <2>8, <2>9 DEF Due, LanesOf, Carried
  <2>11. LanesOwned'
    BY <1>3, <1>10, <2>10 DEF LanesOwned
  <2> QED BY <1>3, <1>5, <1>7, <1>8, <1>10, <2>11 DEF HeardInv
<1>11. CASE ui.pc = "idle" /\ lanes # <<>>
  <2>1. number = generation /\ Due(line, tick, resume)
    BY <1>1, <1>3, <1>11 DEF HeardInv, LanesOwned
  <2>2. worker'.job # NoJob /\ StillCurrent'
    <3>1. worker'.job \in Job
      BY <1>1, <1>2 DEF Job
    <3> QED BY <1>2, <1>3, <2>1, <3>1, NoJobIsNone DEF StillCurrent
  <2>3. LanesOf(Targets, worker.job.tick)'
    BY <1>2, <1>3, <2>1 DEF Due, LanesOf, Targets
  <2>4. ASSUME NEW k \in DOMAIN lanes, lanes[k].steady
        PROVE  UnderWay(k)'
    <3>1. CASE k \notin resume
      BY <1>2, <1>4, <1>9, <2>1, <2>4, <3>1 DEF Due, UnderWay
    <3>2. CASE k \in resume
      <4>1. Carried(k, tick) /\ k \in KeysOf(line)
        BY <2>1, <2>4, <3>2 DEF Due, LanesOf
      <4>2. k \in DOMAIN sessions' /\ sessions'[k] = sessions[k]
        BY <1>3, <4>1 DEF Carried
      <4>3. PICK awaited \in Nat : awaited = Awaited(k)
        BY Awaiting
      <4>4. /\ sessions'[k].cursor = awaited /\ sessions'[k].path = lanes'[k].path
            /\ tick <= awaited /\ awaited # NoTick
        BY <1>3, <4>1, <4>2, <4>3, AudioConstants DEF Carried
      <4>5. Position(k)' = awaited
        BY <4>4 DEF Position
      <4>6. ~(awaited < awaited) /\ awaited <= awaited
        OBVIOUS
      <4> QED BY <1>2, <1>9, <3>2, <4>2, <4>3, <4>4, <4>5, <4>6 DEF UnderWay
    <3> QED BY <3>1, <3>2
  <2>5. Begun'
    BY <1>3, <2>2, <2>3, <2>4 DEF Begun
  <2>6. LanesOwned'
    BY <1>3, <1>11, <2>5 DEF LanesOwned
  <2> QED BY <1>3, <1>5, <1>7, <1>8, <1>11, <2>6 DEF HeardInv
<1>12. CASE (ui.pc = "idle" /\ lanes = <<>>) \/ ui.pc \notin {"idle", "submit", "submit_reconcile"}
  <2>1. CASE ui.pc = "replace"
    BY <1>3, <1>5, <1>7, <2>1 DEF HeardInv
  <2>2. CASE ui.pc # "replace"
    <3>1. lanes' = <<>>
      BY <1>3, <1>12, <2>2 DEF HeardInv, LanesOwned
    <3> QED BY <1>3, <1>5, <1>7, <1>12, <3>1, SilenceHeard
  <2> QED BY <2>1, <2>2
<1> QED BY <1>10, <1>11, <1>12

LEMMA ReturnHeard ==
  ASSUME AudioInv, HeardInv, WorkerReturns
  PROVE  HeardInv'
<1>1. ui.pc \in {"join", "dropped"} /\ lanes = <<>>
  BY DEF WorkerReturns, HeardInv, JobsOrdered, LanesOwned
<1>2. DOMAIN sessions' = {} /\ worker'.job = NoJob
  BY DEF WorkerReturns, Resting
<1>3. SessionsAligned' /\ JobsOrdered'
  BY <1>2 DEF WorkerReturns, HeardInv, SessionsAligned, JobsOrdered, clockVars, sharedVars, queueVars
<1> QED BY <1>1, <1>3, SilenceHeard DEF WorkerReturns, sharedVars

LEMMA WorkerHeard ==
  ASSUME AudioInv, AudioInv', HeardInv, WorkerStep
  PROVE  HeardInv'
<1>1. CASE OpenFails \/ PrepareFails
  <2>1. HasJob /\ TargetFails /\ worker.pc = "target"
        /\ (UNCHANGED sessions \/ DropSession)
        /\ (NeedsOpen(Turn.key, Turn.path) \/ Turn.key \notin worker.resumed)
    BY <1>1 DEF OpenFails, PrepareFails, HasJob
  <2> QED BY <2>1, FailureHeard
<1>2. CASE DecodeFails
  <2>1. HasJob /\ TargetFails /\ worker.pc = "decode" /\ DropSession
    BY <1>2 DEF DecodeFails, FrameNext, HasJob
  <2> QED BY <2>1, FailureHeard
<1> QED
  BY <1>1, <1>2, TakeHeard, ReturnHeard, StartHeard, SkipHeard, QueueHeard, DrainHeard,
     OtherStreamHeard, EndHeard, CheckHeard
  DEF WorkerStep

LEMMA HeardInitially == AudioInit => HeardInv
<1> SUFFICES ASSUME AudioInit PROVE HeardInv
  OBVIOUS
<1>1. DOMAIN sessions = {} /\ DOMAIN lanes = {} /\ lanes = <<>> /\ ui.pc = "idle"
  BY DEF AudioInit
<1>2. SessionsAligned /\ LanesInTime /\ LanesOwned
  BY <1>1 DEF SessionsAligned, LanesInTime, LanesOwned
<1>3. JobsOrdered
  BY DEF AudioInit, Resting, JobsOrdered
<1> QED BY <1>2, <1>3 DEF HeardInv

\* The inductive invariant of what is heard: every lane has one job that answers for it, and
\* that job's decoder is at the frame the lane waits for or on its way there.
THEOREM HeardInvariant == AudioSafety => []HeardInv
<1>1. AudioInit => HeardInv
  BY HeardInitially
<1>2. AudioInv /\ AudioInv' /\ HeardInv /\ [AudioNext]_audioVars => HeardInv'
  <2>1. AudioInv /\ AudioInv' /\ HeardInv /\ UNCHANGED audioVars => HeardInv'
    BY HeardStays DEF audioVars, clockVars, sharedVars, queueVars, workVars
  <2> QED
    BY <2>1, ApplicationHeard, CallbackHeard, WorkerHeard DEF AudioNext, ApplicationStep
<1> QED BY <1>1, <1>2, AudioInvariant, PTL DEF AudioSafety

\* The next sample of a lane is the one for the device clock, or late by no more than the
\* frames the callback failed to lock for, whatever seeks, reconciles, pauses, failures and
\* cancelled packets came before.
THEOREM HeardOnTimeAlways == AudioSafety => []HeardOnTime
<1>1. AudioInv /\ HeardInv => HeardOnTime
  <2> SUFFICES ASSUME AudioInv, HeardInv, ui.pc # "replace",
                      NEW k \in DOMAIN lanes, lanes[k].steady, lanes[k].queue # <<>>
               PROVE  /\ Head(lanes[k].queue) <= lanes[k].tick + Consumed(lanes[k])
                      /\ Head(lanes[k].queue) >= lanes[k].tick + Consumed(lanes[k]) - missed
    BY DEF HeardOnTime, OnTime
  <2>1. PICK lane \in Lane : lane = lanes[k]
    BY DEF AudioInv, AudioTypeOK, LanesTypeOK
  <2>2. QueueInTime(lane) /\ lane.origin <= deviceFrames
    BY <2>1 DEF HeardInv, LanesInTime
  <2>3. PICK queue \in Seq(Int), consumed, tick, decoded, lost, origin \in Nat :
          /\ queue = lane.queue /\ tick = lane.tick /\ decoded = lane.decoded
          /\ origin = lane.origin /\ lost = missed /\ consumed = Consumed(lane)
          /\ \A i \in 1..Len(queue) : InTime(queue[i], i, tick, consumed, decoded, lost)
    BY <2>1, <2>2, TimedNumbers, ZenonT(30) DEF AudioInv
  <2>4. Head(queue) = queue[1] /\ 1 \in 1..Len(queue)
    BY <2>1, <2>3
  <2>5. PICK heard \in Int : heard = queue[1]
    BY <2>4
  <2>6. InTime(heard, 1, tick, consumed, decoded, lost)
    BY <2>3, <2>4, <2>5
  <2>7. heard <= tick + consumed /\ heard >= tick + consumed - lost
    BY <2>6 DEF InTime
  <2> QED BY <2>1, <2>3, <2>4, <2>5, <2>7
<1> QED BY <1>1, AudioInvariant, HeardInvariant, PTL
=============================================================================
