---------------------------- MODULE MonitorCache ----------------------------
(***************************************************************************)
(* The decoded-frame cache that the monitor's decoding threads share       *)
(* (MonitorFrameCache of nle-decode): which frames it keeps, which it      *)
(* hands out, and the threads that look up, decode and insert under a lock *)
(* they take for each of these steps and release in between                *)
(* (decode_monitor_request).  The frames themselves are kept by Lru.       *)
(*                                                                         *)
(* A source has a frame at each tick of Frames.  Every frame has size 1;   *)
(* the output size, part of the key like the media, is left out.  What     *)
(* FrameKey does not carry, the path and the scaling quality, is part of   *)
(* the value here, so that a frame shows how it was made.                  *)
(***************************************************************************)
EXTENDS Lru, FiniteSetsExt

CONSTANTS
    Worker,         \* decoding threads
    Request,        \* the requests they serve: epoch, media, path, quality, scrub
    MaxTick,        \* the last tick a request may name, a bound
    Frames,         \* the ticks at which the sources have frames
    AnchorInterval, \* SPARSE_CACHE_INTERVAL_TICKS
    ScrubInterval,  \* half the frame duration, or SCRUB_CACHE_INTERVAL_TICKS
    Tolerance,      \* source_frame_duration_tick
    MaxIndex,       \* MAX_SCRUB_CACHE_INDEX_ENTRIES
    MaxStreams,     \* MAX_CACHE_STREAM_STATES
    None

ASSUME MonitorCacheConstants ==
    /\ Capacity > 0 /\ {MaxStreams, AnchorInterval, ScrubInterval, MaxIndex} \subseteq Nat \ {0}
    /\ Tolerance \in Nat
    /\ MaxTick \in Nat /\ Frames # {} /\ Frames \subseteq 0..MaxTick
    /\ \A r \in Request : r.scrub \in BOOLEAN

VARIABLES
    recent,     \* frames: the LRU entries, oldest first
    anchors,    \* last_anchor_bucket: stream |-> bucket
    latest,     \* stream |-> its latest key and whether that is an anchor
    index,      \* scrub_frames: stream |-> ticks
    order,      \* scrub_order: <<stream, tick>> in the order of insertion
    epoch, quality, sources,    \* project_epoch, scaling_quality, media |-> path
    worker,     \* what each thread is doing
    evicted     \* history: the byte budget made a frame go since the last clear

kept   == <<recent, anchors, latest, index, order, evicted>>
policy == <<epoch, quality, sources>>
vars   == <<recent, anchors, latest, index, order, evicted, epoch, quality, sources, worker>>

Tick   == 0..MaxTick
Idle   == [at |-> "idle"]
At(w, stage) == worker' = [worker EXCEPT ![w].at = stage]

StreamOf(r)  == <<r.epoch, r.media>>
KeyAt(r, t)  == [stream |-> StreamOf(r), tick |-> t]
FrameOf(r, t) == [size |-> 1, tick |-> t, path |-> r.path, quality |-> r.quality]
Bucket(t)    == t \div AnchorInterval

\* A decode ends with the first frame at or after its target; past the last
\* frame it fails.
Target      == 0..Max(Frames)
FrameFor(t) == Min({f \in Frames : f >= t})

Nowhere       == [x \in {} |-> None]
Set(f, x, y)  == [z \in DOMAIN f \cup {x} |-> IF z = x THEN y ELSE f[z]]
Unset(f, x)   == [y \in DOMAIN f \ {x} |-> f[y]]
Indexed(s)    == IF s \in DOMAIN index THEN index[s] ELSE {}

\* An index without a tick, and without the stream if that was its last one.
Unindex(idx, s, t) ==
    IF s \notin DOMAIN idx THEN idx
    ELSE IF idx[s] = {t} THEN Unset(idx, s) ELSE [idx EXCEPT ![s] = idx[s] \ {t}]

CacheInit == /\ recent = <<>> /\ anchors = Nowhere /\ latest = Nowhere
             /\ index = Nowhere /\ order = <<>> /\ evicted = FALSE
             /\ epoch = None /\ quality = None /\ sources = Nowhere
             /\ worker = [w \in Worker |-> Idle]

\* All frames have size 1: a new one makes the oldest go when the budget is full.
Evicts(entries, key) == key \notin Keys(entries) /\ Len(entries) = Capacity

-----------------------------------------------------------------------------
(* The operations under the lock. *)

DropAll == /\ recent' = <<>> /\ anchors' = Nowhere /\ latest' = Nowhere
           /\ index' = Nowhere /\ order' = <<>> /\ evicted' = FALSE

\* The map of streams or of sources is full and the request would add to it.
LimitReached(r) ==
    \/ StreamOf(r) \notin DOMAIN latest /\ Cardinality(DOMAIN latest) >= MaxStreams
    \/ r.media \notin DOMAIN sources /\ Cardinality(DOMAIN sources) >= MaxStreams

NeedsResetAnyQuality(r) == \/ epoch # r.epoch
                           \/ r.media \in DOMAIN sources /\ sources[r.media] # r.path
                           \/ LimitReached(r)

NeedsReset(r) == \/ epoch # r.epoch
                 \/ quality # r.quality
                 \/ r.media \in DOMAIN sources /\ sources[r.media] # r.path
                 \/ LimitReached(r)

PrepareRequest(r) ==
    /\ IF NeedsReset(r)
         THEN DropAll /\ epoch' = r.epoch /\ sources' = Set(Nowhere, r.media, r.path)
         ELSE UNCHANGED <<kept, epoch>> /\ sources' = Set(sources, r.media, r.path)
    /\ quality' = r.quality

AcceptsRequest(r) == /\ epoch = r.epoch
                     /\ quality = r.quality
                     /\ r.media \in DOMAIN sources /\ sources[r.media] = r.path

\* The first indexed tick in the window of a scrub request.
TwoFrames(t) == t..(t + 2 * Tolerance)
Window(t)    == t..(t + Tolerance)
Nearby(r, t) == Indexed(StreamOf(r)) \cap Window(t)

\* The previous latest frame also when it is the new one.
PassingAnyway(s, key) == /\ s \in DOMAIN latest
                         /\ ~latest[s].anchor
                         /\ latest[s].key.tick \notin Indexed(s)

\* The previous latest frame was neither an anchor nor met on a scrub.
Passing(s, key) == /\ s \in DOMAIN latest
                   /\ latest[s].key # key
                   /\ ~latest[s].anchor
                   /\ latest[s].key.tick \notin Indexed(s)

\* insert: the frame of a finished decode, under the tick it was asked for.
InsertTarget(r, t, frame) ==
    LET s        == StreamOf(r)
        key      == KeyAt(r, t)
        isAnchor == ~(s \in DOMAIN anchors /\ anchors[s] = Bucket(t))
        stored   == Put(recent, key, frame)
    IN /\ recent' = IF Passing(s, key) THEN Without(stored, latest[s].key) ELSE stored
       /\ anchors' = IF isAnchor THEN Set(anchors, s, Bucket(t)) ELSE anchors
       /\ latest' = Set(latest, s, [key |-> key, anchor |-> isAnchor])
       /\ evicted' = (evicted \/ Evicts(recent, key))
       /\ UNCHANGED <<index, order>>

\* The oldest entry of the order leaves the index, or stays.
Retire(idx, oldest)     == Unindex(idx, oldest[1], oldest[2])

\* insert_scrub_traversal: at most one frame per interval, indexed by its own
\* tick.  The oldest index entry goes when there are too many.
InsertTraversal(r, t) ==
    LET s      == StreamOf(r)
        bucket == {u \in Indexed(s) : u \div ScrubInterval = t \div ScrubInterval}
        added  == Set(index, s, Indexed(s) \cup {t})
        queue  == Append(order, <<s, t>>)
    IN IF ~AcceptsRequest(r) \/ bucket # {}
         THEN UNCHANGED kept
         ELSE /\ recent' = Put(recent, KeyAt(r, t), FrameOf(r, t))
              /\ IF Len(queue) > MaxIndex
                   THEN /\ order' = Tail(queue)
                        /\ index' = Retire(added, queue[1])
                   ELSE order' = queue /\ index' = added
              /\ evicted' = (evicted \/ Evicts(recent, KeyAt(r, t)))
              /\ UNCHANGED <<anchors, latest>>

-----------------------------------------------------------------------------
(* The threads. *)

Prepare(w) == /\ worker[w].at = "idle"
              /\ \E r \in Request, t \in Tick :
                    /\ PrepareRequest(r)
                    /\ worker' = [worker EXCEPT ![w] =
                                    [at |-> "lookup", request |-> r, target |-> t, got |-> None]]

\* The exact key.
LookUp(w) ==
    LET r   == worker[w].request
        key == KeyAt(r, worker[w].target)
    IN /\ worker[w].at = "lookup"
       /\ recent' = Touch(recent, key)
       /\ worker' = [worker EXCEPT ![w] =
                       IF key \in Keys(recent)
                         THEN [@ EXCEPT !.at = "hit", !.got = Find(recent, key)]
                         ELSE [@ EXCEPT !.at = IF r.scrub THEN "scrub" ELSE "decode"]]
       /\ UNCHANGED <<anchors, latest, index, order, evicted, policy>>

\* get_scrub_at_or_after; an index entry whose frame is gone goes too.
LookNearby(w) ==
    LET r   == worker[w].request
        t   == worker[w].target
        key == KeyAt(r, Min(Nearby(r, t)))
    IN /\ worker[w].at = "scrub"
       /\ \/ /\ Nearby(r, t) = {}
             /\ At(w, "decode")
             /\ UNCHANGED kept
          \/ /\ Nearby(r, t) # {}
             /\ key \in Keys(recent) /\ Find(recent, key).tick >= t
             /\ worker' = [worker EXCEPT ![w].at = "hit", ![w].got = Find(recent, key)]
             /\ recent' = Touch(recent, key)
             /\ UNCHANGED <<anchors, latest, index, order, evicted>>
          \/ /\ Nearby(r, t) # {}
             /\ key \in Keys(recent) => Find(recent, key).tick < t
             /\ At(w, "decode")
             /\ recent' = Touch(recent, key)
             /\ index' = Unindex(index, StreamOf(r), key.tick)
             /\ UNCHANGED <<anchors, latest, order, evicted>>
       /\ UNCHANGED policy

\* A frame before the target, met on the way of a scrub.
Traverse(w) == /\ worker[w].at = "decode"
               /\ worker[w].request.scrub
               /\ \E t \in Frames : InsertTraversal(worker[w].request, t)
               /\ UNCHANGED <<policy, worker>>

\* A decode that inserts whatever the policy is by now.
CompleteAnyway(w) ==
    /\ worker[w].at = "decode"
    /\ \E t \in Target : InsertTarget(worker[w].request, t, FrameOf(worker[w].request, FrameFor(t)))
    /\ worker' = [worker EXCEPT ![w] = Idle]
    /\ UNCHANGED policy

\* The decode ends, perhaps for a newer target of the same generation, and
\* insert_if_current keeps the frame.
Complete(w) ==
    LET r == worker[w].request
    IN /\ worker[w].at = "decode"
       /\ \E t \in Target :
             IF AcceptsRequest(r) THEN InsertTarget(r, t, FrameOf(r, FrameFor(t)))
                                  ELSE UNCHANGED kept
       /\ worker' = [worker EXCEPT ![w] = Idle]
       /\ UNCHANGED policy

\* Invalidated, deferred for capacity, or failed (a target past the end, too).
GiveUp(w) == /\ worker[w].at = "decode"
             /\ worker' = [worker EXCEPT ![w] = Idle]
             /\ UNCHANGED <<kept, policy>>

\* The frame found in the cache is published.
Publish(w) == /\ worker[w].at = "hit"
              /\ worker' = [worker EXCEPT ![w] = Idle]
              /\ UNCHANGED <<kept, policy>>

\* reset_live_cache.
Reset == /\ DropAll
         /\ epoch' = None /\ quality' = None /\ sources' = Nowhere
         /\ worker' = worker

WorkerNext(w) == \/ Prepare(w) \/ LookUp(w) \/ LookNearby(w) \/ Traverse(w)
                 \/ Complete(w) \/ GiveUp(w) \/ Publish(w)

MonitorNext == (\E w \in Worker : WorkerNext(w)) \/ Reset

MonitorSpec == CacheInit /\ [][MonitorNext]_vars

-----------------------------------------------------------------------------
(* Properties. *)

Streams == {StreamOf(r) : r \in Request}

\* The variables have their types, no key is twice in the cache, and the byte
\* budget, the index and the maps of streams and sources keep to their limits.
MonitorTypeOK ==
    /\ Bytes(recent) <= Capacity
    /\ Cardinality(Keys(recent)) = Len(recent)
    /\ DOMAIN index \subseteq Streams /\ {} \notin {index[s] : s \in DOMAIN index}
    /\ Cardinality(UNION {{s} \X index[s] : s \in DOMAIN index}) <= MaxIndex
    /\ Len(order) <= MaxIndex
    /\ Cardinality(DOMAIN sources) <= MaxStreams
    /\ DOMAIN anchors = DOMAIN latest
    /\ \A w \in Worker :
          worker[w].at \in {"idle", "lookup", "scrub", "decode", "hit"}

\* The cache keeps to its limits, and all cached frames were made under the
\* policy the cache is set to: its epoch, its scaling quality and the path of
\* their media.  A decode that outlives a change of policy leaves nothing behind
\* (prepare_request, insert_if_current).
CacheMatchesPolicy ==
    /\ MonitorTypeOK
    /\ \A i \in DOMAIN recent :
          LET media == recent[i].key.stream[2]
              frame == recent[i].value
          IN /\ recent[i].key.stream[1] = epoch
             /\ frame.quality = quality
             /\ media \in DOMAIN sources /\ frame.path = sources[media]

\* A frame from the cache is the one a decode of the target ends with, or, for a
\* scrub, one at or after the target within one frame's duration.  It was made
\* from the request's own path at its own quality ("prevents either quality from
\* reusing pixels produced by the other"), as long as the cache accepts the request:
\* another thread may have set it to another policy since this one prepared it, as
\* prepare_request and the look-up are under two locks, and then the frame is of
\* that policy.
HitIsRight ==
    [][\A w \in Worker :
          worker[w].at \in {"lookup", "scrub"} /\ worker'[w].at = "hit" =>
              LET r     == worker[w].request
                  t     == worker[w].target
                  frame == worker'[w].got
              IN /\ \/ frame.tick = FrameFor(t)
                    \/ r.scrub /\ frame.tick \in t..(t + Tolerance)
                 /\ AcceptsRequest(r) => frame = FrameOf(r, frame.tick)]_vars

\* In a cache that never had to evict, the latest target of every stream is
\* kept, whichever threads inserted before and after it (insert).
LatestIsKept == evicted \/ \A s \in DOMAIN latest : latest[s].key \in Keys(recent)
=============================================================================
