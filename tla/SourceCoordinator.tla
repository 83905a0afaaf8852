---------------------------- MODULE SourceCoordinator ----------------------------
(*****************************************************************************)
(* The control plane of the shared monitor-source coordinator of nle-decode: *)
(* decoder endpoints lease source-lane actors, one thread each, from a       *)
(* registry with a cap on source groups; actors hold sticky FFmpeg sessions  *)
(* under permits of a shared pool; actors nobody leases any more are joined  *)
(* by one reaper thread, and every live or unjoined actor holds one unit of  *)
(* a fixed reservation budget.                                               *)
(*                                                                           *)
(* An endpoint stands for one worker slot of one MonitorDecoder.  The calls  *)
(* on one endpoint are serialised by its `control` mutex; endpoints run      *)
(* concurrently with each other, with the actors and with the reaper.  What  *)
(* the actors do with the requests is in SourceLane.                         *)
(*****************************************************************************)
EXTENDS Naturals, Sequences, FiniteSets

CONSTANTS
  Endpoint,       \* worker slots of the monitor decoders
  Foreground,     \* the slots with worker index 0
  Key,            \* MonitorSourceKey: media, path and acceleration
  Generation,     \* the other fields same_decode_generation compares
  Actor,          \* identities for actor threads, reused after the join
  NoActor,
  GroupCap,       \* max_active_source_groups
  ForegroundCap,  \* permits of the session pool, by lane
  BackgroundCap,
  MaxRequest      \* bound on request ids

ASSUME CoordinatorConstants ==
  /\ Foreground \subseteq Endpoint
  /\ IsFiniteSet(Endpoint) /\ IsFiniteSet(Key) /\ IsFiniteSet(Actor)
  /\ NoActor \notin Actor
  /\ GroupCap \in Nat /\ ForegroundCap \in Nat /\ BackgroundCap \in Nat
  /\ MaxRequest \in Nat

VARIABLES
  groups,      \* keys present in the coordinator's map
  index,       \* the weak references of the map: the actor one upgrades to
  lease,       \* what each endpoint holds in `active`
  acquiring,   \* request between the hand-off of the old lease and acquire
  deferred,    \* deferred_request of each endpoint
  thread,      \* life cycle of each actor thread
  source,      \* key and lane an actor was spawned for
  session,     \* actors that hold a sticky session, hence a permit
  active,      \* the pool's counters, by lane
  reserved,    \* the reaper's reservation counter
  joinQueue,   \* handles sent to the reaper, oldest first; its length is `retiring`
  lastRequest, \* greatest request id issued
  latest       \* history: newest request an endpoint still owes an answer to

registry == <<groups, index>>
control  == <<lease, acquiring, deferred, lastRequest, latest>>
pool     == <<session, active>>
reaper   == <<reserved, joinQueue>>
coordinatorVars == <<groups, index, lease, acquiring, deferred, thread, source,
                     session, active, reserved, joinQueue, lastRequest, latest>>

-----------------------------------------------------------------------------
Lane == {"foreground", "background"}
LaneOf(e) == IF e \in Foreground THEN "foreground" ELSE "background"
SessionCap == [l \in Lane |-> IF l = "foreground" THEN ForegroundCap ELSE BackgroundCap]
ActorCap == 2 * GroupCap

\* `speculative` is the paused prewarm of a background lane: its output is silent.
Request == [id : 1..MaxRequest, key : Key, generation : Generation,
            scrubbing : BOOLEAN, speculative : BOOLEAN]
NoRequest == [id |-> 0]
Source == [key : Key, lane : Lane]
NoSource == [lane |-> "none"]
Lease == [actor : Actor, request : Request]
NoLease == [actor |-> NoActor, request |-> NoRequest]

\* Strong references to actors are held by leases only.
Owners(leases, a) == {e \in Endpoint : leases[e].actor = a}
Live == {a \in Actor : Owners(lease, a) # {}}

\* The leases after endpoint e gave up its own, and the actor that drops with it.
Without(e) == [lease EXCEPT ![e] = NoLease]
OrphanedThoughShared(e) == {lease[e].actor} \ {NoActor}
Orphaned(e) == {a \in {lease[e].actor} \ {NoActor} : Owners(lease, a) = {e}}

RetireUnjoined(dropped) ==
  /\ index' = [k \in Key |-> [l \in Lane |->
                 IF index[k][l] \in dropped THEN NoActor ELSE index[k][l]]]
  /\ UNCHANGED joinQueue

\* SourceLaneActor::drop: the registry's weak references die with the last strong
\* one, and the handle goes to the reaper.
Retire(dropped) ==
  /\ index' = [k \in Key |-> [l \in Lane |->
                 IF index[k][l] \in dropped THEN NoActor ELSE index[k][l]]]
  /\ joinQueue' = IF dropped = {} THEN joinQueue
                  ELSE Append(joinQueue, CHOOSE a \in dropped : TRUE)

GiveUpLease(e) ==
  /\ lease' = Without(e)
  /\ Retire(Orphaned(e))

-----------------------------------------------------------------------------
(* MonitorSourceCoordinator::acquire *)

\* groups.retain: only groups with an upgradable reference stay.
KeptGroups == {k \in groups : \E l \in Lane : index[k][l] # NoActor}
GroupRefusedLate(k) == k \notin KeptGroups /\ Cardinality(KeptGroups) > GroupCap
GroupRefused(k) == k \notin KeptGroups /\ Cardinality(KeptGroups) >= GroupCap
TouchGroup(k) == groups' = IF GroupRefused(k) THEN KeptGroups ELSE KeptGroups \cup {k}

Indexed(e, r) == index[r.key][LaneOf(e)]

\* send_to_with_role defers the request when acquire reports no capacity.
AcquireRefused(e, r) ==
  /\ \/ GroupRefused(r.key)
     \/ Indexed(e, r) = NoActor /\ reserved >= ActorCap
  /\ TouchGroup(r.key)
  /\ deferred' = [deferred EXCEPT ![e] = r]
  /\ UNCHANGED <<index, lease, thread, source, reserved, latest>>

Leased(e, a, r) == lease' = [lease EXCEPT ![e] = [actor |-> a, request |-> r]]

\* `full` says that the client queue of the actor refuses the endpoint's client: the
\* lease stays and the request is kept for a retry.
AcquireExisting(e, r, full) ==
  /\ ~GroupRefused(r.key)
  /\ Indexed(e, r) # NoActor
  /\ TouchGroup(r.key)
  /\ Leased(e, Indexed(e, r), r)
  /\ deferred' = [deferred EXCEPT ![e] = IF full THEN r ELSE NoRequest]
  /\ UNCHANGED <<index, thread, source, reserved, latest>>

MaySpawn(e, r) ==
  /\ ~GroupRefused(r.key)
  /\ Indexed(e, r) = NoActor
  /\ reserved < ActorCap

AcquireSpawnedStale(e, r) ==
  /\ MaySpawn(e, r)
  /\ TouchGroup(r.key)
  /\ \E a \in {b \in Actor : thread[b] = "none"} :
       /\ thread' = [thread EXCEPT ![a] = "running"]
       /\ source' = [source EXCEPT ![a] = [key |-> r.key, lane |-> LaneOf(e)]]
       /\ index' = [index EXCEPT ![r.key][LaneOf(e)] = a]
       /\ Leased(e, a, r)
  /\ reserved' = reserved + 1
  /\ UNCHANGED <<deferred, latest>>

AcquireSpawned(e, r) ==
  /\ MaySpawn(e, r)
  /\ TouchGroup(r.key)
  /\ \E a \in {b \in Actor : thread[b] = "none"} :
       /\ thread' = [thread EXCEPT ![a] = "running"]
       /\ source' = [source EXCEPT ![a] = [key |-> r.key, lane |-> LaneOf(e)]]
       /\ index' = [index EXCEPT ![r.key][LaneOf(e)] = a]
       /\ Leased(e, a, r)
  /\ reserved' = reserved + 1
  /\ deferred' = [deferred EXCEPT ![e] = NoRequest]
  /\ UNCHANGED latest

AcquireFailedReserved(e, r) ==
  /\ MaySpawn(e, r)
  /\ TouchGroup(r.key)
  /\ reserved' = reserved + 1
  /\ deferred' = [deferred EXCEPT ![e] = NoRequest]
  /\ latest' = [latest EXCEPT ![e] = 0]
  /\ UNCHANGED <<index, lease, thread, source>>

\* The operating system refuses the thread: the reservation is returned, the map
\* keeps an empty entry, and a visible request is answered with an error.
AcquireFailed(e, r) ==
  /\ MaySpawn(e, r)
  /\ TouchGroup(r.key)
  /\ deferred' = [deferred EXCEPT ![e] = NoRequest]
  /\ latest' = [latest EXCEPT ![e] = 0]
  /\ UNCHANGED <<index, lease, thread, source, reserved>>

Acquire(e, full) ==
  /\ acquiring[e] # NoRequest
  /\ acquiring' = [acquiring EXCEPT ![e] = NoRequest]
  /\ \/ AcquireRefused(e, acquiring[e])
     \/ AcquireExisting(e, acquiring[e], full)
     \/ AcquireSpawned(e, acquiring[e])
     \/ AcquireFailed(e, acquiring[e])
  /\ UNCHANGED <<session, active, joinQueue, lastRequest>>

-----------------------------------------------------------------------------
(* MonitorDecoder: the calls on one endpoint *)

Idle(e) == acquiring[e] = NoRequest

LeasesAnySource(e, k) == lease[e].actor # NoActor

\* The lease stays when its source is the request's; otherwise it is handed back
\* before acquire.
LeasesSource(e, k) == lease[e].actor # NoActor /\ lease[e].request.key = k

SendReusing(e, r, full) ==
  /\ LeasesSource(e, r.key)
  /\ lease' = [lease EXCEPT ![e].request = r]
  /\ deferred' = [deferred EXCEPT ![e] = IF full THEN r ELSE NoRequest]
  /\ UNCHANGED <<index, joinQueue, acquiring>>

SendAcquiring(e, r) ==
  /\ ~LeasesSource(e, r.key)
  /\ GiveUpLease(e)
  /\ acquiring' = [acquiring EXCEPT ![e] = r]
  /\ UNCHANGED deferred

Send(e, r, full) ==
  /\ Idle(e)
  /\ SendReusing(e, r, full) \/ SendAcquiring(e, r)
  /\ latest' = [latest EXCEPT ![e] = r.id]
  /\ UNCHANGED <<groups, thread, source, session, active, reserved>>

\* Public routing: a background lane gets silent prewarm work or reverse scrubs, the
\* foreground lane is always visible.
NewRequest(e) ==
  {r \in Request : /\ r.id = lastRequest + 1
                   /\ r.speculative = (e \notin Foreground /\ ~r.scrubbing)}

RequestNew(e, r, full) ==
  /\ r \in NewRequest(e)
  /\ Send(e, r, full)
  /\ lastRequest' = r.id

RetryDeferred(e, full) ==
  /\ deferred[e] # NoRequest
  /\ Send(e, deferred[e], full)
  /\ UNCHANGED lastRequest

CancelPending(e) ==
  /\ Idle(e)
  /\ deferred' = [deferred EXCEPT ![e] = NoRequest]
  /\ latest' = [latest EXCEPT ![e] = 0]
  /\ UNCHANGED <<registry, lease, acquiring, lastRequest, thread, source, pool, reaper>>

\* release_live_sessions: the deferred request, if there is one, stays.
ReleaseLive(e) ==
  /\ Idle(e)
  /\ GiveUpLease(e)
  /\ latest' = [latest EXCEPT ![e] = 0]
  /\ UNCHANGED <<groups, acquiring, deferred, lastRequest, thread, source, pool, reserved>>

DeferLiveForgetful(e) ==
  /\ Idle(e)
  /\ lease[e].actor # NoActor
  /\ GiveUpLease(e)
  /\ UNCHANGED <<groups, acquiring, deferred, lastRequest, latest, thread, source, pool,
                  reserved>>

\* defer_live_sessions: the lease's request survives its lease.
DeferLive(e) ==
  /\ Idle(e)
  /\ lease[e].actor # NoActor
  /\ GiveUpLease(e)
  /\ deferred' = [deferred EXCEPT ![e] = lease[e].request]
  /\ UNCHANGED <<groups, acquiring, lastRequest, latest, thread, source, pool, reserved>>

\* release_speculative_sessions walks the background endpoints.
SpeculativeLease(e) == lease[e].actor # NoActor /\ lease[e].request.speculative
SpeculativeRetry(e) == deferred[e] # NoRequest /\ deferred[e].speculative

ReleaseSpeculative(e) ==
  /\ Idle(e)
  /\ e \notin Foreground
  /\ deferred' = [deferred EXCEPT ![e] = IF SpeculativeRetry(e) THEN NoRequest ELSE @]
  /\ IF SpeculativeLease(e) THEN GiveUpLease(e) ELSE UNCHANGED <<lease, index, joinQueue>>
  /\ latest' = [latest EXCEPT ![e] =
                  IF SpeculativeRetry(e) \/ SpeculativeLease(e) THEN 0 ELSE @]
  /\ UNCHANGED <<groups, acquiring, lastRequest, thread, source, pool, reserved>>

-----------------------------------------------------------------------------
(* The actor threads, as far as the shared counters see them, and the reaper *)

HoldSession(a) ==
  /\ active' = [active EXCEPT ![source[a].lane] = @ + 1]
  /\ session' = session \cup {a}

DropSession(a) ==
  /\ active' = [active EXCEPT ![source[a].lane] = @ - 1]
  /\ session' = session \ {a}

PermitAlways(a) == TRUE
PermitFree(a) == active[source[a].lane] < SessionCap[source[a].lane]

\* open_sticky_monitor; it may still run after the last lease has gone.
OpenSession(a) ==
  /\ thread[a] = "running"
  /\ a \notin session
  /\ PermitFree(a)
  /\ HoldSession(a)
  /\ UNCHANGED <<registry, control, thread, source, reaper>>

\* A session that did not open, or a hardware session given up for software.
CloseSession(a) ==
  /\ thread[a] = "running"
  /\ a \in session
  /\ DropSession(a)
  /\ UNCHANGED <<registry, control, thread, source, reaper>>

ExitActorDropsAgain(a) ==
  /\ thread[a] = "running"
  /\ a \notin Live
  /\ thread' = [thread EXCEPT ![a] = "ended"]
  /\ DropSession(a)
  /\ UNCHANGED <<registry, control, source, reaper>>

ExitActor(a) ==
  /\ thread[a] = "running"
  /\ a \notin Live
  /\ thread' = [thread EXCEPT ![a] = "ended"]
  /\ IF a \in session THEN DropSession(a) ELSE UNCHANGED pool
  /\ UNCHANGED <<registry, control, source, reaper>>

Reap ==
  /\ joinQueue # <<>>
  /\ thread[Head(joinQueue)] = "ended"
  /\ thread' = [thread EXCEPT ![Head(joinQueue)] = "none"]
  /\ joinQueue' = Tail(joinQueue)
  /\ source' = [source EXCEPT ![Head(joinQueue)] = NoSource]
  /\ reserved' = reserved - 1
  /\ UNCHANGED <<registry, control, pool>>

-----------------------------------------------------------------------------
CoordinatorInit ==
  /\ groups = {}
  /\ index = [k \in Key |-> [l \in Lane |-> NoActor]]
  /\ lease = [e \in Endpoint |-> NoLease]
  /\ acquiring = [e \in Endpoint |-> NoRequest]
  /\ deferred = [e \in Endpoint |-> NoRequest]
  /\ thread = [a \in Actor |-> "none"]
  /\ source = [a \in Actor |-> NoSource]
  /\ session = {}
  /\ active = [l \in Lane |-> 0]
  /\ reserved = 0
  /\ joinQueue = <<>>
  /\ lastRequest = 0
  /\ latest = [e \in Endpoint |-> 0]

CoordinatorNext ==
  \/ \E e \in Endpoint, full \in BOOLEAN :
       \/ \E r \in Request : RequestNew(e, r, full)
       \/ RetryDeferred(e, full)
       \/ Acquire(e, full)
  \/ \E e \in Endpoint :
       CancelPending(e) \/ ReleaseLive(e) \/ DeferLive(e) \/ ReleaseSpeculative(e)
  \/ \E a \in Actor : OpenSession(a) \/ CloseSession(a) \/ ExitActor(a)
  \/ Reap

CoordinatorSafety == CoordinatorInit /\ [][CoordinatorNext]_coordinatorVars

\* Every actor leaves its loop after the request in hand, and the reaper thread
\* joins: no fairness for the callers.
CoordinatorSpec ==
  /\ CoordinatorSafety
  /\ WF_coordinatorVars(Reap)
  /\ \A a \in Actor : WF_coordinatorVars(ExitActor(a))
-----------------------------------------------------------------------------
(* Properties *)

CoordinatorTypeOK ==
  /\ groups \subseteq Key
  /\ index \in [Key -> [Lane -> Actor \cup {NoActor}]]
  /\ lease \in [Endpoint -> Lease \cup {NoLease}]
  /\ acquiring \in [Endpoint -> Request \cup {NoRequest}]
  /\ deferred \in [Endpoint -> Request \cup {NoRequest}]
  /\ thread \in [Actor -> {"none", "running", "ended"}]
  /\ source \in [Actor -> Source \cup {NoSource}]
  /\ session \subseteq Actor
  /\ active \in [Lane -> Nat]
  /\ reserved \in Nat
  /\ joinQueue \in Seq(Actor)
  /\ lastRequest \in 0..MaxRequest
  /\ latest \in [Endpoint -> 0..MaxRequest]

\* The actors somebody leases and the ones waiting for their join never exceed the
\* budget of two lanes per group, however fast an endpoint changes its source
\* while a retiring actor is stuck in a decode (SourceActorReaper, try_reserve).
LaneBudget ==
  /\ reserved = Cardinality(Live) + Len(joinQueue)
  /\ reserved <= ActorCap

\* At most GroupCap sources are decoded by leased actors at any time.
GroupBudget == Cardinality({source[a].key : a \in Live}) <= GroupCap

\* Endpoints that show the same source on the same lane share one actor, so a
\* source is never opened twice by leased actors; the weak entry of the map and the
\* leases agree on which actor that is.
OneActorPerSource ==
  /\ \A a \in Live : source[a] # NoSource /\ index[source[a].key][source[a].lane] = a
  /\ \A e \in Endpoint : lease[e].actor # NoActor =>
       source[lease[e].actor] = [key |-> lease[e].request.key, lane |-> LaneOf(e)]

\* An actor that is leased is still in its loop and not in the reaper's hands, so a
\* request submitted to it is never left to a thread that is gone.
LeasedActorRuns ==
  \A a \in Live : thread[a] = "running" /\ \A i \in DOMAIN joinQueue : joinQueue[i] # a

\* The pool's counters are the sessions really held, lane by lane, within the caps,
\* also when sessions are held by actors that are retiring.
SessionsOn(l) == {a \in session : source[a].lane = l}
PermitsExact ==
  \A l \in Lane : active[l] = Cardinality(SessionsOn(l)) /\ active[l] <= SessionCap[l]

\* Capacity may delay the newest request of an endpoint but never lose it: the lease
\* or the deferred slot has it until it is answered, cancelled or released.
LatestRetained ==
  \A e \in Endpoint : Idle(e) /\ latest[e] # 0 =>
    latest[e] \in {lease[e].request.id, deferred[e].id}

\* A retry never replaces the request an actor works on by an older one.
RetryNeverRegresses ==
  \A e \in Endpoint : Idle(e) /\ lease[e].actor # NoActor /\ deferred[e] # NoRequest =>
    deferred[e] = lease[e].request

\* The inductive invariant behind the safety properties.
\* Ownership: leases, the map's weak entries and the actors' sources say the same,
\* and an endpoint between hand-off and acquire holds no lease.
Ownership ==
  /\ \A k \in Key, l \in Lane : index[k][l] # NoActor =>
       index[k][l] \in Live /\ source[index[k][l]] = [key |-> k, lane |-> l]
  /\ \A e \in Endpoint : acquiring[e] # NoRequest => lease[e] = NoLease
  /\ OneActorPerSource

\* Threads: a handle waits once for its join, and only a thread in its loop has a
\* session.
Threads ==
  /\ \A i, j \in DOMAIN joinQueue : joinQueue[i] = joinQueue[j] => i = j
  /\ \A i \in DOMAIN joinQueue : thread[joinQueue[i]] # "none"
  /\ \A a \in Actor : thread[a] = "running" => source[a] \in Source
  /\ \A a \in session : thread[a] = "running"

\* Groups: the map's groups are within the cap and hold every leased source.
Groups ==
  /\ Cardinality(groups) <= GroupCap
  /\ \A a \in Live : source[a].key \in groups

CoordinatorInv ==
  /\ CoordinatorTypeOK
  /\ LeasedActorRuns /\ Ownership /\ Threads /\ Groups
  /\ LaneBudget /\ PermitsExact

\* The variables have their types, and the budgets of lanes and of groups are kept: the
\* counter of reservations is exact although a lease dies, an actor exits and the reaper
\* joins on threads of their own (SourceActorReaper, prune_inactive).
BudgetsKept == CoordinatorTypeOK /\ LaneBudget /\ GroupBudget

\* Map, leases and actors agree on one actor per source and lane, and whatever is leased
\* is in its loop: no endpoint is left with an actor another one has retired
\* (MonitorSourceCoordinator::acquire, the drop of a CoordinatorLease).
LeasesAgree == Ownership /\ LeasedActorRuns

\* Every actor nobody leases is eventually joined and its reservation returned, so
\* deferral for lack of actors is never permanent.
RetiredActorsJoined ==
  \A a \in Actor : (thread[a] # "none" /\ a \notin Live) ~> (thread[a] = "none")
=============================================================================
