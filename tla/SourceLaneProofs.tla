----------------------------- MODULE SourceLaneProofs -----------------------------
(*****************************************************************************)
(* Proofs about SourceCoordinator, the control plane, and SourceLane, the    *)
(* data plane built on it.  Every step of the data plane is a step of the    *)
(* control plane or leaves its variables alone, so what is proved of the     *)
(* control plane holds of both; the rest is an invariant of its own.         *)
(*****************************************************************************)
EXTENDS SourceLane, KeepingProofs, FiniteSetTheorems, SequenceTheorems

-----------------------------------------------------------------------------
(* Type correctness *)

\* A request differs from the absence of one, and has a source and an id.
LEMMA RequestFacts == \A r \in Request : r # NoRequest /\ r.key \in Key /\ r.id \in 1..MaxRequest
  BY CoordinatorConstants DEF Request, NoRequest

\* A lease names an actor exactly when there is one, and then a request.
LEMMA LeaseFacts ==
  ASSUME CoordinatorTypeOK, NEW e \in Endpoint
  PROVE  /\ lease[e].actor \in Actor \cup {NoActor}
         /\ lease[e].actor # NoActor => lease[e].actor \in Actor /\ lease[e].request \in Request
         /\ lease[e].actor = NoActor <=> lease[e] = NoLease
  BY CoordinatorConstants DEF CoordinatorTypeOK, NoLease, Lease

\* At most one actor drops with a lease: the one it named.
LEMMA OrphanedFacts ==
  ASSUME CoordinatorTypeOK, NEW e \in Endpoint
  PROVE  /\ Orphaned(e) \subseteq Actor
         /\ Orphaned(e) # {} => Orphaned(e) = {lease[e].actor} /\ lease[e].actor \in Actor
         /\ Orphaned(e) # {} => (CHOOSE a \in Orphaned(e) : TRUE) = lease[e].actor
  <1>1. Orphaned(e) \subseteq {lease[e].actor} \ {NoActor}
    BY DEF Orphaned
  <1>2. Orphaned(e) # {} => Orphaned(e) = {lease[e].actor} /\ lease[e].actor \in Actor
    BY <1>1, LeaseFacts
  <1> QED BY <1>1, <1>2, LeaseFacts

\* A lease handed back leaves leases, map and join queue well typed.
LEMMA GiveUpLeaseType ==
  ASSUME CoordinatorTypeOK, NEW e \in Endpoint, GiveUpLease(e)
  PROVE  /\ lease' \in [Endpoint -> Lease \cup {NoLease}]
         /\ index' \in [Key -> [Lane -> Actor \cup {NoActor}]]
         /\ joinQueue' \in Seq(Actor)
  <1>1. lease' \in [Endpoint -> Lease \cup {NoLease}]
    BY DEF CoordinatorTypeOK, GiveUpLease, Without
  <1>2. index' \in [Key -> [Lane -> Actor \cup {NoActor}]]
    BY DEF CoordinatorTypeOK, GiveUpLease, Retire
  <1>3. joinQueue' \in Seq(Actor)
    BY OrphanedFacts DEF CoordinatorTypeOK, GiveUpLease, Retire
  <1> QED BY <1>1, <1>2, <1>3

\* The groups an acquire leaves are sources.
LEMMA TouchGroupType ==
  ASSUME CoordinatorTypeOK, NEW r \in Request, TouchGroup(r.key)
  PROVE  groups' \subseteq Key
  BY RequestFacts DEF CoordinatorTypeOK, TouchGroup, KeptGroups

\* Both halves of a request on an endpoint keep the types.
LEMMA SendType ==
  ASSUME CoordinatorTypeOK, NEW e \in Endpoint, NEW r \in Request, NEW full \in BOOLEAN,
         Send(e, r, full), lastRequest' \in 0..MaxRequest
  PROVE  CoordinatorTypeOK'
  <1>1. UNCHANGED <<groups, thread, source, session, active, reserved>> /\ latest' \in [Endpoint -> 0..MaxRequest]
    BY RequestFacts DEF CoordinatorTypeOK, Send
  <1>2. CASE SendReusing(e, r, full)
    <2>1. lease' \in [Endpoint -> Lease \cup {NoLease}]
      BY <1>2, LeaseFacts DEF SendReusing, LeasesSource, CoordinatorTypeOK, Lease
    <2> QED BY <1>1, <1>2, <2>1 DEF SendReusing, CoordinatorTypeOK
  <1>3. CASE SendAcquiring(e, r)
    <2>1. /\ lease' \in [Endpoint -> Lease \cup {NoLease}]
          /\ index' \in [Key -> [Lane -> Actor \cup {NoActor}]]
          /\ joinQueue' \in Seq(Actor)
      BY <1>3, GiveUpLeaseType DEF SendAcquiring
    <2> QED BY <1>1, <1>3, <2>1 DEF SendAcquiring, CoordinatorTypeOK
  <1> QED BY <1>2, <1>3 DEF Send

\* Every outcome of acquire keeps the types.
LEMMA AcquireType ==
  ASSUME CoordinatorTypeOK, NEW e \in Endpoint, NEW full \in BOOLEAN, Acquire(e, full)
  PROVE  CoordinatorTypeOK'
  <1> DEFINE r == acquiring[e]
  <1>1. r \in Request /\ r.key \in Key /\ LaneOf(e) \in Lane
    BY RequestFacts DEF CoordinatorTypeOK, Acquire, LaneOf, Lane
  <1>2. UNCHANGED <<session, active, joinQueue, lastRequest>>
        /\ acquiring' \in [Endpoint -> Request \cup {NoRequest}]
    BY DEF Acquire, CoordinatorTypeOK
  <1>3. CASE AcquireRefused(e, r)
    BY <1>1, <1>2, <1>3, TouchGroupType DEF AcquireRefused, CoordinatorTypeOK
  <1>4. CASE AcquireExisting(e, r, full)
    <2>1. Indexed(e, r) \in Actor
      BY <1>1, <1>4 DEF AcquireExisting, Indexed, CoordinatorTypeOK
    <2>2. lease' \in [Endpoint -> Lease \cup {NoLease}]
      BY <1>1, <1>4, <2>1 DEF AcquireExisting, Leased, Lease, CoordinatorTypeOK
    <2> QED BY <1>1, <1>2, <1>4, <2>2, TouchGroupType DEF AcquireExisting, CoordinatorTypeOK
  <1>5. CASE AcquireSpawned(e, r)
    <2>1. PICK a \in Actor :
            /\ thread' = [thread EXCEPT ![a] = "running"]
            /\ source' = [source EXCEPT ![a] = [key |-> r.key, lane |-> LaneOf(e)]]
            /\ index' = [index EXCEPT ![r.key][LaneOf(e)] = a]
            /\ Leased(e, a, r)
      BY <1>5 DEF AcquireSpawned
    <2>2. lease' \in [Endpoint -> Lease \cup {NoLease}]
      BY <1>1, <2>1 DEF Leased, Lease, CoordinatorTypeOK
    <2>3. /\ thread' \in [Actor -> {"none", "running", "ended"}]
          /\ source' \in [Actor -> Source \cup {NoSource}]
      BY <1>1, <2>1 DEF CoordinatorTypeOK, Source
    <2>4. index' \in [Key -> [Lane -> Actor \cup {NoActor}]]
      BY <1>1, <2>1 DEF CoordinatorTypeOK
    <2>5. /\ groups' \subseteq Key
          /\ reserved' \in Nat
          /\ deferred' \in [Endpoint -> Request \cup {NoRequest}]
          /\ latest' = latest
      BY <1>1, <1>5, TouchGroupType DEF AcquireSpawned, CoordinatorTypeOK
    <2> QED BY <1>2, <2>2, <2>3, <2>4, <2>5 DEF CoordinatorTypeOK
  <1>6. CASE AcquireFailed(e, r)
    BY <1>1, <1>2, <1>6, TouchGroupType, CoordinatorConstants DEF AcquireFailed, CoordinatorTypeOK
  <1> QED BY <1>3, <1>4, <1>5, <1>6 DEF Acquire

\* Every call on an endpoint keeps the types.
LEMMA CallType ==
  ASSUME CoordinatorTypeOK, NEW e \in Endpoint,
         CancelPending(e) \/ ReleaseLive(e) \/ DeferLive(e) \/ ReleaseSpeculative(e)
  PROVE  CoordinatorTypeOK'
  <1> USE CoordinatorConstants
  <1>1. CASE CancelPending(e)
    BY <1>1 DEF CancelPending, CoordinatorTypeOK, registry, pool, reaper
  <1>2. CASE ReleaseLive(e)
    BY <1>2, GiveUpLeaseType DEF ReleaseLive, CoordinatorTypeOK, pool
  <1>3. CASE DeferLive(e)
    BY <1>3, GiveUpLeaseType, LeaseFacts DEF DeferLive, CoordinatorTypeOK, pool
  <1>4. CASE ReleaseSpeculative(e)
    <2>1. /\ lease' \in [Endpoint -> Lease \cup {NoLease}]
          /\ index' \in [Key -> [Lane -> Actor \cup {NoActor}]]
          /\ joinQueue' \in Seq(Actor)
      BY <1>4, GiveUpLeaseType DEF ReleaseSpeculative, CoordinatorTypeOK
    <2>2. /\ deferred' \in [Endpoint -> Request \cup {NoRequest}]
          /\ latest' \in [Endpoint -> 0..MaxRequest]
      BY <1>4 DEF ReleaseSpeculative, CoordinatorTypeOK
    <2> QED BY <1>4, <2>1, <2>2 DEF ReleaseSpeculative, CoordinatorTypeOK, pool
  <1> QED BY <1>1, <1>2, <1>3, <1>4

-----------------------------------------------------------------------------
(* How the leases change: the live actors and the handles to join *)

\* The live actors are finitely many, and are the ones named by leases.
LEMMA LiveFacts ==
  ASSUME CoordinatorTypeOK
  PROVE  /\ Live \subseteq Actor /\ IsFiniteSet(Live)
         /\ \A a \in Actor : a \in Live <=> \E e \in Endpoint : lease[e].actor = a
         /\ \A e \in Endpoint : lease[e].actor # NoActor => lease[e].actor \in Live
  <1>1. Live \subseteq Actor
    BY DEF Live
  <1>2. IsFiniteSet(Live)
    BY <1>1, FS_Subset, CoordinatorConstants
  <1>3. \A a \in Actor : a \in Live <=> \E e \in Endpoint : lease[e].actor = a
    BY DEF Live, Owners
  <1> QED BY <1>1, <1>2, <1>3, LeaseFacts

\* The actor of a lease that is given up stays live if another endpoint leases it.
LEMMA GiveUpLive ==
  ASSUME CoordinatorTypeOK, NEW e \in Endpoint, GiveUpLease(e)
  PROVE  /\ Live' = Live \ Orphaned(e)
         /\ Orphaned(e) \subseteq Live
         /\ \A x \in Endpoint \ {e} : lease'[x] = lease[x]
         /\ lease'[e] = NoLease
  <1>1. \A x \in Endpoint \ {e} : lease'[x] = lease[x]
    BY DEF GiveUpLease, Without, CoordinatorTypeOK
  <1>2. lease'[e] = NoLease
    BY DEF GiveUpLease, Without, CoordinatorTypeOK
  <1>3. \A a \in Actor : Owners(lease', a) = Owners(lease, a) \ {e}
    BY <1>1, <1>2, CoordinatorConstants DEF Owners, NoLease
  <1>4. \A a \in Actor : a \in Orphaned(e) <=> Owners(lease, a) = {e}
    BY CoordinatorConstants DEF Orphaned, Owners
  <1>5. Live' = {a \in Actor : Owners(lease', a) # {}}
    BY DEF Live
  <1>6. \A a \in Actor : a \in Live' <=> a \in Live /\ a \notin Orphaned(e)
    BY <1>3, <1>4, <1>5 DEF Live, Owners
  <1>7. Live' \subseteq Actor /\ Live \subseteq Actor
    BY <1>5 DEF Live
  <1>8. Live' = Live \ Orphaned(e)
    BY <1>6, <1>7
  <1>9. Orphaned(e) \subseteq Live
    BY <1>4, OrphanedFacts DEF Live
  <1> QED BY <1>1, <1>2, <1>8, <1>9

\* A lease taken by an endpoint that had none makes its actor live and no other.
LEMMA LeasedLive ==
  ASSUME CoordinatorTypeOK, NEW e \in Endpoint, NEW a \in Actor, NEW r \in Request,
         Leased(e, a, r), lease[e] = NoLease
  PROVE  /\ Live' = Live \cup {a}
         /\ \A x \in Endpoint \ {e} : lease'[x] = lease[x]
         /\ lease'[e] = [actor |-> a, request |-> r]
  <1>1. /\ \A x \in Endpoint \ {e} : lease'[x] = lease[x]
        /\ lease'[e] = [actor |-> a, request |-> r]
    BY DEF Leased, CoordinatorTypeOK
  <1>2. \A b \in Actor : Owners(lease', b) =
                          IF b = a THEN Owners(lease, b) \cup {e} ELSE Owners(lease, b)
    BY <1>1, CoordinatorConstants DEF Owners, NoLease
  <1>3. Live' = {b \in Actor : Owners(lease', b) # {}}
    BY DEF Live
  <1>4. \A b \in Actor : b \in Live' <=> b \in Live \/ b = a
    BY <1>2, <1>3 DEF Live
  <1>5. Live' \subseteq Actor /\ Live \subseteq Actor
    BY <1>3 DEF Live
  <1> QED BY <1>1, <1>4, <1>5

\* Live depends on the actors the leases name and on nothing else.
LEMMA SameActorsLive ==
  ASSUME \A e \in Endpoint : lease'[e].actor = lease[e].actor
  PROVE  Live' = Live
  BY DEF Live, Owners

-----------------------------------------------------------------------------
(* The inductive invariant, one lemma per way a step changes the shared state *)

Shared == LeasedActorRuns /\ Ownership /\ Threads /\ Groups /\ LaneBudget /\ PermitsExact

\* Steps that give a lease up: SendAcquiring, ReleaseLive, DeferLive, ReleaseSpeculative.
LEMMA GiveUpKeepsInv ==
  ASSUME CoordinatorInv, CoordinatorTypeOK', NEW e \in Endpoint, GiveUpLease(e),
         UNCHANGED <<groups, thread, source, session, active, reserved>>,
         \A x \in Endpoint \ {e} : acquiring'[x] = acquiring[x]
  PROVE  Shared'
  <1> USE DEF CoordinatorInv
  <1>1. /\ Live' = Live \ Orphaned(e)
        /\ Orphaned(e) \subseteq Live
        /\ \A x \in Endpoint \ {e} : lease'[x] = lease[x]
        /\ lease'[e] = NoLease
    BY GiveUpLive
  <1>2. /\ \A k \in Key, l \in Lane :
             index'[k][l] = IF index[k][l] \in Orphaned(e) THEN NoActor ELSE index[k][l]
        /\ Orphaned(e) = {} => joinQueue' = joinQueue
        /\ Orphaned(e) # {} => joinQueue' = Append(joinQueue, lease[e].actor)
    BY OrphanedFacts DEF GiveUpLease, Retire
  <1>3. Orphaned(e) # {} => Orphaned(e) = {lease[e].actor} /\ lease[e].actor \in Live
    BY <1>1, OrphanedFacts
  <1>0. ASSUME Orphaned(e) # {}
        PROVE  /\ DOMAIN joinQueue' = DOMAIN joinQueue \cup {Len(joinQueue) + 1}
               /\ Len(joinQueue) + 1 \notin DOMAIN joinQueue
               /\ \A i \in DOMAIN joinQueue : joinQueue'[i] = joinQueue[i]
               /\ joinQueue'[Len(joinQueue) + 1] = lease[e].actor
    <2>1. joinQueue \in Seq(Actor) /\ lease[e].actor \in Actor
      BY <1>0, <1>3, LiveFacts DEF CoordinatorTypeOK
    <2>2. joinQueue' = Append(joinQueue, lease[e].actor)
      BY <1>0, <1>2
    <2>3. DOMAIN joinQueue = 1..Len(joinQueue) /\ Len(joinQueue) \in Nat
      BY <2>1
    <2>4. joinQueue' \in Seq(Actor) /\ Len(joinQueue') = Len(joinQueue) + 1
      BY <2>1, <2>2, AppendProperties
    <2>5. DOMAIN joinQueue' = 1..(Len(joinQueue) + 1)
      BY <2>4
    <2> QED BY <2>1, <2>2, <2>3, <2>5, AppendProperties
  <1>4. LeasedActorRuns'
    <2>1. CASE Orphaned(e) = {}
      BY <1>1, <1>2, <2>1 DEF LeasedActorRuns
    <2>2. CASE Orphaned(e) # {}
      <3>1. \A i \in DOMAIN joinQueue' :
              joinQueue'[i] = lease[e].actor \/ \E j \in DOMAIN joinQueue : joinQueue'[i] = joinQueue[j]
        BY <1>0, <2>2
      <3> QED BY <1>1, <1>3, <2>2, <3>1 DEF LeasedActorRuns
    <2> QED BY <2>1, <2>2
  <1>5. Ownership'
    <2>1. \A k \in Key, l \in Lane : index'[k][l] # NoActor =>
            index'[k][l] \in Live' /\ source'[index'[k][l]] = [key |-> k, lane |-> l]
      BY <1>1, <1>2 DEF Ownership
    <2>2. \A x \in Endpoint : acquiring'[x] # NoRequest => lease'[x] = NoLease
      BY <1>1 DEF Ownership
    <2>3. \A a \in Live' : source'[a] # NoSource /\ index'[source'[a].key][source'[a].lane] = a
      <3> SUFFICES ASSUME NEW a \in Live'
                   PROVE  source'[a] # NoSource /\ index'[source'[a].key][source'[a].lane] = a
        OBVIOUS
      <3>1. a \in Actor /\ a \in Live /\ a \notin Orphaned(e)
        BY <1>1, LiveFacts
      <3>2. source[a] # NoSource /\ index[source[a].key][source[a].lane] = a
        BY <3>1 DEF Ownership, OneActorPerSource
      <3>3. source[a].key \in Key /\ source[a].lane \in Lane
        BY <3>1, <3>2 DEF CoordinatorTypeOK, Source
      <3> QED BY <1>2, <3>1, <3>2, <3>3
    <2>4. \A x \in Endpoint : lease'[x].actor # NoActor =>
            source'[lease'[x].actor] = [key |-> lease'[x].request.key, lane |-> LaneOf(x)]
      BY <1>1 DEF Ownership, OneActorPerSource, NoLease
    <2> QED BY <2>1, <2>2, <2>3, <2>4 DEF Ownership, OneActorPerSource
  <1>6. Threads'
    <2>1. CASE Orphaned(e) = {}
      BY <1>2, <2>1 DEF Threads
    <2>2. CASE Orphaned(e) # {}
      <3>1. /\ thread[lease[e].actor] = "running"
            /\ \A i \in DOMAIN joinQueue : joinQueue[i] # lease[e].actor
        BY <1>3, <2>2 DEF LeasedActorRuns
      <3>2. \A i, j \in DOMAIN joinQueue' : joinQueue'[i] = joinQueue'[j] => i = j
        BY <1>0, <2>2, <3>1 DEF Threads
      <3>3. \A i \in DOMAIN joinQueue' : thread[joinQueue'[i]] # "none"
        BY <1>0, <2>2, <3>1 DEF Threads
      <3> QED BY <3>2, <3>3 DEF Threads
    <2> QED BY <2>1, <2>2
  <1>7. Groups'
    BY <1>1 DEF Groups
  <1>8. LaneBudget'
    <2>1. CASE Orphaned(e) = {}
      BY <1>1, <1>2, <2>1 DEF LaneBudget
    <2>2. CASE Orphaned(e) # {}
      <3>0. Live' = Live \ {lease[e].actor} /\ lease[e].actor \in Live
        BY <1>1, <1>3, <2>2
      <3>a. IsFiniteSet(Live)
        BY LiveFacts
      <3>1. Cardinality(Live') = Cardinality(Live) - 1
        BY <3>0, <3>a, FS_RemoveElement
      <3>2. Len(joinQueue') = Len(joinQueue) + 1
        BY <1>2, <2>2, <1>3, LiveFacts DEF CoordinatorTypeOK
      <3>3. Cardinality(Live) \in Nat /\ Len(joinQueue) \in Nat
        BY LiveFacts, FS_CardinalityType DEF CoordinatorTypeOK
      <3> QED BY <3>1, <3>2, <3>3 DEF LaneBudget
    <2> QED BY <2>1, <2>2
  <1>9. PermitsExact'
    BY DEF PermitsExact, SessionsOn
  <1> QED BY <1>4, <1>5, <1>6, <1>7, <1>8, <1>9 DEF Shared

\* Steps that leave every endpoint with the actor and the source it had: SendReusing,
\* CancelPending and the refused or failed halves of acquire.
LEMMA SameLeasesKeepInv ==
  ASSUME CoordinatorInv, CoordinatorTypeOK',
         UNCHANGED <<index, thread, source, session, active, reserved, joinQueue>>,
         \A e \in Endpoint : lease'[e].actor = lease[e].actor,
         \A e \in Endpoint : lease[e].actor # NoActor =>
                               lease'[e].request.key = lease[e].request.key,
         \A e \in Endpoint : lease[e] = NoLease => lease'[e] = NoLease,
         \A e \in Endpoint : acquiring'[e] # NoRequest => acquiring[e] # NoRequest,
         Groups'
  PROVE  Shared'
  <1> USE DEF CoordinatorInv
  <1>1. Live' = Live
    BY SameActorsLive
  <1>2. LeasedActorRuns' /\ Threads' /\ LaneBudget'
    BY <1>1 DEF LeasedActorRuns, Threads, LaneBudget
  <1>3. PermitsExact'
    BY DEF PermitsExact, SessionsOn
  <1>4. Ownership'
    <2>1. \A k \in Key, l \in Lane : index'[k][l] # NoActor =>
            index'[k][l] \in Live' /\ source'[index'[k][l]] = [key |-> k, lane |-> l]
      BY <1>1 DEF Ownership
    <2>2. \A x \in Endpoint : acquiring'[x] # NoRequest => lease'[x] = NoLease
      BY DEF Ownership
    <2>3. \A a \in Live' : source'[a] # NoSource /\ index'[source'[a].key][source'[a].lane] = a
      BY <1>1 DEF Ownership, OneActorPerSource
    <2>4. \A x \in Endpoint : lease'[x].actor # NoActor =>
            source'[lease'[x].actor] = [key |-> lease'[x].request.key, lane |-> LaneOf(x)]
      BY DEF Ownership, OneActorPerSource
    <2> QED BY <2>1, <2>2, <2>3, <2>4 DEF Ownership, OneActorPerSource
  <1> QED BY <1>2, <1>3, <1>4 DEF Shared

\* The groups an acquire keeps hold every leased source, and stay within the cap.
LEMMA TouchGroupFacts ==
  ASSUME CoordinatorInv, NEW r \in Request, TouchGroup(r.key)
  PROVE  /\ \A a \in Live : source[a].key \in groups'
         /\ Cardinality(groups') <= GroupCap
         /\ ~GroupRefused(r.key) => r.key \in groups'
  <1> USE DEF CoordinatorInv
  <1>1. /\ IsFiniteSet(KeptGroups) /\ KeptGroups \subseteq groups /\ IsFiniteSet(groups)
        /\ Cardinality(KeptGroups) <= Cardinality(groups)
    <2>1. KeptGroups \subseteq groups /\ groups \subseteq Key
      BY DEF KeptGroups, CoordinatorTypeOK
    <2>2. IsFiniteSet(groups)
      BY <2>1, FS_Subset, CoordinatorConstants
    <2> QED BY <2>1, <2>2, FS_Subset
  <1>2. /\ Cardinality(KeptGroups) \in Nat /\ Cardinality(groups) \in Nat /\ GroupCap \in Nat
        /\ Cardinality(groups) <= GroupCap
    BY <1>1, FS_CardinalityType, CoordinatorConstants DEF Groups
  <1>3. \A a \in Live : source[a].key \in KeptGroups
    <2> SUFFICES ASSUME NEW a \in Live PROVE source[a].key \in KeptGroups
      OBVIOUS
    <2>1. a \in Actor /\ a # NoActor
      BY LiveFacts, CoordinatorConstants
    <2>2. source[a] # NoSource /\ index[source[a].key][source[a].lane] = a
      BY DEF Ownership, OneActorPerSource
    <2>3. source[a].lane \in Lane
      BY <2>1, <2>2 DEF CoordinatorTypeOK, Source
    <2>4. source[a].key \in groups
      BY DEF Groups
    <2> QED BY <2>1, <2>2, <2>3, <2>4 DEF KeptGroups
  <1>4. CASE GroupRefused(r.key) \/ r.key \in KeptGroups
    <2>1. groups' = KeptGroups
      BY <1>4 DEF TouchGroup
    <2> QED BY <1>1, <1>2, <1>3, <1>4, <2>1 DEF GroupRefused
  <1>5. CASE ~GroupRefused(r.key) /\ r.key \notin KeptGroups
    <2>1. groups' = KeptGroups \cup {r.key}
      BY <1>5 DEF TouchGroup
    <2>2. Cardinality(groups') = Cardinality(KeptGroups) + 1
      BY <1>1, <1>5, <2>1, FS_AddElement
    <2>3. Cardinality(KeptGroups) < GroupCap
      BY <1>2, <1>5 DEF GroupRefused
    <2> QED BY <1>2, <1>3, <2>1, <2>2, <2>3
  <1> QED BY <1>4, <1>5

\* AcquireExisting: one more endpoint on an actor that is leased already.
LEMMA AcquireExistingKeepsInv ==
  ASSUME CoordinatorInv, CoordinatorTypeOK', NEW e \in Endpoint, NEW r \in Request,
         NEW full \in BOOLEAN, AcquireExisting(e, r, full), acquiring[e] = r,
         acquiring' = [acquiring EXCEPT ![e] = NoRequest],
         UNCHANGED <<session, active, joinQueue>>
  PROVE  Shared'
  <1> USE DEF CoordinatorInv
  <1> DEFINE a == Indexed(e, r)
  <1>0. UNCHANGED <<index, thread, source, reserved>>
    BY DEF AcquireExisting
  <1>1. r # NoRequest /\ r.key \in Key /\ LaneOf(e) \in Lane
    BY RequestFacts DEF LaneOf, Lane
  <1>2. a \in Live /\ a \in Actor /\ source[a] = [key |-> r.key, lane |-> LaneOf(e)]
    <2>1. a # NoActor
      BY DEF AcquireExisting
    <2> QED BY <1>1, <2>1, LiveFacts DEF Indexed, Ownership
  <1>3. lease[e] = NoLease
    BY <1>1 DEF Ownership
  <1>4. /\ Live' = Live \cup {a}
        /\ \A x \in Endpoint \ {e} : lease'[x] = lease[x]
        /\ lease'[e] = [actor |-> a, request |-> r]
    BY <1>2, <1>3, LeasedLive DEF AcquireExisting
  <1>5. Live' = Live
    BY <1>2, <1>4
  <1>6. LeasedActorRuns' /\ Threads' /\ LaneBudget' /\ PermitsExact'
    BY <1>0, <1>5 DEF LeasedActorRuns, Threads, LaneBudget, PermitsExact, SessionsOn
  <1>7. Groups'
    BY <1>0, <1>5, TouchGroupFacts DEF AcquireExisting, Groups
  <1>8. Ownership'
    <2>1. \A k \in Key, l \in Lane : index'[k][l] # NoActor =>
            index'[k][l] \in Live' /\ source'[index'[k][l]] = [key |-> k, lane |-> l]
      BY <1>0, <1>5 DEF Ownership
    <2>2. \A x \in Endpoint : acquiring'[x] # NoRequest => lease'[x] = NoLease
      BY <1>4 DEF Ownership, CoordinatorTypeOK
    <2>3. \A b \in Live' : source'[b] # NoSource /\ index'[source'[b].key][source'[b].lane] = b
      BY <1>0, <1>5 DEF Ownership, OneActorPerSource
    <2>4. \A x \in Endpoint : lease'[x].actor # NoActor =>
            source'[lease'[x].actor] = [key |-> lease'[x].request.key, lane |-> LaneOf(x)]
      BY <1>0, <1>2, <1>4 DEF Ownership, OneActorPerSource
    <2> QED BY <2>1, <2>2, <2>3, <2>4 DEF Ownership, OneActorPerSource
  <1> QED BY <1>6, <1>7, <1>8 DEF Shared

\* AcquireSpawned: a thread that did not run takes the first lease of its source.
LEMMA AcquireSpawnedKeepsInv ==
  ASSUME CoordinatorInv, CoordinatorTypeOK', NEW e \in Endpoint, NEW r \in Request,
         AcquireSpawned(e, r), acquiring[e] = r,
         acquiring' = [acquiring EXCEPT ![e] = NoRequest],
         UNCHANGED <<session, active, joinQueue>>
  PROVE  Shared'
  <1> USE DEF CoordinatorInv
  <1>1. r # NoRequest /\ r.key \in Key /\ LaneOf(e) \in Lane
    BY RequestFacts DEF LaneOf, Lane
  <1>2. PICK a \in Actor :
          /\ thread[a] = "none"
          /\ thread' = [thread EXCEPT ![a] = "running"]
          /\ source' = [source EXCEPT ![a] = [key |-> r.key, lane |-> LaneOf(e)]]
          /\ index' = [index EXCEPT ![r.key][LaneOf(e)] = a]
          /\ Leased(e, a, r)
    BY DEF AcquireSpawned
  <1>3. lease[e] = NoLease
    BY <1>1 DEF Ownership
  <1>4. /\ Live' = Live \cup {a}
        /\ \A x \in Endpoint \ {e} : lease'[x] = lease[x]
        /\ lease'[e] = [actor |-> a, request |-> r]
    BY <1>2, <1>3, LeasedLive
  <1>5. /\ a \notin Live /\ a \notin session
        /\ \A i \in DOMAIN joinQueue : joinQueue[i] # a
    BY <1>2 DEF LeasedActorRuns, Threads
  <1>6. /\ \A b \in Actor \ {a} : thread'[b] = thread[b] /\ source'[b] = source[b]
        /\ thread'[a] = "running" /\ source'[a] = [key |-> r.key, lane |-> LaneOf(e)]
        /\ source'[a] \in Source
    BY <1>1, <1>2 DEF CoordinatorTypeOK, Source
  <1>7. \A k \in Key, l \in Lane :
          index'[k][l] = IF k = r.key /\ l = LaneOf(e) THEN a ELSE index[k][l]
    BY <1>1, <1>2 DEF CoordinatorTypeOK
  <1>8. index[r.key][LaneOf(e)] = NoActor /\ ~GroupRefused(r.key)
    BY DEF AcquireSpawned, MaySpawn, Indexed
  <1>9. LeasedActorRuns'
    BY <1>4, <1>5, <1>6, LiveFacts DEF LeasedActorRuns
  <1>10. Threads'
    <2>1. \A i \in DOMAIN joinQueue : joinQueue[i] \in Actor
      BY DEF CoordinatorTypeOK
    <2>2. session \subseteq Actor
      BY DEF CoordinatorTypeOK
    <2> QED BY <1>5, <1>6, <2>1, <2>2 DEF Threads
  <1>11. Groups'
    BY <1>4, <1>5, <1>6, <1>8, TouchGroupFacts, LiveFacts DEF AcquireSpawned, Groups
  <1>12. LaneBudget'
    <2>1. Cardinality(Live') = Cardinality(Live) + 1
      BY <1>4, <1>5, LiveFacts, FS_AddElement
    <2>2. reserved' = reserved + 1 /\ reserved < ActorCap
      BY DEF AcquireSpawned, MaySpawn
    <2>3. /\ Cardinality(Live) \in Nat /\ Len(joinQueue) \in Nat /\ ActorCap \in Nat
          /\ reserved \in Nat
      BY LiveFacts, FS_CardinalityType, CoordinatorConstants DEF CoordinatorTypeOK, ActorCap
    <2>4. reserved = Cardinality(Live) + Len(joinQueue)
      BY DEF LaneBudget
    <2> QED BY <2>1, <2>2, <2>3, <2>4 DEF LaneBudget
  <1>13. PermitsExact'
    <2>0. \A b \in session : source'[b] = source[b]
      BY <1>5, <1>6 DEF CoordinatorTypeOK
    <2>1. \A l \in Lane : SessionsOn(l)' = SessionsOn(l)
      BY <2>0 DEF SessionsOn
    <2> QED BY <2>1 DEF PermitsExact
  <1>14. Ownership'
    <2>1. \A k \in Key, l \in Lane : index'[k][l] # NoActor =>
            index'[k][l] \in Live' /\ source'[index'[k][l]] = [key |-> k, lane |-> l]
      BY <1>4, <1>5, <1>6, <1>7, LiveFacts DEF Ownership
    <2>2. \A x \in Endpoint : acquiring'[x] # NoRequest => lease'[x] = NoLease
      BY <1>4 DEF Ownership, CoordinatorTypeOK
    <2>3. \A b \in Live' : source'[b] # NoSource /\ index'[source'[b].key][source'[b].lane] = b
      <3> SUFFICES ASSUME NEW b \in Live'
                   PROVE  source'[b] # NoSource /\ index'[source'[b].key][source'[b].lane] = b
        OBVIOUS
      <3>1. CASE b = a
        BY <1>1, <1>6, <1>7, <3>1 DEF NoSource
      <3>2. CASE b # a
        <4>1. b \in Live /\ b \in Actor /\ b # NoActor
          BY <1>4, <3>2, LiveFacts, CoordinatorConstants
        <4>2. source[b] # NoSource /\ index[source[b].key][source[b].lane] = b
          BY <4>1 DEF Ownership, OneActorPerSource
        <4>3. source[b].key \in Key /\ source[b].lane \in Lane
          BY <4>1, <4>2 DEF CoordinatorTypeOK, Source
        <4>4. ~(source[b].key = r.key /\ source[b].lane = LaneOf(e))
          BY <1>8, <4>1, <4>2
        <4> QED BY <1>6, <1>7, <3>2, <4>1, <4>2, <4>3, <4>4
      <3> QED BY <3>1, <3>2
    <2>4. \A x \in Endpoint : lease'[x].actor # NoActor =>
            source'[lease'[x].actor] = [key |-> lease'[x].request.key, lane |-> LaneOf(x)]
      <3>1. \A x \in Endpoint \ {e} : lease[x].actor # NoActor =>
               lease[x].actor \in Actor /\ lease[x].actor # a
        BY <1>5, LiveFacts, LeaseFacts
      <3> QED BY <1>4, <1>6, <3>1 DEF Ownership, OneActorPerSource
    <2> QED BY <2>1, <2>2, <2>3, <2>4 DEF Ownership, OneActorPerSource
  <1> QED BY <1>9, <1>10, <1>11, <1>12, <1>13, <1>14 DEF Shared

\* What the invariant says of the sessions on one lane.
LEMMA SessionFacts ==
  ASSUME CoordinatorInv, NEW a \in Actor, thread[a] = "running", NEW l \in Lane
  PROVE  /\ source[a].lane \in Lane
         /\ IsFiniteSet(SessionsOn(l)) /\ Cardinality(SessionsOn(l)) \in Nat
         /\ a \in SessionsOn(l) <=> a \in session /\ l = source[a].lane
         /\ active[l] \in Nat /\ SessionCap[l] \in Nat
         /\ active[l] = Cardinality(SessionsOn(l)) /\ active[l] <= SessionCap[l]
  <1> USE DEF CoordinatorInv
  <1>1. source[a].lane \in Lane
    BY DEF Threads, Source
  <1>2. SessionsOn(l) \subseteq Actor
    BY DEF SessionsOn, CoordinatorTypeOK
  <1>3. IsFiniteSet(SessionsOn(l)) /\ Cardinality(SessionsOn(l)) \in Nat
    BY <1>2, FS_Subset, FS_CardinalityType, CoordinatorConstants
  <1>4. active[l] \in Nat /\ SessionCap[l] \in Nat
    BY CoordinatorConstants DEF CoordinatorTypeOK, SessionCap
  <1> QED BY <1>1, <1>3, <1>4 DEF SessionsOn, PermitsExact

\* OpenSession and CloseSession move one actor in or out of the pool's count.
LEMMA OpenSessionKeepsInv ==
  ASSUME CoordinatorInv, NEW a \in Actor, OpenSession(a)
  PROVE  CoordinatorTypeOK' /\ Shared'
  <1> USE DEF CoordinatorInv
  <1> DEFINE lane == source[a].lane
  <1>1. /\ UNCHANGED <<groups, index, lease, acquiring, deferred, lastRequest, latest,
                       thread, source, reserved, joinQueue>>
        /\ thread[a] = "running" /\ a \notin session /\ session' = session \cup {a}
        /\ active' = [active EXCEPT ![lane] = @ + 1] /\ active[lane] < SessionCap[lane]
    BY DEF OpenSession, HoldSession, PermitFree, registry, control, reaper
  <1>2. lane \in Lane
    BY <1>1 DEF Threads, Source
  <1>3. CoordinatorTypeOK'
    <2>1. active' \in [Lane -> Nat] /\ session' \subseteq Actor
      BY <1>1, <1>2 DEF CoordinatorTypeOK
    <2> QED BY <1>1, <2>1 DEF CoordinatorTypeOK
  <1>4. LeasedActorRuns' /\ Ownership' /\ Groups' /\ LaneBudget'
    BY <1>1 DEF LeasedActorRuns, Ownership, OneActorPerSource, Groups, LaneBudget, Live
  <1>5. Threads'
    BY <1>1 DEF Threads
  <1>6. PermitsExact'
    <2> SUFFICES ASSUME NEW l \in Lane
                 PROVE  active'[l] = Cardinality(SessionsOn(l)') /\ active'[l] <= SessionCap[l]
      BY DEF PermitsExact
    <2>1. CASE l = lane
      <3>1. SessionsOn(l)' = SessionsOn(l) \cup {a}
        BY <1>1, <2>1 DEF SessionsOn
      <3>2. Cardinality(SessionsOn(l)') = Cardinality(SessionsOn(l)) + 1
        BY <1>1, <3>1, SessionFacts, FS_AddElement
      <3>3. active'[l] = active[l] + 1
        BY <1>1, <1>2, <2>1 DEF CoordinatorTypeOK
      <3> QED BY <1>1, <2>1, <3>2, <3>3, SessionFacts
    <2>2. CASE l # lane
      <3>1. SessionsOn(l)' = SessionsOn(l) /\ active'[l] = active[l]
        BY <1>1, <1>2, <2>2 DEF SessionsOn, CoordinatorTypeOK
      <3> QED BY <1>1, <3>1, SessionFacts
    <2> QED BY <2>1, <2>2
  <1> QED BY <1>3, <1>4, <1>5, <1>6 DEF Shared

\* A session dropped by its actor lowers the counter of its lane, which was not zero.
LEMMA DropSessionFacts ==
  ASSUME CoordinatorInv, NEW a \in Actor, thread[a] = "running", a \in session,
         DropSession(a), UNCHANGED source
  PROVE  /\ active' \in [Lane -> Nat]
         /\ PermitsExact'
  <1> USE DEF CoordinatorInv
  <1> DEFINE lane == source[a].lane
  <1>1. /\ session' = session \ {a} /\ active' = [active EXCEPT ![lane] = @ - 1]
        /\ lane \in Lane
    <2>1. lane \in Lane
      BY DEF CoordinatorInv, Threads, Source
    <2> QED BY <2>1 DEF DropSession
  <1>2. /\ SessionsOn(lane)' = SessionsOn(lane) \ {a}
        /\ \A l \in Lane \ {lane} : SessionsOn(l)' = SessionsOn(l)
    BY <1>1 DEF SessionsOn
  <1>3. a \in SessionsOn(lane) /\ IsFiniteSet(SessionsOn(lane))
    BY <1>1, SessionFacts
  <1>4. Cardinality(SessionsOn(lane)') = Cardinality(SessionsOn(lane)) - 1
    <2>1. Cardinality(SessionsOn(lane) \ {a}) = Cardinality(SessionsOn(lane)) - 1
      BY <1>3, FS_RemoveElement
    <2> QED BY <1>2, <2>1
  <1>5. Cardinality(SessionsOn(lane)) # 0
    BY <1>3, FS_EmptySet
  <1>6. /\ active'[lane] = active[lane] - 1
        /\ \A l \in Lane \ {lane} : active'[l] = active[l]
        /\ active' \in [Lane -> Int]
    BY <1>1 DEF CoordinatorTypeOK
  <1>7. active' \in [Lane -> Nat]
    <2>1. \A l \in Lane : active'[l] \in Nat
      BY <1>1, <1>5, <1>6, SessionFacts
    <2> QED BY <1>6, <2>1
  <1>8. PermitsExact'
    <2>1. active'[lane] = Cardinality(SessionsOn(lane)') /\ active'[lane] <= SessionCap[lane]
      BY <1>1, <1>4, <1>6, SessionFacts
    <2>2. \A l \in Lane \ {lane} :
            active'[l] = Cardinality(SessionsOn(l)') /\ active'[l] <= SessionCap[l]
      BY <1>2, <1>6 DEF PermitsExact
    <2> QED BY <2>1, <2>2 DEF PermitsExact
  <1> QED BY <1>7, <1>8

\* CloseSession: a permit goes back, the actor runs on.
LEMMA CloseSessionKeepsInv ==
  ASSUME CoordinatorInv, NEW a \in Actor, CloseSession(a)
  PROVE  CoordinatorTypeOK' /\ Shared'
  <1> USE DEF CoordinatorInv
  <1>1. /\ UNCHANGED <<groups, index, lease, acquiring, deferred, lastRequest, latest,
                       thread, source, reserved, joinQueue>>
        /\ session' = session \ {a}
        /\ active' \in [Lane -> Nat] /\ PermitsExact'
    BY DropSessionFacts DEF CloseSession, DropSession, registry, control, reaper
  <1>2. CoordinatorTypeOK'
    BY <1>1 DEF CoordinatorTypeOK
  <1>3. LeasedActorRuns' /\ Ownership' /\ Groups' /\ LaneBudget'
    BY <1>1 DEF LeasedActorRuns, Ownership, OneActorPerSource, Groups, LaneBudget, Live
  <1>4. Threads'
    BY <1>1 DEF Threads
  <1> QED BY <1>1, <1>2, <1>3, <1>4 DEF Shared

\* ExitActor: an actor without lease ends, and its session with it.
LEMMA ExitActorKeepsInv ==
  ASSUME CoordinatorInv, NEW a \in Actor, ExitActor(a)
  PROVE  CoordinatorTypeOK' /\ Shared'
  <1> USE DEF CoordinatorInv
  <1>1. /\ UNCHANGED <<groups, index, lease, acquiring, deferred, lastRequest, latest,
                       source, reserved, joinQueue>>
        /\ thread[a] = "running" /\ a \notin Live
        /\ thread' = [thread EXCEPT ![a] = "ended"]
    BY DEF ExitActor, registry, control, reaper
  <1>2. /\ session' = session \ {a}
        /\ active' \in [Lane -> Nat] /\ PermitsExact'
    <2>1. CASE a \in session
      BY <1>1, <2>1, DropSessionFacts DEF ExitActor, DropSession
    <2>2. CASE a \notin session
      <3>1. session' = session /\ active' = active /\ source' = source
        BY <1>1, <2>2 DEF ExitActor, pool
      <3> QED BY <2>2, <3>1 DEF CoordinatorTypeOK, PermitsExact, SessionsOn
    <2> QED BY <2>1, <2>2
  <1>3. CoordinatorTypeOK'
    BY <1>1, <1>2 DEF CoordinatorTypeOK
  <1>4. /\ thread'[a] = "ended"
        /\ \A b \in Actor \ {a} : thread'[b] = thread[b]
    BY <1>1 DEF CoordinatorTypeOK
  <1>5. LeasedActorRuns'
    <2>1. Live' = Live
      BY <1>1 DEF Live
    <2> QED BY <1>1, <1>4, <2>1, LiveFacts DEF LeasedActorRuns
  <1>6. Ownership' /\ Groups' /\ LaneBudget'
    BY <1>1 DEF Ownership, OneActorPerSource, Groups, LaneBudget, Live
  <1>7. Threads'
    <2>1. \A i \in DOMAIN joinQueue : joinQueue[i] \in Actor
      BY DEF CoordinatorTypeOK
    <2> QED BY <1>1, <1>2, <1>4, <2>1 DEF Threads, CoordinatorTypeOK
  <1> QED BY <1>2, <1>3, <1>5, <1>6, <1>7 DEF Shared

\* Reap: the oldest handle is joined and one reservation returned.
LEMMA ReapKeepsInv ==
  ASSUME CoordinatorInv, Reap
  PROVE  CoordinatorTypeOK' /\ Shared'
  <1> USE DEF CoordinatorInv
  <1> DEFINE h == Head(joinQueue)
  <1>1. /\ UNCHANGED <<groups, index, lease, acquiring, deferred, lastRequest, latest,
                       session, active>>
        /\ joinQueue # <<>> /\ joinQueue' = Tail(joinQueue)
        /\ thread[h] = "ended" /\ thread' = [thread EXCEPT ![h] = "none"]
        /\ source' = [source EXCEPT ![h] = NoSource]
        /\ reserved' = reserved - 1
    BY DEF Reap, registry, control, pool
  <1>2. /\ joinQueue \in Seq(Actor) /\ h \in Actor /\ joinQueue' \in Seq(Actor)
        /\ Len(joinQueue') = Len(joinQueue) - 1 /\ Len(joinQueue) \in Nat \ {0}
        /\ h = joinQueue[1]
        /\ \A i \in DOMAIN joinQueue' :
             joinQueue'[i] = joinQueue[i + 1] /\ i \in Nat \ {0} /\ i + 1 \in DOMAIN joinQueue
    <2>1. joinQueue \in Seq(Actor)
      BY DEF CoordinatorTypeOK
    <2>2. /\ h \in Actor /\ joinQueue' \in Seq(Actor)
          /\ Len(joinQueue') = Len(joinQueue) - 1
          /\ \A i \in 1..Len(joinQueue') : joinQueue'[i] = joinQueue[i + 1]
      BY <1>1, <2>1, HeadTailProperties
    <2>3. Len(joinQueue) \in Nat \ {0} /\ h = joinQueue[1]
      BY <1>1, <2>1
    <2>4. DOMAIN joinQueue = 1..Len(joinQueue) /\ DOMAIN joinQueue' = 1..Len(joinQueue')
      BY <2>1, <2>2
    <2> QED BY <2>1, <2>2, <2>3, <2>4
  <1>3. /\ h \notin Live /\ h \notin session
        /\ \A i \in DOMAIN joinQueue' : joinQueue'[i] # h /\ joinQueue'[i] \in Actor
    <2>1. h \notin Live /\ h \notin session
      BY <1>1 DEF LeasedActorRuns, Threads
    <2>2. 1 \in DOMAIN joinQueue
      BY <1>2
    <2> QED BY <1>2, <2>1, <2>2 DEF Threads
  <1>4. /\ thread'[h] = "none"
        /\ \A b \in Actor \ {h} : thread'[b] = thread[b] /\ source'[b] = source[b]
    BY <1>1, <1>2 DEF CoordinatorTypeOK
  <1>5. Live' = Live
    BY <1>1 DEF Live
  <1>6. /\ Cardinality(Live) \in Nat /\ reserved = Cardinality(Live) + Len(joinQueue)
        /\ reserved <= ActorCap /\ ActorCap \in Nat
    BY LiveFacts, FS_CardinalityType, CoordinatorConstants DEF LaneBudget, ActorCap
  <1>7. CoordinatorTypeOK'
    <2>1. thread' \in [Actor -> {"none", "running", "ended"}] /\ reserved' \in Nat
      BY <1>1, <1>2, <1>6 DEF CoordinatorTypeOK
    <2>2. source' \in [Actor -> Source \cup {NoSource}]
      BY <1>1, <1>2 DEF CoordinatorTypeOK
    <2> QED BY <1>1, <1>2, <2>1, <2>2 DEF CoordinatorTypeOK
  <1>8. LeasedActorRuns'
    BY <1>2, <1>3, <1>4, <1>5, LiveFacts DEF LeasedActorRuns
  <1>9. Groups'
    BY <1>1, <1>3, <1>4, <1>5, LiveFacts DEF Groups
  <1>10. LaneBudget'
    BY <1>1, <1>2, <1>5, <1>6 DEF LaneBudget
  <1>11. PermitsExact'
    <2>1. \A l \in Lane : SessionsOn(l)' = SessionsOn(l)
      BY <1>1, <1>3, <1>4 DEF SessionsOn, CoordinatorTypeOK
    <2> QED BY <1>1, <2>1 DEF PermitsExact
  <1>12. Threads'
    <2>1. \A i, j \in DOMAIN joinQueue' : joinQueue'[i] = joinQueue'[j] => i = j
      BY <1>2 DEF Threads
    <2>2. \A i \in DOMAIN joinQueue' : thread'[joinQueue'[i]] # "none"
      BY <1>2, <1>3, <1>4 DEF Threads
    <2>3. /\ \A a \in Actor : thread'[a] = "running" => source'[a] \in Source
          /\ \A a \in session' : thread'[a] = "running"
      BY <1>1, <1>3, <1>4 DEF Threads, CoordinatorTypeOK
    <2> QED BY <2>1, <2>2, <2>3 DEF Threads
  <1>13. Ownership'
    <2>1. \A k \in Key, l \in Lane : index'[k][l] # NoActor =>
            index'[k][l] \in Live' /\ source'[index'[k][l]] = [key |-> k, lane |-> l]
      BY <1>1, <1>3, <1>4, <1>5, LiveFacts DEF Ownership
    <2>2. \A x \in Endpoint : acquiring'[x] # NoRequest => lease'[x] = NoLease
      BY <1>1 DEF Ownership
    <2>3. \A b \in Live' : source'[b] # NoSource /\ index'[source'[b].key][source'[b].lane] = b
      BY <1>1, <1>3, <1>4, <1>5, LiveFacts DEF Ownership, OneActorPerSource
    <2>4. \A x \in Endpoint : lease'[x].actor # NoActor =>
            source'[lease'[x].actor] = [key |-> lease'[x].request.key, lane |-> LaneOf(x)]
      BY <1>1, <1>3, <1>4, LiveFacts, LeaseFacts DEF Ownership, OneActorPerSource
    <2> QED BY <2>1, <2>2, <2>3, <2>4 DEF Ownership, OneActorPerSource
  <1> QED BY <1>7, <1>8, <1>9, <1>10, <1>11, <1>12, <1>13 DEF Shared

-----------------------------------------------------------------------------
(* The calls, by their effect on the shared state *)

\* RequestNew and RetryDeferred, on a lease that stays or is handed back.
LEMMA SendKeepsInv ==
  ASSUME CoordinatorInv, CoordinatorTypeOK', NEW e \in Endpoint, NEW r \in Request,
         NEW full \in BOOLEAN, Send(e, r, full)
  PROVE  Shared'
  <1> USE DEF CoordinatorInv
  <1>1. UNCHANGED <<groups, thread, source, session, active, reserved>>
    BY DEF Send
  <1>2. CASE SendReusing(e, r, full)
    <2>1. UNCHANGED <<index, joinQueue, acquiring>> /\ lease[e].actor # NoActor
          /\ lease[e].request.key = r.key /\ lease' = [lease EXCEPT ![e].request = r]
      BY <1>2 DEF SendReusing, LeasesSource
    <2>2. lease[e] \in Lease
      BY <2>1, LeaseFacts DEF CoordinatorTypeOK
    <2>3. /\ lease'[e].actor = lease[e].actor /\ lease'[e].request = r
          /\ \A x \in Endpoint \ {e} : lease'[x] = lease[x]
      BY <2>1, <2>2 DEF CoordinatorTypeOK, Lease
    <2>4. lease[e] # NoLease
      BY <2>1, LeaseFacts
    <2>5. /\ \A x \in Endpoint : lease'[x].actor = lease[x].actor
          /\ \A x \in Endpoint : lease[x].actor # NoActor =>
                                 lease'[x].request.key = lease[x].request.key
          /\ \A x \in Endpoint : lease[x] = NoLease => lease'[x] = NoLease
      BY <2>1, <2>3, <2>4
    <2>6. Live' = Live
      BY <2>5, SameActorsLive
    <2>7. Groups'
      BY <1>1, <2>6 DEF Groups
    <2> QED BY <1>1, <2>1, <2>5, <2>7, SameLeasesKeepInv
  <1>3. CASE SendAcquiring(e, r)
    <2>1. GiveUpLease(e) /\ \A x \in Endpoint \ {e} : acquiring'[x] = acquiring[x]
      BY <1>3 DEF SendAcquiring, CoordinatorTypeOK
    <2>2. lease'[e] = NoLease
      BY <2>1, GiveUpLive
    <2> QED BY <1>1, <2>1, GiveUpKeepsInv
  <1> QED BY <1>2, <1>3 DEF Send

\* Acquire, in each of its four outcomes.
LEMMA AcquireKeepsInv ==
  ASSUME CoordinatorInv, CoordinatorTypeOK', NEW e \in Endpoint, NEW full \in BOOLEAN,
         Acquire(e, full)
  PROVE  Shared'
  <1> USE DEF CoordinatorInv
  <1> DEFINE r == acquiring[e]
  <1>1. r \in Request
    BY DEF CoordinatorTypeOK, Acquire
  <1>2. /\ acquiring' = [acquiring EXCEPT ![e] = NoRequest]
        /\ UNCHANGED <<session, active, joinQueue, lastRequest>>
    BY DEF Acquire
  <1>3. \A x \in Endpoint : acquiring'[x] # NoRequest => acquiring[x] # NoRequest
    BY <1>2 DEF CoordinatorTypeOK
  <1>4. CASE AcquireRefused(e, r) \/ AcquireFailed(e, r)
    <2>1. UNCHANGED <<index, lease, thread, source, reserved>> /\ TouchGroup(r.key)
      BY <1>4 DEF AcquireRefused, AcquireFailed
    <2>2. Live' = Live
      BY <2>1 DEF Live
    <2>3. Groups'
      BY <1>1, <2>1, <2>2, TouchGroupFacts DEF Groups
    <2> QED BY <1>2, <1>3, <2>1, <2>3, SameLeasesKeepInv
  <1>5. CASE AcquireExisting(e, r, full)
    BY <1>1, <1>2, <1>5, AcquireExistingKeepsInv
  <1>6. CASE AcquireSpawned(e, r)
    BY <1>1, <1>2, <1>6, AcquireSpawnedKeepsInv
  <1> QED BY <1>4, <1>5, <1>6 DEF Acquire

\* The calls that only release, defer or cancel.
LEMMA CallKeepsInv ==
  ASSUME CoordinatorInv, CoordinatorTypeOK', NEW e \in Endpoint,
         CancelPending(e) \/ ReleaseLive(e) \/ DeferLive(e) \/ ReleaseSpeculative(e)
  PROVE  Shared'
  <1> USE DEF CoordinatorInv
  <1>1. CASE /\ UNCHANGED <<groups, index, lease, acquiring, thread, source, session, active,
                            reserved, joinQueue>>
    <2>1. Groups'
      BY <1>1 DEF Groups, Live
    <2> QED BY <1>1, <2>1, SameLeasesKeepInv
  <1>2. CASE /\ GiveUpLease(e)
             /\ UNCHANGED <<groups, acquiring, thread, source, session, active, reserved>>
    BY <1>2, GiveUpKeepsInv
  <1> QED BY <1>1, <1>2 DEF CancelPending, ReleaseLive, DeferLive, ReleaseSpeculative,
                            registry, pool, reaper

-----------------------------------------------------------------------------
(* Theorems *)

\* The coordinator starts in the invariant.
LEMMA InitInv == CoordinatorInit => CoordinatorInv
  <1> SUFFICES ASSUME CoordinatorInit PROVE CoordinatorInv
    OBVIOUS
  <1> USE CoordinatorConstants DEF CoordinatorInit
  <1>1. CoordinatorTypeOK
    BY DEF CoordinatorTypeOK, NoSource, Lease
  <1>2. Live = {}
    BY DEF Live, Owners, NoLease
  <1>3. /\ IsFiniteSet({}) /\ Cardinality({}) = 0
        /\ \A l \in Lane : SessionsOn(l) = {}
    BY FS_EmptySet DEF SessionsOn
  <1>4. LeasedActorRuns /\ Threads /\ Groups
    BY <1>2, <1>3 DEF LeasedActorRuns, Threads, Groups
  <1>5. Ownership
    BY <1>2 DEF Ownership, OneActorPerSource, NoLease
  <1>6. LaneBudget
    BY <1>2, <1>3 DEF LaneBudget, ActorCap
  <1>7. PermitsExact
    <2>1. \A l \in Lane : active[l] = 0 /\ SessionCap[l] \in Nat
      BY DEF SessionCap
    <2>2. \A l \in Lane : Cardinality(SessionsOn(l)) = 0
      BY <1>3
    <2> QED BY <2>1, <2>2 DEF PermitsExact
  <1> QED BY <1>1, <1>4, <1>5, <1>6, <1>7 DEF CoordinatorInv

\* Every step keeps the invariant.
LEMMA StepInv == CoordinatorInv /\ [CoordinatorNext]_coordinatorVars => CoordinatorInv'
  <1> SUFFICES ASSUME CoordinatorInv, [CoordinatorNext]_coordinatorVars
               PROVE  CoordinatorInv'
    OBVIOUS
  <1>0. CoordinatorTypeOK
    BY DEF CoordinatorInv
  <1>1. ASSUME CoordinatorTypeOK', Shared' PROVE CoordinatorInv'
    BY <1>1 DEF CoordinatorInv, Shared
  <1>2. ASSUME NEW e \in Endpoint, NEW full \in BOOLEAN, NEW r \in Request,
               RequestNew(e, r, full)
        PROVE  CoordinatorInv'
    <2>1. Send(e, r, full) /\ lastRequest' \in 0..MaxRequest
      BY <1>2, RequestFacts, CoordinatorConstants DEF RequestNew
    <2>2. CoordinatorTypeOK'
      BY <1>0, <2>1, SendType
    <2> QED BY <1>1, <2>1, <2>2, SendKeepsInv
  <1>3. ASSUME NEW e \in Endpoint, NEW full \in BOOLEAN, RetryDeferred(e, full)
        PROVE  CoordinatorInv'
    <2>1. /\ deferred[e] \in Request /\ Send(e, deferred[e], full)
          /\ lastRequest' \in 0..MaxRequest
      BY <1>0, <1>3 DEF RetryDeferred, CoordinatorTypeOK
    <2>2. CoordinatorTypeOK'
      BY <1>0, <2>1, SendType
    <2> QED BY <1>1, <2>1, <2>2, SendKeepsInv
  <1>4. ASSUME NEW e \in Endpoint, NEW full \in BOOLEAN, Acquire(e, full)
        PROVE  CoordinatorInv'
    BY <1>0, <1>1, <1>4, AcquireType, AcquireKeepsInv
  <1>5. ASSUME NEW e \in Endpoint,
               CancelPending(e) \/ ReleaseLive(e) \/ DeferLive(e) \/ ReleaseSpeculative(e)
        PROVE  CoordinatorInv'
    BY <1>0, <1>1, <1>5, CallType, CallKeepsInv
  <1>6. ASSUME NEW a \in Actor, OpenSession(a) \/ CloseSession(a) \/ ExitActor(a)
        PROVE  CoordinatorInv'
    BY <1>1, <1>6, OpenSessionKeepsInv, CloseSessionKeepsInv, ExitActorKeepsInv
  <1>7. CASE Reap
    BY <1>1, <1>7, ReapKeepsInv
  <1>8. CASE UNCHANGED coordinatorVars
    <2>1. UNCHANGED <<groups, index, lease, acquiring, deferred, thread, source, session,
                     active, reserved, joinQueue, lastRequest, latest>>
      BY <1>8 DEF coordinatorVars
    <2>2. Live' = Live /\ \A l \in Lane : SessionsOn(l)' = SessionsOn(l)
      BY <2>1 DEF Live, SessionsOn
    <2>3. CoordinatorTypeOK' /\ Threads'
      BY <2>1 DEF CoordinatorInv, CoordinatorTypeOK, Threads
    <2>4. LeasedActorRuns' /\ Groups' /\ LaneBudget' /\ PermitsExact'
      BY <2>1, <2>2 DEF CoordinatorInv, LeasedActorRuns, Groups, LaneBudget, PermitsExact
    <2>5. Ownership'
      BY <2>1, <2>2 DEF CoordinatorInv, Ownership, OneActorPerSource
    <2> QED BY <2>3, <2>4, <2>5 DEF CoordinatorInv
  <1> QED BY <1>2, <1>3, <1>4, <1>5, <1>6, <1>7, <1>8 DEF CoordinatorNext

\* The inductive invariant holds in every reachable state, for every number of
\* endpoints, sources, actors and every cap.
THEOREM CoordinatorInvariant == CoordinatorSafety => []CoordinatorInv
  BY InitInv, StepInv, PTL DEF CoordinatorSafety

\* Type correctness; that the pool's counters stay natural numbers rests on the whole
\* invariant.
THEOREM CoordinatorTypeCorrect == CoordinatorSafety => []CoordinatorTypeOK
  <1>1. CoordinatorInv => CoordinatorTypeOK
    BY DEF CoordinatorInv
  <1> QED BY <1>1, CoordinatorInvariant, PTL

\* Leased and unjoined actors are counted exactly by the reservations, and never
\* exceed two per group (SourceActorReaper).
THEOREM LaneBudgetHolds == CoordinatorSafety => []LaneBudget
  <1>1. CoordinatorInv => LaneBudget
    BY DEF CoordinatorInv
  <1> QED BY <1>1, CoordinatorInvariant, PTL

\* The leased actors show at most max_active_source_groups sources.
THEOREM GroupBudgetHolds == CoordinatorSafety => []GroupBudget
  <1>1. CoordinatorInv => GroupBudget
    <2> SUFFICES ASSUME CoordinatorInv PROVE GroupBudget
      OBVIOUS
    <2>1. {source[a].key : a \in Live} \subseteq groups /\ groups \subseteq Key
      BY DEF CoordinatorInv, Groups, CoordinatorTypeOK
    <2>2. IsFiniteSet(groups)
      BY <2>1, FS_Subset, CoordinatorConstants
    <2>3. Cardinality({source[a].key : a \in Live}) <= Cardinality(groups)
      BY <2>1, <2>2, FS_Subset
    <2>4. IsFiniteSet({source[a].key : a \in Live})
      BY <2>1, <2>2, FS_Subset
    <2>5. /\ Cardinality({source[a].key : a \in Live}) \in Nat
          /\ Cardinality(groups) \in Nat /\ GroupCap \in Nat
      BY <2>2, <2>4, FS_CardinalityType, CoordinatorConstants
    <2> QED BY <2>3, <2>5 DEF GroupBudget, CoordinatorInv, Groups
  <1> QED BY <1>1, CoordinatorInvariant, PTL

\* The types and both budgets, as the runs check them (SourceActorReaper).
THEOREM BudgetsHold == CoordinatorSafety => []BudgetsKept
  BY CoordinatorTypeCorrect, LaneBudgetHolds, GroupBudgetHolds, PTL DEF BudgetsKept

\* Endpoints that want one source on one lane share one actor, it is the one their
\* leases and the map name, it is in its loop and never in the reaper's hands
\* (CoordinatorClient, MonitorSourceCoordinator::acquire).
THEOREM LeasesAgreeAlways == CoordinatorSafety => []LeasesAgree
  <1>1. CoordinatorInv => LeasesAgree
    BY DEF CoordinatorInv, LeasesAgree
  <1> QED BY <1>1, CoordinatorInvariant, PTL

\* The pool's counters are the sessions held, within the caps of both lanes.
THEOREM PermitsExactHolds == CoordinatorSafety => []PermitsExact
  <1>1. CoordinatorInv => PermitsExact
    BY DEF CoordinatorInv
  <1> QED BY <1>1, CoordinatorInvariant, PTL

-----------------------------------------------------------------------------
(* What an endpoint owes is kept through every call *)

\* The newest request of an endpoint is in its hands between the two halves of a call, and
\* otherwise in its lease or its retry; a lease and a retry at once are for one request.
OwedBy(e) ==
  /\ Idle(e) /\ latest[e] # 0 => latest[e] \in {lease[e].request.id, deferred[e].id}
  /\ ~Idle(e) => latest[e] = acquiring[e].id
  /\ Idle(e) /\ lease[e].actor # NoActor /\ deferred[e] # NoRequest =>
       deferred[e] = lease[e].request

Owed == \A e \in Endpoint : OwedBy(e)

\* What the calls of one endpoint leave alone in every other.
Keeps(e) ==
  UNCHANGED <<lease[e], acquiring[e], deferred[e], latest[e]>>

LEMMA KeepsOwed ==
  ASSUME NEW e \in Endpoint, OwedBy(e), Keeps(e)
  PROVE  OwedBy(e)'
  BY DEF Keeps, OwedBy, Idle

\* A lease handed back names nobody, and is nobody else's.
LEMMA GiveUpOwed ==
  ASSUME CoordinatorTypeOK, NEW e \in Endpoint, GiveUpLease(e)
  PROVE  lease'[e] = NoLease /\ \A x \in Endpoint \ {e} : lease'[x] = lease[x]
  BY GiveUpLive

\* Both ways a request enters the control plane.
LEMMA SendOwed ==
  ASSUME CoordinatorTypeOK, Owed, NEW e \in Endpoint, NEW r \in Request, NEW full \in BOOLEAN,
         Send(e, r, full)
  PROVE  Owed'
  <1>1. /\ Idle(e) /\ latest' = [latest EXCEPT ![e] = r.id]
        /\ \A x \in Endpoint \ {e} : latest'[x] = latest[x]
        /\ latest'[e] = r.id
    BY DEF Send, CoordinatorTypeOK
  <1>2. r # NoRequest
    BY RequestFacts
  <1>3. CASE SendReusing(e, r, full)
    <2>1. /\ acquiring' = acquiring
          /\ deferred'[e] \in {r, NoRequest}
          /\ \A x \in Endpoint \ {e} : lease'[x] = lease[x] /\ deferred'[x] = deferred[x]
      BY <1>3 DEF SendReusing, CoordinatorTypeOK
    <2>2. lease'[e].request = r
      <3>1. lease[e] \in Lease
        BY <1>3, LeaseFacts DEF SendReusing, LeasesSource, CoordinatorTypeOK
      <3> QED BY <1>3, <3>1 DEF SendReusing, CoordinatorTypeOK, Lease
    <2>3. OwedBy(e)'
      BY <1>1, <2>1, <2>2 DEF OwedBy, Idle
    <2>4. \A x \in Endpoint \ {e} : Keeps(x)
      BY <1>1, <2>1 DEF Keeps
    <2> QED BY <2>3, <2>4, KeepsOwed DEF Owed
  <1>4. CASE SendAcquiring(e, r)
    <2>1. /\ lease'[e] = NoLease /\ acquiring'[e] = r /\ deferred' = deferred
          /\ \A x \in Endpoint \ {e} : lease'[x] = lease[x] /\ acquiring'[x] = acquiring[x]
      BY <1>4, GiveUpOwed DEF SendAcquiring, CoordinatorTypeOK
    <2>2. OwedBy(e)'
      BY <1>1, <1>2, <2>1 DEF OwedBy, Idle
    <2>3. \A x \in Endpoint \ {e} : Keeps(x)
      BY <1>1, <2>1 DEF Keeps
    <2> QED BY <2>2, <2>3, KeepsOwed DEF Owed
  <1> QED BY <1>3, <1>4 DEF Send

\* Every outcome of acquire leaves the request leased, deferred or answered.
LEMMA AcquireOwed ==
  ASSUME CoordinatorTypeOK, Ownership, Owed, NEW e \in Endpoint, NEW full \in BOOLEAN,
         Acquire(e, full)
  PROVE  Owed'
  <1> DEFINE r == acquiring[e]
  <1>1. /\ r \in Request /\ r # NoRequest /\ lease[e] = NoLease
        /\ acquiring'[e] = NoRequest
        /\ \A x \in Endpoint \ {e} : acquiring'[x] = acquiring[x]
        /\ latest[e] = r.id
    BY RequestFacts DEF Acquire, CoordinatorTypeOK, Ownership, Owed, OwedBy, Idle
  <1>2. /\ \A x \in Endpoint \ {e} :
              lease'[x] = lease[x] /\ deferred'[x] = deferred[x] /\ latest'[x] = latest[x]
        /\ \/ lease'[e] = NoLease /\ deferred'[e] = r /\ latest'[e] = r.id
           \/ lease'[e].request = r /\ deferred'[e] \in {r, NoRequest} /\ latest'[e] = r.id
           \/ lease'[e] = NoLease /\ latest'[e] = 0
    <2>1. CASE AcquireRefused(e, r)
      BY <1>1, <2>1 DEF AcquireRefused, CoordinatorTypeOK
    <2>2. CASE AcquireExisting(e, r, full)
      BY <1>1, <2>2 DEF AcquireExisting, Leased, CoordinatorTypeOK
    <2>3. CASE AcquireSpawned(e, r)
      BY <1>1, <2>3 DEF AcquireSpawned, Leased, CoordinatorTypeOK
    <2>4. CASE AcquireFailed(e, r)
      BY <1>1, <2>4 DEF AcquireFailed, CoordinatorTypeOK
    <2> QED BY <2>1, <2>2, <2>3, <2>4 DEF Acquire
  <1>3. OwedBy(e)'
    BY <1>1, <1>2 DEF OwedBy, Idle, NoLease
  <1>4. \A x \in Endpoint \ {e} : Keeps(x)
    BY <1>1, <1>2 DEF Keeps
  <1> QED BY <1>3, <1>4, KeepsOwed DEF Owed

\* The calls that cancel, release or defer.
LEMMA CallOwed ==
  ASSUME CoordinatorTypeOK, Owed, NEW e \in Endpoint,
         CancelPending(e) \/ ReleaseLive(e) \/ DeferLive(e) \/ ReleaseSpeculative(e)
  PROVE  Owed'
  <1>0. Idle(e) /\ acquiring' = acquiring
    BY DEF CancelPending, ReleaseLive, DeferLive, ReleaseSpeculative
  <1>1. CASE CancelPending(e)
    <2>1. /\ lease' = lease /\ deferred'[e] = NoRequest /\ latest'[e] = 0
          /\ \A x \in Endpoint \ {e} : deferred'[x] = deferred[x] /\ latest'[x] = latest[x]
      BY <1>1 DEF CancelPending, CoordinatorTypeOK
    <2>2. OwedBy(e)' /\ \A x \in Endpoint \ {e} : Keeps(x)
      BY <1>0, <2>1 DEF OwedBy, Idle, Keeps
    <2> QED BY <2>2, KeepsOwed DEF Owed
  <1>2. CASE ReleaseLive(e)
    <2>1. /\ lease'[e] = NoLease /\ deferred' = deferred /\ latest'[e] = 0
          /\ \A x \in Endpoint \ {e} : lease'[x] = lease[x] /\ latest'[x] = latest[x]
      BY <1>2, GiveUpOwed DEF ReleaseLive, CoordinatorTypeOK
    <2>2. OwedBy(e)' /\ \A x \in Endpoint \ {e} : Keeps(x)
      BY <1>0, <2>1 DEF OwedBy, Idle, Keeps, NoLease
    <2> QED BY <2>2, KeepsOwed DEF Owed
  <1>3. CASE DeferLive(e)
    <2>1. /\ lease'[e] = NoLease /\ deferred'[e] = lease[e].request /\ latest' = latest
          /\ \A x \in Endpoint \ {e} : lease'[x] = lease[x] /\ deferred'[x] = deferred[x]
      BY <1>3, GiveUpOwed DEF DeferLive, CoordinatorTypeOK
    <2>2. latest[e] # 0 => latest[e] = lease[e].request.id
      BY <1>0, <1>3 DEF DeferLive, Owed, OwedBy, NoRequest
    <2>3. OwedBy(e)' /\ \A x \in Endpoint \ {e} : Keeps(x)
      BY <1>0, <2>1, <2>2 DEF OwedBy, Idle, Keeps, NoLease
    <2> QED BY <2>3, KeepsOwed DEF Owed
  <1>4. CASE ReleaseSpeculative(e)
    <2>1. /\ deferred'[e] \in {deferred[e], NoRequest}
          /\ lease'[e] \in {lease[e], NoLease}
          /\ SpeculativeRetry(e) \/ SpeculativeLease(e) => latest'[e] = 0
          /\ ~(SpeculativeRetry(e) \/ SpeculativeLease(e)) =>
               lease'[e] = lease[e] /\ deferred'[e] = deferred[e] /\ latest'[e] = latest[e]
          /\ \A x \in Endpoint \ {e} :
               lease'[x] = lease[x] /\ deferred'[x] = deferred[x] /\ latest'[x] = latest[x]
      BY <1>4, GiveUpOwed DEF ReleaseSpeculative, CoordinatorTypeOK
    <2>2. OwedBy(e)' /\ \A x \in Endpoint \ {e} : Keeps(x)
      BY <1>0, <2>1 DEF Owed, OwedBy, Idle, Keeps, NoLease
    <2> QED BY <2>2, KeepsOwed DEF Owed
  <1> QED BY <1>1, <1>2, <1>3, <1>4

\* The actors' own steps and the reaper do not touch what endpoints owe.
LEMMA StepOwed == CoordinatorInv /\ Owed /\ [CoordinatorNext]_coordinatorVars => Owed'
  <1> SUFFICES ASSUME CoordinatorInv, Owed, [CoordinatorNext]_coordinatorVars PROVE Owed'
    OBVIOUS
  <1>0. CoordinatorTypeOK /\ Ownership
    BY DEF CoordinatorInv
  <1>1. ASSUME NEW e \in Endpoint, NEW full \in BOOLEAN, NEW r \in Request,
               RequestNew(e, r, full)
        PROVE  Owed'
    BY <1>0, <1>1, SendOwed DEF RequestNew
  <1>2. ASSUME NEW e \in Endpoint, NEW full \in BOOLEAN, RetryDeferred(e, full)
        PROVE  Owed'
    <2>1. deferred[e] \in Request
      BY <1>0, <1>2 DEF RetryDeferred, CoordinatorTypeOK
    <2> QED BY <1>0, <1>2, <2>1, SendOwed DEF RetryDeferred
  <1>3. ASSUME NEW e \in Endpoint, NEW full \in BOOLEAN, Acquire(e, full)
        PROVE  Owed'
    BY <1>0, <1>3, AcquireOwed
  <1>4. ASSUME NEW e \in Endpoint,
               CancelPending(e) \/ ReleaseLive(e) \/ DeferLive(e) \/ ReleaseSpeculative(e)
        PROVE  Owed'
    BY <1>0, <1>4, CallOwed
  <1>5. CASE UNCHANGED control
    BY <1>5, KeepsOwed DEF control, Keeps, Owed
  <1>6. ASSUME NEW a \in Actor, OpenSession(a) \/ CloseSession(a) \/ ExitActor(a)
        PROVE  UNCHANGED control
    BY <1>6 DEF OpenSession, CloseSession, ExitActor
  <1>7. Reap \/ UNCHANGED coordinatorVars => UNCHANGED control
    BY DEF Reap, coordinatorVars, control
  <1> QED BY <1>1, <1>2, <1>3, <1>4, <1>5, <1>6, <1>7 DEF CoordinatorNext

LEMMA OwedInvariant == CoordinatorSafety => []Owed
  <1>1. CoordinatorInit => Owed
    BY DEF CoordinatorInit, Owed, OwedBy, Idle, NoLease
  <1> QED BY <1>1, StepOwed, CoordinatorInvariant, PTL DEF CoordinatorSafety

\* No refusal, hand-off, full queue or deferral loses the newest request of an endpoint
\* (send_to_with_role, defer_live_sessions).
THEOREM LatestRetainedAlways == CoordinatorSafety => []LatestRetained
  <1>1. Owed => LatestRetained
    BY DEF Owed, OwedBy, LatestRetained
  <1> QED BY <1>1, OwedInvariant, PTL

\* A retry carries the very request of the lease beside it, so it cannot put an older one
\* in its place (retry_deferred_requests).
THEOREM RetryNeverRegressesAlways == CoordinatorSafety => []RetryNeverRegresses
  <1>1. Owed => RetryNeverRegresses
    BY DEF Owed, OwedBy, RetryNeverRegresses
  <1> QED BY <1>1, OwedInvariant, PTL

-----------------------------------------------------------------------------
(* The data plane *)

\* The initial states are initial states of the control plane, and every step is one of
\* its steps or a stutter.
LEMMA ControlStep == [LaneNext]_laneVars => [CoordinatorNext]_coordinatorVars
<1> SUFFICES ASSUME [LaneNext]_laneVars
             PROVE  [CoordinatorNext]_coordinatorVars
  OBVIOUS
<1>1. ASSUME NEW e \in Endpoint, Call(e)
      PROVE  CoordinatorNext
  <2>1. ASSUME NEW r \in Request, LaneRequest(e, r)
        PROVE  CoordinatorNext
    <3>1. SubmitRefused(e, r) \in BOOLEAN
      BY DEF SubmitRefused
    <3>2. QED
      BY <2>1, <3>1 DEF LaneRequest, CoordinatorNext
  <2>2. ASSUME LaneRetry(e)
        PROVE  CoordinatorNext
    <3>1. SubmitRefused(e, deferred[e]) \in BOOLEAN
      BY DEF SubmitRefused
    <3>2. QED
      BY <2>2, <3>1 DEF LaneRetry, CoordinatorNext
  <2>3. ASSUME LaneAcquire(e)
        PROVE  CoordinatorNext
    <3>1. PICK full \in BOOLEAN : Acquire(e, full)
      <4> DEFINE shared == Indexed(e, acquiring[e])
      <4>1. Acquire(e, shared # NoActor /\ QueueFull(shared, lastClient + 1))
        BY <2>3 DEF LaneAcquire
      <4>2. (shared # NoActor /\ QueueFull(shared, lastClient + 1)) \in BOOLEAN
        OBVIOUS
      <4>3. QED
        BY <4>1, <4>2
    <3>2. QED
      BY <3>1 DEF CoordinatorNext
  <2>4. QED
    BY <1>1, <2>1, <2>2, <2>3
    DEF Call, LaneCancel, LaneRelease, LaneDefer, LaneReleaseSpeculative, CoordinatorNext
<1>2. ASSUME NEW a \in Actor, Decode(a) \/ Leave(a)
      PROVE  CoordinatorNext \/ UNCHANGED coordinatorVars
  BY <1>2 DEF Decode, Leave, AnswerFromCache, DeferForCapacity, Open, OpenFails,
              FallBackToSoftware, DecodeFrame, DecodeError, Abandon, CoordinatorNext
<1>3. ASSUME NEW a \in Actor, Scan(a) \/ Claim(a) \/ Finish(a) \/ Settle(a) \/ Retarget(a) \/ Progress(a)
      PROVE  UNCHANGED coordinatorVars
  BY <1>3 DEF Scan, Claim, Finish, Settle, Retarget, Progress
<1>4. ASSUME NEW d \in Decoder, Receive(d)
      PROVE  UNCHANGED coordinatorVars
  BY <1>4 DEF Receive
<1>5. CASE LaneReap
  BY <1>5 DEF LaneReap, CoordinatorNext
<1>6. CASE UNCHANGED laneVars
  BY <1>6 DEF laneVars
<1>7. QED
  BY <1>1, <1>2, <1>3, <1>4, <1>5, <1>6 DEF LaneNext, Work

\* The data plane implements the control plane: what the coordinator keeps, whatever the
\* callers, actors and reaper do with each other, it keeps with the actors' real loop.
THEOREM LaneImplementsControl == LaneSafety => CoordinatorSafety
<1>1. LaneInit => CoordinatorInit
  BY DEF LaneInit
<1>2. QED
  BY <1>1, ControlStep, PTL DEF LaneSafety, CoordinatorSafety

-----------------------------------------------------------------------------
(* What the parts of the invariant give a step *)

\* The client the actor has taken and not yet uncounted.
Taken(a) == IF pc[a] = "claim" THEN {job[a].client} ELSE {}

\* Submitting a client prunes the dead, counts and appends the client unless it is counted,
\* and changes no other queue.
LEMMA EnqueueFacts ==
  ASSUME LaneInv, NEW a \in Actor, NEW c \in Client, Enqueue(a, c)
  PROVE  /\ pending' \in [Actor -> Seq(Client)] /\ queued' \in [Actor -> SUBSET Client]
         /\ \A b \in Actor \ {a} : pending'[b] = pending[b] /\ queued'[b] = queued[b]
         /\ IsInjective(pending'[a])
         /\ ToSet(pending'[a]) \subseteq ToSet(pending[a]) \cup {c}
         /\ queued'[a] = ToSet(pending'[a]) \cup Taken(a)
         /\ ToSet(pending'[a]) \cap Taken(a) = {}
         /\ \A d \in ToSet(pending[a]) : Alive(d) => d \in ToSet(pending'[a])
         /\ c \in ToSet(pending'[a]) \cup Taken(a) \/ QueueFull(a, c)
<1> DEFINE live == {d \in Client : Alive(d)}
           p == LivePending(a)
<1>1. /\ pending \in [Actor -> Seq(Client)] /\ queued \in [Actor -> SUBSET Client]
      /\ pending[a] \in Seq(Client) /\ ToSet(pending[a]) \subseteq Client
  BY DEF LaneInv, LaneTypeOK, ToSet
<1>2. /\ p \in Seq(Client) /\ ToSet(p) = ToSet(pending[a]) \cap live /\ IsInjective(p)
  BY <1>1, KeptSet DEF LivePending, LaneInv, QueueExact
<1>3. Taken(a) \subseteq live
  BY DEF Taken, LaneInv, LoopShape, Alive
<1>4. /\ queued[a] = ToSet(pending[a]) \cup Taken(a)
      /\ ToSet(pending[a]) \cap Taken(a) = {}
  BY DEF Taken, LaneInv, QueueExact
<1>5. LiveQueued(a) = ToSet(p) \cup Taken(a) /\ LiveQueued(a) \subseteq Client
  BY <1>1, <1>2, <1>3, <1>4 DEF LiveQueued
<1>6. CASE c \in LiveQueued(a) \/ QueueFull(a, c)
  <2>1. pending' = [pending EXCEPT ![a] = p] /\ queued' = [queued EXCEPT ![a] = LiveQueued(a)]
    <3>1. c \in LiveQueued(a) => LiveQueued(a) \cup {c} = LiveQueued(a)
      OBVIOUS
    <3>2. QED
      BY <1>6, <3>1 DEF Enqueue
  <2>2. pending'[a] = p /\ queued'[a] = LiveQueued(a)
    BY <1>1, <2>1
  <2>3. /\ pending' \in [Actor -> Seq(Client)] /\ queued' \in [Actor -> SUBSET Client]
        /\ \A b \in Actor \ {a} : pending'[b] = pending[b] /\ queued'[b] = queued[b]
    BY <1>1, <1>2, <1>5, <2>1
  <2> HIDE DEF p
  <2>4. QED
    BY <1>1, <1>2, <1>4, <1>5, <1>6, <2>2, <2>3
<1>7. CASE c \notin LiveQueued(a) /\ ~QueueFull(a, c)
  <2> DEFINE q == Append(p, c)
  <2>1. q \in Seq(Client) /\ ToSet(q) = ToSet(p) \cup {c} /\ IsInjective(q)
    BY <1>2, <1>5, <1>7, AppendSet
  <2>2. /\ pending' = [pending EXCEPT ![a] = q]
        /\ queued' = [queued EXCEPT ![a] = LiveQueued(a) \cup {c}]
    BY <1>7 DEF Enqueue
  <2>3. pending'[a] = q /\ queued'[a] = LiveQueued(a) \cup {c}
    BY <1>1, <2>2
  <2>4. /\ pending' \in [Actor -> Seq(Client)] /\ queued' \in [Actor -> SUBSET Client]
        /\ \A b \in Actor \ {a} : pending'[b] = pending[b] /\ queued'[b] = queued[b]
    BY <1>1, <1>5, <2>1, <2>2
  <2> HIDE DEF p, q
  <2>5. QED
    BY <1>1, <1>2, <1>4, <1>5, <1>7, <2>1, <2>3, <2>4
<1>8. QED
  BY <1>6, <1>7

\* What an actor has in hand, by its place in the loop.
LEMMA JobFacts ==
  ASSUME LaneInv, NEW a \in Actor, HasRequest(a)
  PROVE  /\ job[a].client \in Client /\ job[a].endpoint \in Endpoint
         /\ job[a].request \in Request
         /\ pc[a] = "decode" => job[a] \in Decoding /\ job[a].target \in Request
         /\ pc[a] # "decode" => /\ job[a] \in Settling
                               /\ job[a].command \in Command
                               /\ job[a].outcome \in Outcome
         /\ thread[a] = "running"
         /\ source[a].key = job[a].request.key
         /\ source[a].lane = LaneOf(job[a].endpoint)
<1>1. pc[a] = "decode" => job[a] \in Decoding
  BY DEF LaneInv, LoopShape
<1>2. pc[a] # "decode" => job[a] \in Settling
  BY DEF LaneInv, LoopShape, HasRequest
<1>3. thread[a] = "running"
  BY DEF LaneInv, LoopShape, HasRequest
<1>4. source[a] = [key |-> job[a].request.key, lane |-> LaneOf(job[a].endpoint)]
  BY DEF LaneInv, JobsFit
<1>5. QED
  BY <1>1, <1>2, <1>3, <1>4 DEF Decoding, Settling, HasRequest

\* A request in a command, in the slot and in an event is a request.
LEMMA CommandFacts ==
  /\ \A k \in Command : IsRequest(k) => k.request \in Request
  /\ \A r \in Request : /\ RequestCommand(r) \in Command
                        /\ IsRequest(RequestCommand(r)) /\ RequestCommand(r).request = r
  /\ ~IsRequest(NoCommand) /\ ~IsRequest(Cancel) /\ ~IsRequest(Release)
  /\ {NoCommand, Cancel, Release} \subseteq Command
  /\ \A o \in Outcome : o.kind = "event" => o.request \in Request
  /\ \A r \in Request : /\ Answer(r) \in Outcome
                        /\ Answer(r).kind = "event" /\ Answer(r).request = r
  /\ NoOutcome \in Outcome /\ Deferral \in Outcome
  /\ NoOutcome.kind # "event" /\ Deferral.kind # "event"
<1> USE DEF NoCommand, Cancel, Release, RequestCommand, IsRequest, NoOutcome, Deferral, Answer
<1>1. \A k \in Command : IsRequest(k) => k.request \in Request
  BY DEF Command
<1>2. \A r \in Request : /\ RequestCommand(r) \in Command
                        /\ IsRequest(RequestCommand(r)) /\ RequestCommand(r).request = r
  BY DEF Command
<1>3. /\ ~IsRequest(NoCommand) /\ ~IsRequest(Cancel) /\ ~IsRequest(Release)
      /\ {NoCommand, Cancel, Release} \subseteq Command
  BY DEF Command
<1>4. \A o \in Outcome : o.kind = "event" => o.request \in Request
  BY DEF Outcome
<1>5. \A r \in Request : /\ Answer(r) \in Outcome
                        /\ Answer(r).kind = "event" /\ Answer(r).request = r
  BY DEF Outcome
<1>6. /\ NoOutcome \in Outcome /\ Deferral \in Outcome
      /\ NoOutcome.kind # "event" /\ Deferral.kind # "event"
  BY DEF Outcome
<1>7. QED
  BY <1>1, <1>2, <1>3, <1>4, <1>5, <1>6

\* A leased actor is in its loop, for the source and the lane of the lease.
LEMMA LeasedActorFacts ==
  ASSUME CoordinatorInv, NEW e \in Endpoint, lease[e].actor # NoActor
  PROVE  /\ lease[e].actor \in Actor /\ lease[e].actor \in Live
         /\ lease[e] \in Lease
         /\ thread[lease[e].actor] = "running"
         /\ source[lease[e].actor] = [key |-> lease[e].request.key, lane |-> LaneOf(e)]
<1>1. lease[e] \in Lease
  BY DEF CoordinatorInv, CoordinatorTypeOK, NoLease
<1>2. lease[e].actor \in Live
  BY <1>1 DEF Lease, Live, Owners
<1>3. QED
  BY <1>1, <1>2 DEF Lease, CoordinatorInv, LeasedActorRuns, Ownership, OneActorPerSource

\* No client gets a second server when nobody starts to serve one.
LEMMA SameServers ==
  ASSUME LaneInv, lastClient' \in Nat, lastClient <= lastClient',
         \A a \in Actor, c \in Client : Serves(a, c)' => Serves(a, c)
  PROVE  OneServer'
BY DEF OneServer, LaneInv, LaneTypeOK, Client

-----------------------------------------------------------------------------
(* The calls on an endpoint *)

\* A command on a lease that stays: its slot takes it, its client is submitted.
LEMMA SubmitInv ==
  ASSUME LaneInv, CoordinatorInv, CoordinatorTypeOK', NEW e \in Endpoint, NEW k \in Command,
         lease[e].actor # NoActor,
         \A f \in Endpoint : lease'[f].actor = lease[f].actor,
         \A f \in Endpoint : lease[f].actor # NoActor =>
           Fits(f, lease'[f].request) /\ lease'[f].request.key = lease[f].request.key,
         slot' = [slot EXCEPT ![client[e]] = k],
         IsRequest(k) => Fits(e, k.request) /\ k.request.key = lease[e].request.key,
         Enqueue(lease[e].actor, client[e]),
         \A f \in Endpoint : /\ acquiring'[f] # NoRequest => Fits(f, acquiring'[f])
                             /\ deferred'[f] # NoRequest => Fits(f, deferred'[f]),
         owed' \in [Endpoint -> 0..MaxRequest],
         UNCHANGED <<lastClient, client, thread, source, pc, job, newest, event>>
  PROVE  LaneInv'
<1> DEFINE c == client[e]
           a == lease[e].actor
<1>1. /\ a \in Actor /\ c \in Client
      /\ thread[a] = "running" /\ source[a].key = lease[e].request.key
  <2>1. c \in Client
    BY DEF LaneInv, LaneTypeOK, ClientsOfLeases
  <2>2. /\ a \in Actor /\ thread[a] = "running"
        /\ source[a] = [key |-> lease[e].request.key, lane |-> LaneOf(e)]
    BY LeasedActorFacts
  <2>3. QED
    BY <2>1, <2>2
<1>2. /\ slot' = [slot EXCEPT ![c] = k] /\ slot'[c] = k
      /\ \A d \in Client \ {c} : slot'[d] = slot[d]
      /\ Enqueue(a, c)
  BY <1>1 DEF LaneInv, LaneTypeOK
<1>3. \A f \in Endpoint : lease'[f].actor = a <=> lease[f].actor = a
  OBVIOUS
<1>4. \A f \in Endpoint \ {e} : client[f] # c
  BY <1>1 DEF LaneInv, ClientsOfLeases, NoClient, Client
<1>5. Serves(a, c)
  BY DEF Serves
<1>6. \A b \in Actor : Serves(b, c) => b = a
  BY <1>1, <1>5 DEF LaneInv, OneServer
<1>7. \A b \in Actor : HasRequest(b) /\ job[b].client = c => b = a /\ job[b].endpoint = e
  BY <1>6 DEF LaneInv, JobsFit, Serves
<1> HIDE DEF c, a
<1>8. /\ pending' \in [Actor -> Seq(Client)] /\ queued' \in [Actor -> SUBSET Client]
      /\ \A b \in Actor \ {a} : pending'[b] = pending[b] /\ queued'[b] = queued[b]
      /\ IsInjective(pending'[a])
      /\ ToSet(pending'[a]) \subseteq ToSet(pending[a]) \cup {c}
      /\ queued'[a] = ToSet(pending'[a]) \cup Taken(a)
      /\ ToSet(pending'[a]) \cap Taken(a) = {}
  BY <1>1, <1>2, EnqueueFacts
<1>9. LaneTypeOK'
  <2>1. slot' \in [Client -> Command]
    BY <1>1, <1>2 DEF LaneInv, LaneTypeOK
  <2>2. QED
    BY <1>8, <2>1 DEF LaneInv, LaneTypeOK
<1>10. LoopShape'
  BY <1>1, <1>8 DEF LaneInv, LoopShape
<1>11. ClientsOfLeases'
  BY DEF LaneInv, ClientsOfLeases
<1>12. OneServer'
  <2>1. ASSUME NEW b \in Actor, NEW d \in Client, Serves(b, d)'
        PROVE  Serves(b, d)
    <3>1. d \in ToSet(pending'[b]) => d \in ToSet(pending[b]) \/ (b = a /\ d = c)
      BY <1>8
    <3>2. QED
      BY <1>5, <2>1, <3>1 DEF Serves
  <2>2. QED
    BY <2>1, SameServers DEF LaneInv, LaneTypeOK
<1>13. RequestsFit'
  <2>1. ASSUME NEW f \in Endpoint
        PROVE  /\ lease'[f].actor # NoActor => Fits(f, lease'[f].request)
               /\ client[f] # NoClient /\ IsRequest(slot'[client[f]]) =>
                    /\ Fits(f, slot'[client[f]].request)
                    /\ slot'[client[f]].request.key = lease'[f].request.key
    <3>1. client[f] # NoClient => lease[f].actor # NoActor /\ client[f] \in Client
      BY DEF LaneInv, LaneTypeOK, ClientsOfLeases
    <3>2. CASE f = e
      BY <1>2, <3>1, <3>2 DEF c
    <3>3. CASE f # e
      <4>1. client[f] # NoClient => slot'[client[f]] = slot[client[f]]
        BY <1>2, <1>4, <3>1, <3>3
      <4>2. QED
        BY <3>1, <4>1 DEF LaneInv, RequestsFit
    <3>4. QED
      BY <3>2, <3>3
  <2>2. QED
    BY <2>1 DEF RequestsFit, Fits
<1>14. JobsFit'
  <2>1. ASSUME NEW b \in Actor, HasRequest(b)
        PROVE  IsRequest(slot'[job[b].client]) => Suits(b, slot'[job[b].client].request)
    <3>1. CASE job[b].client = c
      <4>1. b = a /\ job[b].endpoint = e /\ slot'[job[b].client] = k
        BY <1>2, <1>7, <2>1, <3>1
      <4>2. job[b].request.key = lease[e].request.key
        BY <1>1, <2>1, <4>1, JobFacts
      <4>3. QED
        BY <4>1, <4>2 DEF Suits
    <3>2. CASE job[b].client # c
      <4>1. slot'[job[b].client] = slot[job[b].client]
        BY <1>2, <2>1, <3>2, JobFacts
      <4>2. QED
        BY <2>1, <4>1 DEF LaneInv, JobsFit
    <3>3. QED
      BY <3>1, <3>2
  <2>2. QED
    BY <2>1, SMTT(30) DEF LaneInv, JobsFit, HasRequest, Suits, AsVisible, Fits
<1>15. QueueExact'
  BY <1>8 DEF LaneInv, QueueExact, Taken
<1>16. SilentPrewarm'
  BY DEF LaneInv, SilentPrewarm
<1>17. QED
  BY <1>9, <1>10, <1>11, <1>12, <1>13, <1>14, <1>15, <1>16 DEF LaneInv

\* A lease that is given up takes its client along, if there is one.
LEMMA DismissInv ==
  ASSUME LaneInv, CoordinatorTypeOK', NEW e \in Endpoint, Dismiss(e),
         lease' = Without(e),
         \A f \in Endpoint : /\ acquiring'[f] # NoRequest => Fits(f, acquiring'[f])
                             /\ deferred'[f] # NoRequest => Fits(f, deferred'[f]),
         owed' \in [Endpoint -> 0..MaxRequest],
         UNCHANGED <<thread, source, pending, queued, pc, job, newest, event>>
  PROVE  LaneInv'
<1>1. /\ lease \in [Endpoint -> Lease \cup {NoLease}] /\ lease'[e] = NoLease
      /\ \A f \in Endpoint \ {e} : lease'[f] = lease[f]
  BY DEF LaneInv, LaneTypeOK, CoordinatorTypeOK, Without
<1>2. /\ client' = [client EXCEPT ![e] = NoClient] /\ lastClient' = lastClient
      /\ client \in [Endpoint -> Client \cup {NoClient}] /\ lastClient \in 0..MaxClient
  BY DEF Dismiss, LaneInv, LaneTypeOK
<1>3. /\ slot' \in [Client -> Command]
      /\ \A d \in Client : \/ slot'[d] = slot[d]
                           \/ d = client[e] /\ slot'[d] = Release
  <2>1. slot \in [Client -> Command] /\ Release \in Command
    BY CommandFacts DEF LaneInv, LaneTypeOK
  <2>2. CASE client[e] = NoClient
    <3>1. slot' = slot
      BY <2>2 DEF Dismiss
    <3>2. QED
      BY <2>1, <3>1
  <2>3. CASE client[e] # NoClient
    <3>1. slot' = [slot EXCEPT ![client[e]] = Release] /\ client[e] \in Client
      BY <1>2, <2>3 DEF Dismiss
    <3>2. slot' \in [Client -> Command]
      BY <2>1, <3>1
    <3>3. \A d \in Client : d # client[e] => slot'[d] = slot[d]
      BY <2>1, <3>1
    <3>4. slot'[client[e]] = Release
      BY <2>1, <3>1
    <3>5. QED
      BY <3>2, <3>3, <3>4
  <2>4. QED
    BY <2>2, <2>3
<1>4. LaneTypeOK'
  <2>1. client' \in [Endpoint -> Client \cup {NoClient}]
    BY <1>2
  <2>2. QED
    BY <1>2, <1>3, <2>1 DEF LaneInv, LaneTypeOK
<1>5. LoopShape'
  BY DEF LaneInv, LoopShape
<1>6. ClientsOfLeases'
  <2>1. NoLease.actor = NoActor
    BY DEF NoLease
  <2>2. NoClient <= lastClient
    BY <1>2 DEF NoClient
  <2>3. QED
    BY <1>1, <1>2, <2>1, <2>2 DEF LaneInv, ClientsOfLeases
<1>7. OneServer'
  <2>1. ASSUME NEW b \in Actor, NEW d \in Client, Serves(b, d)'
        PROVE  Serves(b, d)
    <3>1. \A f \in Endpoint : client'[f] = d => f # e
      BY <1>2 DEF NoClient, Client
    <3>2. QED
      BY <1>1, <1>2, <2>1, <3>1 DEF Serves
  <2>2. QED
    BY <1>2, <2>1, SameServers
<1>8. RequestsFit'
  <2>1. ASSUME NEW f \in Endpoint
        PROVE  /\ lease'[f].actor # NoActor => Fits(f, lease'[f].request)
               /\ client'[f] # NoClient /\ IsRequest(slot'[client'[f]]) =>
                    /\ Fits(f, slot'[client'[f]].request)
                    /\ slot'[client'[f]].request.key = lease'[f].request.key
    <3>1. CASE f = e
      BY <1>1, <1>2, <3>1 DEF NoLease
    <3>2. CASE f # e
      <4>1. client'[f] = client[f] /\ lease'[f] = lease[f]
        BY <1>1, <1>2, <3>2
      <4>2. client[f] # NoClient => client[f] \in Client /\ client[f] # client[e]
        BY <1>2, <3>2 DEF LaneInv, ClientsOfLeases
      <4>3. client[f] # NoClient => slot'[client[f]] = slot[client[f]]
        BY <1>3, <4>2
      <4>4. QED
        BY <4>1, <4>3 DEF LaneInv, RequestsFit
    <3>3. QED
      BY <3>1, <3>2
  <2>2. QED
    BY <2>1 DEF RequestsFit, Fits
<1>9. JobsFit'
  <2>1. ASSUME NEW b \in Actor, HasRequest(b)
        PROVE  /\ IsRequest(slot'[job[b].client]) => Suits(b, slot'[job[b].client].request)
               /\ \A f \in Endpoint : client'[f] = job[b].client => f = job[b].endpoint
    <3>1. job[b].client \in Client
      BY <2>1, JobFacts
    <3>2. \/ slot'[job[b].client] = slot[job[b].client]
          \/ slot'[job[b].client] = Release
      BY <1>3, <3>1
    <3>3. IsRequest(slot'[job[b].client]) => Suits(b, slot'[job[b].client].request)
      <4>1. IsRequest(slot[job[b].client]) => Suits(b, slot[job[b].client].request)
        BY <2>1 DEF LaneInv, JobsFit
      <4>2. ~IsRequest(Release)
        BY CommandFacts
      <4>3. CASE slot'[job[b].client] = slot[job[b].client]
        BY <4>1, <4>3
      <4>4. CASE slot'[job[b].client] = Release
        BY <4>2, <4>4
      <4>5. QED
        BY <3>2, <4>3, <4>4
    <3>4. \A f \in Endpoint : client'[f] = job[b].client => f = job[b].endpoint
      <4>1. \A f \in Endpoint : client[f] = job[b].client => f = job[b].endpoint
        BY <2>1 DEF LaneInv, JobsFit
      <4>2. job[b].client # NoClient
        BY <3>1 DEF NoClient, Client
      <4>3. \A f \in Endpoint : client'[f] = client[f] \/ client'[f] = NoClient
        BY <1>2
      <4>4. QED
        BY <4>1, <4>2, <4>3
    <3>5. QED
      BY <3>3, <3>4
  <2>2. QED
    BY <2>1, SMTT(30) DEF LaneInv, JobsFit, HasRequest, Suits, AsVisible, Fits
<1>10. QueueExact'
  BY DEF LaneInv, QueueExact
<1>11. SilentPrewarm'
  BY DEF LaneInv, SilentPrewarm
<1>12. QED
  BY <1>4, <1>5, <1>6, <1>7, <1>8, <1>9, <1>10, <1>11 DEF LaneInv

\* A lease from acquire gets a client of its own, and the request.
LEMMA LeaseInv ==
  ASSUME LaneInv, CoordinatorTypeOK', NEW e \in Endpoint, NEW a \in Actor, NEW r \in Request,
         Fits(e, r), lease[e] = NoLease, lastClient < MaxClient,
         Leased(e, a, r), thread'[a] = "running",
         \A b \in Actor : thread[b] = "running" => thread'[b] = "running",
         \A b \in Actor : thread[b] = "running" => source'[b] = source[b],
         lastClient' = lastClient + 1,
         client' = [client EXCEPT ![e] = lastClient + 1],
         slot' = [slot EXCEPT ![lastClient + 1] = RequestCommand(r)],
         Enqueue(a, lastClient + 1),
         \A f \in Endpoint : /\ acquiring'[f] # NoRequest => Fits(f, acquiring'[f])
                             /\ deferred'[f] # NoRequest => Fits(f, deferred'[f]),
         UNCHANGED <<pc, job, newest, event, owed>>
  PROVE  LaneInv'
<1> DEFINE c == lastClient + 1
<1>1. /\ lease \in [Endpoint -> Lease \cup {NoLease}]
      /\ lease'[e] = [actor |-> a, request |-> r] /\ lease'[e].actor = a /\ lease'[e].request = r
      /\ \A f \in Endpoint \ {e} : lease'[f] = lease[f]
  BY DEF LaneInv, LaneTypeOK, CoordinatorTypeOK, Leased
<1>2. /\ client \in [Endpoint -> Client \cup {NoClient}] /\ lastClient \in 0..MaxClient
      /\ MaxClient \in Nat /\ c \in Client /\ c # NoClient
  BY LaneConstants DEF LaneInv, LaneTypeOK, Client, NoClient
<1>3. \A b \in Actor : ~Serves(b, c)
  BY <1>2 DEF LaneInv, OneServer
<1>4. \A f \in Endpoint : client[f] # c
  BY <1>2 DEF LaneInv, ClientsOfLeases
<1>5. /\ pending' \in [Actor -> Seq(Client)] /\ queued' \in [Actor -> SUBSET Client]
      /\ \A b \in Actor \ {a} : pending'[b] = pending[b] /\ queued'[b] = queued[b]
      /\ IsInjective(pending'[a])
      /\ ToSet(pending'[a]) \subseteq ToSet(pending[a]) \cup {c}
      /\ queued'[a] = ToSet(pending'[a]) \cup Taken(a)
      /\ ToSet(pending'[a]) \cap Taken(a) = {}
  BY <1>2, EnqueueFacts
<1>6. /\ slot' \in [Client -> Command] /\ slot'[c] = RequestCommand(r)
      /\ \A d \in Client \ {c} : slot'[d] = slot[d]
  BY <1>2, CommandFacts DEF LaneInv, LaneTypeOK
<1>7. /\ client' \in [Endpoint -> Client \cup {NoClient}] /\ client'[e] = c
      /\ \A f \in Endpoint \ {e} : client'[f] = client[f]
      /\ lastClient' \in 0..MaxClient
  BY <1>2
<1>8. lastClient' = c /\ lastClient <= c /\ c \in Nat
  BY <1>2
<1> HIDE DEF c
<1>9. LaneTypeOK'
  BY <1>5, <1>6, <1>7 DEF LaneInv, LaneTypeOK
<1>10. LoopShape'
  BY <1>5 DEF LaneInv, LoopShape
<1>11. ClientsOfLeases'
  <2>1. \A f \in Endpoint : client[f] <= lastClient /\ client[f] \in Nat /\ lastClient \in Nat
    BY <1>2 DEF LaneInv, ClientsOfLeases, Client, NoClient
  <2>2. a # NoActor
    BY CoordinatorConstants
  <2>3. \A f \in Endpoint : client'[f] <= c
    BY <1>7, <1>8, <2>1
  <2>4. QED
    BY <1>1, <1>2, <1>4, <1>7, <1>8, <2>2, <2>3 DEF LaneInv, ClientsOfLeases
<1>12. OneServer'
  <2>1. ASSUME NEW b \in Actor, NEW d \in Client \ {c}, Serves(b, d)'
        PROVE  Serves(b, d)
    <3>1. d \in ToSet(pending'[b]) => d \in ToSet(pending[b])
      BY <1>5
    <3>2. \A f \in Endpoint : client'[f] = d => f # e
      BY <1>7
    <3>3. QED
      BY <1>1, <1>7, <2>1, <3>1, <3>2 DEF Serves
  <2>2. ASSUME NEW b \in Actor, NEW d \in Client, d = c, Serves(b, d)'
        PROVE  b = a
    <3>1. c \notin ToSet(pending[b]) /\ job[b].client # c
      BY <1>3 DEF Serves
    <3>2. CASE d \in ToSet(pending'[b])
      BY <1>5, <2>2, <3>1, <3>2
    <3>3. ASSUME NEW f \in Endpoint, client'[f] = d, lease'[f].actor = b
          PROVE  b = a
      <4>1. f = e
        BY <1>4, <1>7, <2>2, <3>3
      <4>2. QED
        BY <1>1, <3>3, <4>1
    <3>4. QED
      BY <2>2, <3>1, <3>2, <3>3 DEF Serves
  <2>3. ASSUME NEW d \in Client, NEW b \in Actor, Serves(b, d)'
        PROVE  d <= c /\ \A b2 \in Actor : Serves(b2, d)' => b = b2
    <3>1. CASE d = c
      <4>1. b = a /\ \A b2 \in Actor : Serves(b2, d)' => b2 = a
        BY <2>2, <2>3, <3>1
      <4>2. d <= c
        BY <1>8, <3>1
      <4>3. QED
        BY <4>1, <4>2
    <3>2. CASE d # c
      <4>1. Serves(b, d) /\ d <= lastClient
        BY <2>1, <2>3, <3>2 DEF LaneInv, OneServer
      <4>2. d <= c
        BY <1>2, <1>8, <4>1 DEF Client
      <4>3. QED
        BY <2>1, <3>2, <4>1, <4>2 DEF LaneInv, OneServer
    <3>3. QED
      BY <3>1, <3>2
  <2>4. QED
    BY <1>8, <2>3 DEF OneServer
<1>13. RequestsFit'
  <2>1. ASSUME NEW f \in Endpoint
        PROVE  /\ lease'[f].actor # NoActor => Fits(f, lease'[f].request)
               /\ client'[f] # NoClient /\ IsRequest(slot'[client'[f]]) =>
                    /\ Fits(f, slot'[client'[f]].request)
                    /\ slot'[client'[f]].request.key = lease'[f].request.key
    <3>1. CASE f = e
      BY <1>1, <1>6, <1>7, <3>1, CommandFacts
    <3>2. CASE f # e
      <4>1. client'[f] = client[f] /\ lease'[f] = lease[f]
        BY <1>1, <1>7, <3>2
      <4>2. client[f] # NoClient => slot'[client[f]] = slot[client[f]]
        BY <1>2, <1>4, <1>6
      <4>3. QED
        BY <4>1, <4>2 DEF LaneInv, RequestsFit
    <3>3. QED
      BY <3>1, <3>2
  <2>2. QED
    BY <2>1 DEF RequestsFit, Fits
<1>14. JobsFit'
  <2>1. ASSUME NEW b \in Actor, HasRequest(b)
        PROVE  /\ slot'[job[b].client] = slot[job[b].client]
               /\ source'[b] = source[b]
               /\ \A f \in Endpoint : client'[f] = job[b].client => f = job[b].endpoint
    <3>1. job[b].client \in Client /\ job[b].client # c
      BY <1>3, <2>1, JobFacts DEF Serves
    <3>2. \A f \in Endpoint : client'[f] = job[b].client => client[f] = job[b].client
      BY <1>7, <3>1
    <3>3. \A f \in Endpoint : client'[f] = job[b].client => f = job[b].endpoint
      BY <2>1, <3>2 DEF LaneInv, JobsFit
    <3>4. thread[b] = "running"
      BY <2>1, JobFacts
    <3>5. QED
      BY <1>6, <3>1, <3>3, <3>4
  <2>2. QED
    BY <2>1, SMTT(30) DEF LaneInv, JobsFit, HasRequest, Suits, AsVisible, Fits
<1>15. QueueExact'
  BY <1>5 DEF LaneInv, QueueExact, Taken
<1>16. SilentPrewarm'
  BY DEF LaneInv, SilentPrewarm
<1>17. QED
  BY <1>9, <1>10, <1>11, <1>12, <1>13, <1>14, <1>15, <1>16 DEF LaneInv

\* A step that changes the event slot, a retry or nothing of the lanes at all.
LEMMA EventInv ==
  ASSUME LaneInv, CoordinatorTypeOK',
         \A f \in Endpoint : /\ acquiring'[f] # NoRequest => Fits(f, acquiring'[f])
                             /\ deferred'[f] # NoRequest => Fits(f, deferred'[f]),
         newest' \in [Decoder -> 0..MaxRequest],
         event' \in [Decoder -> Request \cup {NoRequest}],
         owed' \in [Endpoint -> 0..MaxRequest],
         SilentPrewarm',
         UNCHANGED <<lease, thread, source, lastClient, client, slot, pending, queued, pc, job>>
  PROVE  LaneInv'
<1>1. LaneTypeOK'
  BY DEF LaneInv, LaneTypeOK
<1>2. LoopShape' /\ ClientsOfLeases' /\ OneServer' /\ QueueExact'
  BY DEF LaneInv, LoopShape, ClientsOfLeases, OneServer, Serves, QueueExact
<1>3. RequestsFit'
  BY DEF LaneInv, RequestsFit, Fits
<1>4. JobsFit'
  BY DEF LaneInv, JobsFit, HasRequest, Suits, AsVisible, Fits
<1>5. QED
  BY <1>1, <1>2, <1>3, <1>4 DEF LaneInv

\* What is published is visible: types and silence of the event slot.
LEMMA PublishFacts ==
  ASSUME LaneInv, NEW d \in Decoder, NEW r \in Request, ~r.speculative, Publish(d, r)
  PROVE  /\ newest' \in [Decoder -> 0..MaxRequest]
         /\ event' \in [Decoder -> Request \cup {NoRequest}]
         /\ owed' \in [Endpoint -> 0..MaxRequest]
         /\ SilentPrewarm'
<1>1. /\ newest \in [Decoder -> 0..MaxRequest]
      /\ event \in [Decoder -> Request \cup {NoRequest}]
      /\ owed \in [Endpoint -> 0..MaxRequest]
  BY DEF LaneInv, LaneTypeOK
<1>2. CASE UNCHANGED eventVars
  BY <1>1, <1>2 DEF eventVars, LaneInv, SilentPrewarm
<1>3. CASE /\ newest' = [newest EXCEPT ![d] = r.id]
           /\ event' = [event EXCEPT ![d] = r]
           /\ owed' = [e \in Endpoint |->
                         IF DecoderOf[e] = d /\ owed[e] <= r.id THEN 0 ELSE owed[e]]
  <2>1. r.id \in 0..MaxRequest /\ 0 \in 0..MaxRequest
    BY RequestFacts, CoordinatorConstants
  <2>2. newest' \in [Decoder -> 0..MaxRequest] /\ event' \in [Decoder -> Request \cup {NoRequest}]
    BY <1>1, <1>3, <2>1
  <2>3. owed' \in [Endpoint -> 0..MaxRequest]
    BY <1>1, <1>3, <2>1
  <2>4. \A x \in Decoder : event'[x] = event[x] \/ event'[x] = r
    BY <1>1, <1>3
  <2>5. QED
    BY <2>2, <2>3, <2>4 DEF LaneInv, SilentPrewarm
<1>4. QED
  BY <1>2, <1>3 DEF Publish

-----------------------------------------------------------------------------
(* The steps of an actor *)

\* What the invariant says of one actor.
InLoop(a) ==
  /\ pc[a] = "scan" => job[a] = NoJob
  /\ pc[a] = "claim" => job[a] \in [client : Client]
  /\ pc[a] = "decode" => job[a] \in Decoding
  /\ pc[a] \in {"finish", "settle"} => job[a] \in Settling
  /\ thread[a] # "running" => pc[a] = "scan" /\ pending[a] = <<>>

JobFits(a) ==
  HasRequest(a) =>
    /\ source[a] = [key |-> job[a].request.key, lane |-> LaneOf(job[a].endpoint)]
    /\ \A e \in Endpoint : client[e] = job[a].client => e = job[a].endpoint
    /\ Fits(job[a].endpoint, job[a].request)
    /\ IsRequest(slot[job[a].client]) => Suits(a, slot[job[a].client].request)
    /\ pc[a] = "decode" => Suits(a, job[a].target) /\ AsVisible(a, job[a].target)
    /\ pc[a] # "decode" =>
         /\ IsRequest(job[a].command) => Suits(a, job[a].command.request)
         /\ job[a].outcome.kind = "event" => AsVisible(a, job[a].outcome.request)

QueueIsExact(a) ==
  /\ IsInjective(pending[a])
  /\ queued[a] = ToSet(pending[a]) \cup Taken(a)
  /\ pc[a] = "claim" => job[a].client \notin ToSet(pending[a])

\* An actor works on its queue and its job, and writes no slot but the one of the client it
\* has in hand; it starts to serve nobody.
LEMMA WorkInv ==
  ASSUME LaneInv, NEW a \in Actor, LaneTypeOK',
         UNCHANGED <<lease, acquiring, deferred, thread, source, lastClient, client>>,
         \A b \in Actor \ {a} : /\ pc'[b] = pc[b] /\ job'[b] = job[b]
                                /\ pending'[b] = pending[b] /\ queued'[b] = queued[b],
         \A d \in Client : slot'[d] # slot[d] => d = job[a].client,
         \A c \in Client : Serves(a, c)' => Serves(a, c),
         InLoop(a)', JobFits(a)', QueueIsExact(a)', SilentPrewarm',
         \A e \in Endpoint : client[e] # NoClient /\ client[e] = job[a].client
                               /\ IsRequest(slot'[client[e]]) =>
           /\ Fits(e, slot'[client[e]].request)
           /\ slot'[client[e]].request.key = lease[e].request.key
  PROVE  LaneInv'
<1>1. LoopShape'
  <2>1. \A b \in Actor : InLoop(b)'
    BY DEF LaneInv, LoopShape, InLoop
  <2>2. QED
    BY <2>1 DEF LoopShape, InLoop
<1>2. ClientsOfLeases'
  BY DEF LaneInv, ClientsOfLeases
<1>3. OneServer'
  <2>1. ASSUME NEW b \in Actor, NEW c \in Client, Serves(b, c)'
        PROVE  Serves(b, c)
    BY <2>1 DEF Serves
  <2>2. QED
    BY <2>1, SameServers DEF LaneInv, LaneTypeOK
<1>4. RequestsFit'
  <2>1. ASSUME NEW f \in Endpoint, client[f] # NoClient, IsRequest(slot'[client[f]])
        PROVE  /\ Fits(f, slot'[client[f]].request)
               /\ slot'[client[f]].request.key = lease[f].request.key
    <3>1. client[f] \in Client
      BY <2>1 DEF LaneInv, LaneTypeOK
    <3>2. CASE client[f] = job[a].client
      BY <2>1, <3>2
    <3>3. CASE client[f] # job[a].client
      <4>1. slot'[client[f]] = slot[client[f]]
        BY <3>1, <3>3
      <4>2. QED
        BY <2>1, <4>1 DEF LaneInv, RequestsFit
    <3>4. QED
      BY <3>2, <3>3
  <2>2. QED
    BY <2>1 DEF LaneInv, RequestsFit, Fits
<1>5. JobsFit'
  <2>1. ASSUME NEW b \in Actor \ {a}, HasRequest(b)
        PROVE  slot'[job[b].client] = slot[job[b].client]
    <3>1. job[b].client \in Client /\ Serves(b, job[b].client)
      BY <2>1, JobFacts DEF Serves
    <3>2. job[b].client # job[a].client
      BY <3>1 DEF LaneInv, OneServer, Serves
    <3>3. QED
      BY <3>1, <3>2
  <2>2. \A b \in Actor \ {a} : JobFits(b)'
    BY <2>1, SMTT(30) DEF LaneInv, JobsFit, JobFits, HasRequest, Suits, AsVisible, Fits
  <2>3. \A b \in Actor : JobFits(b)'
    BY <2>2
  <2>4. QED
    BY <2>3 DEF JobsFit, JobFits
<1>6. QueueExact'
  <2>1. \A b \in Actor : QueueIsExact(b)'
    BY DEF LaneInv, QueueExact, QueueIsExact, Taken
  <2>2. QED
    BY <2>1 DEF QueueExact, QueueIsExact, Taken
<1>7. QED
  BY <1>1, <1>2, <1>3, <1>4, <1>5, <1>6 DEF LaneInv

\* The endpoint of a request in hand, when it still leases the actor.
LEMMA HandFacts ==
  ASSUME LaneInv, CoordinatorInv, NEW a \in Actor, HasRequest(a),
         NEW e \in Endpoint, client[e] = job[a].client
  PROVE  /\ e = job[a].endpoint /\ lease[e].actor = a
         /\ lease[e].request.key = job[a].request.key
<1>1. e = job[a].endpoint
  BY DEF LaneInv, JobsFit
<1>2. job[a].client \in Client /\ source[a].key = job[a].request.key
  BY JobFacts
<1>3. lease[e].actor # NoActor
  BY <1>2 DEF LaneInv, ClientsOfLeases, Client, NoClient
<1>4. /\ lease[e].actor \in Actor
      /\ source[lease[e].actor] = [key |-> lease[e].request.key, lane |-> LaneOf(e)]
  BY <1>3, LeasedActorFacts
<1>5. Serves(a, job[a].client) /\ Serves(lease[e].actor, job[a].client)
  BY DEF Serves
<1>6. lease[e].actor = a
  BY <1>2, <1>4, <1>5 DEF LaneInv, OneServer
<1>7. QED
  BY <1>1, <1>2, <1>4, <1>6

\* A decode that ends leaves an outcome as visible as its request.
LEMMA FinishedInv ==
  ASSUME LaneInv, NEW a \in Actor, CoordinatorTypeOK', pc[a] = "decode", NEW o \in Outcome,
         Finished(a, o), o.kind = "event" => AsVisible(a, o.request),
         UNCHANGED <<lease, acquiring, deferred, thread, source, lastClient, client, slot,
                     pending, queued, newest, event, owed>>
  PROVE  LaneInv'
<1>1. /\ job[a] \in Decoding /\ HasRequest(a)
      /\ job[a].client \in Client /\ job[a].endpoint \in Endpoint /\ job[a].request \in Request
  BY JobFacts DEF HasRequest, LaneInv, LoopShape
<1>2. /\ pc \in [Actor -> {"scan", "claim", "decode", "finish", "settle"}]
      /\ job \in [Actor -> Decoding \cup Settling \cup [client : Client \cup {NoClient}]]
  BY DEF LaneInv, LaneTypeOK
<1> DEFINE j == [client |-> job[a].client, endpoint |-> job[a].endpoint,
                 request |-> job[a].request, outcome |-> o, command |-> NoCommand]
<1>3. j \in Settling
  BY <1>1, CommandFacts DEF Settling
<1>4. /\ job' = [job EXCEPT ![a] = j] /\ job'[a] = j
      /\ pc' = [pc EXCEPT ![a] = "finish"] /\ pc'[a] = "finish"
      /\ \A b \in Actor \ {a} : pc'[b] = pc[b] /\ job'[b] = job[b]
  BY <1>2 DEF Finished, Goto
<1>5. /\ j.client = job[a].client /\ j.endpoint = job[a].endpoint
      /\ j.request = job[a].request /\ j.outcome = o /\ j.command = NoCommand
  OBVIOUS
<1> HIDE DEF j
<1>6. LaneTypeOK'
  BY <1>2, <1>3, <1>4 DEF LaneInv, LaneTypeOK
<1>7. \A c \in Client : Serves(a, c)' => Serves(a, c)
  BY <1>4, <1>5 DEF Serves
<1>8. thread[a] = "running"
  BY <1>1, JobFacts
<1>9. InLoop(a)'
  BY <1>3, <1>4, <1>8 DEF InLoop
<1>10. JobFits(a)'
  <2>1. ~IsRequest(NoCommand)
    BY CommandFacts
  <2>2. JobFits(a)
    BY DEF LaneInv, JobsFit, JobFits
  <2>3. QED
    BY <1>1, <1>4, <1>5, <2>1, <2>2 DEF JobFits, HasRequest, Suits, AsVisible, Fits
<1>11. QueueIsExact(a)'
  BY <1>4 DEF LaneInv, QueueExact, QueueIsExact, Taken
<1>12. SilentPrewarm'
  BY DEF LaneInv, SilentPrewarm
<1>13. QED
  BY <1>4, <1>6, <1>7, <1>9, <1>10, <1>11, <1>12, WorkInv DEF LaneInv, RequestsFit

\* A decode that goes on, with another target or another session, keeps its client and its
\* request; the target is of the request's source and as visible.
LEMMA DecodingInv ==
  ASSUME LaneInv, NEW a \in Actor, CoordinatorTypeOK', pc[a] = "decode",
         NEW j \in Decoding, job' = [job EXCEPT ![a] = j],
         j.client = job[a].client, j.endpoint = job[a].endpoint, j.request = job[a].request,
         Suits(a, j.target), AsVisible(a, j.target),
         UNCHANGED <<lease, acquiring, deferred, thread, source, lastClient, client, slot,
                     pending, queued, newest, event, owed, pc>>
  PROVE  LaneInv'
<1>1. HasRequest(a)
  BY DEF HasRequest
<1>2. job \in [Actor -> Decoding \cup Settling \cup [client : Client \cup {NoClient}]]
  BY DEF LaneInv, LaneTypeOK
<1>3. job'[a] = j /\ \A b \in Actor \ {a} : job'[b] = job[b]
  BY <1>2
<1>4. LaneTypeOK'
  BY <1>2 DEF LaneInv, LaneTypeOK
<1>5. \A c \in Client : Serves(a, c)' => Serves(a, c)
  BY <1>3 DEF Serves
<1>6. InLoop(a)'
  BY <1>1, <1>3, JobFacts DEF InLoop
<1>7. JobFits(a)'
  <2>1. JobFits(a)
    BY DEF LaneInv, JobsFit, JobFits
  <2>2. QED
    BY <1>1, <1>3, <2>1 DEF JobFits, HasRequest, Suits, AsVisible, Fits
<1>8. QueueIsExact(a)'
  BY <1>3 DEF LaneInv, QueueExact, QueueIsExact, Taken
<1>9. SilentPrewarm'
  BY DEF LaneInv, SilentPrewarm
<1>10. QED
  BY <1>3, <1>4, <1>5, <1>6, <1>7, <1>8, <1>9, WorkInv DEF LaneInv, RequestsFit

\* Every step of a decode: its end, in one of seven ways, or going on with another target
\* or another session.
LEMMA DecodeInv ==
  ASSUME LaneInv, CoordinatorInv, CoordinatorTypeOK', NEW a \in Actor,
         Decode(a) \/ Retarget(a) \/ Progress(a)
  PROVE  LaneInv'
<1>1. /\ pc[a] = "decode" /\ HasRequest(a) /\ job[a] \in Decoding
      /\ job[a].request \in Request /\ job[a].target \in Request
      /\ job[a].client \in Client /\ job[a].endpoint \in Endpoint
      /\ Suits(a, job[a].target) /\ AsVisible(a, job[a].target)
      /\ Fits(job[a].endpoint, job[a].request)
  <2>1. pc[a] = "decode"
    BY DEF Decode, Retarget, Progress, Running, AnswerFromCache, DeferForCapacity, Open,
           OpenFails, FallBackToSoftware, DecodeFrame, DecodeError, Abandon
  <2>2. HasRequest(a)
    BY <2>1 DEF HasRequest
  <2>3. QED
    BY <2>1, <2>2, JobFacts DEF LaneInv, JobsFit
<1>2. /\ Answer(job[a].request) \in Outcome /\ AsVisible(a, Answer(job[a].request).request)
      /\ Answer(job[a].target) \in Outcome /\ AsVisible(a, Answer(job[a].target).request)
      /\ NoOutcome \in Outcome /\ NoOutcome.kind # "event"
      /\ Deferral \in Outcome /\ Deferral.kind # "event"
  BY <1>1, CommandFacts DEF AsVisible
<1> DEFINE Plain == UNCHANGED <<lease, acquiring, deferred, thread, source, lastClient, client,
                                slot, pending, queued, newest, event, owed>>
<1>3. ASSUME CloseSession(a) \/ OpenSession(a) \/ UNCHANGED coordinatorVars, UNCHANGED Untouched
      PROVE  Plain
  BY <1>3 DEF CloseSession, OpenSession, coordinatorVars, Untouched, leaseVars, queueVars,
              eventVars, control, registry
<1>4. ASSUME Plain, NEW o \in {Answer(job[a].request), Answer(job[a].target), NoOutcome, Deferral},
             Finished(a, o)
      PROVE  LaneInv'
  <2>1. o \in Outcome /\ (o.kind = "event" => AsVisible(a, o.request))
    BY <1>2
  <2>2. QED
    BY <1>1, <1>4, <2>1, FinishedInv
<1>5. CASE AnswerFromCache(a) \/ DecodeError(a) \/ OpenFails(a)
  BY <1>3, <1>4, <1>5 DEF AnswerFromCache, DecodeError, OpenFails
<1>6. CASE DecodeFrame(a)
  BY <1>3, <1>4, <1>6 DEF DecodeFrame
<1>7. CASE DeferForCapacity(a)
  BY <1>3, <1>4, <1>7 DEF DeferForCapacity
<1>8. CASE Abandon(a)
  BY <1>3, <1>4, <1>8 DEF Abandon
<1>9. CASE Open(a)
  <2>1. Plain /\ pc' = pc /\ job' = job
    BY <1>3, <1>9 DEF Open, workVars
  <2>2. /\ newest' \in [Decoder -> 0..MaxRequest] /\ owed' \in [Endpoint -> 0..MaxRequest]
        /\ event' \in [Decoder -> Request \cup {NoRequest}]
    BY <2>1 DEF LaneInv, LaneTypeOK
  <2>3. SilentPrewarm'
    BY <2>1 DEF LaneInv, SilentPrewarm
  <2>4. QED
    BY <2>1, <2>2, <2>3, EventInv DEF LaneInv, RequestsFit
<1>10. CASE FallBackToSoftware(a)
  <2> DEFINE j == [job[a] EXCEPT !.software = TRUE]
  <2>1. Plain /\ pc' = pc
    BY <1>3, <1>10 DEF FallBackToSoftware
  <2>2. job' = [job EXCEPT ![a] = j]
    BY <1>10 DEF FallBackToSoftware
  <2>3. /\ j \in Decoding /\ j.client = job[a].client /\ j.endpoint = job[a].endpoint
        /\ j.request = job[a].request /\ j.target = job[a].target
    BY <1>1 DEF Decoding
  <2> HIDE DEF j
  <2>4. QED
    BY <1>1, <2>1, <2>2, <2>3, DecodingInv
<1>11. CASE Retarget(a)
  <2> DEFINE t == slot[job[a].client].request
             j == [job[a] EXCEPT !.target = t]
  <2>1. Plain /\ pc' = pc
    BY <1>3, <1>11 DEF Retarget
  <2>2. job' = [job EXCEPT ![a] = j]
    BY <1>11 DEF Retarget
  <2>3. IsRequest(slot[job[a].client]) /\ SameGeneration(job[a].request, t)
    BY <1>11 DEF Retarget
  <2>4. t \in Request
    BY <1>1, <2>3, CommandFacts DEF LaneInv, LaneTypeOK
  <2>5. Suits(a, t)
    BY <1>1, <2>3 DEF LaneInv, JobsFit
  <2> HIDE DEF t
  <2>6. AsVisible(a, t)
    BY <1>1, <2>3, <2>5 DEF AsVisible, Suits, Fits, SameGeneration
  <2>7. /\ j \in Decoding /\ j.client = job[a].client /\ j.endpoint = job[a].endpoint
        /\ j.request = job[a].request /\ j.target = t
    BY <1>1, <2>4 DEF Decoding
  <2> HIDE DEF j
  <2>8. QED
    BY <1>1, <2>1, <2>2, <2>5, <2>6, <2>7, DecodingInv
<1>12. CASE Progress(a)
  <2>1. /\ ~job[a].target.speculative /\ DecoderOf[job[a].endpoint] \in Decoder
        /\ Publish(DecoderOf[job[a].endpoint], job[a].target)
    BY <1>1, <1>12, LaneConstants DEF Progress, AsVisible
  <2>2. UNCHANGED <<lease, acquiring, deferred, thread, source, lastClient, client, slot,
                    pending, queued, pc, job>>
    BY <1>12 DEF Progress, coordinatorVars, leaseVars, queueVars, workVars
  <2>3. /\ newest' \in [Decoder -> 0..MaxRequest]
        /\ event' \in [Decoder -> Request \cup {NoRequest}]
        /\ owed' \in [Endpoint -> 0..MaxRequest] /\ SilentPrewarm'
    BY <1>1, <2>1, PublishFacts
  <2>4. QED
    BY <2>2, <2>3, EventInv DEF LaneInv, RequestsFit
<1>13. QED
  BY <1>5, <1>6, <1>7, <1>8, <1>9, <1>10, <1>11, <1>12 DEF Decode

\* The head of the queue is taken, and skipped when nobody holds its client.
LEMMA ScanInv ==
  ASSUME LaneInv, NEW a \in Actor, Scan(a)
  PROVE  LaneInv'
<1> DEFINE h == Head(pending[a])
           p == Tail(pending[a])
<1>1. UNCHANGED <<lease, acquiring, deferred, thread, source, lastClient, client, slot,
                  newest, event, owed>> /\ CoordinatorTypeOK'
  BY DEF Scan, coordinatorVars, leaseVars, eventVars, LaneInv, LaneTypeOK, CoordinatorTypeOK
<1>2. /\ pending \in [Actor -> Seq(Client)] /\ queued \in [Actor -> SUBSET Client]
      /\ pc \in [Actor -> {"scan", "claim", "decode", "finish", "settle"}]
      /\ job \in [Actor -> Decoding \cup Settling \cup [client : Client \cup {NoClient}]]
      /\ pc[a] = "scan" /\ thread[a] = "running" /\ job[a] = NoJob
      /\ pending[a] \in Seq(Client) /\ pending[a] # <<>>
      /\ IsInjective(pending[a]) /\ queued[a] = ToSet(pending[a])
  <2>1. pc[a] = "scan" /\ thread[a] = "running" /\ pending[a] # <<>>
    BY DEF Scan, Running
  <2>2. /\ pending \in [Actor -> Seq(Client)] /\ queued \in [Actor -> SUBSET Client]
        /\ pc \in [Actor -> {"scan", "claim", "decode", "finish", "settle"}]
        /\ job \in [Actor -> Decoding \cup Settling \cup [client : Client \cup {NoClient}]]
    BY DEF LaneInv, LaneTypeOK
  <2>3. job[a] = NoJob /\ IsInjective(pending[a]) /\ queued[a] = ToSet(pending[a])
    BY <2>1 DEF LaneInv, LoopShape, QueueExact
  <2>4. QED
    BY <2>1, <2>2, <2>3
<1>3. /\ p \in Seq(Client) /\ h \in Client /\ h \in ToSet(pending[a])
      /\ ToSet(pending[a]) \ {h} \subseteq ToSet(p) /\ ToSet(p) \subseteq ToSet(pending[a])
      /\ IsInjective(p) /\ h \notin ToSet(p)
  BY <1>2, TailSet
<1>4. pending' = [pending EXCEPT ![a] = p]
  BY DEF Scan
<1>5. \/ job' = [job EXCEPT ![a] = [client |-> h]] /\ pc' = [pc EXCEPT ![a] = "claim"]
         /\ queued' = queued
      \/ queued' = [queued EXCEPT ![a] = queued[a] \ {h}] /\ pc' = pc /\ job' = job
  BY DEF Scan, Goto, workVars
<1> HIDE DEF h, p
<1>6. pending'[a] = p /\ \A b \in Actor \ {a} : pending'[b] = pending[b]
  BY <1>2, <1>4
<1>7. /\ pending' \in [Actor -> Seq(Client)] /\ queued' \in [Actor -> SUBSET Client]
      /\ pc' \in [Actor -> {"scan", "claim", "decode", "finish", "settle"}]
      /\ job' \in [Actor -> Decoding \cup Settling \cup [client : Client \cup {NoClient}]]
      /\ \A b \in Actor \ {a} : queued'[b] = queued[b] /\ pc'[b] = pc[b] /\ job'[b] = job[b]
  <2>1. pending' \in [Actor -> Seq(Client)]
    BY <1>2, <1>3, <1>4
  <2>2. [client |-> h] \in [client : Client \cup {NoClient}]
    BY <1>3
  <2>3. CASE job' = [job EXCEPT ![a] = [client |-> h]] /\ pc' = [pc EXCEPT ![a] = "claim"]
             /\ queued' = queued
    BY <1>2, <2>1, <2>2, <2>3
  <2>4. CASE queued' = [queued EXCEPT ![a] = queued[a] \ {h}] /\ pc' = pc /\ job' = job
    BY <1>2, <2>1, <2>4
  <2>5. QED
    BY <1>5, <2>3, <2>4
<1>8. \/ pc'[a] = "claim" /\ job'[a] = [client |-> h] /\ queued'[a] = queued[a]
      \/ pc'[a] = "scan" /\ job'[a] = NoJob /\ queued'[a] = queued[a] \ {h}
  BY <1>2, <1>5
<1>9. LaneTypeOK'
  BY <1>1, <1>7 DEF LaneInv, LaneTypeOK
<1>10. \A c \in Client : Serves(a, c)' => Serves(a, c)
  <2>1. NoJob.client = NoClient /\ NoClient \notin Client
    BY DEF NoJob, NoClient, Client
  <2>2. job'[a].client = h \/ job'[a].client = NoClient
    BY <1>8, <2>1
  <2>3. QED
    BY <1>1, <1>3, <1>6, <2>1, <2>2 DEF Serves
<1>11. InLoop(a)'
  <2>1. [client |-> h] \in [client : Client]
    BY <1>3
  <2>2. QED
    BY <1>1, <1>2, <1>8, <2>1 DEF InLoop
<1>12. JobFits(a)'
  BY <1>8 DEF JobFits, HasRequest
<1>13. QueueIsExact(a)'
  <2>1. CASE pc'[a] = "claim" /\ job'[a] = [client |-> h] /\ queued'[a] = queued[a]
    BY <1>2, <1>3, <1>6, <2>1 DEF QueueIsExact, Taken
  <2>2. CASE pc'[a] = "scan" /\ job'[a] = NoJob /\ queued'[a] = queued[a] \ {h}
    BY <1>2, <1>3, <1>6, <2>2 DEF QueueIsExact, Taken
  <2>3. QED
    BY <1>8, <2>1, <2>2
<1>14. SilentPrewarm'
  BY <1>1 DEF LaneInv, SilentPrewarm
<1>15. QED
  BY <1>1, <1>6, <1>7, <1>9, <1>10, <1>11, <1>12, <1>13, <1>14, WorkInv
  DEF LaneInv, RequestsFit

\* The client is uncounted; a request in its slot becomes the job, of the endpoint that
\* leases the actor for it.
LEMMA ClaimInv ==
  ASSUME LaneInv, CoordinatorInv, NEW a \in Actor, Claim(a)
  PROVE  LaneInv'
<1> DEFINE c == job[a].client
           r == slot[c].request
<1>1. UNCHANGED <<lease, acquiring, deferred, thread, source, lastClient, client, pending,
                  newest, event, owed>> /\ CoordinatorTypeOK'
  BY DEF Claim, coordinatorVars, eventVars, LaneInv, LaneTypeOK, CoordinatorTypeOK
<1>2. /\ pending \in [Actor -> Seq(Client)] /\ queued \in [Actor -> SUBSET Client]
      /\ pc \in [Actor -> {"scan", "claim", "decode", "finish", "settle"}]
      /\ job \in [Actor -> Decoding \cup Settling \cup [client : Client \cup {NoClient}]]
      /\ slot \in [Client -> Command]
  BY DEF LaneInv, LaneTypeOK
<1>3. /\ pc[a] = "claim" /\ thread[a] = "running" /\ c \in Client /\ c # NoClient
      /\ IsInjective(pending[a]) /\ queued[a] = ToSet(pending[a]) \cup {c}
      /\ c \notin ToSet(pending[a])
  <2>1. pc[a] = "claim" /\ thread[a] = "running"
    BY DEF Claim, Running
  <2>2. c \in Client
    BY <2>1 DEF LaneInv, LoopShape
  <2>3. QED
    BY <2>1, <2>2 DEF LaneInv, QueueExact, Client, NoClient
<1>4. queued' = [queued EXCEPT ![a] = queued[a] \ {c}]
  BY DEF Claim
<1>5. slot' = IF Bound(a, c) THEN [slot EXCEPT ![c] = NoCommand] ELSE slot
  BY DEF Claim
<1> DEFINE Job(e) == [client |-> c, endpoint |-> e, request |-> r, target |-> r,
                      software |-> FALSE]
<1>6. \/ /\ Bound(a, c) /\ IsRequest(slot[c])
         /\ \E e \in Endpoint : client[e] = c /\ job' = [job EXCEPT ![a] = Job(e)]
         /\ pc' = [pc EXCEPT ![a] = "decode"]
      \/ DropJob(a)
  BY DEF Claim, Goto
<1> HIDE DEF c
<1>7. /\ slot' \in [Client -> Command]
      /\ \A d \in Client : slot'[d] # slot[d] => d = c
      /\ slot'[c] = slot[c] \/ slot'[c] = NoCommand
      /\ Bound(a, c) => slot'[c] = NoCommand
  BY <1>2, <1>3, <1>5, CommandFacts
<1>8. queued' \in [Actor -> SUBSET Client] /\ queued'[a] = ToSet(pending[a])
      /\ \A b \in Actor \ {a} : queued'[b] = queued[b]
  BY <1>2, <1>3, <1>4
<1>9. ~IsRequest(NoCommand)
  BY CommandFacts
<1>10. ASSUME NEW e \in Endpoint, client[e] = c, IsRequest(slot'[client[e]])
       PROVE  /\ Fits(e, slot'[client[e]].request)
              /\ slot'[client[e]].request.key = lease[e].request.key
  BY <1>3, <1>7, <1>9, <1>10 DEF LaneInv, RequestsFit
<1>11. ASSUME LaneTypeOK', \A b \in Actor \ {a} : pc'[b] = pc[b] /\ job'[b] = job[b],
              \A d \in Client : Serves(a, d)' => Serves(a, d), InLoop(a)', JobFits(a)',
              pc'[a] # "claim"
       PROVE  LaneInv'
  <2>1. QueueIsExact(a)'
    BY <1>1, <1>3, <1>8, <1>11 DEF QueueIsExact, Taken
  <2>2. SilentPrewarm'
    BY <1>1 DEF LaneInv, SilentPrewarm
  <2>3. c = job[a].client
    BY DEF c
  <2>4. QED
    BY <1>1, <1>7, <1>8, <1>10, <1>11, <2>1, <2>2, <2>3, WorkInv
<1>12. CASE DropJob(a)
  <2>1. /\ job' = [job EXCEPT ![a] = NoJob] /\ pc' = [pc EXCEPT ![a] = "scan"]
        /\ job'[a] = NoJob /\ pc'[a] = "scan"
        /\ \A b \in Actor \ {a} : pc'[b] = pc[b] /\ job'[b] = job[b]
    BY <1>2, <1>12 DEF DropJob, Goto
  <2>2. NoJob \in [client : Client \cup {NoClient}] /\ NoJob.client \notin Client
    BY DEF NoJob, NoClient, Client
  <2>3. LaneTypeOK'
    BY <1>1, <1>2, <1>7, <1>8, <2>1, <2>2 DEF LaneInv, LaneTypeOK
  <2>4. \A d \in Client : Serves(a, d)' => Serves(a, d)
    BY <1>1, <2>1, <2>2 DEF Serves
  <2>5. InLoop(a)' /\ JobFits(a)'
    BY <1>1, <1>3, <2>1 DEF InLoop, JobFits, HasRequest
  <2>6. QED
    BY <1>11, <2>1, <2>3, <2>4, <2>5
<1>13. ASSUME Bound(a, c), IsRequest(slot[c]), NEW e \in Endpoint, client[e] = c,
              job' = [job EXCEPT ![a] = Job(e)], pc' = [pc EXCEPT ![a] = "decode"]
       PROVE  LaneInv'
  <2> DEFINE j == Job(e)
  <2>1. r \in Request
    BY <1>2, <1>3, <1>13, CommandFacts
  <2>2. /\ j \in Decoding /\ j.client = c /\ j.endpoint = e /\ j.request = r /\ j.target = r
    BY <1>3, <2>1 DEF Decoding
  <2> HIDE DEF j, r
  <2>3. /\ job'[a] = j /\ pc'[a] = "decode"
        /\ \A b \in Actor \ {a} : pc'[b] = pc[b] /\ job'[b] = job[b]
    BY <1>2, <1>13 DEF j
  <2>4. LaneTypeOK'
    <3>1. job' \in [Actor -> Decoding \cup Settling \cup [client : Client \cup {NoClient}]]
      BY <1>2, <1>13, <2>2 DEF j
    <3>2. pc' \in [Actor -> {"scan", "claim", "decode", "finish", "settle"}]
      BY <1>2, <1>13
    <3>3. QED
      BY <1>1, <1>2, <1>7, <1>8, <3>1, <3>2 DEF LaneInv, LaneTypeOK
  <2>5. \A d \in Client : Serves(a, d)' => Serves(a, d)
    BY <1>1, <2>2, <2>3 DEF Serves, c
  <2>6. InLoop(a)'
    BY <1>1, <1>3, <2>2, <2>3 DEF InLoop
  <2>7. PICK f \in Endpoint : client[f] = c /\ lease[f].actor = a
    BY <1>13 DEF Bound
  <2>8. f = e
    BY <1>3, <1>13, <2>7 DEF LaneInv, ClientsOfLeases
  <2>9. lease[e].actor # NoActor
    BY <2>7, <2>8, CoordinatorConstants
  <2>10. source[a] = [key |-> lease[e].request.key, lane |-> LaneOf(e)]
    BY <2>7, <2>8, <2>9, LeasedActorFacts
  <2>11. Fits(e, r) /\ r.key = lease[e].request.key
    BY <1>3, <1>13 DEF LaneInv, RequestsFit, r
  <2>12. \A g \in Endpoint : client[g] = c => g = e
    BY <1>3, <1>13 DEF LaneInv, ClientsOfLeases
  <2>13. slot'[c] = NoCommand
    BY <1>7, <1>13
  <2>14. JobFits(a)'
    BY <1>1, <1>9, <2>2, <2>3, <2>10, <2>11, <2>12, <2>13
    DEF JobFits, HasRequest, Suits, AsVisible, Fits
  <2>15. QED
    BY <1>11, <2>3, <2>4, <2>5, <2>6, <2>14
<1>14. QED
  BY <1>6, <1>12, <1>13

\* The outcome waits for the slot to be emptied, or goes with the lease.
LEMMA FinishInv ==
  ASSUME LaneInv, NEW a \in Actor, Finish(a)
  PROVE  LaneInv'
<1> DEFINE c == job[a].client
           j == [job[a] EXCEPT !.command = slot[c]]
<1>1. UNCHANGED <<lease, acquiring, deferred, thread, source, lastClient, client, pending,
                  queued, newest, event, owed>> /\ CoordinatorTypeOK'
  BY DEF Finish, coordinatorVars, eventVars, queueVars, LaneInv, LaneTypeOK, CoordinatorTypeOK
<1>2. /\ pc \in [Actor -> {"scan", "claim", "decode", "finish", "settle"}]
      /\ job \in [Actor -> Decoding \cup Settling \cup [client : Client \cup {NoClient}]]
      /\ slot \in [Client -> Command]
  BY DEF LaneInv, LaneTypeOK
<1>3. pc[a] = "finish" /\ thread[a] = "running" /\ HasRequest(a)
  BY DEF Finish, Running, HasRequest
<1>4. c \in Client /\ job[a] \in Settling
  BY <1>3, JobFacts
<1>6. IsInjective(pending[a]) /\ queued[a] = ToSet(pending[a])
  BY <1>3 DEF LaneInv, QueueExact
<1>7. SilentPrewarm'
  BY <1>1 DEF LaneInv, SilentPrewarm
<1>8. CASE DropJob(a) /\ slot' = slot
  <2>1. /\ job' = [job EXCEPT ![a] = NoJob] /\ pc' = [pc EXCEPT ![a] = "scan"]
        /\ job'[a] = NoJob /\ pc'[a] = "scan"
        /\ \A b \in Actor \ {a} : pc'[b] = pc[b] /\ job'[b] = job[b]
    BY <1>2, <1>8 DEF DropJob, Goto
  <2>2. NoJob \in [client : Client \cup {NoClient}] /\ NoJob.client \notin Client
    BY DEF NoJob, NoClient, Client
  <2>3. LaneTypeOK'
    BY <1>1, <1>2, <1>8, <2>1, <2>2 DEF LaneInv, LaneTypeOK
  <2>4. \A d \in Client : Serves(a, d)' => Serves(a, d)
    BY <1>1, <2>1, <2>2 DEF Serves
  <2>5. InLoop(a)' /\ JobFits(a)' /\ QueueIsExact(a)'
    BY <1>1, <1>3, <1>6, <2>1 DEF InLoop, JobFits, HasRequest, QueueIsExact, Taken
  <2>6. QED
    BY <1>1, <1>7, <1>8, <2>1, <2>3, <2>4, <2>5, WorkInv DEF LaneInv, RequestsFit
<1>9. CASE /\ job' = [job EXCEPT ![a].command = slot[c]]
           /\ slot' = [slot EXCEPT ![c] = NoCommand]
           /\ Goto(a, "settle")
  <2>1. /\ j \in Settling /\ j.client = c /\ j.endpoint = job[a].endpoint
        /\ j.request = job[a].request /\ j.outcome = job[a].outcome /\ j.command = slot[c]
    BY <1>2, <1>4 DEF Settling
  <2> HIDE DEF j
  <2>2. job' = [job EXCEPT ![a] = j]
    BY <1>9 DEF j
  <2>3. /\ job'[a] = j /\ pc'[a] = "settle"
        /\ \A b \in Actor \ {a} : pc'[b] = pc[b] /\ job'[b] = job[b]
    BY <1>2, <1>9, <2>2 DEF Goto
  <2>4. slot' \in [Client -> Command] /\ slot'[c] = NoCommand
        /\ \A d \in Client : slot'[d] # slot[d] => d = c
    BY <1>2, <1>4, <1>9, CommandFacts
  <2>5. ~IsRequest(NoCommand)
    BY CommandFacts
  <2>6. LaneTypeOK'
    <3>1. pc' \in [Actor -> {"scan", "claim", "decode", "finish", "settle"}]
      BY <1>2, <1>9 DEF Goto
    <3>2. job' \in [Actor -> Decoding \cup Settling \cup [client : Client \cup {NoClient}]]
      BY <1>2, <2>1, <2>2
    <3>3. QED
      BY <1>1, <2>4, <3>1, <3>2 DEF LaneInv, LaneTypeOK
  <2>7. \A d \in Client : Serves(a, d)' => Serves(a, d)
    BY <1>1, <2>1, <2>3 DEF Serves
  <2>8. InLoop(a)' /\ QueueIsExact(a)'
    BY <1>1, <1>3, <1>6, <2>1, <2>3 DEF InLoop, QueueIsExact, Taken
  <2>9. JobFits(a)
    BY DEF LaneInv, JobsFit, JobFits
  <2>10. JobFits(a)'
    BY <1>1, <1>3, <2>1, <2>3, <2>4, <2>5, <2>9 DEF JobFits, HasRequest, Suits, AsVisible, Fits
  <2>11. QED
    BY <1>1, <1>7, <2>3, <2>4, <2>5, <2>6, <2>7, <2>8, <2>10, WorkInv
<1>10. QED
  BY <1>8, <1>9 DEF Finish

\* A settled job leaves the slot and the queue alone, or puts a request back that suits it.
LEMMA SettledInv ==
  ASSUME LaneInv, CoordinatorInv, NEW a \in Actor, Running(a, "settle"), DropJob(a),
         UNCHANGED <<coordinatorVars, lastClient, client>>,
         newest' \in [Decoder -> 0..MaxRequest],
         event' \in [Decoder -> Request \cup {NoRequest}],
         owed' \in [Endpoint -> 0..MaxRequest],
         SilentPrewarm',
         \/ UNCHANGED <<slot, queueVars>>
         \/ \E r \in Request : Suits(a, r) /\ Restore(a, r)
  PROVE  LaneInv'
<1> DEFINE c == job[a].client
<1>1. UNCHANGED <<lease, acquiring, deferred, thread, source, lastClient, client>>
      /\ CoordinatorTypeOK'
  BY DEF coordinatorVars, LaneInv, LaneTypeOK, CoordinatorTypeOK
<1>2. /\ pc \in [Actor -> {"scan", "claim", "decode", "finish", "settle"}]
      /\ job \in [Actor -> Decoding \cup Settling \cup [client : Client \cup {NoClient}]]
      /\ slot \in [Client -> Command]
      /\ pending \in [Actor -> Seq(Client)] /\ queued \in [Actor -> SUBSET Client]
  BY DEF LaneInv, LaneTypeOK
<1>3. pc[a] = "settle" /\ thread[a] = "running" /\ HasRequest(a)
  BY DEF Running, HasRequest
<1>4. c \in Client
  BY <1>3, JobFacts
<1>5. Taken(a) = {}
  BY <1>3 DEF Taken
<1>6. /\ job' = [job EXCEPT ![a] = NoJob] /\ pc' = [pc EXCEPT ![a] = "scan"]
      /\ job'[a] = NoJob /\ pc'[a] = "scan"
      /\ \A b \in Actor \ {a} : pc'[b] = pc[b] /\ job'[b] = job[b]
  BY <1>2 DEF DropJob, Goto
<1>7. NoJob \in [client : Client \cup {NoClient}] /\ NoJob.client \notin Client
  BY DEF NoJob, NoClient, Client
<1>8. InLoop(a)' /\ JobFits(a)'
  BY <1>1, <1>3, <1>6 DEF InLoop, JobFits, HasRequest
<1>9. ASSUME slot' \in [Client -> Command], \A d \in Client : slot'[d] # slot[d] => d = c,
             pending' \in [Actor -> Seq(Client)], queued' \in [Actor -> SUBSET Client],
             \A b \in Actor \ {a} : pending'[b] = pending[b] /\ queued'[b] = queued[b],
             ToSet(pending'[a]) \subseteq ToSet(pending[a]) \cup {c},
             IsInjective(pending'[a]), queued'[a] = ToSet(pending'[a]),
             \A e \in Endpoint : client[e] # NoClient /\ client[e] = c
                                   /\ IsRequest(slot'[client[e]]) =>
               /\ Fits(e, slot'[client[e]].request)
               /\ slot'[client[e]].request.key = lease[e].request.key
      PROVE  LaneInv'
  <2>1. LaneTypeOK'
    <3>1. job' \in [Actor -> Decoding \cup Settling \cup [client : Client \cup {NoClient}]]
      BY <1>2, <1>6, <1>7
    <3>2. pc' \in [Actor -> {"scan", "claim", "decode", "finish", "settle"}]
      BY <1>2, <1>6
    <3>3. QED
      BY <1>1, <1>9, <3>1, <3>2 DEF LaneInv, LaneTypeOK
  <2>2. \A d \in Client : Serves(a, d)' => Serves(a, d)
    BY <1>1, <1>6, <1>7, <1>9 DEF Serves
  <2>3. QueueIsExact(a)'
    BY <1>6, <1>9 DEF QueueIsExact, Taken
  <2>4. QED
    BY <1>1, <1>6, <1>8, <1>9, <2>1, <2>2, <2>3, WorkInv
<1>10. CASE UNCHANGED <<slot, queueVars>>
  <2>1. UNCHANGED <<slot, pending, queued>>
    BY <1>10 DEF queueVars
  <2>2. IsInjective(pending[a]) /\ queued[a] = ToSet(pending[a])
    BY <1>3 DEF LaneInv, QueueExact
  <2>3. \A e \in Endpoint : client[e] # NoClient /\ IsRequest(slot[client[e]]) =>
           /\ Fits(e, slot[client[e]].request)
           /\ slot[client[e]].request.key = lease[e].request.key
    BY DEF LaneInv, RequestsFit
  <2>4. QED
    BY <1>2, <1>9, <2>1, <2>2, <2>3
<1>11. ASSUME NEW r \in Request, Suits(a, r), Restore(a, r)
       PROVE  LaneInv'
  <2>1. slot' = [slot EXCEPT ![c] = RequestCommand(r)] /\ Enqueue(a, c)
    BY <1>11 DEF Restore
  <2>2. /\ pending' \in [Actor -> Seq(Client)] /\ queued' \in [Actor -> SUBSET Client]
        /\ \A b \in Actor \ {a} : pending'[b] = pending[b] /\ queued'[b] = queued[b]
        /\ IsInjective(pending'[a])
        /\ ToSet(pending'[a]) \subseteq ToSet(pending[a]) \cup {c}
        /\ queued'[a] = ToSet(pending'[a]) \cup Taken(a)
    BY <1>4, <2>1, EnqueueFacts
  <2>3. /\ slot' \in [Client -> Command] /\ slot'[c] = RequestCommand(r)
        /\ \A d \in Client : slot'[d] # slot[d] => d = c
    BY <1>2, <1>4, <2>1, CommandFacts
  <2>4. RequestCommand(r).request = r
    BY CommandFacts
  <2>5. ASSUME NEW e \in Endpoint, client[e] = c
        PROVE  Fits(e, r) /\ r.key = lease[e].request.key
    <3>1. e = job[a].endpoint /\ lease[e].request.key = job[a].request.key
      BY <1>3, <2>5, HandFacts
    <3>2. QED
      BY <1>11, <3>1 DEF Suits
  <2>6. QED
    BY <1>5, <1>9, <2>2, <2>3, <2>4, <2>5
<1>12. QED
  BY <1>10, <1>11

\* What the slot held when it was emptied decides what becomes of the outcome.
LEMMA SettleInv ==
  ASSUME LaneInv, CoordinatorInv, NEW a \in Actor, Settle(a)
  PROVE  LaneInv'
<1>1. /\ Running(a, "settle") /\ DropJob(a) /\ UNCHANGED <<coordinatorVars, lastClient, client>>
      /\ HasRequest(a) /\ pc[a] = "settle"
  BY DEF Settle, Running, HasRequest
<1>2. /\ job[a].request \in Request /\ job[a].endpoint \in Endpoint
      /\ job[a].command \in Command /\ job[a].outcome \in Outcome
      /\ Fits(job[a].endpoint, job[a].request)
      /\ IsRequest(job[a].command) => Suits(a, job[a].command.request)
      /\ job[a].outcome.kind = "event" => AsVisible(a, job[a].outcome.request)
  BY <1>1, JobFacts DEF LaneInv, JobsFit
<1> DEFINE Quiet == /\ newest' \in [Decoder -> 0..MaxRequest]
                    /\ event' \in [Decoder -> Request \cup {NoRequest}]
                    /\ owed' \in [Endpoint -> 0..MaxRequest]
                    /\ SilentPrewarm'
           Stays == UNCHANGED <<slot, queueVars>>
           Back == \E r \in Request : Suits(a, r) /\ Restore(a, r)
<1>3. ASSUME UNCHANGED eventVars
      PROVE  Quiet
  BY <1>3 DEF eventVars, LaneInv, LaneTypeOK, SilentPrewarm
<1>4. ASSUME PublishOutcome(a)
      PROVE  Quiet
  <2>1. CASE job[a].outcome.kind = "event" /\ ~job[a].request.speculative
    <3>1. /\ job[a].outcome.request \in Request /\ ~job[a].outcome.request.speculative
          /\ DecoderOf[job[a].endpoint] \in Decoder
      BY <1>2, <2>1, CommandFacts, LaneConstants DEF AsVisible
    <3>2. Publish(DecoderOf[job[a].endpoint], job[a].outcome.request)
      BY <1>4, <2>1 DEF PublishOutcome
    <3>3. QED
      BY <3>1, <3>2, PublishFacts
  <2>2. QED
    BY <1>3, <1>4, <2>1 DEF PublishOutcome
<1>5. ASSUME IsRequest(job[a].command)
      PROVE  job[a].command.request \in Request /\ Suits(a, job[a].command.request)
  BY <1>2, <1>5, CommandFacts
<1>6. Suits(a, job[a].request)
  BY <1>2 DEF Suits
<1>7. Quiet /\ (Stays \/ Back)
  <2>1. CASE IsRequest(job[a].command) /\ SettleCoalesced(a, job[a].command.request)
    BY <1>4, <1>5, <2>1 DEF SettleCoalesced
  <2>2. CASE IsRequest(job[a].command) /\ SettleSuperseded(a, job[a].command.request)
    BY <1>3, <1>5, <2>2 DEF SettleSuperseded
  <2>3. CASE SettleUndisturbed(a)
    BY <1>2, <1>3, <1>4, <1>6, <2>3 DEF SettleUndisturbed
  <2>4. CASE UNCHANGED <<slot, queueVars, eventVars>>
    BY <1>3, <2>4
  <2>5. QED
    BY <2>1, <2>2, <2>3, <2>4 DEF Settle
<1>8. QED
  BY <1>1, <1>7, SettledInv

\* An actor that leaves has nothing in hand, and takes its queue along.
LEMMA LeaveInv ==
  ASSUME LaneInv, CoordinatorTypeOK', NEW a \in Actor, Leave(a)
  PROVE  LaneInv'
<1>1. /\ UNCHANGED <<lease, acquiring, deferred, source, lastClient, client, slot, pc, job,
                     newest, event, owed>>
      /\ pc[a] = "scan" /\ thread' = [thread EXCEPT ![a] = "ended"]
      /\ pending' = [pending EXCEPT ![a] = <<>>]
      /\ queued' = [queued EXCEPT ![a] = {}]
  BY DEF Leave, Running, ExitActor, leaseVars, workVars, eventVars, registry, control
<1>2. /\ pending \in [Actor -> Seq(Client)] /\ queued \in [Actor -> SUBSET Client]
      /\ thread \in [Actor -> {"none", "running", "ended"}]
  BY DEF LaneInv, LaneTypeOK, CoordinatorTypeOK
<1>3. /\ pending'[a] = <<>> /\ queued'[a] = {}
      /\ \A b \in Actor \ {a} : /\ pending'[b] = pending[b] /\ queued'[b] = queued[b]
                                /\ thread'[b] = thread[b]
      /\ pending' \in [Actor -> Seq(Client)] /\ queued' \in [Actor -> SUBSET Client]
  BY <1>1, <1>2
<1>4. ToSet(<<>>) = {} /\ IsInjective(<<>>)
  BY DEF ToSet, IsInjective
<1>5. LaneTypeOK'
  BY <1>1, <1>3 DEF LaneInv, LaneTypeOK
<1>6. LoopShape'
  BY <1>1, <1>3 DEF LaneInv, LoopShape
<1>7. ClientsOfLeases'
  BY <1>1 DEF LaneInv, ClientsOfLeases
<1>8. OneServer'
  <2>1. ASSUME NEW b \in Actor, NEW d \in Client, Serves(b, d)'
        PROVE  Serves(b, d)
    BY <1>1, <1>3, <1>4, <2>1 DEF Serves
  <2>2. QED
    BY <1>1, <2>1, SameServers DEF LaneInv, LaneTypeOK
<1>9. RequestsFit' /\ SilentPrewarm'
  BY <1>1 DEF LaneInv, RequestsFit, Fits, SilentPrewarm
<1>10. JobsFit'
  BY <1>1 DEF LaneInv, JobsFit, HasRequest, Suits, AsVisible, Fits
<1>11. QueueExact'
  BY <1>1, <1>3, <1>4 DEF LaneInv, QueueExact
<1>12. QED
  BY <1>5, <1>6, <1>7, <1>8, <1>9, <1>10, <1>11 DEF LaneInv

\* The reaper joins a thread that is out of its loop, with nothing in hand.
LEMMA LaneReapInv ==
  ASSUME LaneInv, CoordinatorTypeOK', LaneReap
  PROVE  LaneInv'
<1> DEFINE h == Head(joinQueue)
<1>1. /\ UNCHANGED <<lease, acquiring, deferred, lastClient, client, slot, pending, queued,
                     pc, job, newest, event, owed>>
      /\ thread[h] = "ended" /\ thread' = [thread EXCEPT ![h] = "none"]
      /\ source' = [source EXCEPT ![h] = NoSource]
  BY DEF LaneReap, Reap, leaseVars, queueVars, workVars, eventVars, registry, control
<1>2. /\ thread \in [Actor -> {"none", "running", "ended"}]
      /\ source \in [Actor -> Source \cup {NoSource}]
  BY DEF LaneInv, LaneTypeOK, CoordinatorTypeOK
<1> HIDE DEF h
<1>3. \A b \in Actor : /\ thread'[b] = thread[b] \/ (b = h /\ thread'[b] = "none")
                       /\ thread[b] = "running" => thread'[b] = "running" /\ source'[b] = source[b]
  BY <1>1, <1>2
<1>4. LaneTypeOK'
  BY <1>1 DEF LaneInv, LaneTypeOK
<1>5. LoopShape'
  BY <1>1, <1>3 DEF LaneInv, LoopShape
<1>6. ClientsOfLeases' /\ OneServer' /\ QueueExact'
  BY <1>1 DEF LaneInv, ClientsOfLeases, OneServer, Serves, QueueExact
<1>7. RequestsFit' /\ SilentPrewarm'
  BY <1>1 DEF LaneInv, RequestsFit, Fits, SilentPrewarm
<1>8. JobsFit'
  <2>1. \A b \in Actor : HasRequest(b) => source'[b] = source[b]
    BY <1>3, JobFacts
  <2>2. QED
    BY <1>1, <2>1 DEF LaneInv, JobsFit, HasRequest, Suits, AsVisible, Fits
<1>9. QED
  BY <1>4, <1>5, <1>6, <1>7, <1>8 DEF LaneInv

-----------------------------------------------------------------------------
(* The steps together *)

\* A request on an endpoint, new or retried: it goes to the lease, or waits for acquire while
\* the old lease is given up.
LEMMA SendInv ==
  ASSUME LaneInv, CoordinatorInv, CoordinatorTypeOK', NEW e \in Endpoint, NEW r \in Request,
         Fits(e, r), NEW full \in BOOLEAN, Send(e, r, full), SendOnLease(e, r),
         owed' \in [Endpoint -> 0..MaxRequest], UNCHANGED <<workVars, newest, event>>
  PROVE  LaneInv'
<1>1. /\ acquiring \in [Endpoint -> Request \cup {NoRequest}]
      /\ deferred \in [Endpoint -> Request \cup {NoRequest}]
      /\ lease \in [Endpoint -> Lease \cup {NoLease}]
      /\ \A f \in Endpoint : /\ acquiring[f] # NoRequest => Fits(f, acquiring[f])
                             /\ deferred[f] # NoRequest => Fits(f, deferred[f])
                             /\ lease[f].actor # NoActor => Fits(f, lease[f].request)
  BY DEF LaneInv, LaneTypeOK, CoordinatorTypeOK, RequestsFit
<1>2. UNCHANGED <<thread, source, pc, job, newest, event>>
  BY DEF Send, workVars
<1>3. CASE LeasesSource(e, r.key)
  <2>1. /\ lease' = [lease EXCEPT ![e].request = r] /\ acquiring' = acquiring
        /\ \E d \in {r, NoRequest} : deferred' = [deferred EXCEPT ![e] = d]
    BY <1>3 DEF Send, SendReusing, SendAcquiring
  <2>2. /\ slot' = [slot EXCEPT ![client[e]] = RequestCommand(r)]
        /\ Enqueue(lease[e].actor, client[e])
        /\ UNCHANGED <<lastClient, client>>
    BY <1>3 DEF SendOnLease
  <2>3. /\ lease[e].actor # NoActor /\ lease[e].request.key = r.key /\ lease[e] \in Lease
    BY <1>1, <1>3 DEF LeasesSource, NoLease
  <2>4. /\ lease'[e].actor = lease[e].actor /\ lease'[e].request = r
        /\ \A f \in Endpoint \ {e} : lease'[f] = lease[f]
    BY <1>1, <2>1, <2>3 DEF Lease
  <2>5. \A f \in Endpoint : deferred'[f] # NoRequest => Fits(f, deferred'[f])
    BY <1>1, <2>1
  <2>6. /\ RequestCommand(r) \in Command /\ RequestCommand(r).request = r
    BY CommandFacts
  <2>7. /\ \A f \in Endpoint : lease'[f].actor = lease[f].actor
        /\ \A f \in Endpoint : lease[f].actor # NoActor =>
             Fits(f, lease'[f].request) /\ lease'[f].request.key = lease[f].request.key
    BY <1>1, <2>3, <2>4
  <2>8. QED
    BY <1>1, <1>2, <2>1, <2>2, <2>3, <2>5, <2>6, <2>7, SubmitInv
<1>4. CASE ~LeasesSource(e, r.key)
  <2>1. /\ lease' = Without(e) /\ deferred' = deferred
        /\ acquiring' = [acquiring EXCEPT ![e] = r]
    BY <1>4 DEF Send, SendReusing, SendAcquiring, GiveUpLease
  <2>2. Dismiss(e) /\ UNCHANGED <<pending, queued>>
    BY <1>4 DEF SendOnLease, queueVars
  <2>3. \A f \in Endpoint : /\ acquiring'[f] # NoRequest => Fits(f, acquiring'[f])
                            /\ deferred'[f] # NoRequest => Fits(f, deferred'[f])
    BY <1>1, <2>1
  <2>4. QED
    BY <1>2, <2>1, <2>2, <2>3, DismissInv
<1>5. QED
  BY <1>3, <1>4

\* The acquire half of a call: a lease with a client of its own, or a refusal.
LEMMA LaneAcquireInv ==
  ASSUME LaneInv, CoordinatorInv, CoordinatorTypeOK', NEW e \in Endpoint, LaneAcquire(e)
  PROVE  LaneInv'
<1> DEFINE r == acquiring[e]
<1>1. /\ r # NoRequest /\ lastClient < MaxClient /\ UNCHANGED <<pc, job>>
      /\ acquiring \in [Endpoint -> Request \cup {NoRequest}] /\ r \in Request /\ Fits(e, r)
      /\ deferred \in [Endpoint -> Request \cup {NoRequest}]
      /\ \A f \in Endpoint : /\ acquiring[f] # NoRequest => Fits(f, acquiring[f])
                             /\ deferred[f] # NoRequest => Fits(f, deferred[f])
      /\ lease[e] = NoLease /\ NoLease.actor = NoActor
  BY DEF LaneAcquire, workVars, LaneInv, LaneTypeOK, CoordinatorTypeOK, RequestsFit,
         CoordinatorInv, Ownership, NoLease
<1>2. PICK full \in BOOLEAN : Acquire(e, full)
  <2> DEFINE shared == Indexed(e, r)
             f == shared # NoActor /\ QueueFull(shared, lastClient + 1)
  <2>1. Acquire(e, f) /\ f \in BOOLEAN
    BY DEF LaneAcquire
  <2>2. QED
    BY <2>1
<1>3. acquiring' = [acquiring EXCEPT ![e] = NoRequest]
  BY <1>2 DEF Acquire
<1>4. ASSUME NEW d \in {r, NoRequest}, deferred' = [deferred EXCEPT ![e] = d]
      PROVE  \A f \in Endpoint : /\ acquiring'[f] # NoRequest => Fits(f, acquiring'[f])
                                 /\ deferred'[f] # NoRequest => Fits(f, deferred'[f])
  BY <1>1, <1>3, <1>4
<1>5. \E d \in {r, NoRequest} : deferred' = [deferred EXCEPT ![e] = d]
  BY <1>2 DEF Acquire, AcquireRefused, AcquireExisting, AcquireSpawned, AcquireFailed
<1>6. \A f \in Endpoint : /\ acquiring'[f] # NoRequest => Fits(f, acquiring'[f])
                          /\ deferred'[f] # NoRequest => Fits(f, deferred'[f])
  BY <1>4, <1>5
<1>7. CASE AcquireRefused(e, r) \/ AcquireFailed(e, r)
  <2>1. UNCHANGED <<lease, thread, source>>
    BY <1>7 DEF AcquireRefused, AcquireFailed
  <2>2. /\ UNCHANGED <<leaseVars, queueVars>>
        /\ PublishVisible(e, r) \/ UNCHANGED eventVars
    BY <1>1, <2>1 DEF LaneAcquire
  <2>3. /\ newest' \in [Decoder -> 0..MaxRequest] /\ owed' \in [Endpoint -> 0..MaxRequest]
        /\ event' \in [Decoder -> Request \cup {NoRequest}] /\ SilentPrewarm'
    <3>1. CASE UNCHANGED eventVars
      BY <3>1 DEF eventVars, LaneInv, LaneTypeOK, SilentPrewarm
    <3>2. CASE ~r.speculative /\ Publish(DecoderOf[e], r)
      BY <1>1, <3>2, PublishFacts, LaneConstants
    <3>3. QED
      BY <2>2, <3>1, <3>2 DEF PublishVisible
  <2>4. UNCHANGED <<lastClient, client, slot, pending, queued, pc, job>>
    BY <1>1, <2>2 DEF leaseVars, queueVars
  <2>5. QED
    BY <1>6, <2>1, <2>3, <2>4, EventInv
<1>8. ASSUME NEW a \in Actor, Leased(e, a, r), thread'[a] = "running",
             \A b \in Actor : thread[b] = "running" => thread'[b] = "running",
             \A b \in Actor : thread[b] = "running" => source'[b] = source[b]
      PROVE  LaneInv'
  <2>1. lease'[e].actor = a /\ a # NoActor
    BY <1>8, CoordinatorConstants DEF Leased, LaneInv, LaneTypeOK, CoordinatorTypeOK
  <2>2. /\ lastClient' = lastClient + 1
        /\ client' = [client EXCEPT ![e] = lastClient + 1]
        /\ slot' = [slot EXCEPT ![lastClient + 1] = RequestCommand(r)]
        /\ Enqueue(a, lastClient + 1)
        /\ UNCHANGED <<newest, event, owed>>
    BY <2>1 DEF LaneAcquire, eventVars
  <2>3. QED
    BY <1>1, <1>6, <1>8, <2>2, LeaseInv
<1>9. CASE AcquireExisting(e, r, full)
  <2> DEFINE a == Indexed(e, r)
  <2>1. Leased(e, a, r) /\ UNCHANGED <<thread, source>> /\ a # NoActor
    BY <1>9 DEF AcquireExisting
  <2>2. a \in Live
    BY <1>1, <2>1, RequestFacts DEF CoordinatorInv, Ownership, Indexed, LaneOf, Lane
  <2>3. a \in Actor /\ thread[a] = "running"
    BY <2>2 DEF CoordinatorInv, LeasedActorRuns, Live
  <2>4. QED
    BY <1>8, <2>1, <2>3
<1>10. CASE AcquireSpawned(e, r)
  <2>1. PICK a \in Actor :
          /\ thread[a] = "none" /\ thread' = [thread EXCEPT ![a] = "running"]
          /\ source' = [source EXCEPT ![a] = [key |-> r.key, lane |-> LaneOf(e)]]
          /\ Leased(e, a, r)
    BY <1>10 DEF AcquireSpawned
  <2>2. /\ thread \in [Actor -> {"none", "running", "ended"}]
        /\ source \in [Actor -> Source \cup {NoSource}]
    BY DEF LaneInv, LaneTypeOK, CoordinatorTypeOK
  <2>3. /\ thread'[a] = "running"
        /\ \A b \in Actor : thread[b] = "running" =>
             thread'[b] = "running" /\ source'[b] = source[b]
    BY <2>1, <2>2
  <2>4. QED
    BY <1>8, <2>1, <2>3
<1>11. QED
  BY <1>2, <1>7, <1>9, <1>10 DEF Acquire

\* The other calls: the lease is told to cancel, or given up.
LEMMA OtherCallInv ==
  ASSUME LaneInv, CoordinatorInv, CoordinatorTypeOK', NEW e \in Endpoint,
         LaneCancel(e) \/ LaneRelease(e) \/ LaneDefer(e) \/ LaneReleaseSpeculative(e)
  PROVE  LaneInv'
<1>1. /\ acquiring \in [Endpoint -> Request \cup {NoRequest}]
      /\ deferred \in [Endpoint -> Request \cup {NoRequest}]
      /\ owed \in [Endpoint -> 0..MaxRequest] /\ 0 \in 0..MaxRequest
      /\ newest \in [Decoder -> 0..MaxRequest]
      /\ event \in [Decoder -> Request \cup {NoRequest}]
      /\ \A f \in Endpoint : /\ acquiring[f] # NoRequest => Fits(f, acquiring[f])
                             /\ deferred[f] # NoRequest => Fits(f, deferred[f])
                             /\ lease[f].actor # NoActor => Fits(f, lease[f].request)
  BY CoordinatorConstants DEF LaneInv, LaneTypeOK, CoordinatorTypeOK, RequestsFit
<1>2. CASE LaneCancel(e)
  <2>1. /\ UNCHANGED <<lease, acquiring, thread, source, lastClient, client, pc, job, newest, event>>
        /\ deferred' = [deferred EXCEPT ![e] = NoRequest]
        /\ owed' = [owed EXCEPT ![e] = 0]
    BY <1>2 DEF LaneCancel, CancelPending, workVars
  <2>2. \A f \in Endpoint : /\ acquiring'[f] # NoRequest => Fits(f, acquiring'[f])
                            /\ deferred'[f] # NoRequest => Fits(f, deferred'[f])
    BY <1>1, <2>1
  <2>3. owed' \in [Endpoint -> 0..MaxRequest]
    BY <1>1, <2>1
  <2>4. CASE client[e] = NoClient
    <3>1. UNCHANGED <<slot, pending, queued>>
      BY <1>2, <2>4 DEF LaneCancel, queueVars
    <3>2. SilentPrewarm'
      BY <2>1 DEF LaneInv, SilentPrewarm
    <3>3. QED
      BY <1>1, <2>1, <2>2, <2>3, <3>1, <3>2, EventInv
  <2>5. CASE client[e] # NoClient
    <3>1. slot' = [slot EXCEPT ![client[e]] = Cancel] /\ Enqueue(lease[e].actor, client[e])
      BY <1>2, <2>5 DEF LaneCancel
    <3>2. lease[e].actor # NoActor
      BY <2>5 DEF LaneInv, ClientsOfLeases
    <3>3. Cancel \in Command /\ ~IsRequest(Cancel)
      BY CommandFacts
    <3>4. QED
      BY <1>1, <2>1, <2>2, <2>3, <3>1, <3>2, <3>3, SubmitInv
  <2>6. QED
    BY <2>4, <2>5
<1>3. CASE LaneRelease(e)
  <2>1. /\ UNCHANGED <<acquiring, deferred, thread, source, pending, queued, pc, job, newest, event>>
        /\ lease' = Without(e) /\ Dismiss(e) /\ owed' = [owed EXCEPT ![e] = 0]
    BY <1>3 DEF LaneRelease, ReleaseLive, GiveUpLease, queueVars, workVars
  <2>2. owed' \in [Endpoint -> 0..MaxRequest]
    BY <1>1, <2>1
  <2>3. \A f \in Endpoint : /\ acquiring'[f] # NoRequest => Fits(f, acquiring'[f])
                            /\ deferred'[f] # NoRequest => Fits(f, deferred'[f])
    BY <1>1, <2>1
  <2>4. QED
    BY <2>1, <2>2, <2>3, DismissInv
<1>4. CASE LaneDefer(e)
  <2>1. /\ UNCHANGED <<acquiring, thread, source, pending, queued, pc, job, newest, event, owed>>
        /\ lease' = Without(e) /\ Dismiss(e) /\ lease[e].actor # NoActor
        /\ deferred' = [deferred EXCEPT ![e] = lease[e].request]
    BY <1>4 DEF LaneDefer, DeferLive, GiveUpLease, queueVars, workVars, eventVars
  <2>2. \A f \in Endpoint : /\ acquiring'[f] # NoRequest => Fits(f, acquiring'[f])
                            /\ deferred'[f] # NoRequest => Fits(f, deferred'[f])
    BY <1>1, <2>1
  <2>3. QED
    BY <1>1, <2>1, <2>2, DismissInv
<1>5. CASE LaneReleaseSpeculative(e)
  <2>1. /\ UNCHANGED <<acquiring, thread, source, pending, queued, pc, job, newest, event, owed>>
        /\ \E d \in {NoRequest, deferred[e]} : deferred' = [deferred EXCEPT ![e] = d]
    BY <1>5 DEF LaneReleaseSpeculative, ReleaseSpeculative, queueVars, workVars, eventVars
  <2>2. \A f \in Endpoint : /\ acquiring'[f] # NoRequest => Fits(f, acquiring'[f])
                            /\ deferred'[f] # NoRequest => Fits(f, deferred'[f])
    BY <1>1, <2>1
  <2>3. CASE SpeculativeLease(e)
    <3>1. lease' = Without(e) /\ Dismiss(e)
      BY <1>5, <2>3 DEF LaneReleaseSpeculative, ReleaseSpeculative, GiveUpLease
    <3>2. QED
      BY <1>1, <2>1, <2>2, <3>1, DismissInv
  <2>4. CASE ~SpeculativeLease(e)
    <3>1. UNCHANGED <<lease, lastClient, client, slot>>
      BY <1>5, <2>4 DEF LaneReleaseSpeculative, ReleaseSpeculative, leaseVars
    <3>2. SilentPrewarm'
      BY <2>1 DEF LaneInv, SilentPrewarm
    <3>3. QED
      BY <1>1, <2>1, <2>2, <3>1, <3>2, EventInv
  <2>5. QED
    BY <2>3, <2>4
<1>6. QED
  BY <1>2, <1>3, <1>4, <1>5

\* Nobody leases, decodes or waits at first.
LEMMA LaneInitInv == LaneInit => LaneInv
<1> SUFFICES ASSUME LaneInit PROVE LaneInv
  OBVIOUS
<1>1. /\ CoordinatorInv
      /\ \A e \in Endpoint : /\ acquiring[e] = NoRequest /\ deferred[e] = NoRequest
                             /\ lease[e] = NoLease /\ client[e] = NoClient
      /\ \A a \in Actor : pc[a] = "scan" /\ job[a] = NoJob /\ pending[a] = <<>> /\ queued[a] = {}
      /\ \A d \in Decoder : event[d] = NoRequest
  BY InitInv DEF LaneInit, CoordinatorInit
<1>2. ToSet(<<>>) = {} /\ IsInjective(<<>>)
  BY DEF ToSet, IsInjective
<1>3. NoJob.client = NoClient /\ NoClient \notin Client /\ NoLease.actor = NoActor
  BY DEF NoJob, NoClient, Client, NoLease
<1>4. LaneTypeOK
  <2>1. CoordinatorTypeOK
    BY <1>1 DEF CoordinatorInv
  <2>2. /\ lastClient \in 0..MaxClient /\ 0 \in 0..MaxRequest
    BY LaneConstants, CoordinatorConstants DEF LaneInit
  <2>3. slot \in [Client -> Command]
    BY CommandFacts DEF LaneInit
  <2>4. /\ pending \in [Actor -> Seq(Client)] /\ queued \in [Actor -> SUBSET Client]
        /\ client \in [Endpoint -> Client \cup {NoClient}]
        /\ pc \in [Actor -> {"scan", "claim", "decode", "finish", "settle"}]
    BY DEF LaneInit
  <2>5. job \in [Actor -> Decoding \cup Settling \cup [client : Client \cup {NoClient}]]
    BY DEF LaneInit, NoJob
  <2>6. QED
    BY <2>1, <2>2, <2>3, <2>4, <2>5 DEF LaneInit, LaneTypeOK
<1>5. LoopShape
  BY <1>1 DEF LoopShape
<1>6. ClientsOfLeases
  BY <1>1, <1>3, LaneConstants DEF ClientsOfLeases, LaneInit, NoClient
<1>7. OneServer
  BY <1>1, <1>2, <1>3 DEF OneServer, Serves
<1>8. RequestsFit
  BY <1>1, <1>3 DEF RequestsFit
<1>9. JobsFit
  BY <1>1 DEF JobsFit, HasRequest
<1>10. QueueExact
  BY <1>1, <1>2 DEF QueueExact
<1>11. SilentPrewarm
  BY <1>1 DEF SilentPrewarm
<1>12. QED
  BY <1>4, <1>5, <1>6, <1>7, <1>8, <1>9, <1>10, <1>11 DEF LaneInv

\* Every step keeps the invariant, next to that of the control plane.
LEMMA LaneStepInv ==
  LaneInv /\ CoordinatorInv /\ CoordinatorInv' /\ [LaneNext]_laneVars => LaneInv'
<1> SUFFICES ASSUME LaneInv, CoordinatorInv, CoordinatorInv', [LaneNext]_laneVars
             PROVE  LaneInv'
  OBVIOUS
<1>1. CoordinatorTypeOK'
  BY DEF CoordinatorInv
<1>2. ASSUME NEW e \in Endpoint, NEW r \in Request, LaneRequest(e, r)
      PROVE  LaneInv'
  <2>1. Fits(e, r) /\ Send(e, r, SubmitRefused(e, r)) /\ SubmitRefused(e, r) \in BOOLEAN
    BY <1>2 DEF LaneRequest, RequestNew, NewRequest, Fits, SubmitRefused
  <2>2. SendOnLease(e, r) /\ UNCHANGED <<workVars, newest, event>> /\ owed' = Owes(e, r)
    BY <1>2 DEF LaneRequest
  <2>3. owed' \in [Endpoint -> 0..MaxRequest]
    <3>1. r.id \in 0..MaxRequest /\ 0 \in 0..MaxRequest
      BY RequestFacts, CoordinatorConstants
    <3>2. QED
      BY <2>2, <3>1 DEF Owes, LaneInv, LaneTypeOK
  <2>4. QED
    BY <1>1, <2>1, <2>2, <2>3, SendInv
<1>3. ASSUME NEW e \in Endpoint, LaneRetry(e)
      PROVE  LaneInv'
  <2> DEFINE r == deferred[e]
  <2>1. /\ r # NoRequest /\ r \in Request /\ Fits(e, r)
    BY <1>3 DEF LaneRetry, LaneInv, LaneTypeOK, CoordinatorTypeOK, RequestsFit
  <2>2. Send(e, r, SubmitRefused(e, r)) /\ SubmitRefused(e, r) \in BOOLEAN
    BY <1>3 DEF LaneRetry, RetryDeferred, SubmitRefused
  <2>3. SendOnLease(e, r) /\ UNCHANGED <<workVars, newest, event>> /\ owed' = owed
    BY <1>3 DEF LaneRetry, eventVars
  <2> HIDE DEF r
  <2>4. owed' \in [Endpoint -> 0..MaxRequest]
    BY <2>3 DEF LaneInv, LaneTypeOK
  <2>5. QED
    BY <1>1, <2>1, <2>2, <2>3, <2>4, SendInv
<1>4. ASSUME NEW e \in Endpoint, Call(e)
      PROVE  LaneInv'
  BY <1>1, <1>2, <1>3, <1>4, LaneAcquireInv, OtherCallInv DEF Call
<1>5. ASSUME NEW d \in Decoder, Receive(d)
      PROVE  LaneInv'
  <2>1. /\ UNCHANGED <<lease, acquiring, deferred, thread, source, lastClient, client, slot,
                       pending, queued, pc, job, newest, owed>>
        /\ event' = [event EXCEPT ![d] = NoRequest]
    BY <1>5 DEF Receive, coordinatorVars, leaseVars, queueVars, workVars
  <2>2. /\ newest' \in [Decoder -> 0..MaxRequest] /\ owed' \in [Endpoint -> 0..MaxRequest]
        /\ event' \in [Decoder -> Request \cup {NoRequest}]
    BY <2>1 DEF LaneInv, LaneTypeOK
  <2>3. SilentPrewarm'
    <3>1. \A x \in Decoder : event'[x] = event[x] \/ event'[x] = NoRequest
      BY <2>1 DEF LaneInv, LaneTypeOK
    <3>2. QED
      BY <3>1 DEF LaneInv, SilentPrewarm
  <2>4. QED
    BY <1>1, <2>1, <2>2, <2>3, EventInv DEF LaneInv, RequestsFit
<1>6. ASSUME NEW a \in Actor, Work(a) \/ Retarget(a) \/ Progress(a)
      PROVE  LaneInv'
  BY <1>1, <1>6, ScanInv, ClaimInv, DecodeInv, FinishInv, SettleInv, LeaveInv DEF Work
<1>7. CASE LaneReap
  BY <1>1, <1>7, LaneReapInv
<1>8. CASE UNCHANGED laneVars
  <2>1. /\ UNCHANGED <<lease, acquiring, deferred, thread, source, lastClient, client, slot,
                       pending, queued, pc, job, newest, event, owed>>
    BY <1>8 DEF laneVars, coordinatorVars, leaseVars, queueVars, workVars, eventVars
  <2>2. SilentPrewarm'
    BY <2>1 DEF LaneInv, SilentPrewarm
  <2>3. QED
    BY <1>1, <2>1, <2>2, EventInv DEF LaneInv, LaneTypeOK, RequestsFit
<1>9. QED
  BY <1>4, <1>5, <1>6, <1>7, <1>8 DEF LaneNext

\* The invariant of the data plane holds on every behaviour.
THEOREM LaneInvariant == LaneSafety => []LaneInv
<1>1. LaneSafety => []CoordinatorInv
  BY LaneImplementsControl, CoordinatorInvariant, PTL
<1>2. QED
  BY <1>1, LaneInitInv, LaneStepInv, PTL DEF LaneSafety

\* A request in an actor's hands is of the source and the lane the actor was spawned for,
\* retiring or not, and no two actors work for one client (CoordinatorClient).
THEOREM ActorKeepsToItsSourceAlways == LaneSafety => []ActorKeepsToItsSource
<1>1. LaneInv => ActorKeepsToItsSource
  <2> SUFFICES ASSUME LaneInv PROVE ActorKeepsToItsSource
    OBVIOUS
  <2>1. ASSUME NEW a \in Actor, NEW b \in Actor \ {a}, HasRequest(a), HasRequest(b)
        PROVE  job[b].client # job[a].client
    <3>1. job[a].client \in Client /\ Serves(a, job[a].client) /\ Serves(b, job[b].client)
      BY <2>1, JobFacts DEF Serves
    <3>2. QED
      BY <2>1, <3>1 DEF LaneInv, OneServer
  <2>2. QED
    BY <2>1 DEF ActorKeepsToItsSource, LaneInv, JobsFit
<1>2. QED
  BY <1>1, LaneInvariant, PTL

\* No picture and no error of a silent prewarm reaches an event slot, however decodes are
\* retargeted, coalesced and put back on the way (decode_monitor_request, emit_events).
THEOREM SilentPrewarmAlways == LaneSafety => []SilentPrewarm
<1>1. LaneInv => SilentPrewarm
  BY DEF LaneInv
<1>2. QED
  BY <1>1, LaneInvariant, PTL

-----------------------------------------------------------------------------
(* No request waits for nobody *)

\* Somebody is coming for the client: it waits in the actor's queue, or the actor has it in
\* hand and will still look at the slot.
Coming(a, c) ==
  \/ c \in ToSet(pending[a])
  \/ job[a].client = c /\ pc[a] # "settle"

Woken(e) ==
  client[e] # NoClient /\ IsRequest(slot[client[e]]) =>
    Coming(lease[e].actor, client[e]) \/ deferred[e] # NoRequest

AllWoken == \A e \in Endpoint : Woken(e)

\* The queue's entries as a set say the same as the property does.
LEMMA WokenMeans == LaneInv /\ CoordinatorInv => (NoLostWakeup <=> AllWoken)
<1> SUFFICES ASSUME LaneInv, CoordinatorInv PROVE NoLostWakeup <=> AllWoken
  OBVIOUS
<1>1. ASSUME NEW e \in Endpoint, client[e] # NoClient
      PROVE  Contains(pending[lease[e].actor], client[e]) <=>
               client[e] \in ToSet(pending[lease[e].actor])
  <2>1. lease[e].actor \in Actor
    BY <1>1, LeasedActorFacts DEF LaneInv, ClientsOfLeases
  <2>2. pending[lease[e].actor] \in Seq(Client)
    BY <2>1 DEF LaneInv, LaneTypeOK
  <2>3. DOMAIN pending[lease[e].actor] = 1..Len(pending[lease[e].actor])
    BY <2>2
  <2>4. QED
    BY <2>3 DEF Contains, ToSet
<1>2. QED
  BY <1>1 DEF NoLostWakeup, AllWoken, Woken, Coming

\* What a step keeps of an endpoint it does not work on.
LEMMA StillWoken ==
  ASSUME NEW f \in Endpoint, Woken(f),
         client'[f] = client[f], lease'[f].actor = lease[f].actor,
         client[f] # NoClient /\ IsRequest(slot'[client[f]]) => IsRequest(slot[client[f]]),
         deferred[f] # NoRequest => deferred'[f] # NoRequest,
         client[f] # NoClient /\ Coming(lease[f].actor, client[f]) =>
           \/ client[f] \in ToSet(pending'[lease[f].actor])
           \/ job'[lease[f].actor].client = client[f] /\ pc'[lease[f].actor] # "settle"
  PROVE  Woken(f)'
BY DEF Woken, Coming

\* A client that is leased is alive, so submitting another does not prune it.
LEMMA EnqueueKeepsComing ==
  ASSUME LaneInv, NEW a \in Actor, NEW c \in Client, Enqueue(a, c), UNCHANGED <<pc, job>>,
         NEW f \in Endpoint, client[f] # NoClient, lease[f].actor \in Actor,
         Coming(lease[f].actor, client[f])
  PROVE  \/ client[f] \in ToSet(pending'[lease[f].actor])
         \/ job'[lease[f].actor].client = client[f] /\ pc'[lease[f].actor] # "settle"
<1>1. Alive(client[f])
  BY DEF Alive
<1>2. /\ \A b \in Actor \ {a} : pending'[b] = pending[b]
      /\ \A d \in ToSet(pending[a]) : Alive(d) => d \in ToSet(pending'[a])
  BY EnqueueFacts
<1>3. QED
  BY <1>1, <1>2 DEF Coming

\* The client of a lease, and the actor it names.
LEMMA ClientOfLease ==
  ASSUME LaneInv, CoordinatorInv, NEW e \in Endpoint, client[e] # NoClient
  PROVE  /\ client[e] \in Client /\ lease[e].actor # NoActor
         /\ lease[e].actor \in Actor /\ lease[e].actor \in Live
         /\ thread[lease[e].actor] = "running"
         /\ \A f \in Endpoint : client[f] = client[e] => f = e
<1>1. lease[e].actor # NoActor /\ client[e] \in Client
  BY DEF LaneInv, LaneTypeOK, ClientsOfLeases
<1>2. \A f \in Endpoint : client[f] = client[e] => f = e
  BY DEF LaneInv, ClientsOfLeases
<1>3. QED
  BY <1>1, <1>2, LeasedActorFacts

\* A lease that is given up leaves nothing to wake; every other endpoint is as it was.
LEMMA DismissWoken ==
  ASSUME LaneInv, CoordinatorInv, AllWoken, NEW e \in Endpoint, Dismiss(e), lease' = Without(e),
         \A f \in Endpoint \ {e} : deferred[f] # NoRequest => deferred'[f] # NoRequest,
         UNCHANGED <<pending, pc, job>>
  PROVE  AllWoken'
<1>1. /\ lease \in [Endpoint -> Lease \cup {NoLease}]
      /\ client \in [Endpoint -> Client \cup {NoClient}] /\ slot \in [Client -> Command]
  BY DEF LaneInv, LaneTypeOK, CoordinatorTypeOK
<1>2. /\ client'[e] = NoClient
      /\ \A f \in Endpoint \ {e} : client'[f] = client[f] /\ lease'[f] = lease[f]
  BY <1>1 DEF Dismiss, Without
<1>3. Woken(e)'
  BY <1>2 DEF Woken
<1>4. ASSUME NEW f \in Endpoint \ {e}
      PROVE  Woken(f)'
  <2>1. client[f] # NoClient => client[f] \in Client /\ client[f] # client[e]
    BY <1>4, ClientOfLease
  <2>2. client[f] # NoClient => slot'[client[f]] = slot[client[f]]
    <3>1. CASE client[e] = NoClient
      BY <3>1 DEF Dismiss
    <3>2. CASE client[e] # NoClient
      <4>1. slot' = [slot EXCEPT ![client[e]] = Release]
        BY <3>2 DEF Dismiss
      <4>2. QED
        BY <1>1, <2>1, <4>1
    <3>3. QED
      BY <3>1, <3>2
  <2>3. QED
    BY <1>2, <2>2, StillWoken DEF AllWoken, Coming
<1>5. QED
  BY <1>3, <1>4 DEF AllWoken

\* A request enters a lease, or its lease is given up: the full queue leaves a retry behind.
LEMMA SendWoken ==
  ASSUME LaneInv, CoordinatorInv, AllWoken, NEW e \in Endpoint, NEW r \in Request,
         Send(e, r, SubmitRefused(e, r)), SendOnLease(e, r), UNCHANGED workVars
  PROVE  AllWoken'
<1>1. /\ lease \in [Endpoint -> Lease \cup {NoLease}]
      /\ deferred \in [Endpoint -> Request \cup {NoRequest}]
      /\ client \in [Endpoint -> Client \cup {NoClient}] /\ slot \in [Client -> Command]
      /\ UNCHANGED <<pc, job>> /\ r # NoRequest
  BY RequestFacts DEF LaneInv, LaneTypeOK, CoordinatorTypeOK, workVars
<1>2. CASE LeasesSource(e, r.key)
  <2>1. /\ lease' = [lease EXCEPT ![e].request = r]
        /\ deferred' = [deferred EXCEPT ![e] = IF SubmitRefused(e, r) THEN r ELSE NoRequest]
    BY <1>2 DEF Send, SendReusing, SendAcquiring
  <2>2. /\ slot' = [slot EXCEPT ![client[e]] = RequestCommand(r)]
        /\ Enqueue(lease[e].actor, client[e]) /\ client' = client
    BY <1>2 DEF SendOnLease
  <2>3. \A f \in Endpoint : lease'[f].actor = lease[f].actor
    <3>1. lease[e] \in Lease
      BY <1>1, <1>2 DEF LeasesSource, NoLease
    <3>2. QED
      BY <1>1, <2>1, <3>1 DEF Lease
  <2>4. client[e] # NoClient
    BY <1>2 DEF LeasesSource, LaneInv, ClientsOfLeases
  <2>5. client[e] \in Client /\ lease[e].actor \in Actor
    BY <2>4, ClientOfLease
  <2>6. ASSUME NEW f \in Endpoint \ {e}
        PROVE  Woken(f)'
    <3>1. client[f] # NoClient => client[f] \in Client /\ lease[f].actor \in Actor /\ client[f] # client[e]
      BY <2>4, <2>6, ClientOfLease
    <3>2. client[f] # NoClient => slot'[client[f]] = slot[client[f]]
      BY <1>1, <2>2, <3>1
    <3>3. deferred'[f] = deferred[f]
      BY <1>1, <2>1, <2>6
    <3>4. client[f] # NoClient /\ Coming(lease[f].actor, client[f]) =>
            \/ client[f] \in ToSet(pending'[lease[f].actor])
            \/ job'[lease[f].actor].client = client[f] /\ pc'[lease[f].actor] # "settle"
      BY <1>1, <2>2, <2>5, <3>1, EnqueueKeepsComing
    <3>5. QED
      BY <2>2, <2>3, <3>2, <3>3, <3>4, StillWoken DEF AllWoken
  <2>7. Woken(e)'
    <3>1. CASE SubmitRefused(e, r)
      BY <1>1, <2>1, <3>1 DEF Woken
    <3>2. CASE ~SubmitRefused(e, r)
      <4>1. ~QueueFull(lease[e].actor, client[e])
        BY <1>2, <3>2 DEF SubmitRefused
      <4>2. client[e] \in ToSet(pending'[lease[e].actor]) \cup Taken(lease[e].actor)
        BY <2>2, <2>5, <4>1, EnqueueFacts
      <4>3. QED
        BY <1>1, <2>2, <2>3, <4>2 DEF Woken, Coming, Taken
    <3>3. QED
      BY <3>1, <3>2
  <2>8. QED
    BY <2>6, <2>7 DEF AllWoken
<1>3. CASE ~LeasesSource(e, r.key)
  <2>1. /\ lease' = Without(e) /\ deferred' = deferred
        /\ Dismiss(e) /\ UNCHANGED <<pending, queued>>
    BY <1>3 DEF Send, SendReusing, SendAcquiring, GiveUpLease, SendOnLease, queueVars
  <2>2. QED
    BY <1>1, <2>1, DismissWoken
<1>4. QED
  BY <1>2, <1>3

\* A step that leaves clients, slots, queues and jobs alone.
LEMMA SameWoken ==
  ASSUME AllWoken, \A f \in Endpoint : lease'[f].actor = lease[f].actor,
         \A f \in Endpoint : client[f] # NoClient /\ deferred[f] # NoRequest =>
                               deferred'[f] # NoRequest,
         UNCHANGED <<client, slot, pending, pc, job>>
  PROVE  AllWoken'
BY DEF AllWoken, Woken, Coming

\* An actor that is spawned, or not in its loop, has room in its queue.
LEMMA RoomAtFirst ==
  ASSUME LaneInv, NEW a \in Actor, thread[a] # "running", NEW c
  PROVE  ~QueueFull(a, c)
<1>1. pc[a] = "scan" /\ pending[a] = <<>>
  BY DEF LaneInv, LoopShape
<1>2. queued[a] = ToSet(<<>>) /\ ToSet(<<>>) = {}
  BY <1>1 DEF LaneInv, QueueExact, ToSet
<1>3. LiveQueued(a) = {}
  BY <1>2 DEF LiveQueued
<1>4. QED
  BY <1>3, FS_EmptySet, LaneConstants DEF QueueFull

\* The acquire half: the fresh client is counted, or the request is kept for a retry.
LEMMA AcquireWoken ==
  ASSUME LaneInv, CoordinatorInv, AllWoken, NEW e \in Endpoint, LaneAcquire(e)
  PROVE  AllWoken'
<1> DEFINE r == acquiring[e]
           c == lastClient + 1
           shared == Indexed(e, r)
           full == shared # NoActor /\ QueueFull(shared, c)
<1>1. /\ r # NoRequest /\ lastClient < MaxClient /\ UNCHANGED <<pc, job>>
      /\ r \in Request /\ Acquire(e, full)
      /\ deferred \in [Endpoint -> Request \cup {NoRequest}]
      /\ lease \in [Endpoint -> Lease \cup {NoLease}]
      /\ client \in [Endpoint -> Client \cup {NoClient}] /\ slot \in [Client -> Command]
      /\ lastClient \in 0..MaxClient /\ MaxClient \in Nat
      /\ lease[e] = NoLease /\ NoLease.actor = NoActor
  BY LaneConstants DEF LaneAcquire, workVars, LaneInv, LaneTypeOK, CoordinatorTypeOK,
         CoordinatorInv, Ownership, NoLease
<1>2. c \in Client /\ c # NoClient
  BY <1>1 DEF Client, NoClient
<1>3. client[e] = NoClient
  BY <1>1 DEF LaneInv, ClientsOfLeases
<1>4. \A f \in Endpoint \ {e} : deferred'[f] = deferred[f]
  BY <1>1 DEF Acquire, AcquireRefused, AcquireExisting, AcquireSpawned, AcquireFailed
<1> HIDE DEF full
<1>5. CASE AcquireRefused(e, r) \/ AcquireFailed(e, r)
  <2>1. lease' = lease
    BY <1>5 DEF AcquireRefused, AcquireFailed
  <2>2. UNCHANGED <<client, slot, pending>>
    BY <1>1, <2>1 DEF LaneAcquire, leaseVars, queueVars
  <2>3. QED
    BY <1>1, <1>3, <1>4, <2>1, <2>2, SameWoken
<1>6. ASSUME NEW a \in Actor, Leased(e, a, r), QueueFull(a, c) => deferred'[e] = r
      PROVE  AllWoken'
  <2>1. /\ lease'[e].actor = a /\ a # NoActor
        /\ \A f \in Endpoint \ {e} : lease'[f] = lease[f]
    BY <1>1, <1>6, CoordinatorConstants DEF Leased
  <2>2. /\ client' = [client EXCEPT ![e] = c]
        /\ slot' = [slot EXCEPT ![c] = RequestCommand(r)]
        /\ Enqueue(a, c)
    BY <2>1 DEF LaneAcquire
  <2>3. /\ client'[e] = c /\ \A f \in Endpoint \ {e} : client'[f] = client[f]
    BY <1>1, <2>2
  <2> HIDE DEF c
  <2>4. ASSUME NEW f \in Endpoint \ {e}
        PROVE  Woken(f)'
    <3>1. client[f] # NoClient => client[f] \in Client /\ lease[f].actor \in Actor
      BY <2>4, ClientOfLease
    <3>2. client[f] # NoClient => client[f] # c
      BY <1>1, <3>1 DEF LaneInv, ClientsOfLeases, Client, c
    <3>3. client[f] # NoClient => slot'[client[f]] = slot[client[f]]
      BY <1>1, <2>2, <3>1, <3>2
    <3>4. client[f] # NoClient /\ Coming(lease[f].actor, client[f]) =>
            \/ client[f] \in ToSet(pending'[lease[f].actor])
            \/ job'[lease[f].actor].client = client[f] /\ pc'[lease[f].actor] # "settle"
      BY <1>1, <1>2, <2>2, <3>1, EnqueueKeepsComing
    <3>5. QED
      BY <1>4, <2>1, <2>3, <3>3, <3>4, StillWoken DEF AllWoken
  <2>5. Woken(e)'
    <3>1. CASE QueueFull(a, c)
      BY <1>1, <1>6, <3>1 DEF Woken
    <3>2. CASE ~QueueFull(a, c)
      <4>1. c \in ToSet(pending'[a]) \cup Taken(a)
        BY <1>2, <2>2, <3>2, EnqueueFacts
      <4>2. QED
        BY <1>1, <2>1, <2>3, <4>1 DEF Woken, Coming, Taken
    <3>3. QED
      BY <3>1, <3>2
  <2>6. QED
    BY <2>4, <2>5 DEF AllWoken
<1>7. CASE AcquireExisting(e, r, full)
  <2>1. /\ Leased(e, shared, r) /\ shared # NoActor
        /\ deferred' = [deferred EXCEPT ![e] = IF full THEN r ELSE NoRequest]
    BY <1>7 DEF AcquireExisting
  <2>2. shared \in Actor
    BY <1>1, <2>1, RequestFacts DEF CoordinatorInv, Ownership, Indexed, LaneOf, Lane, Live
  <2>3. QueueFull(shared, c) => deferred'[e] = r
    BY <1>1, <2>1 DEF full
  <2>4. QED
    BY <1>6, <2>1, <2>2, <2>3
<1>8. CASE AcquireSpawned(e, r)
  <2>1. PICK a \in Actor : thread[a] = "none" /\ Leased(e, a, r)
    BY <1>8 DEF AcquireSpawned
  <2>2. ~QueueFull(a, c)
    BY <2>1, RoomAtFirst
  <2>3. QED
    BY <1>6, <2>1, <2>2
<1>9. QED
  BY <1>1, <1>5, <1>7, <1>8 DEF Acquire

\* The other calls: what is cancelled is no request, and a retry is given up only with its
\* lease, as a lease and a retry are for one request.
LEMMA OtherCallWoken ==
  ASSUME LaneInv, CoordinatorInv, Owed, AllWoken, NEW e \in Endpoint,
         LaneCancel(e) \/ LaneRelease(e) \/ LaneDefer(e) \/ LaneReleaseSpeculative(e)
  PROVE  AllWoken'
<1>1. /\ deferred \in [Endpoint -> Request \cup {NoRequest}]
      /\ client \in [Endpoint -> Client \cup {NoClient}] /\ slot \in [Client -> Command]
  BY DEF LaneInv, LaneTypeOK, CoordinatorTypeOK
<1>2. CASE LaneCancel(e)
  <2>1. /\ UNCHANGED <<lease, client, pc, job>>
        /\ deferred' = [deferred EXCEPT ![e] = NoRequest]
    BY <1>2 DEF LaneCancel, CancelPending, workVars
  <2>2. CASE client[e] = NoClient
    <3>1. UNCHANGED <<slot, pending>>
      BY <1>2, <2>2 DEF LaneCancel, queueVars
    <3>2. QED
      BY <1>1, <2>1, <2>2, <3>1, SameWoken
  <2>3. CASE client[e] # NoClient
    <3>1. slot' = [slot EXCEPT ![client[e]] = Cancel] /\ Enqueue(lease[e].actor, client[e])
      BY <1>2, <2>3 DEF LaneCancel
    <3>2. client[e] \in Client /\ lease[e].actor \in Actor
      BY <2>3, ClientOfLease
    <3>3. slot'[client[e]] = Cancel /\ ~IsRequest(Cancel)
      BY <1>1, <3>1, <3>2, CommandFacts
    <3>4. Woken(e)'
      BY <2>1, <3>3 DEF Woken
    <3>5. ASSUME NEW f \in Endpoint \ {e}
          PROVE  Woken(f)'
      <4>1. client[f] # NoClient => client[f] \in Client /\ lease[f].actor \in Actor /\ client[f] # client[e]
        BY <2>3, <3>5, ClientOfLease
      <4>2. client[f] # NoClient => slot'[client[f]] = slot[client[f]]
        BY <1>1, <3>1, <4>1
      <4>3. client[f] # NoClient /\ Coming(lease[f].actor, client[f]) =>
              \/ client[f] \in ToSet(pending'[lease[f].actor])
              \/ job'[lease[f].actor].client = client[f] /\ pc'[lease[f].actor] # "settle"
        BY <2>1, <3>1, <3>2, <4>1, EnqueueKeepsComing
      <4>4. QED
        BY <1>1, <2>1, <4>2, <4>3, StillWoken DEF AllWoken
    <3>6. QED
      BY <3>4, <3>5 DEF AllWoken
  <2>4. QED
    BY <2>2, <2>3
<1>3. CASE LaneRelease(e) \/ LaneDefer(e)
  <2>1. /\ lease' = Without(e) /\ Dismiss(e) /\ UNCHANGED <<pending, pc, job>>
        /\ \A f \in Endpoint \ {e} : deferred'[f] = deferred[f]
    BY <1>1, <1>3 DEF LaneRelease, ReleaseLive, LaneDefer, DeferLive, GiveUpLease, queueVars, workVars
  <2>2. QED
    BY <2>1, DismissWoken
<1>4. CASE LaneReleaseSpeculative(e)
  <2>1. /\ UNCHANGED <<pending, pc, job>> /\ Idle(e)
        /\ deferred' = [deferred EXCEPT ![e] = IF SpeculativeRetry(e) THEN NoRequest ELSE @]
    BY <1>4 DEF LaneReleaseSpeculative, ReleaseSpeculative, queueVars, workVars
  <2>2. \A f \in Endpoint \ {e} : deferred'[f] = deferred[f]
    BY <1>1, <2>1
  <2>3. CASE SpeculativeLease(e)
    <3>1. lease' = Without(e) /\ Dismiss(e)
      BY <1>4, <2>3 DEF LaneReleaseSpeculative, ReleaseSpeculative, GiveUpLease
    <3>2. QED
      BY <2>1, <2>2, <3>1, DismissWoken
  <2>4. CASE ~SpeculativeLease(e)
    <3>1. UNCHANGED <<lease, client, slot>>
      BY <1>4, <2>4 DEF LaneReleaseSpeculative, ReleaseSpeculative, leaseVars
    <3>2. client[e] # NoClient /\ deferred[e] # NoRequest => ~SpeculativeRetry(e)
      <4>1. client[e] # NoClient => lease[e].actor # NoActor
        BY DEF LaneInv, ClientsOfLeases
      <4>2. QED
        BY <2>1, <2>4, <4>1 DEF Owed, OwedBy, SpeculativeRetry, SpeculativeLease
    <3>3. \A f \in Endpoint : client[f] # NoClient /\ deferred[f] # NoRequest =>
                                deferred'[f] # NoRequest
      BY <1>1, <2>1, <2>2, <3>2
    <3>4. QED
      BY <2>1, <3>1, <3>3, SameWoken
  <2>5. QED
    BY <2>3, <2>4
<1>5. QED
  BY <1>2, <1>3, <1>4

\* A step of an actor concerns the endpoints that lease it.
LEMMA WorkWoken ==
  ASSUME LaneInv, CoordinatorInv, AllWoken, NEW a \in Actor,
         UNCHANGED <<lease, deferred, client>>,
         \A b \in Actor \ {a} : pc'[b] = pc[b] /\ job'[b] = job[b] /\ pending'[b] = pending[b],
         \A d \in Client : slot'[d] # slot[d] => d = job[a].client,
         \A f \in Endpoint : client[f] # NoClient /\ lease[f].actor = a => Woken(f)'
  PROVE  AllWoken'
<1>1. ASSUME NEW f \in Endpoint, client[f] # NoClient, lease[f].actor # a
      PROVE  Woken(f)'
  <2>1. client[f] \in Client /\ lease[f].actor \in Actor
    BY <1>1, ClientOfLease
  <2>2. Serves(lease[f].actor, client[f])
    BY DEF Serves
  <2>3. job[a].client # client[f]
    BY <1>1, <2>1, <2>2 DEF LaneInv, OneServer, Serves
  <2>4. slot'[client[f]] = slot[client[f]]
    BY <2>1, <2>3
  <2>5. QED
    BY <1>1, <2>1, <2>4, StillWoken DEF AllWoken, Coming
<1>2. ASSUME NEW f \in Endpoint, client[f] = NoClient
      PROVE  Woken(f)'
  BY <1>2 DEF Woken
<1>3. QED
  BY <1>1, <1>2 DEF AllWoken

\* A client at the head of the queue is taken into the hand unless nobody holds it.
LEMMA ScanWoken ==
  ASSUME LaneInv, CoordinatorInv, AllWoken, NEW a \in Actor, Scan(a)
  PROVE  AllWoken'
<1> DEFINE h == Head(pending[a])
<1>1. UNCHANGED <<lease, deferred, client, slot>>
  BY DEF Scan, coordinatorVars, leaseVars
<1>2. /\ pending \in [Actor -> Seq(Client)]
      /\ pc \in [Actor -> {"scan", "claim", "decode", "finish", "settle"}]
      /\ job \in [Actor -> Decoding \cup Settling \cup [client : Client \cup {NoClient}]]
  BY DEF LaneInv, LaneTypeOK
<1>3. pc[a] = "scan" /\ job[a] = NoJob /\ pending[a] # <<>>
  BY DEF Scan, Running, LaneInv, LoopShape
<1>4. ToSet(pending[a]) \ {h} \subseteq ToSet(Tail(pending[a]))
  BY <1>2, <1>3, TailSet
<1>5. /\ pending' = [pending EXCEPT ![a] = Tail(pending[a])]
      /\ Alive(h) => /\ job' = [job EXCEPT ![a] = [client |-> h]]
                     /\ pc' = [pc EXCEPT ![a] = "claim"]
      /\ ~Alive(h) => pc' = pc /\ job' = job
  BY DEF Scan, Goto, workVars
<1>6. /\ \A b \in Actor \ {a} : pc'[b] = pc[b] /\ job'[b] = job[b] /\ pending'[b] = pending[b]
      /\ pending'[a] = Tail(pending[a])
      /\ Alive(h) => job'[a].client = h /\ pc'[a] = "claim"
  BY <1>2, <1>5
<1> HIDE DEF h
<1>7. ASSUME NEW f \in Endpoint, client[f] # NoClient, lease[f].actor = a
      PROVE  Woken(f)'
  <2>1. Alive(client[f]) /\ client[f] \in Client
    BY <1>7, ClientOfLease DEF Alive
  <2>2. job[a].client # client[f]
    BY <1>3, <1>7 DEF NoJob
  <2>3. Coming(a, client[f]) => client[f] \in ToSet(pending[a])
    BY <2>2 DEF Coming
  <2>4. CASE client[f] = h
    BY <1>1, <1>6, <1>7, <2>1, <2>4 DEF Woken, Coming
  <2>5. CASE client[f] # h
    BY <1>1, <1>4, <1>6, <1>7, <2>3, <2>5 DEF AllWoken, Woken, Coming
  <2>6. QED
    BY <2>4, <2>5
<1>8. QED
  BY <1>1, <1>6, <1>7, WorkWoken

\* A claimed slot is empty, and a slot that is not claimed is of no lease of this actor.
LEMMA ClaimWoken ==
  ASSUME LaneInv, CoordinatorInv, AllWoken, NEW a \in Actor, Claim(a)
  PROVE  AllWoken'
<1> DEFINE c == job[a].client
<1>1. UNCHANGED <<lease, deferred, client, pending>>
  BY DEF Claim, coordinatorVars
<1>2. /\ pc \in [Actor -> {"scan", "claim", "decode", "finish", "settle"}]
      /\ job \in [Actor -> Decoding \cup Settling \cup [client : Client \cup {NoClient}]]
      /\ slot \in [Client -> Command]
  BY DEF LaneInv, LaneTypeOK
<1>3. pc[a] = "claim" /\ c \in Client
  BY DEF Claim, Running, LaneInv, LoopShape
<1>4. /\ slot' = IF Bound(a, c) THEN [slot EXCEPT ![c] = NoCommand] ELSE slot
      /\ \E j : job' = [job EXCEPT ![a] = j]
      /\ \E l : pc' = [pc EXCEPT ![a] = l]
  BY DEF Claim, DropJob, Goto
<1>5. /\ \A b \in Actor \ {a} : pc'[b] = pc[b] /\ job'[b] = job[b]
      /\ \A d \in Client : slot'[d] # slot[d] => d = c
      /\ Bound(a, c) => slot'[c] = NoCommand
  BY <1>2, <1>3, <1>4
<1>6. ~IsRequest(NoCommand)
  BY CommandFacts
<1>7. ASSUME NEW f \in Endpoint, client[f] # NoClient, lease[f].actor = a
      PROVE  Woken(f)'
  <2>1. client[f] \in Client
    BY <1>7, ClientOfLease
  <2>2. CASE client[f] = c
    <3>1. Bound(a, c)
      BY <1>7, <2>2 DEF Bound
    <3>2. QED
      BY <1>1, <1>5, <1>6, <2>2, <3>1 DEF Woken
  <2>3. CASE client[f] # c
    <3>1. slot'[client[f]] = slot[client[f]]
      BY <1>5, <2>1, <2>3
    <3>2. Coming(a, client[f]) => client[f] \in ToSet(pending[a])
      BY <2>3 DEF Coming
    <3>3. QED
      BY <1>1, <1>7, <3>1, <3>2 DEF AllWoken, Woken, Coming
  <2>4. QED
    BY <2>2, <2>3
<1> HIDE DEF c
<1>8. c = job[a].client
  BY DEF c
<1>9. QED
  BY <1>1, <1>5, <1>7, <1>8, WorkWoken

\* A decode keeps its client in hand, and has yet to look at the slot.
LEMMA DecodeWoken ==
  ASSUME LaneInv, CoordinatorInv, AllWoken, NEW a \in Actor,
         Decode(a) \/ Retarget(a) \/ Progress(a)
  PROVE  AllWoken'
<1>1. UNCHANGED <<lease, deferred, client, slot, pending>>
  BY DEF Decode, Retarget, Progress, AnswerFromCache, DeferForCapacity, Open, OpenFails,
         FallBackToSoftware, DecodeFrame, DecodeError, Abandon, CloseSession, OpenSession,
         Untouched, coordinatorVars, leaseVars, queueVars, control
<1>2. /\ pc \in [Actor -> {"scan", "claim", "decode", "finish", "settle"}]
      /\ job \in [Actor -> Decoding \cup Settling \cup [client : Client \cup {NoClient}]]
  BY DEF LaneInv, LaneTypeOK
<1>3. pc[a] = "decode" /\ job[a] \in Decoding
  <2>1. pc[a] = "decode"
    BY DEF Decode, Retarget, Progress, Running, AnswerFromCache, DeferForCapacity, Open,
           OpenFails, FallBackToSoftware, DecodeFrame, DecodeError, Abandon
  <2>2. QED
    BY <2>1 DEF LaneInv, LoopShape
<1>4. /\ job'[a].client = job[a].client /\ pc'[a] # "settle"
      /\ \A b \in Actor \ {a} : pc'[b] = pc[b] /\ job'[b] = job[b]
  <2>1. ASSUME NEW o, Finished(a, o)
        PROVE  /\ job'[a].client = job[a].client /\ pc'[a] # "settle"
               /\ \A b \in Actor \ {a} : pc'[b] = pc[b] /\ job'[b] = job[b]
    BY <1>2, <2>1 DEF Finished, Goto
  <2>2. CASE /\ AnswerFromCache(a) \/ DeferForCapacity(a) \/ OpenFails(a) \/ DecodeFrame(a)
                  \/ DecodeError(a) \/ Abandon(a)
    BY <2>1, <2>2 DEF AnswerFromCache, DeferForCapacity, OpenFails, DecodeFrame, DecodeError, Abandon
  <2>3. CASE Open(a) \/ Progress(a)
    BY <1>3, <2>3 DEF Open, Progress, workVars
  <2>4. CASE FallBackToSoftware(a)
    BY <1>2, <1>3, <2>4 DEF FallBackToSoftware, Decoding
  <2>5. CASE Retarget(a)
    BY <1>2, <1>3, <2>5 DEF Retarget, Decoding
  <2>6. QED
    BY <2>2, <2>3, <2>4, <2>5 DEF Decode
<1>5. ASSUME NEW f \in Endpoint, lease[f].actor = a
      PROVE  Woken(f)'
  BY <1>1, <1>3, <1>4, <1>5 DEF AllWoken, Woken, Coming
<1>6. QED
  BY <1>1, <1>4, <1>5, WorkWoken

\* The slot is emptied where a lease stands; where none does there is nobody to wake.
LEMMA FinishWoken ==
  ASSUME LaneInv, CoordinatorInv, AllWoken, NEW a \in Actor, Finish(a)
  PROVE  AllWoken'
<1> DEFINE c == job[a].client
<1>1. UNCHANGED <<lease, deferred, client, pending>>
  BY DEF Finish, coordinatorVars, queueVars
<1>2. /\ pc \in [Actor -> {"scan", "claim", "decode", "finish", "settle"}]
      /\ job \in [Actor -> Decoding \cup Settling \cup [client : Client \cup {NoClient}]]
      /\ slot \in [Client -> Command]
  BY DEF LaneInv, LaneTypeOK
<1>3. c \in Client
  BY JobFacts DEF Finish, Running, HasRequest
<1>4. /\ slot' = IF a \in Live /\ Bound(a, c) THEN [slot EXCEPT ![c] = NoCommand] ELSE slot
      /\ \E j : job' = [job EXCEPT ![a] = j]
      /\ \E l : pc' = [pc EXCEPT ![a] = l]
  BY DEF Finish, DropJob, Goto
<1>5. /\ \A b \in Actor \ {a} : pc'[b] = pc[b] /\ job'[b] = job[b]
      /\ \A d \in Client : slot'[d] # slot[d] => d = c
      /\ a \in Live /\ Bound(a, c) => slot'[c] = NoCommand
  BY <1>2, <1>3, <1>4
<1>6. ~IsRequest(NoCommand)
  BY CommandFacts
<1>7. ASSUME NEW f \in Endpoint, client[f] # NoClient, lease[f].actor = a
      PROVE  Woken(f)'
  <2>1. client[f] \in Client /\ a \in Live
    BY <1>7, ClientOfLease
  <2>2. CASE client[f] = c
    <3>1. Bound(a, c)
      BY <1>7, <2>2 DEF Bound
    <3>2. QED
      BY <1>1, <1>5, <1>6, <2>1, <2>2, <3>1 DEF Woken
  <2>3. CASE client[f] # c
    <3>1. slot'[client[f]] = slot[client[f]]
      BY <1>5, <2>1, <2>3
    <3>2. Coming(a, client[f]) => client[f] \in ToSet(pending[a])
      BY <2>3 DEF Coming
    <3>3. QED
      BY <1>1, <1>7, <3>1, <3>2 DEF AllWoken, Woken, Coming
  <2>4. QED
    BY <2>2, <2>3
<1> HIDE DEF c
<1>8. c = job[a].client
  BY DEF c
<1>9. QED
  BY <1>1, <1>5, <1>7, <1>8, WorkWoken

\* With a place for every endpoint the queue takes the client an actor has in hand: the
\* live clients before it are leased by the other endpoints.
LEMMA RoomForEveryEndpoint ==
  ASSUME Cardinality(Endpoint) <= ClientCap, LaneInv, CoordinatorInv,
         NEW a \in Actor, HasRequest(a), NEW e \in Endpoint, client[e] = job[a].client
  PROVE  ~QueueFull(a, job[a].client)
<1> DEFINE c == job[a].client
           others == {client[f] : f \in Endpoint \ {e}}
<1>1. SUFFICES ASSUME c \notin LiveQueued(a)
               PROVE  Cardinality(LiveQueued(a)) < ClientCap
  <2>1. Cardinality(LiveQueued(a)) < ClientCap => ~(Cardinality(LiveQueued(a)) >= ClientCap)
    <3>1. LiveQueued(a) \subseteq Client /\ IsFiniteSet(Client)
      BY FS_Interval, LaneConstants DEF LiveQueued, LaneInv, LaneTypeOK, Client
    <3>2. Cardinality(LiveQueued(a)) \in Nat
      BY <3>1, FS_Subset, FS_CardinalityType
    <3>3. QED
      BY <3>2, LaneConstants
  <2>2. QED
    BY <2>1 DEF QueueFull
<1>2. LiveQueued(a) \subseteq others
  <2>1. SUFFICES ASSUME NEW d \in LiveQueued(a)
                 PROVE  d \in others
    OBVIOUS
  <2>2. d \in ToSet(pending[a]) /\ Alive(d) /\ d \in Client
    BY DEF LiveQueued, LaneInv, LaneTypeOK, QueueExact, HasRequest
  <2>3. d # c
    BY <1>1
  <2>4. \A b \in Actor : job[b].client # d
    <3>1. Serves(a, d)
      BY <2>2 DEF Serves
    <3>2. \A b \in Actor : job[b].client = d => b = a
      BY <2>2, <3>1 DEF LaneInv, OneServer, Serves
    <3>3. QED
      BY <2>3, <3>2
  <2>5. PICK f \in Endpoint : client[f] = d
    BY <2>2, <2>4 DEF Alive
  <2>6. f # e
    BY <2>3, <2>5
  <2>7. QED
    BY <2>5, <2>6
<1>3. /\ IsFiniteSet(Endpoint \ {e}) /\ Cardinality(Endpoint \ {e}) = Cardinality(Endpoint) - 1
      /\ Cardinality(Endpoint) \in Nat
  BY FS_RemoveElement, FS_CardinalityType, CoordinatorConstants
<1>4. IsFiniteSet(others) /\ Cardinality(others) <= Cardinality(Endpoint \ {e})
  <2> DEFINE clientOf == [f \in Endpoint \ {e} |-> client[f]]
  <2>1. clientOf \in Surjection(Endpoint \ {e}, others)
    BY DEF Surjection
  <2>2. QED
    BY <1>3, <2>1, FS_Surjection
<1>5. /\ Cardinality(LiveQueued(a)) <= Cardinality(others)
      /\ Cardinality(LiveQueued(a)) \in Nat /\ Cardinality(others) \in Nat
  BY <1>2, <1>4, FS_Subset, FS_CardinalityType
<1>6. QED
  BY <1>3, <1>4, <1>5, LaneConstants

\* Work that is put back is waited for in the queue, in which there is room for it.
LEMMA SettleWoken ==
  ASSUME Cardinality(Endpoint) <= ClientCap, LaneInv, CoordinatorInv, AllWoken,
         NEW a \in Actor, Settle(a)
  PROVE  AllWoken'
<1> DEFINE c == job[a].client
<1>1. UNCHANGED <<lease, deferred, client>>
  BY DEF Settle, coordinatorVars
<1>2. /\ pc \in [Actor -> {"scan", "claim", "decode", "finish", "settle"}]
      /\ job \in [Actor -> Decoding \cup Settling \cup [client : Client \cup {NoClient}]]
      /\ slot \in [Client -> Command]
  BY DEF LaneInv, LaneTypeOK
<1>3. pc[a] = "settle" /\ HasRequest(a)
  BY DEF Settle, Running, HasRequest
<1>4. c \in Client /\ Taken(a) = {}
  BY <1>3, JobFacts DEF Taken
<1>5. \A b \in Actor \ {a} : pc'[b] = pc[b] /\ job'[b] = job[b]
  BY <1>2 DEF Settle, DropJob, Goto
<1>6. \A d \in Client : Coming(a, d) => d \in ToSet(pending[a])
  BY <1>3 DEF Coming
<1>7. UNCHANGED <<slot, queueVars>> \/ \E r \in Request : Restore(a, r)
  <2>1. /\ job[a].request \in Request
        /\ IsRequest(job[a].command) => job[a].command.request \in Request
    BY <1>3, JobFacts, CommandFacts
  <2>2. CASE IsRequest(job[a].command) /\ (\/ SettleCoalesced(a, job[a].command.request)
                                           \/ SettleSuperseded(a, job[a].command.request))
    BY <2>1, <2>2 DEF SettleCoalesced, SettleSuperseded
  <2>3. CASE SettleUndisturbed(a)
    BY <2>1, <2>3 DEF SettleUndisturbed
  <2>4. CASE UNCHANGED <<slot, queueVars, eventVars>>
    BY <2>4
  <2>5. QED
    BY <2>2, <2>3, <2>4 DEF Settle
<1>8. CASE UNCHANGED <<slot, queueVars>>
  <2>1. UNCHANGED <<slot, pending>>
    BY <1>8 DEF queueVars
  <2>2. ASSUME NEW f \in Endpoint, client[f] # NoClient, lease[f].actor = a
        PROVE  Woken(f)'
    <3>1. client[f] \in Client
      BY <2>2, ClientOfLease
    <3>2. QED
      BY <1>1, <1>6, <2>1, <2>2, <3>1 DEF AllWoken, Woken, Coming
  <2>3. QED
    BY <1>1, <1>5, <2>1, <2>2, WorkWoken
<1>9. ASSUME NEW r \in Request, Restore(a, r)
      PROVE  AllWoken'
  <2>1. slot' = [slot EXCEPT ![c] = RequestCommand(r)] /\ Enqueue(a, c)
    BY <1>9 DEF Restore
  <2>2. \A d \in Client : slot'[d] # slot[d] => d = job[a].client
    BY <1>2, <2>1
  <2>3. /\ \A b \in Actor \ {a} : pending'[b] = pending[b]
        /\ \A d \in ToSet(pending[a]) : Alive(d) => d \in ToSet(pending'[a])
        /\ c \in ToSet(pending'[a]) \cup Taken(a) \/ QueueFull(a, c)
    BY <1>4, <2>1, EnqueueFacts
  <2>4. ASSUME NEW f \in Endpoint, client[f] # NoClient, lease[f].actor = a
        PROVE  Woken(f)'
    <3>1. client[f] \in Client /\ Alive(client[f])
      BY <2>4, ClientOfLease DEF Alive
    <3>2. CASE client[f] = c
      <4>1. c \in ToSet(pending'[a])
        BY <1>3, <1>4, <2>3, <3>2, RoomForEveryEndpoint
      <4>2. QED
        BY <1>1, <2>4, <3>2, <4>1 DEF Woken, Coming
    <3>3. CASE client[f] # c
      <4>1. slot'[client[f]] = slot[client[f]]
        BY <2>2, <3>1, <3>3
      <4>2. QED
        BY <1>1, <1>6, <2>3, <2>4, <3>1, <4>1 DEF AllWoken, Woken, Coming
    <3>4. QED
      BY <3>2, <3>3
  <2>5. QED
    BY <1>1, <1>5, <2>2, <2>3, <2>4, WorkWoken
<1>10. QED
  BY <1>7, <1>8, <1>9

\* Every step leaves somebody to come for a request in the slot of a lease.
LEMMA WokenStep ==
  ASSUME Cardinality(Endpoint) <= ClientCap
  PROVE  LaneInv /\ CoordinatorInv /\ Owed /\ AllWoken /\ [LaneNext]_laneVars => AllWoken'
<1> SUFFICES ASSUME LaneInv, CoordinatorInv, Owed, AllWoken, [LaneNext]_laneVars
             PROVE  AllWoken'
  OBVIOUS
<1>1. ASSUME NEW e \in Endpoint, NEW r \in Request, LaneRequest(e, r)
      PROVE  AllWoken'
  BY <1>1, SendWoken DEF LaneRequest, RequestNew
<1>2. ASSUME NEW e \in Endpoint, LaneRetry(e)
      PROVE  AllWoken'
  <2>1. deferred[e] \in Request
    BY <1>2 DEF LaneRetry, LaneInv, LaneTypeOK, CoordinatorTypeOK
  <2>2. QED
    BY <1>2, <2>1, SendWoken DEF LaneRetry, RetryDeferred
<1>3. ASSUME NEW e \in Endpoint, Call(e)
      PROVE  AllWoken'
  BY <1>1, <1>2, <1>3, AcquireWoken, OtherCallWoken DEF Call
<1>4. ASSUME NEW a \in Actor, Leave(a)
      PROVE  AllWoken'
  <2>1. /\ UNCHANGED <<lease, deferred, client, slot, pc, job>> /\ a \notin Live
        /\ \A b \in Actor \ {a} : pending'[b] = pending[b]
    BY <1>4 DEF Leave, ExitActor, leaseVars, workVars, control, LaneInv, LaneTypeOK
  <2>2. ASSUME NEW f \in Endpoint, client[f] # NoClient, lease[f].actor = a
        PROVE  Woken(f)'
    BY <2>1, <2>2, ClientOfLease
  <2>3. QED
    BY <2>1, <2>2, WorkWoken
<1>5. ASSUME NEW a \in Actor, Work(a) \/ Retarget(a) \/ Progress(a)
      PROVE  AllWoken'
  BY <1>4, <1>5, ScanWoken, ClaimWoken, DecodeWoken, FinishWoken, SettleWoken DEF Work
<1>6. ASSUME (\E d \in Decoder : Receive(d)) \/ LaneReap \/ UNCHANGED laneVars
      PROVE  AllWoken'
  <2>1. UNCHANGED <<lease, deferred, client, slot, pending, pc, job>>
    BY <1>6 DEF Receive, LaneReap, Reap, laneVars, coordinatorVars, leaseVars, queueVars,
                workVars, control
  <2>2. QED
    BY <2>1, SameWoken
<1>7. QED
  BY <1>3, <1>5, <1>6 DEF LaneNext

\* When an actor's queue has a place for every endpoint, and MAX_SOURCE_ACTOR_CLIENTS is
\* four times the worker slots of all layers, a request in the slot of a live lease always
\* has somebody coming for it (submit, enqueue_client, source_lane_actor_loop).
THEOREM NoLostWakeupAlways ==
  ASSUME Cardinality(Endpoint) <= ClientCap
  PROVE  LaneSafety => []NoLostWakeup
<1>1. LaneInit => AllWoken
  BY DEF LaneInit, AllWoken, Woken
<1>2. LaneSafety => []CoordinatorInv /\ []Owed
  BY LaneImplementsControl, CoordinatorInvariant, OwedInvariant, PTL
<1>3. LaneInv /\ CoordinatorInv /\ Owed /\ AllWoken /\ [LaneNext]_laneVars => AllWoken'
  BY WokenStep
<1>4. LaneSafety => []AllWoken
  BY <1>1, <1>2, <1>3, LaneInvariant, PTL DEF LaneSafety
<1>5. QED
  BY <1>2, <1>4, LaneInvariant, WokenMeans, PTL
=============================================================================
