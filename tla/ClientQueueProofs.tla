---------------------------- MODULE ClientQueueProofs ----------------------------
(* Proofs about ClientQueue, for any number of callers and clients and any cap. *)
EXTENDS ClientQueue, KeepingProofs, FiniteSetTheorems

\* Who keeps a client alive.
Held(c) ==
  \/ \E t \in Caller : clientLease[t] = c
  \/ \E t \in Thread : hand[t] = c /\ pc[t] # "forget_dead"

\* There are finitely many threads.
LEMMA FiniteThreads == IsFiniteSet(Caller) /\ IsFiniteSet(Thread)
  BY QueueConstants, FS_AddElement DEF Thread

\* Two counts add up to nothing when nothing is counted.
LEMMA SumNotZero ==
  ASSUME NEW L, NEW H, IsFiniteSet(L), IsFiniteSet(H)
  PROVE  Cardinality(L) + Cardinality(H) # 0 <=> L # {} \/ H # {}
<1>1. /\ Cardinality(L) \in Nat /\ Cardinality(H) \in Nat
      /\ Cardinality(L) = 0 <=> L = {}
      /\ Cardinality(H) = 0 <=> H = {}
  BY FS_CardinalityType, FS_EmptySet
<1>2. QED
  BY <1>1

\* A client lives while somebody holds it, in this state and in the next.
LEMMA AliveIsHeld ==
  /\ \A c : Alive(c) <=> Held(c)
  /\ \A c : Alive(c)' <=> Held(c)'
<1>1. ASSUME NEW c
      PROVE  Alive(c) <=> Held(c)
  <2> DEFINE L == {t \in Caller : clientLease[t] = c}
             H == {t \in Thread : hand[t] = c /\ pc[t] # "forget_dead"}
  <2>1. IsFiniteSet(L) /\ IsFiniteSet(H)
    BY FiniteThreads, FS_Subset
  <2>2. Cardinality(L) + Cardinality(H) # 0 <=> L # {} \/ H # {}
    BY <2>1, SumNotZero
  <2>3. QED
    BY <2>2 DEF Alive, StrongCount, Held
<1>2. ASSUME NEW c
      PROVE  Alive(c)' <=> Held(c)'
  <2> DEFINE L == {t \in Caller : clientLease'[t] = c}
             H == {t \in Thread : hand'[t] = c /\ pc'[t] # "forget_dead"}
  <2>1. IsFiniteSet(L) /\ IsFiniteSet(H)
    BY FiniteThreads, FS_Subset
  <2>2. Cardinality(L) + Cardinality(H) # 0 <=> L # {} \/ H # {}
    BY <2>1, SumNotZero
  <2>3. QED
    BY <2>2 DEF Alive, StrongCount, Held
<1>3. QED
  BY <1>1, <1>2

\* The entries after a prune are the live ones.
LEMMA PrunedEntries ==
  ASSUME QueueTypeOK
  PROVE  LET p == Kept(pending, {c \in Client : Alive(c)}) IN
         /\ p \in Seq(Client)
         /\ ToSet(p) = {c \in ToSet(pending) : Alive(c)}
         /\ IsInjective(pending) => IsInjective(p)
<1>1. pending \in Seq(Client)
  BY DEF QueueTypeOK
<1>2. ToSet(pending) \subseteq Client
  BY <1>1 DEF ToSet
<1>3. QED
  BY <1>1, <1>2, KeptSet

\* There are finitely many ids, so what is counted has a cardinality.
LEMMA FiniteQueue ==
  ASSUME QueueTypeOK
  PROVE  IsFiniteSet(queued) /\ Cardinality(queued) \in Nat
<1>1. IsFiniteSet(Client)
  BY QueueConstants, FS_Interval DEF Client
<1>2. QED
  BY <1>1, FS_Subset, FS_CardinalityType DEF QueueTypeOK

-----------------------------------------------------------------------------
(* The initial state and the steps *)

\* At the start nothing is queued and no lock is held.
LEMMA QueueInitInv == QueueInit => QueueInv
<1> SUFFICES ASSUME QueueInit
             PROVE  QueueInv
  OBVIOUS
<1> USE QueueConstants DEF QueueInit
<1>1. pending = <<>> /\ ToSet(pending) = {} /\ IsInjective(pending) /\ pending \in Seq(Client)
  BY DEF ToSet, IsInjective
<1>2. QueueTypeOK
  BY <1>1 DEF QueueTypeOK, NoClient, Thread
<1>3. EntriesCounted
  <2>1. Cardinality({}) = 0
    BY FS_EmptySet
  <2>2. QED
    BY <1>1, <1>2, <2>1 DEF EntriesCounted, Thread, HasLease
<1>4. Bounds /\ StaleIsDead /\ HandsInPlace /\ CountedHasEntry
  BY <1>1 DEF Bounds, StaleIsDead, HandsInPlace, CountedHasEntry, Thread, NoClient, Client
<1>5. QED
  BY <1>3, <1>4 DEF QueueInv

\* A caller stores a command and takes its client in hand; the client may be new.
LEMMA SendInv ==
  ASSUME QueueInv, NEW t \in Caller, SendOnNewLease(t) \/ SendOnLease(t)
  PROVE  QueueInv'
<1> USE QueueConstants DEF QueueInv
<1>1. PICK c \in Client :
        /\ SendCommand(t, c) /\ pc[t] = "idle"
        /\ clientLease' = [clientLease EXCEPT ![t] = c]
        /\ lastClient' \in 0..MaxClient /\ lastClient <= lastClient' /\ c <= lastClient'
        /\ clientLease[t] = c \/ c = lastClient + 1
  <2>1. CASE SendOnNewLease(t)
    <3>1. lastClient + 1 \in Client /\ lastClient' = lastClient + 1 /\ lastClient \in Nat
      BY <2>1 DEF SendOnNewLease, EntriesCounted, QueueTypeOK, Client
    <3>2. /\ SendCommand(t, lastClient + 1)
          /\ clientLease' = [clientLease EXCEPT ![t] = lastClient + 1]
          /\ pc[t] = "idle"
      BY <2>1, <3>1 DEF SendOnNewLease
    <3>3. /\ lastClient' \in 0..MaxClient /\ lastClient <= lastClient'
          /\ lastClient + 1 <= lastClient'
      BY <3>1 DEF Client
    <3>4. QED
      BY <3>1, <3>2, <3>3
  <2>2. CASE SendOnLease(t)
    <3>1. clientLease[t] \in Client /\ clientLease[t] <= lastClient /\ lastClient \in 0..MaxClient
      BY <2>2 DEF SendOnLease, EntriesCounted, QueueTypeOK, Client, NoClient, Bounds
    <3>2. UNCHANGED <<lastClient, clientLease>> /\ clientLease \in [Caller -> 0..MaxClient]
      BY <2>2 DEF SendOnLease, callerVars, EntriesCounted, QueueTypeOK
    <3>3. QED
      BY <2>2, <3>1, <3>2 DEF SendOnLease
  <2>3. QED
    BY <2>1, <2>2
<1>2. /\ UNCHANGED <<stale, pending, queued, pendingLock, queuedLock, refused>>
      /\ slot' = slot \cup {c}
      /\ hand' = [hand EXCEPT ![t] = c]
      /\ pc' = [pc EXCEPT ![t] = "scan"]
      /\ t \in Thread /\ t # ActorThread
  BY <1>1 DEF SendCommand, Carry, Goto, locks, Thread
<1>3. \A d \in 1..lastClient : Alive(d)' => Alive(d)
  <2>1. \A d \in 1..lastClient : Held(d)' => Held(d)
    BY <1>1, <1>2 DEF Held, EntriesCounted, QueueTypeOK
  <2>2. QED
    BY <2>1, AliveIsHeld
<1>4. QueueTypeOK'
  BY <1>1, <1>2 DEF EntriesCounted, QueueTypeOK, Client, NoClient, Thread
<1>5. EntriesCounted'
  <2>1. \A d : HasLease(d)' => HasLease(d) \/ d = c
    BY <1>1 DEF HasLease, EntriesCounted, QueueTypeOK
  <2>2. \A d \in Client : InTransit(d) => InTransit(d)'
    BY <1>1, <1>2 DEF InTransit, EntriesCounted, QueueTypeOK, NoClient, Client
  <2>3. InTransit(c)'
    BY <1>2, <1>4 DEF InTransit, EntriesCounted, QueueTypeOK
  <2>4. slot \subseteq Client /\ queued \subseteq Client
    BY DEF EntriesCounted, QueueTypeOK
  <2>5. \A d \in queued : Alive(d)' => d \in ToSet(pending) \/ InTransit(d)'
    BY <1>3, <2>2, <2>4 DEF EntriesCounted, Bounds
  <2>6. \A d \in slot' : HasLease(d)' => d \in ToSet(pending) \/ InTransit(d)' \/ d \in refused
    BY <1>2, <2>1, <2>2, <2>3, <2>4 DEF EntriesCounted
  <2>7. QED
    BY <1>2, <1>4, <2>5, <2>6 DEF EntriesCounted
<1>6. Bounds'
  <2>1. \A u \in Thread : hand'[u] <= lastClient' /\ stale'[u] \subseteq 1..lastClient'
    <3>1. TAKE u \in Thread
    <3>2. hand[u] <= lastClient /\ stale[u] \subseteq 1..lastClient
      BY DEF Bounds
    <3>3. hand[u] \in Nat /\ lastClient \in Nat /\ lastClient' \in Nat /\ lastClient <= lastClient'
      BY <1>1 DEF EntriesCounted, QueueTypeOK
    <3>4. hand'[u] \in {hand[u], c} /\ stale' = stale
      BY <1>2 DEF EntriesCounted, QueueTypeOK
    <3>5. QED
      BY <1>1, <3>2, <3>3, <3>4
  <2>2. /\ pendingLock' \in Thread \cup {Nobody} /\ queuedLock' \in Thread \cup {Nobody}
        /\ queued' \subseteq 1..lastClient'
    BY <1>1, <1>2 DEF Bounds, EntriesCounted, QueueTypeOK
  <2>3. \A u \in Caller : clientLease'[u] <= lastClient'
    BY <1>1 DEF Bounds, EntriesCounted, QueueTypeOK
  <2>4. \A u, w \in Caller :
          clientLease'[u] # NoClient /\ clientLease'[u] = clientLease'[w] => u = w
    BY <1>1 DEF Bounds, EntriesCounted, QueueTypeOK, NoClient
  <2>5. QED
    BY <2>1, <2>2, <2>3, <2>4 DEF Bounds
<1>7. StaleIsDead'
  BY <1>2, <1>3, <1>1 DEF StaleIsDead, EntriesCounted, QueueTypeOK, Bounds
<1>8. HandsInPlace'
  <2>1. pc[ActorThread] # "idle" => hand[ActorThread] \in 1..lastClient
    BY DEF EntriesCounted, QueueTypeOK, Bounds, Thread, NoClient
  <2>2. hand'[ActorThread] = hand[ActorThread] /\ pc'[ActorThread] = pc[ActorThread]
    BY <1>2 DEF EntriesCounted, QueueTypeOK, Thread
  <2>3. pc'[ActorThread] = "forget_dead" => ~Alive(hand[ActorThread])'
    BY <1>3, <2>1, <2>2 DEF HandsInPlace
  <2>4. QED
    BY <1>1, <1>2, <2>2, <2>3 DEF HandsInPlace, EntriesCounted, QueueTypeOK
<1>9. CountedHasEntry'
  BY <1>1, <1>2, <1>3 DEF CountedHasEntry, EntriesCounted, QueueTypeOK, Bounds
<1>10. QED
  BY <1>5, <1>6, <1>7, <1>8, <1>9

\* A lease is dropped: nothing comes to life.
LEMMA DropLeaseInv ==
  ASSUME QueueInv, NEW t \in Caller, DropLease(t)
  PROVE  QueueInv'
<1> USE QueueConstants DEF QueueInv
<1>1. PICK c \in Client : c = clientLease[t]
  BY DEF DropLease, EntriesCounted, QueueTypeOK, NoClient, Client
<1>2. /\ clientLease' = [clientLease EXCEPT ![t] = NoClient]
      /\ slot' = slot \cup {c}
      /\ UNCHANGED <<lastClient, hand, pc, stale, pending, queued, pendingLock, queuedLock,
                     refused>>
      /\ ~HasLease(c)'
  <2>1. /\ clientLease' = [clientLease EXCEPT ![t] = NoClient]
        /\ slot' = slot \cup {c}
        /\ UNCHANGED <<lastClient, hand, pc, stale, pending, queued, pendingLock, queuedLock,
                       refused>>
    BY <1>1 DEF DropLease, locks
  <2>2. \A u \in Caller \ {t} : clientLease[u] # c
    BY <1>1 DEF Bounds, NoClient, Client
  <2>3. QED
    BY <1>1, <2>1, <2>2 DEF HasLease, EntriesCounted, QueueTypeOK, NoClient, Client
<1>3. \A d \in Client : Alive(d)' => Alive(d)
  <2>1. \A d \in Client : Held(d)' => Held(d)
    BY <1>2 DEF Held, EntriesCounted, QueueTypeOK, NoClient, Client
  <2>2. QED
    BY <2>1, AliveIsHeld
<1>4. EntriesCounted'
  <2>1. \A d \in Client : HasLease(d)' => HasLease(d)
    BY <1>2 DEF HasLease, EntriesCounted, QueueTypeOK, Client, NoClient
  <2>2. \A d : InTransit(d) <=> InTransit(d)'
    BY <1>2 DEF InTransit
  <2>3. clientLease' \in [Caller -> 0..MaxClient] /\ slot' \subseteq Client
    <3>1. clientLease \in [Caller -> 0..MaxClient] /\ slot \subseteq Client
      BY DEF EntriesCounted, QueueTypeOK
    <3>2. 0 \in 0..MaxClient
      OBVIOUS
    <3>3. QED
      BY <1>1, <1>2, <3>1, <3>2 DEF NoClient
  <2>4. QueueTypeOK'
    BY <1>2, <2>3 DEF EntriesCounted, QueueTypeOK
  <2>5. slot \subseteq Client /\ queued \subseteq Client
    BY DEF EntriesCounted, QueueTypeOK
  <2>6. \A d \in queued : Alive(d)' => d \in ToSet(pending) \/ InTransit(d)'
    BY <1>3, <2>2, <2>5 DEF EntriesCounted
  <2>7. \A d \in slot' : HasLease(d)' => d \in ToSet(pending) \/ InTransit(d)' \/ d \in refused
    BY <1>2, <2>1, <2>2, <2>5 DEF EntriesCounted
  <2>8. QED
    BY <1>2, <2>4, <2>6, <2>7 DEF EntriesCounted
<1>5. Bounds'
  BY <1>2 DEF Bounds, EntriesCounted, QueueTypeOK, NoClient, Client
<1>6. StaleIsDead'
  BY <1>2, <1>3 DEF StaleIsDead, EntriesCounted, QueueTypeOK
<1>7. HandsInPlace'
  <2>1. pc[ActorThread] # "idle" => hand[ActorThread] \in Client
    BY DEF EntriesCounted, QueueTypeOK, Thread, NoClient, Client
  <2>2. QED
    BY <1>2, <1>3, <2>1 DEF HandsInPlace
<1>8. CountedHasEntry'
  BY <1>2, <1>3 DEF CountedHasEntry, EntriesCounted, QueueTypeOK
<1>9. QED
  BY <1>4, <1>5, <1>6, <1>7, <1>8

-----------------------------------------------------------------------------
(* Submitting *)

\* A prune collects dead entries under the lock of `pending`.
LEMMA PruneScanInv ==
  ASSUME QueueInv, NEW t \in Thread, PruneScan(t)
  PROVE  QueueInv'
<1> USE QueueConstants DEF QueueInv
<1>1. /\ UNCHANGED <<lastClient, clientLease, slot, refused, hand, pending, queued, queuedLock>>
      /\ pc' = [pc EXCEPT ![t] = "retain"] /\ pc[t] = "scan"
      /\ stale' = [stale EXCEPT ![t] = {c \in ToSet(pending) : ~Alive(c)}]
      /\ pendingLock = Nobody /\ pendingLock' = t
  BY DEF PruneScan, Goto, callerVars, workVars
<1>2. \A d : Alive(d)' <=> Alive(d)
  <2>1. \A d : Held(d)' <=> Held(d)
    BY <1>1 DEF Held, EntriesCounted, QueueTypeOK
  <2>2. QED
    BY <2>1, AliveIsHeld
<1>3. EntriesCounted'
  <2>1. stale'[t] \subseteq Client /\ Nobody \notin Thread
    BY <1>1 DEF EntriesCounted, QueueTypeOK, Thread
  <2>2. QueueTypeOK'
    BY <1>1, <2>1 DEF EntriesCounted, QueueTypeOK
  <2>3. \A d : (InTransit(d) <=> InTransit(d)') /\ (HasLease(d) <=> HasLease(d)')
    BY <1>1 DEF InTransit, HasLease
  <2>4. QED
    BY <1>1, <1>2, <2>2, <2>3 DEF EntriesCounted
<1>4. Bounds'
  BY <1>1 DEF Bounds, EntriesCounted, QueueTypeOK
<1>5. StaleIsDead'
  BY <1>1, <1>2 DEF StaleIsDead, EntriesCounted, QueueTypeOK
<1>6. HandsInPlace'
  BY <1>1, <1>2 DEF HandsInPlace, EntriesCounted, QueueTypeOK, Thread
<1>7. CountedHasEntry'
  BY <1>1, <1>2 DEF CountedHasEntry, EntriesCounted, QueueTypeOK, Thread
<1>8. QED
  BY <1>3, <1>4, <1>5, <1>6, <1>7

\* The dead entries go, the live ones stay.
LEMMA PruneRetainInv ==
  ASSUME QueueInv, NEW t \in Thread, PruneRetain(t)
  PROVE  QueueInv'
<1> USE QueueConstants DEF QueueInv
<1>1. /\ UNCHANGED <<lastClient, clientLease, slot, refused, hand, stale, queued, queuedLock>>
      /\ pc[t] = "retain" /\ pc' = [pc EXCEPT ![t] = IF stale[t] = {} THEN "insert" ELSE "forget"]
      /\ pendingLock' = Nobody
  BY DEF PruneRetain, Goto, callerVars, workVars
<1>2. /\ pending' \in Seq(Client) /\ ToSet(pending') = {c \in ToSet(pending) : Alive(c)}
      /\ IsInjective(pending')
  BY PrunedEntries DEF PruneRetain, EntriesCounted
<1>3. \A d : Alive(d)' <=> Alive(d)
  <2>1. \A d : Held(d)' <=> Held(d)
    BY <1>1 DEF Held, EntriesCounted, QueueTypeOK
  <2>2. QED
    BY <2>1, AliveIsHeld
<1>4. EntriesCounted'
  <2>1. Nobody \notin Thread
    BY DEF Thread
  <2>2. pendingLock = t /\ \A u \in Thread : pc[u] = "retain" => u = t
    BY <1>1 DEF EntriesCounted, QueueTypeOK
  <2>3. QueueTypeOK'
    BY <1>1, <1>2, <2>1, <2>2 DEF EntriesCounted, QueueTypeOK
  <2>4. \A d : (InTransit(d) <=> InTransit(d)') /\ (HasLease(d) <=> HasLease(d)')
    BY <1>1 DEF InTransit, HasLease
  <2>5. \A d : HasLease(d) => Alive(d)
    BY AliveIsHeld DEF HasLease, Held
  <2>6. QED
    BY <1>1, <1>2, <1>3, <2>3, <2>4, <2>5 DEF EntriesCounted
<1>5. Bounds'
  BY <1>1 DEF Bounds, EntriesCounted, QueueTypeOK
<1>6. StaleIsDead'
  BY <1>1, <1>2, <1>3 DEF StaleIsDead, EntriesCounted, QueueTypeOK
<1>7. HandsInPlace'
  BY <1>1, <1>2, <1>3 DEF HandsInPlace, EntriesCounted, QueueTypeOK, Thread
<1>8. CountedHasEntry'
  BY <1>1, <1>2, <1>3 DEF CountedHasEntry, EntriesCounted, QueueTypeOK, Thread
<1>9. QED
  BY <1>4, <1>5, <1>6, <1>7, <1>8

\* What a prune uncounts is dead and has no entry.
LEMMA PruneForgetInv ==
  ASSUME QueueInv, NEW t \in Thread, PruneForget(t)
  PROVE  QueueInv'
<1> USE QueueConstants DEF QueueInv
<1>1. /\ UNCHANGED <<lastClient, clientLease, slot, refused, hand, pending, pendingLock, queuedLock>>
      /\ pc[t] = "forget" /\ pc' = [pc EXCEPT ![t] = "insert"]
      /\ queued' = queued \ stale[t]
      /\ stale' = [stale EXCEPT ![t] = {}]
  BY DEF PruneForget, Goto, callerVars, workVars, locks
<1>2. \A c \in stale[t] : ~Alive(c) /\ c \notin ToSet(pending)
  BY <1>1 DEF StaleIsDead
<1>3. \A d : Alive(d)' <=> Alive(d)
  <2>1. \A d : Held(d)' <=> Held(d)
    BY <1>1 DEF Held, EntriesCounted, QueueTypeOK
  <2>2. QED
    BY <2>1, AliveIsHeld
<1>4. \A u \in Thread : pc[u] # "idle" /\ pc[u] # "forget_dead" => Alive(hand[u])
  BY AliveIsHeld DEF Held
<1>5. EntriesCounted'
  <2>1. QueueTypeOK'
    BY <1>1 DEF EntriesCounted, QueueTypeOK
  <2>2. \A d : (InTransit(d) <=> InTransit(d)') /\ (HasLease(d) <=> HasLease(d)')
    BY <1>1 DEF InTransit, HasLease
  <2>3. Cardinality(queued') <= ClientCap
    <3>1. IsFiniteSet(queued)
      BY FiniteQueue DEF EntriesCounted
    <3>2. Cardinality(queued') <= Cardinality(queued)
          /\ Cardinality(queued) \in Nat /\ Cardinality(queued') \in Nat
      BY <1>1, <3>1, FS_Subset, FS_CardinalityType
    <3>3. QED
      BY <3>2 DEF EntriesCounted
  <2>4. QED
    BY <1>1, <1>2, <1>3, <2>1, <2>2, <2>3 DEF EntriesCounted
<1>6. Bounds'
  BY <1>1 DEF Bounds, EntriesCounted, QueueTypeOK
<1>7. StaleIsDead'
  BY <1>1, <1>3 DEF StaleIsDead, EntriesCounted, QueueTypeOK
<1>8. HandsInPlace'
  BY <1>1, <1>2, <1>3, <1>4 DEF HandsInPlace, EntriesCounted, QueueTypeOK, Thread
<1>9. CountedHasEntry'
  BY <1>1, <1>3 DEF CountedHasEntry, EntriesCounted, QueueTypeOK, Thread
<1>10. QED
  BY <1>5, <1>6, <1>7, <1>8, <1>9

\* A client already counted is left to whoever has it; a full queue refuses one.
LEMMA InsertInv ==
  ASSUME QueueInv, NEW t \in Thread, Insert(t)
  PROVE  QueueInv'
<1> USE QueueConstants DEF QueueInv
<1>1. /\ UNCHANGED <<lastClient, clientLease, slot, stale, pending, pendingLock>>
      /\ pc[t] = "insert" /\ queuedLock = Nobody
  BY DEF Insert, callerVars
<1>2. hand[t] \in Client /\ Alive(hand[t])
  BY <1>1, AliveIsHeld DEF Held, EntriesCounted, QueueTypeOK, NoClient, Client
<1>3. CASE hand[t] \in queued \/ Cardinality(queued) >= ClientCap
  <2>1. /\ UNCHANGED <<queued, queuedLock>>
        /\ refused' = IF hand[t] \in queued THEN refused ELSE refused \cup {hand[t]}
        /\ pc' = [pc EXCEPT ![t] = "idle"]
        /\ hand' = [hand EXCEPT ![t] = NoClient]
    BY <1>3 DEF Insert, Finish, Goto, Carry
  <2>2. \A d \in Client : Alive(d)' => Alive(d)
    <3>1. \A d \in Client : Held(d)' => Held(d)
      BY <1>1, <2>1 DEF Held, EntriesCounted, QueueTypeOK, NoClient, Client
    <3>2. QED
      BY <3>1, AliveIsHeld
  <2>3. CountedHasEntry'
    BY <1>1, <2>1, <2>2 DEF CountedHasEntry, EntriesCounted, QueueTypeOK, Thread
  <2>4. EntriesCounted'
    <3>1. QueueTypeOK'
      BY <1>1, <1>2, <2>1 DEF EntriesCounted, QueueTypeOK, NoClient
    <3>2. \A d : HasLease(d) <=> HasLease(d)'
      BY <1>1 DEF HasLease
    <3>3. \A d \in queued : Alive(d)' => d \in ToSet(pending) \/ InTransit(d)'
      BY <1>1, <2>1, <2>3 DEF CountedHasEntry, InTransit, Thread
    <3>4. ASSUME NEW d \in slot, HasLease(d)
          PROVE  d \in ToSet(pending) \/ InTransit(d)' \/ d \in refused'
      <4>1. d \in Client /\ (d \in ToSet(pending) \/ InTransit(d) \/ d \in refused)
        BY <3>4 DEF EntriesCounted, QueueTypeOK
      <4>2. CASE InTransit(d) /\ d # hand[t]
        BY <2>1, <4>1, <4>2 DEF InTransit, EntriesCounted, QueueTypeOK
      <4>3. CASE d = hand[t] /\ d \in queued
        <5>1. Alive(d)'
          BY <3>2, <3>4, AliveIsHeld DEF HasLease, Held
        <5>2. QED
          BY <3>3, <4>3, <5>1
      <4>4. QED
        BY <2>1, <4>1, <4>2, <4>3
    <3>5. QED
      BY <1>1, <2>1, <3>1, <3>2, <3>3, <3>4 DEF EntriesCounted
  <2>5. Bounds'
    BY <1>1, <2>1 DEF Bounds, EntriesCounted, QueueTypeOK, NoClient
  <2>6. StaleIsDead'
    BY <1>1, <2>1, <2>2 DEF StaleIsDead, EntriesCounted, QueueTypeOK
  <2>7. HandsInPlace'
    <3>1. pc[ActorThread] # "idle" => hand[ActorThread] \in Client
      BY DEF EntriesCounted, QueueTypeOK, Thread, NoClient, Client
    <3>2. QED
      BY <1>1, <2>1, <2>2, <3>1 DEF HandsInPlace, EntriesCounted, QueueTypeOK, Thread
  <2>8. QED
    BY <2>3, <2>4, <2>5, <2>6, <2>7
<1>4. CASE hand[t] \notin queued /\ ~(Cardinality(queued) >= ClientCap)
  <2>1. /\ queued' = queued \cup {hand[t]}
        /\ refused' = refused \ {hand[t]}
        /\ queuedLock' = t
        /\ pc' = [pc EXCEPT ![t] = "push"]
        /\ UNCHANGED hand
    BY <1>4 DEF Insert, Goto
  <2>2. \A d : Alive(d)' <=> Alive(d)
    <3>1. \A d : Held(d)' <=> Held(d)
      BY <1>1, <2>1 DEF Held, EntriesCounted, QueueTypeOK
    <3>2. QED
      BY <3>1, AliveIsHeld
  <2>3. hand[t] \notin ToSet(pending)
    BY <1>4 DEF EntriesCounted
  <2>4. EntriesCounted'
    <3>1. Nobody \notin Thread
      BY DEF Thread
    <3>2. \A u \in Thread : pc[u] # "push"
      BY <1>1, <3>1 DEF EntriesCounted, QueueTypeOK
    <3>3. QueueTypeOK'
      BY <1>1, <1>2, <2>1, <3>1, <3>2 DEF EntriesCounted, QueueTypeOK
    <3>4. Cardinality(queued') <= ClientCap
      <4>1. /\ IsFiniteSet(queued) /\ Cardinality(queued) \in Nat
            /\ Cardinality(queued') = Cardinality(queued) + 1
        BY <1>4, <2>1, FiniteQueue, FS_AddElement DEF EntriesCounted
      <4>2. QED
        BY <1>4, <4>1
    <3>5. \A d : (InTransit(d) <=> InTransit(d)') /\ (HasLease(d) <=> HasLease(d)')
      BY <1>1, <2>1 DEF InTransit, HasLease
    <3>6. InTransit(hand[t])
      BY DEF InTransit
    <3>7. ToSet(pending) \subseteq queued'
      BY <2>1 DEF EntriesCounted
    <3>8. \A d \in queued' : Alive(d)' => d \in ToSet(pending) \/ InTransit(d)'
      BY <2>1, <2>2, <3>5, <3>6 DEF EntriesCounted
    <3>9. \A d \in slot : HasLease(d)' => d \in ToSet(pending) \/ InTransit(d)' \/ d \in refused'
      BY <2>1, <3>5, <3>6 DEF EntriesCounted
    <3>10. QED
      BY <1>1, <3>3, <3>4, <3>7, <3>8, <3>9 DEF EntriesCounted
  <2>5. Bounds'
    <3>1. hand[t] \in 1..lastClient
      BY <1>2 DEF Bounds, EntriesCounted, QueueTypeOK, Client
    <3>2. QED
      BY <1>1, <2>1, <3>1 DEF Bounds
  <2>6. StaleIsDead'
    BY <1>1, <2>1, <2>2 DEF StaleIsDead, EntriesCounted, QueueTypeOK
  <2>7. HandsInPlace'
    BY <1>1, <1>4, <2>1, <2>2, <2>3 DEF HandsInPlace, EntriesCounted, QueueTypeOK, Thread
  <2>8. CountedHasEntry'
    <3>1. \A d : Alive(d)' => Alive(d)
      BY <2>2
    <3>2. QED
      BY <1>1, <2>1, <3>1 DEF CountedHasEntry, EntriesCounted, QueueTypeOK, Thread
  <2>9. QED
    BY <2>4, <2>5, <2>6, <2>7, <2>8
<1>5. QED
  BY <1>3, <1>4

\* The entry that was counted is pushed.
LEMMA PushInv ==
  ASSUME QueueInv, NEW t \in Thread, Push(t)
  PROVE  QueueInv'
<1> USE QueueConstants DEF QueueInv
<1>1. /\ UNCHANGED <<lastClient, clientLease, slot, refused, stale, queued, pendingLock>>
      /\ pc[t] = "push" /\ pc' = [pc EXCEPT ![t] = "idle"]
      /\ hand' = [hand EXCEPT ![t] = NoClient]
      /\ pending' = Append(pending, hand[t])
      /\ queuedLock' = Nobody /\ queuedLock = t /\ pendingLock = Nobody
  BY DEF Push, Finish, Goto, Carry, callerVars, workVars, EntriesCounted, QueueTypeOK
<1>2. /\ hand[t] \in Client /\ Alive(hand[t])
      /\ hand[t] \in queued /\ hand[t] \notin ToSet(pending)
  BY <1>1, AliveIsHeld DEF Held, EntriesCounted, QueueTypeOK, NoClient, Client, HandsInPlace
<1>3. /\ pending' \in Seq(Client) /\ ToSet(pending') = ToSet(pending) \cup {hand[t]}
      /\ IsInjective(pending')
  BY <1>1, <1>2, AppendSet DEF EntriesCounted, QueueTypeOK
<1>4. \A d \in Client : Alive(d)' => Alive(d)
  <2>1. \A d \in Client : Held(d)' => Held(d)
    BY <1>1 DEF Held, EntriesCounted, QueueTypeOK, NoClient, Client
  <2>2. QED
    BY <2>1, AliveIsHeld
<1>5. Nobody \notin Thread /\ \A u \in Thread : pc[u] = "push" => u = t
  BY <1>1 DEF Thread, EntriesCounted, QueueTypeOK
<1>6. EntriesCounted'
  <2>1. QueueTypeOK'
    BY <1>1, <1>3, <1>5 DEF EntriesCounted, QueueTypeOK, NoClient
  <2>2. \A d : HasLease(d) <=> HasLease(d)'
    BY <1>1 DEF HasLease
  <2>3. \A d : InTransit(d) => d = hand[t] \/ InTransit(d)'
    BY <1>1 DEF InTransit, EntriesCounted, QueueTypeOK
  <2>4. queued \subseteq Client
    BY DEF EntriesCounted, QueueTypeOK
  <2>5. \A d \in queued : Alive(d)' => d \in ToSet(pending') \/ InTransit(d)'
    BY <1>3, <1>4, <2>3, <2>4 DEF EntriesCounted
  <2>6. \A d \in slot : HasLease(d)' => d \in ToSet(pending') \/ InTransit(d)' \/ d \in refused
    BY <1>3, <2>2, <2>3 DEF EntriesCounted
  <2>7. QED
    BY <1>1, <1>2, <1>3, <2>1, <2>5, <2>6 DEF EntriesCounted
<1>7. Bounds'
  BY <1>1 DEF Bounds, EntriesCounted, QueueTypeOK, NoClient
<1>8. StaleIsDead'
  BY <1>1, <1>2, <1>3, <1>4 DEF StaleIsDead, EntriesCounted, QueueTypeOK
<1>9. HandsInPlace'
  <2>1. pc[ActorThread] # "idle" => hand[ActorThread] \in Client
    BY DEF EntriesCounted, QueueTypeOK, Thread, NoClient, Client
  <2>2. QED
    BY <1>1, <1>2, <1>3, <1>4, <1>5, <2>1 DEF HandsInPlace, EntriesCounted, QueueTypeOK, Thread
<1>10. CountedHasEntry'
  <2>1. queued \subseteq Client
    BY DEF EntriesCounted, QueueTypeOK
  <2>2. QED
    BY <1>1, <1>3, <1>4, <1>5, <2>1 DEF CountedHasEntry, EntriesCounted, QueueTypeOK, Thread
<1>11. QED
  BY <1>6, <1>7, <1>8, <1>9, <1>10

-----------------------------------------------------------------------------
(* The actor *)

\* The head is popped, dead or alive; it is still counted.
LEMMA PopInv ==
  ASSUME QueueInv, Pop
  PROVE  QueueInv'
<1> USE QueueConstants DEF QueueInv
<1> DEFINE t == ActorThread
           c == Head(pending)
<1>1. /\ UNCHANGED <<lastClient, clientLease, slot, refused, stale, queued, pendingLock, queuedLock>>
      /\ pc[t] = "idle" /\ t \in Thread /\ hand[t] = NoClient
      /\ pc' = [pc EXCEPT ![t] = IF Alive(c) THEN "forget_popped" ELSE "forget_dead"]
      /\ hand' = [hand EXCEPT ![t] = c]
      /\ pending # <<>> /\ pending' = Tail(pending) /\ pendingLock = Nobody
  BY DEF Pop, Goto, Carry, callerVars, workVars, locks, Thread, EntriesCounted, QueueTypeOK
<1>2. /\ pending' \in Seq(Client) /\ c \in Client /\ c \in ToSet(pending)
      /\ ToSet(pending') = ToSet(pending) \ {c}
      /\ IsInjective(pending') /\ c \in queued
  BY <1>1, TailSet DEF EntriesCounted, QueueTypeOK
<1> HIDE DEF c
<1>3. \A d \in Client : Alive(d)' <=> Alive(d)
  <2>1. \A d \in Client : Held(d)' <=> Held(d)
    BY <1>1, <1>2, AliveIsHeld DEF Held, EntriesCounted, QueueTypeOK, NoClient, Client
  <2>2. QED
    BY <2>1, AliveIsHeld
<1>4. EntriesCounted'
  <2>1. QueueTypeOK'
    BY <1>1, <1>2 DEF EntriesCounted, QueueTypeOK, NoClient, Client, Thread
  <2>2. \A d : HasLease(d) <=> HasLease(d)'
    BY <1>1 DEF HasLease
  <2>3. /\ \A d \in Client : InTransit(d) => InTransit(d)'
        /\ \A d : d = c => InTransit(d)'
    BY <1>1, <1>2 DEF InTransit, EntriesCounted, QueueTypeOK, NoClient, Client
  <2>4. queued \subseteq Client /\ slot \subseteq Client
    BY DEF EntriesCounted, QueueTypeOK
  <2>5. \A d \in queued : Alive(d)' => d \in ToSet(pending') \/ InTransit(d)'
    BY <1>2, <1>3, <2>3, <2>4 DEF EntriesCounted
  <2>6. \A d \in slot : HasLease(d)' => d \in ToSet(pending') \/ InTransit(d)' \/ d \in refused
    BY <1>2, <2>2, <2>3, <2>4 DEF EntriesCounted
  <2>7. QED
    BY <1>1, <1>2, <2>1, <2>5, <2>6 DEF EntriesCounted
<1>5. Bounds'
  BY <1>1, <1>2 DEF Bounds, EntriesCounted, QueueTypeOK
<1>6. StaleIsDead'
  BY <1>1, <1>2, <1>3 DEF StaleIsDead, EntriesCounted, QueueTypeOK
<1>7. HandsInPlace'
  <2>1. pc'[t] = "forget_dead" => ~Alive(hand[t])'
    <3>1. hand'[t] = c
      BY <1>1 DEF EntriesCounted, QueueTypeOK
    <3>2. pc'[t] = "forget_dead" => ~Alive(c)
      BY <1>1 DEF EntriesCounted, QueueTypeOK
    <3>3. \A d \in Client : d = c => (Alive(d)' <=> Alive(c))
      BY <1>3
    <3>4. QED
      BY <1>2, <3>1, <3>2, <3>3
  <2>2. \A u \in Thread : pc'[u] = "push" => pc[u] = "push" /\ hand'[u] = hand[u] /\ hand[u] # c
    BY <1>1, <1>2 DEF EntriesCounted, QueueTypeOK, HandsInPlace
  <2>3. QED
    BY <1>1, <1>2, <2>1, <2>2 DEF HandsInPlace, EntriesCounted, QueueTypeOK, Thread
<1>8. CountedHasEntry'
  <2>1. queued \subseteq Client
    BY DEF EntriesCounted, QueueTypeOK
  <2>2. c \in queued /\ \A d : d = c /\ Alive(d) => pc'[t] = "forget_popped" /\ hand'[t] = d
    BY <1>1, <1>2 DEF EntriesCounted, QueueTypeOK
  <2>3. QED
    BY <1>1, <1>2, <1>3, <2>1, <2>2 DEF CountedHasEntry, EntriesCounted, QueueTypeOK, Thread
<1>9. QED
  BY <1>4, <1>5, <1>6, <1>7, <1>8

\* A popped client is taken off the count.
LEMMA ForgetPoppedInv ==
  ASSUME QueueInv, ForgetPopped
  PROVE  QueueInv'
<1> USE QueueConstants DEF QueueInv
<1> DEFINE t == ActorThread
<1>1. PICK c \in Client : c = hand[t] /\ c \notin ToSet(pending)
  BY DEF ForgetPopped, EntriesCounted, QueueTypeOK, Thread, NoClient, Client, HandsInPlace
<1>2. /\ UNCHANGED <<lastClient, clientLease, slot, refused, stale, pending, pendingLock, queuedLock>>
      /\ queued' = queued \ {c} /\ t \in Thread
      /\ \/ /\ pc[t] = "forget_popped" /\ pc' = [pc EXCEPT ![t] = "serve"] /\ hand' = hand
         \/ /\ pc[t] = "forget_dead" /\ pc' = [pc EXCEPT ![t] = "idle"] /\ ~Alive(hand[t])
            /\ hand' = [hand EXCEPT ![t] = NoClient]
  BY <1>1 DEF ForgetPopped, Finish, Goto, Carry, callerVars, workVars, locks, Thread, HandsInPlace
<1>3. \A d \in Client : Alive(d)' <=> Alive(d)
  <2>1. \A d \in Client : Held(d)' <=> Held(d)
    BY <1>2 DEF Held, EntriesCounted, QueueTypeOK, NoClient, Client
  <2>2. QED
    BY <2>1, AliveIsHeld
<1>4. EntriesCounted'
  <2>1. QueueTypeOK'
    <3>1. /\ hand' \in [Thread -> 0..MaxClient]
          /\ pc' \in [Thread -> {"idle", "scan", "retain", "forget", "insert", "push",
                                 "forget_popped", "forget_dead", "serve", "decode"}]
      <4>1. 0 \in 0..MaxClient /\ hand \in [Thread -> 0..MaxClient]
        BY DEF EntriesCounted, QueueTypeOK
      <4>2. hand' \in [Thread -> 0..MaxClient]
        BY <1>2, <4>1 DEF NoClient
      <4>3. QED
        BY <1>2, <4>2 DEF EntriesCounted, QueueTypeOK
    <3>2. \A u \in Thread : hand'[u] = NoClient <=> pc'[u] = "idle"
      BY <1>1, <1>2 DEF EntriesCounted, QueueTypeOK, NoClient, Client
    <3>3. \A u \in Thread : /\ pc'[u] = "retain" <=> pc[u] = "retain"
                            /\ pc'[u] = "push" <=> pc[u] = "push"
      BY <1>2 DEF EntriesCounted, QueueTypeOK
    <3>4. QED
      BY <1>2, <3>1, <3>2, <3>3 DEF EntriesCounted, QueueTypeOK
  <2>2. \A d : HasLease(d) <=> HasLease(d)'
    BY <1>2 DEF HasLease
  <2>3. \A d \in Client : InTransit(d) /\ Alive(d) => InTransit(d)'
    BY <1>1, <1>2 DEF InTransit, EntriesCounted, QueueTypeOK
  <2>4. queued \subseteq Client /\ slot \subseteq Client
    BY DEF EntriesCounted, QueueTypeOK
  <2>5. \A d \in queued' : Alive(d)' => d \in ToSet(pending) \/ InTransit(d)'
    BY <1>2, <1>3, <2>3, <2>4 DEF EntriesCounted
  <2>6. \A d : HasLease(d) => Alive(d)
    BY AliveIsHeld DEF HasLease, Held
  <2>7. \A d \in slot : HasLease(d)' => d \in ToSet(pending) \/ InTransit(d)' \/ d \in refused
    BY <2>2, <2>3, <2>4, <2>6 DEF EntriesCounted
  <2>8. Cardinality(queued') <= ClientCap
    <3>1. IsFiniteSet(queued)
      BY FiniteQueue DEF EntriesCounted
    <3>2. Cardinality(queued') <= Cardinality(queued)
          /\ Cardinality(queued) \in Nat /\ Cardinality(queued') \in Nat
      BY <1>2, <3>1, FS_Subset, FS_CardinalityType
    <3>3. QED
      BY <3>2 DEF EntriesCounted
  <2>9. QED
    BY <1>1, <1>2, <2>1, <2>5, <2>7, <2>8 DEF EntriesCounted
<1>5. Bounds'
  BY <1>2 DEF Bounds, EntriesCounted, QueueTypeOK, NoClient
<1>6. StaleIsDead'
  BY <1>2, <1>3 DEF StaleIsDead, EntriesCounted, QueueTypeOK
<1>7. HandsInPlace'
  <2>1. \A u \in Thread : pc[u] = "push" => Alive(hand[u])
    BY AliveIsHeld DEF Held
  <2>2. \A u \in Thread : pc[u] = "push" => hand[u] # c
    BY <1>1, <1>2, <2>1 DEF HandsInPlace
  <2>3. QED
    BY <1>2, <2>2 DEF HandsInPlace, EntriesCounted, QueueTypeOK, Thread
<1>8. CountedHasEntry'
  <2>1. queued \subseteq Client
    BY DEF EntriesCounted, QueueTypeOK
  <2>2. ASSUME NEW d \in queued', Alive(d)'
        PROVE  d \in ToSet(pending)' \/ \E u \in Thread : pc'[u] = "push" /\ hand'[u] = d
    <3>1. d \in queued /\ d # c /\ Alive(d)
      BY <1>2, <1>3, <2>1, <2>2
    <3>2. \/ d \in ToSet(pending)
          \/ \E u \in Thread : pc[u] = "push" /\ hand[u] = d
      BY <1>1, <1>2, <3>1 DEF CountedHasEntry
    <3>3. \A u \in Thread : pc[u] = "push" => pc'[u] = "push" /\ hand'[u] = hand[u]
      BY <1>2 DEF EntriesCounted, QueueTypeOK
    <3>4. QED
      BY <1>2, <3>2, <3>3
  <2>3. QED
    BY <2>2 DEF CountedHasEntry
<1>9. QED
  BY <1>4, <1>5, <1>6, <1>7, <1>8

\* The actor takes the command, decodes, and answers or puts the work back; the queue is
\* left alone.
LEMMA ServeInv ==
  ASSUME QueueInv, Serve \/ Answer \/ Retain
  PROVE  QueueInv'
<1> USE QueueConstants DEF QueueInv
<1> DEFINE t == ActorThread
<1>1. PICK c \in Client : c = hand[t]
  BY DEF Serve, Answer, Retain, EntriesCounted, QueueTypeOK, Thread, NoClient, Client
<1>2. /\ UNCHANGED <<lastClient, clientLease, refused, stale, pending, queued, pendingLock, queuedLock>>
      /\ pc[t] \in {"serve", "decode"} /\ t \in Thread
      /\ slot' \subseteq slot \cup {c} /\ slot \ {c} \subseteq slot'
      /\ \/ /\ pc' = [pc EXCEPT ![t] = "idle"] /\ (HasLease(c) => c \notin slot')
            /\ hand' = [hand EXCEPT ![t] = NoClient]
         \/ /\ pc' = [pc EXCEPT ![t] = "decode"] /\ hand' = hand
         \/ /\ pc' = [pc EXCEPT ![t] = "scan"] /\ hand' = hand
  BY <1>1 DEF Serve, Answer, Retain, Finish, Goto, Carry, callerVars, locks, Thread
<1>3. \A d \in Client : Alive(d)' => Alive(d)
  <2>1. \A d \in Client : Held(d)' => Held(d)
    BY <1>2 DEF Held, EntriesCounted, QueueTypeOK, NoClient, Client
  <2>2. QED
    BY <2>1, AliveIsHeld
<1>4. CountedHasEntry'
  <2>1. queued \subseteq Client
    BY DEF EntriesCounted, QueueTypeOK
  <2>2. QED
    BY <1>2, <1>3, <2>1 DEF CountedHasEntry, EntriesCounted, QueueTypeOK, Thread
<1>5. EntriesCounted'
  <2>1. QueueTypeOK'
    BY <1>1, <1>2 DEF EntriesCounted, QueueTypeOK, NoClient
  <2>2. \A d : HasLease(d) <=> HasLease(d)'
    BY <1>2 DEF HasLease
  <2>3. \A d : InTransit(d) /\ d # c => InTransit(d)'
    BY <1>1, <1>2 DEF InTransit, EntriesCounted, QueueTypeOK
  <2>4. InTransit(c)' \/ (HasLease(c) => c \notin slot')
    BY <1>1, <1>2 DEF InTransit
  <2>5. \A d \in queued : Alive(d)' => d \in ToSet(pending) \/ InTransit(d)'
    BY <1>2, <1>4 DEF CountedHasEntry, InTransit, Thread
  <2>6. \A d \in slot' : HasLease(d)' => d \in ToSet(pending) \/ InTransit(d)' \/ d \in refused
    BY <1>2, <2>2, <2>3, <2>4 DEF EntriesCounted
  <2>7. QED
    BY <1>2, <2>1, <2>5, <2>6 DEF EntriesCounted
<1>6. Bounds'
  <2>1. lastClient \in Nat /\ \A u \in Thread : hand[u] <= lastClient
    BY DEF Bounds, EntriesCounted, QueueTypeOK
  <2>2. \A u \in Thread : hand'[u] = hand[u] \/ hand'[u] = 0
    BY <1>2 DEF EntriesCounted, QueueTypeOK, NoClient
  <2>3. \A u \in Thread : hand'[u] <= lastClient
    BY <2>1, <2>2
  <2>4. QED
    BY <1>2, <2>3 DEF Bounds
<1>7. StaleIsDead'
  BY <1>2, <1>3 DEF StaleIsDead, EntriesCounted, QueueTypeOK
<1>8. HandsInPlace'
  BY <1>2, <1>3 DEF HandsInPlace, EntriesCounted, QueueTypeOK, Thread
<1>9. QED
  BY <1>4, <1>5, <1>6, <1>7, <1>8

-----------------------------------------------------------------------------
(* The theorems *)

\* The inductive invariant of the queue: types, one entry per client, entries and count in
\* step, what a prune takes off the count dead for good.
THEOREM QueueInvariant == QueueSafety => []QueueInv
<1>1. QueueInv /\ [QueueNext]_queueVars => QueueInv'
  <2> SUFFICES ASSUME QueueInv, [QueueNext]_queueVars
               PROVE  QueueInv'
    OBVIOUS
  <2>1. ASSUME NEW t \in Caller, Call(t)
        PROVE  QueueInv'
    BY <2>1, SendInv, DropLeaseInv DEF Call
  <2>2. ASSUME NEW t \in Thread, Submit(t)
        PROVE  QueueInv'
    BY <2>2, PruneScanInv, PruneRetainInv, PruneForgetInv, InsertInv, PushInv DEF Submit
  <2>3. CASE Work
    BY <2>3, PopInv, ForgetPoppedInv, ServeInv DEF Work
  <2>4. CASE UNCHANGED queueVars
    <3>1. UNCHANGED <<lastClient, clientLease, slot, refused, hand, pc, stale, pending, queued,
                      pendingLock, queuedLock>>
      BY <2>4 DEF queueVars, callerVars, workVars, locks
    <3>2. \A c : Alive(c)' <=> Alive(c)
      BY <3>1 DEF Alive, StrongCount
    <3>3. QED
      BY <3>1, <3>2 DEF QueueInv, EntriesCounted, QueueTypeOK, Bounds, StaleIsDead, HandsInPlace,
                        CountedHasEntry, HasLease, InTransit
  <2>5. QED
    BY <2>1, <2>2, <2>3, <2>4 DEF QueueNext
<1>2. QED
  BY QueueInitInv, <1>1, PTL DEF QueueSafety

\* Entries and count agree, whatever submits, prunes and pops interleave: a submit that
\* finds its client counted may return, and retained work is never left without an entry
\* unless the full queue turned it away (submit, enqueue_client, prune_dead_clients).
THEOREM EntriesCountedAlways == QueueSafety => []EntriesCounted
<1>1. QueueInv => EntriesCounted
  BY DEF QueueInv
<1>2. QED
  BY QueueInvariant, <1>1, PTL

\* The two mutexes of the queue never deadlock: a thread that holds `pending` asks for
\* nothing, and one that holds `queued_clients` asks for `pending` at most.
THEOREM NoCircularWaitAlways == QueueSafety => []NoCircularWait
<1>1. QueueInv => NoCircularWait
  <2> SUFFICES ASSUME QueueInv, NEW t \in Thread, Awaited(t) # Nobody
               PROVE  Awaited(t) # t /\ Awaited(Awaited(t)) # t
    BY DEF NoCircularWait
  <2> USE QueueConstants DEF QueueInv
  <2>1. Nobody \notin Thread
    BY DEF Thread
  <2>2. PICK u \in Thread : u = Awaited(t)
    BY <2>1 DEF Awaited, Bounds
  <2>3. CASE pc[t] \in {"scan", "push"}
    <3>1. pc[u] = "retain"
      BY <2>2, <2>3 DEF Awaited, EntriesCounted, QueueTypeOK
    <3>2. Awaited(u) = Nobody
      BY <3>1 DEF Awaited
    <3>3. QED
      BY <2>1, <2>2, <2>3, <3>1, <3>2
  <2>4. CASE pc[t] \in {"forget", "insert", "forget_popped", "forget_dead"}
    <3>1. pc[u] = "push"
      BY <2>2, <2>4 DEF Awaited, EntriesCounted, QueueTypeOK
    <3>2. Awaited(u) = pendingLock
      BY <3>1 DEF Awaited
    <3>3. pendingLock # t
      BY <2>4 DEF EntriesCounted, QueueTypeOK
    <3>4. QED
      BY <2>2, <2>4, <3>1, <3>2, <3>3
  <2>5. QED
    BY <2>3, <2>4 DEF Awaited
<1>2. QED
  BY QueueInvariant, <1>1, PTL
=============================================================================
