------------------------------ MODULE ClientQueue ------------------------------
(*****************************************************************************)
(* The client queue of one source-lane actor at the grain of its two locks.  *)
(* `pending` holds entries (a client id and a weak reference), `queued` the  *)
(* ids counted against MAX_SOURCE_ACTOR_CLIENTS; each has a mutex.  Callers  *)
(* submit the client of their lease, the actor pops entries and puts clients *)
(* with retained work back.  Both prune dead entries first.  A weak          *)
(* reference dies without a lock, in the middle of a prune as well.          *)
(*                                                                           *)
(* SourceLane treats a submit as one step; here it is six.                   *)
(*****************************************************************************)
EXTENDS Naturals, Sequences, SequencesExt, FiniteSets, Keeping

CONSTANTS
  Caller,     \* threads that send on a worker slot of their own
  ActorThread,
  Nobody,     \* holder of a free lock
  MaxClient,  \* bound on the client ids handed out
  ClientCap   \* MAX_SOURCE_ACTOR_CLIENTS

ASSUME QueueConstants ==
  /\ IsFiniteSet(Caller)
  /\ ActorThread \notin Caller
  /\ Nobody \notin Caller \cup {ActorThread}
  /\ MaxClient \in Nat
  /\ ClientCap \in Nat \ {0}

VARIABLES
  lastClient,  \* ids handed out
  clientLease, \* client each caller's lease keeps alive
  hand,        \* client a thread is submitting, serving or has popped
  pc,          \* where each thread is
  stale,       \* dead ids a prune has collected
  pending, queued,
  pendingLock, queuedLock,
  slot,        \* clients with a command in their slot
  refused      \* history: clients turned away since they were last counted

locks == <<pendingLock, queuedLock>>
callerVars == <<lastClient, clientLease>>
workVars == <<slot, refused>>
queueVars == <<callerVars, workVars, hand, pc, stale, pending, queued, locks>>

-----------------------------------------------------------------------------
Thread == Caller \cup {ActorThread}
Client == 1..MaxClient
NoClient == 0

\* Strong references to a client: its lease, and the threads that hold it; a popped
\* weak reference that did not upgrade is no strong one.
StrongCount(c) == Cardinality({t \in Caller : clientLease[t] = c})
                  + Cardinality({t \in Thread : hand[t] = c /\ pc[t] # "forget_dead"})
Alive(c) == StrongCount(c) # 0

Goto(t, label) == pc' = [pc EXCEPT ![t] = label]
Carry(t, c) == hand' = [hand EXCEPT ![t] = c]

\* The end of a submit: a caller returns, the actor goes for the next entry.
Finish(t) == Goto(t, "idle") /\ Carry(t, NoClient)

-----------------------------------------------------------------------------
(* Leases.                                                                   *)

\* send_to_with_role: the command goes to the slot, then the client is submitted.
SendCommand(t, c) ==
  /\ slot' = slot \cup {c}
  /\ Carry(t, c)
  /\ Goto(t, "scan")
  /\ UNCHANGED <<stale, pending, queued, locks, refused>>

SendOnNewLease(t) ==
  /\ pc[t] = "idle"
  /\ clientLease[t] = NoClient
  /\ lastClient < MaxClient
  /\ lastClient' = lastClient + 1
  /\ clientLease' = [clientLease EXCEPT ![t] = lastClient']
  /\ SendCommand(t, lastClient')

SendOnLease(t) ==
  /\ pc[t] = "idle"
  /\ clientLease[t] # NoClient
  /\ SendCommand(t, clientLease[t])
  /\ UNCHANGED callerVars

HasLease(c) == \E t \in Caller : clientLease[t] = c

\* Release, or a switch to another actor: the last command stays in the slot.  With its
\* last lease the actor would leave its loop and its queue be dropped, see
\* SourceCoordinator; here another caller keeps it.
DropLease(t) ==
  /\ pc[t] = "idle"
  /\ clientLease[t] # NoClient
  /\ \E u \in Caller \ {t} : clientLease[u] # NoClient
  /\ slot' = slot \cup {clientLease[t]}
  /\ clientLease' = [clientLease EXCEPT ![t] = NoClient]
  /\ UNCHANGED <<lastClient, hand, pc, stale, pending, queued, locks, refused>>

-----------------------------------------------------------------------------
(* submit and enqueue_client.                                                *)

\* prune_dead_clients looks for dead entries under the lock of `pending` ...
PruneScan(t) ==
  /\ pc[t] = "scan"
  /\ pendingLock = Nobody
  /\ pendingLock' = t
  /\ stale' = [stale EXCEPT ![t] = {c \in ToSet(pending) : ~Alive(c)}]
  /\ Goto(t, "retain")
  /\ UNCHANGED <<callerVars, workVars, hand, pending, queued, queuedLock>>

PruneRetainShared(t) ==
  /\ pc[t] = "retain"
  /\ pending' = Kept(pending, {c \in Client : StrongCount(c) > 1})
  /\ pendingLock' = Nobody
  /\ Goto(t, IF stale[t] = {} THEN "insert" ELSE "forget")
  /\ UNCHANGED <<callerVars, workVars, hand, stale, queued, queuedLock>>

\* ... looks again to drop them ...
PruneRetain(t) ==
  /\ pc[t] = "retain"
  /\ pending' = Kept(pending, {c \in Client : Alive(c)})
  /\ pendingLock' = Nobody
  /\ Goto(t, IF stale[t] = {} THEN "insert" ELSE "forget")
  /\ UNCHANGED <<callerVars, workVars, hand, stale, queued, queuedLock>>

\* ... and takes the ids of the first look off the count under the other lock.
PruneForget(t) ==
  /\ pc[t] = "forget"
  /\ queuedLock = Nobody
  /\ queued' = queued \ stale[t]
  /\ stale' = [stale EXCEPT ![t] = {}]
  /\ Goto(t, "insert")
  /\ UNCHANGED <<callerVars, workVars, hand, pending, locks>>

Insert(t) ==
  /\ pc[t] = "insert"
  /\ queuedLock = Nobody
  /\ IF hand[t] \in queued \/ Cardinality(queued) >= ClientCap
     THEN /\ refused' = IF hand[t] \in queued THEN refused ELSE refused \cup {hand[t]}
          /\ Finish(t)
          /\ UNCHANGED <<queued, queuedLock>>
     ELSE /\ queued' = queued \cup {hand[t]}
          /\ refused' = refused \ {hand[t]}
          /\ queuedLock' = t
          /\ Goto(t, "push")
          /\ UNCHANGED hand
  /\ UNCHANGED <<callerVars, slot, stale, pending, pendingLock>>

\* The lock of `pending` is taken inside that of `queued_clients`.
Push(t) ==
  /\ pc[t] = "push"
  /\ pendingLock = Nobody
  /\ pending' = Append(pending, hand[t])
  /\ queuedLock' = Nobody
  /\ Finish(t)
  /\ UNCHANGED <<callerVars, workVars, stale, queued, pendingLock>>

Submit(t) == PruneScan(t) \/ PruneRetain(t) \/ PruneForget(t) \/ Insert(t) \/ Push(t)

-----------------------------------------------------------------------------
(* The actor.                                                                *)

\* pop_front and upgrade: one lock, released before the next is taken.
Pop ==
  /\ pc[ActorThread] = "idle"
  /\ pending # <<>>
  /\ pendingLock = Nobody
  /\ pending' = Tail(pending)
  /\ Carry(ActorThread, Head(pending))
  /\ Goto(ActorThread, IF Alive(Head(pending)) THEN "forget_popped" ELSE "forget_dead")
  /\ UNCHANGED <<callerVars, workVars, stale, queued, locks>>

ForgetPopped ==
  /\ pc[ActorThread] \in {"forget_popped", "forget_dead"}
  /\ queuedLock = Nobody
  /\ queued' = queued \ {hand[ActorThread]}
  /\ IF pc[ActorThread] = "forget_popped"
     THEN Goto(ActorThread, "serve") /\ UNCHANGED hand
     ELSE Finish(ActorThread)
  /\ UNCHANGED <<callerVars, workVars, stale, pending, locks>>

\* client_is_bound_to and the take of the slot; a client that has lost its lease is dropped.
Serve ==
  /\ pc[ActorThread] = "serve"
  /\ IF HasLease(hand[ActorThread])
     THEN slot' = slot \ {hand[ActorThread]}
     ELSE UNCHANGED slot
  /\ IF HasLease(hand[ActorThread]) /\ hand[ActorThread] \in slot
     THEN Goto(ActorThread, "decode") /\ UNCHANGED hand
     ELSE Finish(ActorThread)
  /\ UNCHANGED <<callerVars, stale, pending, queued, locks, refused>>

\* The decode is over: answered, or dropped with its lease.
Answer ==
  /\ pc[ActorThread] = "decode"
  /\ slot' = IF HasLease(hand[ActorThread]) THEN slot \ {hand[ActorThread]} ELSE slot
  /\ Finish(ActorThread)
  /\ UNCHANGED <<callerVars, stale, pending, queued, locks, refused>>

RetainForgotten ==
  /\ pc[ActorThread] = "decode"
  /\ HasLease(hand[ActorThread])
  /\ slot' = slot \cup {hand[ActorThread]}
  /\ Finish(ActorThread)
  /\ UNCHANGED <<callerVars, stale, pending, queued, locks, refused>>

\* Deferred for capacity, or newer work is in the slot: it is put back and the client
\* enqueued; a refusal is ignored.
Retain ==
  /\ pc[ActorThread] = "decode"
  /\ HasLease(hand[ActorThread])
  /\ slot' = slot \cup {hand[ActorThread]}
  /\ Goto(ActorThread, "scan")
  /\ UNCHANGED <<callerVars, hand, stale, pending, queued, locks, refused>>

-----------------------------------------------------------------------------
QueueInit ==
  /\ lastClient = 0
  /\ clientLease = [t \in Caller |-> NoClient]
  /\ hand = [t \in Thread |-> NoClient]
  /\ pc = [t \in Thread |-> "idle"]
  /\ stale = [t \in Thread |-> {}]
  /\ pending = <<>>
  /\ queued = {}
  /\ pendingLock = Nobody
  /\ queuedLock = Nobody
  /\ slot = {}
  /\ refused = {}

Call(t) == SendOnNewLease(t) \/ SendOnLease(t) \/ DropLease(t)

\* The guard of `pending` lives to the end of the block, as it would in a `match` on it.
WorkUnderOneLock ==
  \/ /\ pc[ActorThread] = "idle"
     /\ pending # <<>>
     /\ pendingLock = Nobody
     /\ pendingLock' = ActorThread
     /\ pending' = Tail(pending)
     /\ Carry(ActorThread, Head(pending))
     /\ Goto(ActorThread, IF Alive(Head(pending)) THEN "forget_popped" ELSE "forget_dead")
     /\ UNCHANGED <<callerVars, workVars, stale, queued, queuedLock>>
  \/ /\ pc[ActorThread] \in {"forget_popped", "forget_dead"}
     /\ queuedLock = Nobody
     /\ queued' = queued \ {hand[ActorThread]}
     /\ pendingLock' = Nobody
     /\ IF pc[ActorThread] = "forget_popped"
        THEN Goto(ActorThread, "serve") /\ UNCHANGED hand
        ELSE Finish(ActorThread)
     /\ UNCHANGED <<callerVars, workVars, stale, pending, queuedLock>>
  \/ Serve \/ Answer \/ Retain

Work == Pop \/ ForgetPopped \/ Serve \/ Answer \/ Retain

QueueNext == (\E t \in Caller : Call(t)) \/ (\E t \in Thread : Submit(t)) \/ Work

QueueSafety == QueueInit /\ [][QueueNext]_queueVars

-----------------------------------------------------------------------------
QueueTypeOK ==
  /\ lastClient \in 0..MaxClient
  /\ clientLease \in [Caller -> 0..MaxClient]
  /\ hand \in [Thread -> 0..MaxClient]
  /\ pc \in [Thread -> {"idle", "scan", "retain", "forget", "insert", "push",
                        "forget_popped", "forget_dead", "serve", "decode"}]
  /\ stale \in [Thread -> SUBSET Client]
  /\ pending \in Seq(Client)
  /\ queued \subseteq Client
  /\ \A t \in Thread : pendingLock = t <=> pc[t] = "retain"
  /\ \A t \in Thread : queuedLock = t <=> pc[t] = "push"
  /\ \A t \in Thread : hand[t] = NoClient <=> pc[t] = "idle"
  /\ slot \subseteq Client
  /\ refused \subseteq Client

InTransit(c) == \E t \in Thread : hand[t] = c

\* The variables have their types, and the count and the entries agree, whatever submits,
\* prunes and pops interleave.  The count bounds the entries: no client has two, every entry
\* is counted, and the count stays within MAX_SOURCE_ACTOR_CLIENTS.  A live client that
\* counts as queued has an entry the actor will pop, or a thread is about to push or to
\* uncount it; else every later submit of it would be taken for done and its requests would
\* wait for ever (the contains_key check of submit).  And a leased client with a command in
\* its slot has an entry or a thread at work on it, unless the full queue turned it away
\* (the retained work of source_lane_actor_loop).
EntriesCounted ==
  /\ QueueTypeOK
  /\ IsInjective(pending)
  /\ ToSet(pending) \subseteq queued
  /\ Cardinality(queued) <= ClientCap
  /\ \A c \in queued : Alive(c) => c \in ToSet(pending) \/ InTransit(c)
  /\ \A c \in slot : HasLease(c) => c \in ToSet(pending) \/ InTransit(c) \/ c \in refused

\* The inductive invariant behind it.
\* A lock is free or a thread has it; the ids in use have been handed out, each to one
\* lease.
Bounds ==
  /\ pendingLock \in Thread \cup {Nobody} /\ queuedLock \in Thread \cup {Nobody}
  /\ queued \subseteq 1..lastClient
  /\ \A t \in Caller : clientLease[t] <= lastClient
  /\ \A t, u \in Caller : clientLease[t] # NoClient /\ clientLease[t] = clientLease[u] => t = u
  /\ \A t \in Thread : hand[t] <= lastClient /\ stale[t] \subseteq 1..lastClient

\* What a prune has collected is dead, and out of `pending` before it is uncounted.
StaleIsDead ==
  \A t \in Thread :
    /\ stale[t] # {} => pc[t] \in {"retain", "forget"}
    /\ \A c \in stale[t] : ~Alive(c) /\ (pc[t] = "forget" => c \notin ToSet(pending))

\* A client about to be pushed or uncounted has no entry; no thread pushes the client the
\* actor has popped.
HandsInPlace ==
  /\ \A t \in Thread : pc[t] = "push" => hand[t] \in queued \ ToSet(pending)
  /\ pc[ActorThread] \in {"forget_popped", "forget_dead"} =>
       hand[ActorThread] \notin ToSet(pending)
  /\ pc[ActorThread] = "forget_dead" => ~Alive(hand[ActorThread])
  /\ pc[ActorThread] = "forget_popped" =>
       /\ hand[ActorThread] \in queued
       /\ \A t \in Thread : pc[t] = "push" => hand[t] # hand[ActorThread]
  /\ \A t \in Caller : pc[t] \notin {"forget_popped", "forget_dead", "serve", "decode"}

\* What counts as queued and lives has an entry, or the thread that is about to push it or
\* to uncount it: a submit that finds it counted may leave it to that thread.
CountedHasEntry ==
  \A c \in queued : Alive(c) =>
    \/ c \in ToSet(pending)
    \/ \E t \in Thread : pc[t] = "push" /\ hand[t] = c
    \/ pc[ActorThread] = "forget_popped" /\ hand[ActorThread] = c

QueueInv == EntriesCounted /\ Bounds /\ StaleIsDead /\ HandsInPlace /\ CountedHasEntry

\* Whom a thread waits for, if the lock it wants next is held.
Awaited(t) ==
  CASE pc[t] \in {"scan", "push"} -> pendingLock
    [] pc[t] \in {"forget", "insert", "forget_popped", "forget_dead"} -> queuedLock
    [] OTHER -> Nobody

\* No thread waits for itself, and no two wait for each other: the two mutexes are not
\* reentrant, submit takes `pending` inside `queued_clients`, a prune and the actor take
\* them one after the other (submit, enqueue_client, source_lane_actor_loop).
NoCircularWait ==
  \A t \in Thread :
    LET u == Awaited(t) IN u # Nobody => u # t /\ Awaited(u) # t
=============================================================================
