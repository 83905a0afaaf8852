------------------------------- MODULE SourceLane -------------------------------
(*****************************************************************************)
(* The data plane of the coordinator: the latest-wins command slot of each   *)
(* lease, the queue of clients an actor serves, the decode loop of the       *)
(* actors, and the event slot a decoder is polled through.  It composes with *)
(* the control plane: every step here is a step of SourceCoordinator too, or *)
(* leaves its variables alone.                                               *)
(*                                                                           *)
(* The calls on an endpoint hold its `control` mutex; an actor never takes   *)
(* it.  An actor locks the command slot once to empty it and once more to    *)
(* put retained work back, and the caller may write in between.              *)
(*****************************************************************************)
EXTENDS SourceCoordinator, SequencesExt, Keeping

CONSTANTS
  MaxClient,      \* bound on NEXT_COORDINATOR_CLIENT_ID, one client per lease
  Decoder,        \* monitor decoders
  DecoderOf,      \* the decoder each endpoint belongs to
  ClientCap       \* MAX_SOURCE_ACTOR_CLIENTS

ASSUME LaneConstants ==
  /\ MaxClient \in Nat
  /\ DecoderOf \in [Endpoint -> Decoder]
  /\ ClientCap \in Nat \ {0}

VARIABLES
  lastClient, \* the ids handed out so far
  client,    \* the client of each endpoint's lease
  slot,      \* command slot of each client
  pending,   \* clients waiting for an actor, oldest first
  queued,    \* the ids an actor counts as queued
  pc,        \* where each actor is in its loop
  job,       \* the client and the request an actor has in hand
  newest,    \* newest_request_id of each decoder's event slot
  event,     \* the request whose picture or error waits in it
  owed       \* history: newest visible request of a decoder, until its answer is
             \* published, by the endpoint it went to

queueVars == <<pending, queued>>
eventVars == <<newest, event, owed>>
leaseVars == <<lastClient, client, slot>>
workVars  == <<pc, job>>
laneVars == <<coordinatorVars, leaseVars, queueVars, workVars, eventVars>>

-----------------------------------------------------------------------------
Client == 1..MaxClient
NoClient == 0

NoCommand == [kind |-> "none"]
Cancel == [kind |-> "cancel"]
Release == [kind |-> "release"]
RequestCommand(r) == [kind |-> "request", request |-> r]
Command == {NoCommand, Cancel, Release} \cup {RequestCommand(r) : r \in Request}
IsRequest(command) == command.kind = "request"

\* What decode_monitor_request left behind; a frame carries the request it was
\* retargeted to.
NoOutcome == [kind |-> "nothing"]
Deferral == [kind |-> "deferred"]
Answer(r) == [kind |-> "event", request |-> r]
Outcome == {NoOutcome, Deferral} \cup {Answer(r) : r \in Request}

NoJob == [client |-> NoClient]
Decoding == [client : Client, endpoint : Endpoint, request : Request, target : Request,
             software : BOOLEAN]
Settling == [client : Client, endpoint : Endpoint, request : Request, outcome : Outcome,
             command : Command]

SameGenerationAnyRole(r, s) == r.key = s.key /\ r.generation = s.generation

SameGeneration(r, s) ==
  r.key = s.key /\ r.generation = s.generation /\ r.scrubbing = s.scrubbing

\* client_is_bound_to
Bound(a, c) == \E e \in Endpoint : client[e] = c /\ lease[e].actor = a

\* A client is referenced by its lease and by the actor that has it in hand.
Alive(c) ==
  \/ \E e \in Endpoint : client[e] = c
  \/ \E a \in Actor : job[a].client = c

-----------------------------------------------------------------------------
(* The client queue of an actor *)

\* prune_dead_clients
LivePending(a) == Kept(pending[a], {c \in Client : Alive(c)})
LiveQueued(a) == {c \in queued[a] : Alive(c)}
QueueFull(a, c) == c \notin LiveQueued(a) /\ Cardinality(LiveQueued(a)) >= ClientCap

\* submit and enqueue_client: one entry per client; a full queue refuses it.
Enqueue(a, c) ==
  /\ pending' = [pending EXCEPT ![a] =
       IF c \in LiveQueued(a) \/ QueueFull(a, c) THEN LivePending(a)
       ELSE Append(LivePending(a), c)]
  /\ queued' = [queued EXCEPT ![a] =
       IF QueueFull(a, c) THEN LiveQueued(a) ELSE LiveQueued(a) \cup {c}]

-----------------------------------------------------------------------------
(* The event slot of a decoder *)

Publish(d, r) ==
  IF r.id < newest[d] THEN UNCHANGED eventVars
  ELSE /\ newest' = [newest EXCEPT ![d] = r.id]
       /\ event' = [event EXCEPT ![d] = r]
       /\ owed' = [e \in Endpoint |->
                     IF DecoderOf[e] = d /\ owed[e] <= r.id THEN 0 ELSE owed[e]]

\* emit_events
PublishVisible(e, r) ==
  IF r.speculative THEN UNCHANGED eventVars ELSE Publish(DecoderOf[e], r)

-----------------------------------------------------------------------------
(* The calls on an endpoint *)

\* A lease that is given up tells its client, and the client goes with it.
Dismiss(e) ==
  /\ slot' = IF client[e] = NoClient THEN slot ELSE [slot EXCEPT ![client[e]] = Release]
  /\ client' = [client EXCEPT ![e] = NoClient]
  /\ UNCHANGED lastClient

SendOnLease(e, r) ==
  IF LeasesSource(e, r.key)
  THEN /\ slot' = [slot EXCEPT ![client[e]] = RequestCommand(r)]
       /\ Enqueue(lease[e].actor, client[e])
       /\ UNCHANGED <<lastClient, client>>
  ELSE Dismiss(e) /\ UNCHANGED queueVars

SubmitRefused(e, r) ==
  LeasesSource(e, r.key) /\ QueueFull(lease[e].actor, client[e])

\* The newest visible request supersedes what its decoder owed before; silent work
\* on an endpoint owes nothing.
Owes(e, r) == [x \in Endpoint |->
  IF x = e THEN IF r.speculative THEN 0 ELSE r.id
  ELSE IF DecoderOf[x] = DecoderOf[e] /\ ~r.speculative THEN 0 ELSE owed[x]]

LaneRequest(e, r) ==
  /\ RequestNew(e, r, SubmitRefused(e, r))
  /\ SendOnLease(e, r)
  /\ owed' = Owes(e, r)
  /\ UNCHANGED <<workVars, newest, event>>

LaneRetry(e) ==
  /\ deferred[e] # NoRequest
  /\ RetryDeferred(e, SubmitRefused(e, deferred[e]))
  /\ SendOnLease(e, deferred[e])
  /\ UNCHANGED <<workVars, eventVars>>

\* The lease that acquire produced gets a client of its own, and its actor the
\* request; a refused thread is reported through the event slot.
LaneAcquire(e) ==
  LET r == acquiring[e]
      fresh == lastClient + 1
      shared == Indexed(e, r)
  IN /\ r # NoRequest
     /\ lastClient < MaxClient
     /\ Acquire(e, shared # NoActor /\ QueueFull(shared, fresh))
     /\ IF lease'[e].actor # NoActor
        THEN /\ lastClient' = fresh
             /\ client' = [client EXCEPT ![e] = fresh]
             /\ slot' = [slot EXCEPT ![fresh] = RequestCommand(r)]
             /\ Enqueue(lease'[e].actor, fresh)
             /\ UNCHANGED eventVars
        ELSE /\ IF deferred'[e] = NoRequest THEN PublishVisible(e, r)
                ELSE UNCHANGED eventVars
             /\ UNCHANGED <<leaseVars, queueVars>>
     /\ UNCHANGED workVars

LaneCancel(e) ==
  /\ CancelPending(e)
  /\ IF client[e] = NoClient THEN UNCHANGED <<slot, queueVars>>
     ELSE /\ slot' = [slot EXCEPT ![client[e]] = Cancel]
          /\ Enqueue(lease[e].actor, client[e])
  /\ owed' = [owed EXCEPT ![e] = 0]
  /\ UNCHANGED <<lastClient, client, workVars, newest, event>>

LaneRelease(e) ==
  /\ ReleaseLive(e)
  /\ Dismiss(e)
  /\ owed' = [owed EXCEPT ![e] = 0]
  /\ UNCHANGED <<queueVars, workVars, newest, event>>

LaneDefer(e) ==
  /\ DeferLive(e)
  /\ Dismiss(e)
  /\ UNCHANGED <<queueVars, workVars, eventVars>>

LaneReleaseSpeculative(e) ==
  /\ ReleaseSpeculative(e)
  /\ IF SpeculativeLease(e) THEN Dismiss(e) ELSE UNCHANGED leaseVars
  /\ UNCHANGED <<queueVars, workVars, eventVars>>

\* try_recv
Receive(d) ==
  /\ event[d] # NoRequest
  /\ event' = [event EXCEPT ![d] = NoRequest]
  /\ UNCHANGED <<coordinatorVars, leaseVars, queueVars, workVars, newest, owed>>

-----------------------------------------------------------------------------
(* source_lane_actor_loop *)

Running(a, label) == thread[a] = "running" /\ pc[a] = label
Goto(a, label) == pc' = [pc EXCEPT ![a] = label]
DropJob(a) == Goto(a, "scan") /\ job' = [job EXCEPT ![a] = NoJob]

\* The head of `pending` is taken; a dead client is skipped.
Scan(a) ==
  /\ Running(a, "scan") /\ a \in Live
  /\ pending[a] # <<>>
  /\ pending' = [pending EXCEPT ![a] = Tail(@)]
  /\ IF Alive(Head(pending[a]))
     THEN /\ job' = [job EXCEPT ![a] = [client |-> Head(pending[a])]]
          /\ Goto(a, "claim")
          /\ UNCHANGED queued
     ELSE /\ queued' = [queued EXCEPT ![a] = @ \ {Head(pending[a])}]
          /\ UNCHANGED workVars
  /\ UNCHANGED <<coordinatorVars, leaseVars, eventVars>>

ClaimStaysQueued(a) ==
  LET c == job[a].client
      r == slot[c].request
  IN /\ Running(a, "claim")
     /\ slot' = IF Bound(a, c) THEN [slot EXCEPT ![c] = NoCommand] ELSE slot
     /\ IF Bound(a, c) /\ IsRequest(slot[c])
        THEN /\ \E e \in Endpoint :
                  /\ client[e] = c
                  /\ job' = [job EXCEPT ![a] =
                       [client |-> c, endpoint |-> e, request |-> r, target |-> r,
                        software |-> FALSE]]
             /\ Goto(a, "decode")
        ELSE DropJob(a)
     /\ UNCHANGED <<coordinatorVars, lastClient, client, queueVars, eventVars>>

\* Its id leaves `queued` under a second lock.  A client that moved on is skipped,
\* its slot untouched, and a command that is no request is consumed.
Claim(a) ==
  LET c == job[a].client
      r == slot[c].request
  IN /\ Running(a, "claim")
     /\ queued' = [queued EXCEPT ![a] = @ \ {c}]
     /\ slot' = IF Bound(a, c) THEN [slot EXCEPT ![c] = NoCommand] ELSE slot
     /\ IF Bound(a, c) /\ IsRequest(slot[c])
        THEN /\ \E e \in Endpoint :
                  /\ client[e] = c
                  /\ job' = [job EXCEPT ![a] =
                       [client |-> c, endpoint |-> e, request |-> r, target |-> r,
                        software |-> FALSE]]
             /\ Goto(a, "decode")
        ELSE DropJob(a)
     /\ UNCHANGED <<coordinatorVars, lastClient, client, pending, eventVars>>

Finished(a, outcome) ==
  /\ job' = [job EXCEPT ![a] = [client |-> @.client, endpoint |-> @.endpoint,
               request |-> @.request, outcome |-> outcome, command |-> NoCommand]]
  /\ Goto(a, "finish")

Untouched == <<leaseVars, queueVars, eventVars>>

\* Cached pixels answer without a session.
AnswerFromCache(a) ==
  /\ Running(a, "decode") /\ job[a].target = job[a].request
  /\ Finished(a, Answer(job[a].request))
  /\ UNCHANGED <<coordinatorVars, Untouched>>

\* No permit: the request waits and is tried again.
DeferForCapacity(a) ==
  /\ Running(a, "decode") /\ a \notin session
  /\ ~PermitFree(a)
  /\ Finished(a, Deferral)
  /\ UNCHANGED <<coordinatorVars, Untouched>>

Open(a) ==
  /\ Running(a, "decode")
  /\ OpenSession(a)
  /\ UNCHANGED <<Untouched, workVars>>

\* The source does not open, with the permit already taken.
OpenFails(a) ==
  /\ Running(a, "decode")
  /\ CloseSession(a)
  /\ Finished(a, Answer(job[a].request))
  /\ UNCHANGED Untouched

\* recover_hardware_decode_failure gives the session up and opens another, once.
FallBackToSoftware(a) ==
  /\ Running(a, "decode") /\ ~job[a].software
  /\ CloseSession(a)
  /\ job' = [job EXCEPT ![a].software = TRUE]
  /\ UNCHANGED <<Untouched, pc>>

\* latest_same_generation: a newer target of the same generation is decoded towards
\* while it still lies in the slot.
Retarget(a) ==
  /\ Running(a, "decode") /\ a \in session
  /\ IsRequest(slot[job[a].client])
  /\ SameGeneration(job[a].request, slot[job[a].client].request)
  /\ job[a].target # slot[job[a].client].request
  /\ job' = [job EXCEPT ![a].target = slot[job[a].client].request]
  /\ UNCHANGED <<coordinatorVars, Untouched, pc>>

\* on_progress: an intermediate picture, published whether or not the lease still
\* stands.
Progress(a) ==
  /\ Running(a, "decode") /\ a \in session
  /\ ~job[a].request.speculative
  /\ Publish(DecoderOf[job[a].endpoint], job[a].target)
  /\ UNCHANGED <<coordinatorVars, leaseVars, queueVars, workVars>>

DecodeFrame(a) ==
  /\ Running(a, "decode") /\ a \in session
  /\ Finished(a, Answer(job[a].target))
  /\ UNCHANGED <<coordinatorVars, Untouched>>

\* An error is reported for the request the job started with.
DecodeError(a) ==
  /\ Running(a, "decode") /\ a \in session
  /\ Finished(a, Answer(job[a].request))
  /\ UNCHANGED <<coordinatorVars, Untouched>>

Invalidated(r, command) ==
  \/ command \in {Cancel, Release}
  \/ IsRequest(command) /\ ~SameGeneration(r, command.request)

\* The decode notices that its work is obsolete and returns nothing.
Abandon(a) ==
  /\ Running(a, "decode") /\ a \in session
  /\ Invalidated(job[a].request, slot[job[a].client])
  /\ Finished(a, NoOutcome)
  /\ UNCHANGED <<coordinatorVars, Untouched>>

\* The lease is checked and the slot emptied; a lease that goes between the two
\* leaves Release in the slot, which drops the outcome as well.
Finish(a) ==
  LET c == job[a].client
  IN /\ Running(a, "finish")
     /\ IF a \in Live /\ Bound(a, c)
        THEN /\ job' = [job EXCEPT ![a].command = slot[c]]
             /\ slot' = [slot EXCEPT ![c] = NoCommand]
             /\ Goto(a, "settle")
        ELSE DropJob(a) /\ UNCHANGED slot
     /\ UNCHANGED <<coordinatorVars, lastClient, client, queueVars, eventVars>>

PublishOutcome(a) ==
  IF job[a].outcome.kind = "event" /\ ~job[a].request.speculative
  THEN Publish(DecoderOf[job[a].endpoint], job[a].outcome.request)
  ELSE UNCHANGED eventVars

EnqueueInFront(a, c) ==
  /\ pending' = [pending EXCEPT ![a] =
       IF c \in LiveQueued(a) \/ QueueFull(a, c) THEN LivePending(a)
       ELSE <<c>> \o LivePending(a)]
  /\ queued' = [queued EXCEPT ![a] =
       IF QueueFull(a, c) THEN LiveQueued(a) ELSE LiveQueued(a) \cup {c}]

RestoreInFront(a, r) ==
  /\ slot' = [slot EXCEPT ![job[a].client] = RequestCommand(r)]
  /\ EnqueueInFront(a, job[a].client)

\* Retained work goes back to the slot, whatever lies there by now.
Restore(a, r) ==
  /\ slot' = [slot EXCEPT ![job[a].client] = RequestCommand(r)]
  /\ Enqueue(a, job[a].client)

\* A newer request of the generation was found, and perhaps answered on the way.
SettleCoalesced(a, newer) ==
  /\ SameGeneration(job[a].request, newer)
  /\ PublishOutcome(a)
  /\ IF job[a].outcome.kind = "event" /\ job[a].outcome.request.id = newer.id
     THEN UNCHANGED <<slot, queueVars>>
     ELSE Restore(a, newer)

SettleSuperseded(a, newer) ==
  /\ ~SameGeneration(job[a].request, newer)
  /\ Restore(a, newer)
  /\ UNCHANGED eventVars

SettleUndisturbed(a) ==
  /\ job[a].command = NoCommand
  /\ IF job[a].outcome = Deferral
     THEN Restore(a, job[a].request) /\ UNCHANGED eventVars
     ELSE PublishOutcome(a) /\ UNCHANGED <<slot, queueVars>>

Settle(a) ==
  /\ Running(a, "settle")
  /\ \/ /\ IsRequest(job[a].command)
        /\ \/ SettleCoalesced(a, job[a].command.request)
           \/ SettleSuperseded(a, job[a].command.request)
     \/ SettleUndisturbed(a)
     \/ job[a].command \in {Cancel, Release} /\ UNCHANGED <<slot, queueVars, eventVars>>
  /\ DropJob(a)
  /\ UNCHANGED <<coordinatorVars, lastClient, client>>

\* `shutdown` is read at the head of the loop.
Leave(a) ==
  /\ Running(a, "scan")
  /\ ExitActor(a)
  /\ pending' = [pending EXCEPT ![a] = <<>>]
  /\ queued' = [queued EXCEPT ![a] = {}]
  /\ UNCHANGED <<leaseVars, workVars, eventVars>>

LaneReap == Reap /\ UNCHANGED <<leaseVars, queueVars, workVars, eventVars>>

-----------------------------------------------------------------------------
LaneInit ==
  /\ CoordinatorInit
  /\ lastClient = 0
  /\ client = [e \in Endpoint |-> NoClient]
  /\ slot = [c \in Client |-> NoCommand]
  /\ pending = [a \in Actor |-> <<>>]
  /\ queued = [a \in Actor |-> {}]
  /\ pc = [a \in Actor |-> "scan"]
  /\ job = [a \in Actor |-> NoJob]
  /\ newest = [d \in Decoder |-> 0]
  /\ event = [d \in Decoder |-> NoRequest]
  /\ owed = [e \in Endpoint |-> 0]

Call(e) ==
  \/ \E r \in Request : LaneRequest(e, r)
  \/ LaneRetry(e) \/ LaneAcquire(e)
  \/ LaneCancel(e) \/ LaneRelease(e) \/ LaneDefer(e) \/ LaneReleaseSpeculative(e)

Decode(a) ==
  \/ AnswerFromCache(a) \/ DeferForCapacity(a)
  \/ Open(a) \/ OpenFails(a) \/ FallBackToSoftware(a)
  \/ DecodeFrame(a) \/ DecodeError(a) \/ Abandon(a)

Work(a) == Scan(a) \/ Claim(a) \/ Decode(a) \/ Finish(a) \/ Settle(a) \/ Leave(a)

LaneNext ==
  \/ \E e \in Endpoint : Call(e)
  \/ \E d \in Decoder : Receive(d)
  \/ \E a \in Actor : Work(a) \/ Retarget(a) \/ Progress(a)
  \/ LaneReap

LaneSafety == LaneInit /\ [][LaneNext]_laneVars

\* Actors and the reaper are threads of their own, and libav calls return: an actor
\* gets on with its job however often it is retargeted.  Callers owe nothing, except
\* that a call in its acquire half completes.
LaneSpec ==
  /\ LaneSafety
  /\ WF_laneVars(LaneReap)
  /\ \A a \in Actor : WF_laneVars(Work(a))
  /\ \A e \in Endpoint : WF_laneVars(LaneAcquire(e))

-----------------------------------------------------------------------------
(* Properties *)

LaneTypeOK ==
  /\ CoordinatorTypeOK
  /\ lastClient \in 0..MaxClient
  /\ client \in [Endpoint -> Client \cup {NoClient}]
  /\ slot \in [Client -> Command]
  /\ pending \in [Actor -> Seq(Client)]
  /\ queued \in [Actor -> SUBSET Client]
  /\ pc \in [Actor -> {"scan", "claim", "decode", "finish", "settle"}]
  /\ job \in [Actor -> Decoding \cup Settling \cup [client : Client \cup {NoClient}]]
  /\ newest \in [Decoder -> 0..MaxRequest]
  /\ event \in [Decoder -> Request \cup {NoRequest}]
  /\ owed \in [Endpoint -> 0..MaxRequest]

HasRequest(a) == pc[a] \in {"decode", "finish", "settle"}

\* The variables have their types.  An actor decodes for the source and the lane it was spawned for and for no other,
\* retiring or not, and no two actors have a request of one client in hand: a
\* retiring actor cannot steal a newer source request (CoordinatorClient).
ActorKeepsToItsSource ==
  /\ LaneTypeOK
  /\ \A a \in Actor : HasRequest(a) =>
       /\ source[a] = [key |-> job[a].request.key, lane |-> LaneOf(job[a].endpoint)]
       /\ \A b \in Actor \ {a} : HasRequest(b) => job[b].client # job[a].client

\* Speculative prewarming is never shown: no frame and no error of a speculative
\* request reaches the event slot, also when decodes are retargeted on the way
\* (MonitorRequest: a role change crosses a decode generation).
SilentPrewarm ==
  \A d \in Decoder : event[d] # NoRequest => ~event[d].speculative

\* A request in the slot of a live lease always has somebody coming for it: its
\* client waits in the actor's queue, the actor has it in hand and will look at the
\* slot again, or the request is deferred for a retry.
NoLostWakeup ==
  \A e \in Endpoint : client[e] # NoClient /\ IsRequest(slot[client[e]]) =>
    \/ Contains(pending[lease[e].actor], client[e])
    \/ job[lease[e].actor].client = client[e] /\ pc[lease[e].actor] # "settle"
    \/ deferred[e] # NoRequest

\* The inductive invariant behind these.
\* The loop: what an actor has in hand is what its place in the loop says, and an actor
\* whose thread is not in the loop has nothing and no queue.
LoopShape ==
  \A a \in Actor :
    /\ pc[a] = "scan" => job[a] = NoJob
    /\ pc[a] = "claim" => job[a] \in [client : Client]
    /\ pc[a] = "decode" => job[a] \in Decoding
    /\ pc[a] \in {"finish", "settle"} => job[a] \in Settling
    /\ thread[a] # "running" => pc[a] = "scan" /\ pending[a] = <<>>

\* Leases and clients come and go together, and no two leases share a client.
ClientsOfLeases ==
  \A e \in Endpoint :
    /\ client[e] # NoClient <=> lease[e].actor # NoActor
    /\ client[e] <= lastClient
    /\ \A f \in Endpoint : client[e] # NoClient /\ client[e] = client[f] => e = f

\* A client belongs to one actor for good: in its queue, in its hands or by its lease.
Serves(a, c) ==
  \/ c \in ToSet(pending[a])
  \/ job[a].client = c
  \/ \E e \in Endpoint : client[e] = c /\ lease[e].actor = a

OneServer ==
  \A a \in Actor, c \in Client : Serves(a, c) =>
    c <= lastClient /\ \A b \in Actor : Serves(b, c) => a = b

\* A request is silent exactly when it is the paused prewarm of a background endpoint.
Fits(e, r) == r.speculative = (e \notin Foreground /\ ~r.scrubbing)

RequestsFit ==
  \A e \in Endpoint :
    /\ acquiring[e] # NoRequest => Fits(e, acquiring[e])
    /\ deferred[e] # NoRequest => Fits(e, deferred[e])
    /\ lease[e].actor # NoActor => Fits(e, lease[e].request)
    /\ client[e] # NoClient /\ IsRequest(slot[client[e]]) =>
         /\ Fits(e, slot[client[e]].request)
         /\ slot[client[e]].request.key = lease[e].request.key

\* What an actor works towards, or may find in the slot, is of its source and its lane.
\* What it may publish is as visible as the request it started with.
Suits(a, r) == Fits(job[a].endpoint, r) /\ r.key = job[a].request.key
AsVisible(a, r) == r.speculative = job[a].request.speculative

JobsFit ==
  \A a \in Actor : HasRequest(a) =>
    /\ source[a] = [key |-> job[a].request.key, lane |-> LaneOf(job[a].endpoint)]
    /\ \A e \in Endpoint : client[e] = job[a].client => e = job[a].endpoint
    /\ Fits(job[a].endpoint, job[a].request)
    /\ IsRequest(slot[job[a].client]) => Suits(a, slot[job[a].client].request)
    /\ pc[a] = "decode" => Suits(a, job[a].target) /\ AsVisible(a, job[a].target)
    /\ pc[a] # "decode" =>
         /\ IsRequest(job[a].command) => Suits(a, job[a].command.request)
         /\ job[a].outcome.kind = "event" => AsVisible(a, job[a].outcome.request)

\* The queue: one entry per client, and what is counted has its entry, or is the client the
\* actor has taken and not yet uncounted.
QueueExact ==
  \A a \in Actor :
    /\ IsInjective(pending[a])
    /\ queued[a] = ToSet(pending[a]) \cup (IF pc[a] = "claim" THEN {job[a].client} ELSE {})
    /\ pc[a] = "claim" => job[a].client \notin ToSet(pending[a])

LaneInv ==
  /\ LaneTypeOK /\ LoopShape /\ ClientsOfLeases /\ OneServer
  /\ RequestsFit /\ JobsFit /\ QueueExact /\ SilentPrewarm

\* No client waits for ever in an actor's queue while its lease stands, also when the actor
\* puts the work of others back over and over again (enqueue_client appends).
QueuedClientServed ==
  \A a \in Actor, c \in Client : []<>~(Contains(pending[a], c) /\ Bound(a, c))

\* "Each lane and the public event slot retain only their latest work": the newest
\* visible request is in the slot, in an actor's hands or deferred until answered.
LatestOwed ==
  \A e \in Endpoint : owed[e] # 0 /\ Idle(e) =>
    \/ deferred[e] # NoRequest /\ deferred[e].id = owed[e]
    \/ /\ client[e] # NoClient
       /\ \/ IsRequest(slot[client[e]]) /\ slot[client[e]].request.id = owed[e]
          \/ \E a \in Actor : /\ HasRequest(a) /\ job[a].client = client[e]
                              /\ \/ owed[e] = job[a].request.id
                                 \/ /\ pc[a] = "settle" /\ IsRequest(job[a].command)
                                    /\ job[a].command.request.id = owed[e]
=============================================================================
