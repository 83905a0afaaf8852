----------------------------- MODULE ProjectWriter -----------------------------
(*****************************************************************************)
(* The background writer of the application.  The owner thread coalesces     *)
(* requests in a map under a lock and wakes the worker over a channel with   *)
(* room for one command; the worker takes the whole map, writes it path by   *)
(* path, and puts a request that failed back behind whatever has been queued *)
(* since.                                                                    *)
(*****************************************************************************)
EXTENDS Naturals, Sequences, FiniteSets

CONSTANTS
  Path,
  MaxSave,     \* bound on the requests for one path
  Thumbnails   \* requests may carry a thumbnail

ASSUME WriterConstants ==
  /\ MaxSave \in Nat
  /\ Thumbnails \in BOOLEAN

VARIABLES
  pending,  \* the shared map of requests
  channel,  \* commands on their way to the worker
  owner,    \* where the owner thread is
  worker,   \* where the worker is
  command,  \* the command it serves
  hand,     \* the requests it has taken and not written yet
  failed,   \* the request whose failure it is about to record
  disk,     \* document and thumbnail on disk
  errors,   \* error_rx: paths with a failure the owner has not seen
  asked,    \* history: number of requests for each path; a document is its request's number
  image,    \* history: newest thumbnail queued for each path
  reported  \* history: newest document of each path whose failure was reported

ownerVars == <<owner, asked, image>>
workerVars == <<worker, command, hand, failed>>
writerVars == <<pending, channel, ownerVars, workerVars, disk, errors, reported>>

-----------------------------------------------------------------------------
Request == [doc : 1..MaxSave, thumbnail : 0..MaxSave]
NoRequest == [doc |-> 0, thumbnail |-> 0]
NoRequests == [p \in Path |-> NoRequest]
NoFailure == <<>>

CoalesceDropsThumbnail(older, newer) == newer

\* coalesce_save_request; a thumbnail that has not been written rides on.
Coalesce(older, newer) ==
  IF newer.thumbnail = 0 THEN [newer EXCEPT !.thumbnail = older.thumbnail] ELSE newer

RetainOver(queued, lost) == lost

\* retain_failed_save: what was queued meanwhile is newer.
Retain(queued, lost) ==
  IF queued = NoRequest THEN lost
  ELSE IF queued.thumbnail = 0 THEN [queued EXCEPT !.thumbnail = lost.thumbnail]
  ELSE queued

-----------------------------------------------------------------------------
(* The owner thread.                                                         *)

\* save_latest: the map first, under its lock ...
SaveLatest(p) ==
  /\ owner = "running"
  /\ asked[p] < MaxSave
  /\ asked' = [asked EXCEPT ![p] = @ + 1]
  /\ \E withImage \in {Thumbnails, FALSE} :
       LET thumbnail == IF withImage THEN asked'[p] ELSE 0 IN
       /\ pending' = [pending EXCEPT
            ![p] = Coalesce(@, [doc |-> asked'[p], thumbnail |-> thumbnail])]
       /\ image' = IF withImage THEN [image EXCEPT ![p] = thumbnail] ELSE image
  /\ owner' = "wake"
  /\ UNCHANGED <<channel, workerVars, disk, errors, reported>>

\* ... and then a wake, dropped when a command is waiting already.
Wake ==
  /\ owner = "wake"
  /\ channel' = IF channel = <<>> THEN <<"wake">> ELSE channel
  /\ owner' = "running"
  /\ UNCHANGED <<pending, asked, image, workerVars, disk, errors, reported>>

\* flush and flush_and_shutdown block on the full channel, then on the answer.
Send(c, then) ==
  /\ owner = "running"
  /\ channel = <<>>
  /\ channel' = <<c>>
  /\ owner' = then
  /\ UNCHANGED <<pending, asked, image, workerVars, disk, errors, reported>>

\* poll_project_writer_events
PollErrors ==
  /\ owner = "running"
  /\ errors # {}
  /\ errors' = {}
  /\ UNCHANGED <<pending, channel, ownerVars, workerVars, disk, reported>>

-----------------------------------------------------------------------------
(* The worker.                                                               *)

Receive ==
  /\ worker = "receiving"
  /\ channel # <<>>
  /\ command' = Head(channel)
  /\ channel' = Tail(channel)
  /\ worker' = "taking"
  /\ UNCHANGED <<pending, ownerVars, hand, failed, disk, errors, reported>>

Take ==
  /\ worker = "taking"
  /\ hand' = pending
  /\ pending' = NoRequests
  /\ worker' = "saving"
  /\ UNCHANGED <<channel, ownerVars, command, failed, disk, errors, reported>>

\* persist_project_document succeeds ...
Persist(p) ==
  /\ worker = "saving"
  /\ hand[p] # NoRequest
  /\ disk' = [disk EXCEPT
       ![p].doc = hand[p].doc,
       ![p].thumbnail = IF hand[p].thumbnail = 0 THEN @ ELSE hand[p].thumbnail]
  /\ hand' = [hand EXCEPT ![p] = NoRequest]
  /\ UNCHANGED <<pending, channel, ownerVars, worker, command, failed, errors, reported>>

\* ... or fails before anything is written, or at the thumbnail.
PersistFails(p) ==
  /\ worker = "saving"
  /\ hand[p] # NoRequest
  /\ \/ UNCHANGED disk
     \/ /\ hand[p].thumbnail # 0
        /\ disk' = [disk EXCEPT ![p].doc = hand[p].doc]
  /\ failed' = <<p, hand[p]>>
  /\ hand' = [hand EXCEPT ![p] = NoRequest]
  /\ worker' = "failing"
  /\ UNCHANGED <<pending, channel, ownerVars, command, errors, reported>>

RecordForgets ==
  /\ worker = "failing"
  /\ errors' = errors \cup {failed[1]}
  /\ reported' = [reported EXCEPT ![failed[1]] = failed[2].doc]
  /\ failed' = NoFailure
  /\ worker' = "saving"
  /\ UNCHANGED <<pending, channel, ownerVars, command, hand, disk>>

\* The request goes back into the map, then the failure to the owner.
Record ==
  /\ worker = "failing"
  /\ LET p == failed[1] IN
     /\ pending' = [pending EXCEPT ![p] = Retain(@, failed[2])]
     /\ errors' = errors \cup {p}
     /\ reported' = [reported EXCEPT ![p] = failed[2].doc]
  /\ failed' = NoFailure
  /\ worker' = "saving"
  /\ UNCHANGED <<channel, ownerVars, command, hand, disk>>

FinishDrains ==
  /\ worker = "saving"
  /\ hand = NoRequests
  /\ channel' = <<>>
  /\ worker' = IF command = "shutdown" THEN "stopped" ELSE "receiving"
  /\ owner' = IF command = "wake" THEN owner
              ELSE IF command = "flush" THEN "running" ELSE "closed"
  /\ command' = "wake"
  /\ UNCHANGED <<pending, asked, image, hand, failed, disk, errors, reported>>

\* The map is written; a flush or a shutdown is answered, which unblocks the owner.
Finish ==
  /\ worker = "saving"
  /\ hand = NoRequests
  /\ worker' = IF command = "shutdown" THEN "stopped" ELSE "receiving"
  /\ owner' = IF command = "wake" THEN owner
              ELSE IF command = "flush" THEN "running" ELSE "closed"
  /\ command' = "wake"
  /\ UNCHANGED <<pending, channel, asked, image, hand, failed, disk, errors, reported>>

-----------------------------------------------------------------------------
WriterInit ==
  /\ pending = NoRequests
  /\ channel = <<>>
  /\ owner = "running"
  /\ worker = "receiving"
  /\ command = "wake"
  /\ hand = NoRequests
  /\ failed = NoFailure
  /\ disk = NoRequests
  /\ errors = {}
  /\ asked = [p \in Path |-> 0]
  /\ image = [p \in Path |-> 0]
  /\ reported = [p \in Path |-> 0]

OwnerSends == Send("flush", "flushing") \/ Send("shutdown", "closing")
OwnerNext == (\E p \in Path : SaveLatest(p)) \/ Wake \/ OwnerSends \/ PollErrors
WorkerNext ==
  \/ Receive \/ Take \/ Record \/ Finish
  \/ \E p \in Path : Persist(p) \/ PersistFails(p)

WriterNext == OwnerNext \/ WorkerNext
WriterSafety == WriterInit /\ [][WriterNext]_writerVars

\* The worker thread runs and its file operations return; the owner finishes a call it has
\* begun, but owes no calls.
WriterSpec == WriterSafety /\ WF_writerVars(WorkerNext) /\ WF_writerVars(Wake)

-----------------------------------------------------------------------------
WriterTypeOK ==
  /\ pending \in [Path -> Request \cup {NoRequest}]
  /\ hand \in [Path -> Request \cup {NoRequest}]
  /\ channel \in {<<>>, <<"wake">>, <<"flush">>, <<"shutdown">>}
  /\ owner \in {"running", "wake", "flushing", "closing", "closed"}
  /\ worker \in {"receiving", "taking", "saving", "failing", "stopped"}
  /\ worker = "failing" <=> failed # NoFailure
  /\ owner \in {"flushing", "closing"} <=>
       channel \in {<<"flush">>, <<"shutdown">>} \/ command # "wake"
  /\ errors \subseteq Path
  /\ \A p \in Path : disk[p].doc <= asked[p] /\ image[p] <= asked[p]

\* The variables have their types.  The newest document and the newest thumbnail queued for
\* a path are in the map, in the worker's hands or on disk, through any coalescing, failure
\* and retry ("Never replace its document, but retain a thumbnail that has not reached disk
\* yet", retain_failed_save).
NewestKept ==
  /\ WriterTypeOK
  /\ \A p \in Path :
       LET held == {pending[p], hand[p], disk[p]}
                   \cup (IF failed # NoFailure /\ failed[1] = p THEN {failed[2]} ELSE {})
       IN  /\ asked[p] \in {r.doc : r \in held}
           /\ image[p] \in {r.thumbnail : r \in held}

\* When a flush or the shutdown is answered, everything queued before it is on disk,
\* or a failure of its path waits for the owner (what flush_project_autosave builds on).
FlushIsDurable ==
  [][owner' # owner /\ owner \in {"flushing", "closing"} =>
       \A p \in Path : p \in errors \/ disk[p] = [doc |-> asked[p], thumbnail |-> image[p]]
    ]_writerVars

\* The inductive invariant behind these.
\* What the history and the files are, beside the types above.
HistoryTypeOK ==
  /\ asked \in [Path -> 0..MaxSave] /\ image \in [Path -> 0..MaxSave]
  /\ reported \in [Path -> 0..MaxSave]
  /\ disk \in [Path -> [doc : 0..MaxSave, thumbnail : 0..MaxSave]]
  /\ command \in {"wake", "flush", "shutdown"}
  /\ failed # NoFailure => failed \in Path \X Request

\* The worker has requests in hand only between taking the map and finishing with it, and a
\* command only between receiving and answering it; nothing follows the command that blocks
\* the owner.
WorkerShape ==
  /\ worker \notin {"saving", "failing"} => hand = NoRequests
  /\ worker \in {"receiving", "stopped"} => command = "wake"
  /\ command # "wake" => channel \in {<<>>, <<"wake">>}
  /\ failed # NoFailure => hand[failed[1]] = NoRequest

\* The worker's request for a path: it is being written, or its failure recorded.
InFlight(p) == IF failed # NoFailure /\ failed[1] = p THEN failed[2] ELSE hand[p]

\* The newest document is in the first of map, worker and disk that has one; so is the
\* newest thumbnail.  The disk is not ahead of the worker.
NewestInOrder ==
  \A p \in Path :
    /\ asked[p] = IF pending[p] # NoRequest THEN pending[p].doc
                  ELSE IF InFlight(p) # NoRequest THEN InFlight(p).doc
                  ELSE disk[p].doc
    /\ image[p] = IF pending[p].thumbnail # 0 THEN pending[p].thumbnail
                  ELSE IF InFlight(p).thumbnail # 0 THEN InFlight(p).thumbnail
                  ELSE disk[p].thumbnail
    /\ InFlight(p) # NoRequest => disk[p].doc <= InFlight(p).doc /\ InFlight(p).doc <= asked[p]

\* While the owner is blocked on an answer the map fills only with what has failed.
FailuresReported ==
  worker \in {"saving", "failing"} /\ command # "wake" =>
    \A p \in Path : pending[p] # NoRequest => p \in errors

WriterInv ==
  /\ WriterTypeOK /\ HistoryTypeOK
  /\ WorkerShape /\ NewestInOrder /\ FailuresReported

\* However the work goes on, there is again and again a moment at which the owner is free
\* and each document queued so far is on disk, or its failure, or that of a newer one, has
\* reached the owner: no wake is lost, although the channel drops one when it is full, and
\* an owner blocked on a full channel or on an answer gets on, as the worker is on its way
\* to empty the channel and to answer.
OwnerServed ==
  []<>(/\ owner \in {"running", "closed"}
       /\ \A p \in Path : disk[p].doc >= asked[p] \/ reported[p] >= asked[p])

Service == INSTANCE SaveService WITH
  Project <- Path,
  failures <- errors,
  Document <- 1..MaxSave,
  NoDocument <- 0,
  queue <- [p \in Path |-> [i \in 1..asked[p] - disk[p].doc |-> disk[p].doc + i]],
  file <- [p \in Path |-> disk[p].doc],
  flushing <- owner \in {"flushing", "closing"}

\* A document queued earlier never replaces a later one on disk, and a flush is answered
\* once all is saved or reported: the worker implements the service the application builds
\* on.
ImplementsService == Service!ServiceSpec
=============================================================================
