------------------------------- MODULE ProxyMedia -------------------------------
(*****************************************************************************)
(* Proxy media in the application: the menu of each media, one build and one *)
(* removal at a time, the worker that checks a proxy before it is used, the  *)
(* analysis that finds proxies of earlier runs, and the change of project,   *)
(* which waits for none of them.  One thread handles menus and polls; the    *)
(* workers' answers find an application that has moved on.                   *)
(*****************************************************************************)
EXTENDS ProxyWorkers

CONSTANTS
  Media,   \* ids of a project's videos; every project counts from one
  Capacity \* VALIDATION_CAPACITY

ASSUME MediaConstants ==
  /\ Capacity \in Nat \ {0}
  /\ IsFiniteSet(Media) /\ "none" \notin Media
  /\ Cardinality(Media) <= Cardinality(Original)

VARIABLES
  app,       \* the application's proxy fields and the channel to the validation worker
  originals, \* the path of each media
  results,   \* its answers
  analysis,  \* a proxy the media analysis has found and not reported yet
  said,      \* history: the user's last word on each media in this project
  verified   \* history: the checks under way that have found file and original as recorded

proxyVars == <<proxyWorkerVars, app, originals, results, analysis, said, verified>>

-----------------------------------------------------------------------------
NoMedia == "none"
NoRecord == [artifact |-> NoArtifact, enabled |-> FALSE, recheck |-> FALSE]
NoTicket == [token |-> 0, artifact |-> NoArtifact, activate |-> FALSE]
NoAnalysis == [media |-> NoMedia, artifact |-> NoArtifact]

Found(artifact) == [artifact |-> artifact, enabled |-> FALSE, recheck |-> FALSE]
Ready(a, m) == a.status[m] \in {"off", "on"}
Ticketed(a) == {m \in Media : a.tickets[m] # NoTicket}

\* Tokens count on for ever; an unused one does as well.
Token == 1..(2 * Capacity + 1)
Fresh(a) ==
  CHOOSE t \in Token :
    /\ \A i \in DOMAIN a.requests : t # a.requests[i].token
    /\ \A i \in DOMAIN results : t # results[i].token
    /\ \A m \in Media : t # a.tickets[m].token

-----------------------------------------------------------------------------
(* What the handlers share; each takes and returns the application's fields. *)

\* fail_proxy_validation
Fail(a, m) ==
  [a EXCEPT !.tickets[m] = NoTicket, !.records[m] = NoRecord, !.status[m] = "failed"]

Submission(a, m) ==
  [token |-> Fresh(a), original |-> originals[m], artifact |-> a.records[m].artifact,
   current |-> TRUE]

\* The validation worker is started with the first check and runs until its thread ends:
\* "able" is running or to be started, "unable" cannot be started, "closed" has ended.
Busy(a) ==
  \/ Cardinality(Ticketed(a)) >= Capacity
  \/ a.checker = "able" /\ Len(a.requests) >= Capacity

\* queue_proxy_validation: a full queue never makes the user wait, and keeps the wish for a
\* check; without a worker the wish goes.
QueueCheck(a, m, activate) ==
  IF a.tickets[m] # NoTicket \/ a.records[m] = NoRecord THEN a
  ELSE IF Busy(a) \/ a.checker # "able"
  THEN [a EXCEPT !.records[m].recheck = @ /\ Busy(a),
                 !.status[m] = IF activate THEN "off" ELSE @]
  ELSE LET request == Submission(a, m) IN
       [a EXCEPT !.requests = Append(@, request),
                 !.tickets[m] = [token |-> request.token, artifact |-> request.artifact,
                                 activate |-> activate],
                 !.records[m].recheck = FALSE,
                 !.status[m] = IF activate THEN "checking" ELSE @]

\* submit_deferred_proxy_checks; "order" is that of the hash map, and who comes after the
\* last free place is not looked at.
Visit(s, m) ==
  LET kept == [s.app EXCEPT !.records[m].recheck = @ /\ Ready(s.app, m)] IN
  IF s.room = 0 THEN s
  ELSE IF kept.records[m].recheck /\ kept.tickets[m] = NoTicket
  THEN [app |-> QueueCheck(kept, m, FALSE), room |-> s.room - 1]
  ELSE [s EXCEPT !.app = kept]

Asked(a, order) ==
  LET upTo[n \in 0..Len(order)] ==
        IF n = 0 THEN [app |-> a, room |-> Capacity - Cardinality(Ticketed(a))]
        ELSE Visit(upTo[n - 1], order[n])
  IN  upTo[Len(order)].app

SubmitDeferred(a, order) ==
  IF a.reconcile
  THEN LET asked == Asked(a, order) IN
       [asked EXCEPT !.reconcile = \E m \in Media : asked.records[m].recheck]
  ELSE a

\* reconcile_proxy_records, after a change of the cache.
Reconcile(a, order) ==
  LET stale == {m \in Media : a.records[m] # NoRecord /\ Ready(a, m)} IN
  SubmitDeferred([a EXCEPT !.records = [m \in Media |->
                                         [a.records[m] EXCEPT !.recheck = @ \/ m \in stale]],
                           !.reconcile = a.reconcile \/ stale # {}], order)

\* cancel_proxy_generation, but for the flag the worker sees.
CancelJob(a, m) ==
  IF a.job.media = m
  THEN [a EXCEPT !.job.cancelled = TRUE, !.tickets[m] = NoTicket]
  ELSE a

SignalBuild(cancelled) ==
  build' = [build EXCEPT !.cancel = @ \/ (cancelled /\ app.job.held)]

\* Every explicit action is remembered against late discoveries.
Suppress(a, m) == [a EXCEPT !.suppressed = @ \cup {m}]

-----------------------------------------------------------------------------
(* The menu of a media (proxy_media_menu) and its handlers.                  *)

Say(m, word) == said' = [said EXCEPT ![m] = word]

Untouched == UNCHANGED <<originals, results, analysis, verified>>

\* request_proxy_media while a job occupies its slot
GenerateRefused(m) ==
  /\ app.status[m] \in {"none", "failed"}
  /\ app.deletion.held \/ app.job.held
  /\ app' = Suppress(app, m)
  /\ UNCHANGED <<proxyWorkerVars, said>> /\ Untouched

\* Without the media tool, or without a thread, it fails at once.
Generate(m) ==
  /\ app.status[m] \in {"none", "failed"}
  /\ ~app.deletion.held /\ ~app.job.held
  /\ LET quiet == [Suppress(app, m) EXCEPT !.tickets[m] = NoTicket, !.records[m].enabled = FALSE]
     IN  \/ /\ app' = [quiet EXCEPT !.job = [held |-> TRUE, media |-> m, cancelled |-> FALSE],
                                    !.status[m] = "generating"]
            /\ build' = Building(originals[m])
         \/ /\ app' \in {[quiet EXCEPT !.status[m] = "failed"],
                         [Suppress(app, m) EXCEPT !.status[m] = "failed"]}
            /\ UNCHANGED build
  /\ Say(m, "free")
  /\ UNCHANGED <<workerFiles, remover>> /\ Untouched

Cancel(m) ==
  /\ app.status[m] = "generating"
  /\ app' = CancelJob(app, m)
  /\ SignalBuild(app.job.media = m)
  /\ Say(m, "cancel")
  /\ UNCHANGED <<workerFiles, remover>> /\ Untouched

\* set_proxy_media_enabled; the menu shows what the media is not.
Enable(m, enabled) ==
  /\ IF enabled THEN app.status[m] = "off" ELSE app.status[m] \in {"checking", "on"}
  /\ LET wish == [Suppress(app, m) EXCEPT
                    !.desired = IF enabled THEN @ \cup {m} ELSE @ \ {m},
                    !.tickets[m] = NoTicket]
         alone == IF enabled THEN wish ELSE CancelJob(wish, m)
         quiet == [alone EXCEPT !.records[m].enabled = FALSE, !.records[m].recheck = FALSE,
                                !.status[m] = "off"]
     IN  app' = IF app.records[m] = NoRecord
                THEN IF app.job.media = m THEN alone ELSE Fail(alone, m)
                ELSE IF enabled /\ app.job.media # m THEN QueueCheck(quiet, m, TRUE) ELSE quiet
  /\ SignalBuild(~enabled /\ app.job.media = m)
  /\ Say(m, IF enabled THEN "free" ELSE "off")
  /\ UNCHANGED <<workerFiles, remover>> /\ Untouched

Deletable(m) == app.status[m] \in {"checking", "off", "on", "failed"}
Unwanted(m) == [Suppress(app, m) EXCEPT !.desired = @ \ {m}]

\* delete_proxy_media while a job occupies its slot: the wish goes, the check stays.
DeleteRefused(m) ==
  /\ Deletable(m)
  /\ app.deletion.held \/ app.job.held
  /\ app' = IF app.job.held THEN CancelJob(Unwanted(m), m) ELSE Unwanted(m)
  /\ SignalBuild(app.job.media = m)
  /\ Say(m, "refused")
  /\ UNCHANGED <<workerFiles, remover>> /\ Untouched

Delete(m) ==
  /\ Deletable(m)
  /\ ~app.deletion.held /\ ~app.job.held
  /\ LET quiet == [Unwanted(m) EXCEPT !.tickets[m] = NoTicket, !.records[m].enabled = FALSE] IN
     IF app.records[m] = NoRecord
     THEN /\ app' = [quiet EXCEPT !.status[m] = "none"]
          /\ UNCHANGED remover
     ELSE \/ /\ app' = [quiet EXCEPT !.deletion = [held |-> TRUE, media |-> m],
                                     !.status[m] = "deleting"]
             /\ remover' = Removing(app.records[m].artifact)
          \/ /\ app' = [quiet EXCEPT !.status[m] = "failed"]
             /\ UNCHANGED remover
  /\ Say(m, "off")
  /\ UNCHANGED <<workerFiles, build>> /\ Untouched

-----------------------------------------------------------------------------
(* What the event loop polls.                                                *)

\* apply_proxy_event
ApplyEvent(a, m, event, artifact, order) ==
  IF a.job.cancelled
  THEN IF a.deletion.media = m THEN a
       ELSE [a EXCEPT !.status[m] = IF a.records[m] = NoRecord THEN "none" ELSE "off"]
  ELSE CASE event = "completed" ->
              Reconcile(QueueCheck([a EXCEPT !.records[m] = Found(artifact)], m, TRUE), order)
         [] event = "cancelled" -> [a EXCEPT !.status[m] = "none"]
         [] event = "failed"    -> [a EXCEPT !.status[m] = "failed"]

PollProxyJobPatient(order) ==
  /\ app.job.held
  /\ build.event # NoEvent \/ ~Alive(build)
  /\ app' = [(IF app.job.media = NoMedia \/ build.event = NoEvent THEN app
              ELSE ApplyEvent(app, app.job.media, build.event, build.artifact, order))
             EXCEPT !.job = [held |-> Alive(build), cancelled |-> FALSE,
                             media |-> IF build.event = NoEvent THEN @.media ELSE NoMedia]]
  /\ build' = IF Alive(build) THEN [build EXCEPT !.event = NoEvent] ELSE NoBuild
  /\ UNCHANGED <<workerFiles, remover, said>> /\ Untouched

\* A worker that has stopped without a word has failed; its handle goes once it has exited.
PollProxyJob(order) ==
  /\ app.job.held
  /\ build.event # NoEvent \/ ~Alive(build)
  /\ LET event == IF build.event = NoEvent THEN "failed" ELSE build.event
         heard == IF app.job.media = NoMedia THEN app
                  ELSE ApplyEvent(app, app.job.media, event, build.artifact, order)
     IN  app' = [heard EXCEPT !.job = [held |-> Alive(build), media |-> NoMedia, cancelled |-> FALSE]]
  /\ build' = IF Alive(build) THEN [build EXCEPT !.event = NoEvent] ELSE NoBuild
  /\ UNCHANGED <<workerFiles, remover, said>> /\ Untouched

PollProxyDeleteHasty ==
  /\ app.deletion.held
  /\ remover.event # NoEvent \/ ~Alive(remover)
  /\ LET m == app.deletion.media
         heard == IF m = NoMedia THEN app
                  ELSE IF remover.event = "completed"
                  THEN [app EXCEPT !.records[m] = NoRecord, !.status[m] = "none"]
                  ELSE [app EXCEPT !.status[m] = "failed"]
     IN  app' = [heard EXCEPT !.deletion = [held |-> FALSE, media |-> NoMedia]]
  /\ remover' = IF Alive(remover) THEN [remover EXCEPT !.event = NoEvent] ELSE NoRemover
  /\ UNCHANGED <<workerFiles, build, said>> /\ Untouched

PollProxyDelete ==
  /\ app.deletion.held
  /\ remover.event # NoEvent \/ ~Alive(remover)
  /\ LET m == app.deletion.media
         heard == IF m = NoMedia THEN app
                  ELSE IF remover.event = "completed"
                  THEN [app EXCEPT !.records[m] = NoRecord, !.status[m] = "none"]
                  ELSE [app EXCEPT !.status[m] = "failed"]
     IN  app' = [heard EXCEPT !.deletion = [held |-> Alive(remover), media |-> NoMedia]]
  /\ remover' = IF Alive(remover) THEN [remover EXCEPT !.event = NoEvent] ELSE NoRemover
  /\ UNCHANGED <<workerFiles, build, said>> /\ Untouched

AnyAsker(a, result) == Ticketed(a)

Asker(a, result) == {m \in Media : a.tickets[m].token = result.token}

\* apply_proxy_validation_result
ApplyResult(a, result) ==
  IF Asker(a, result) = {} THEN a
  ELSE LET m == CHOOSE n \in Asker(a, result) : TRUE
           ticket == a.tickets[m]
           answered == [a EXCEPT !.tickets[m] = NoTicket]
       IN  IF a.records[m].artifact # ticket.artifact THEN answered
           ELSE IF ~result.usable THEN Fail(answered, m)
           ELSE IF ticket.activate
           THEN [answered EXCEPT !.records[m].enabled = TRUE, !.status[m] = "on",
                                 !.desired = @ \cup {m}]
           ELSE answered

\* All the answers that have arrived, in their order.
Answered(a) ==
  LET upTo[n \in 0..Len(results)] ==
        IF n = 0 THEN a ELSE ApplyResult(upTo[n - 1], results[n])
  IN  upTo[Len(results)]

\* The worker is found ended: every check fails, and the next will start another worker,
\* if it can.
Abandoned(a, checker) ==
  [a EXCEPT !.records = [m \in Media |-> IF m \in Ticketed(a) THEN NoRecord ELSE @[m]],
            !.status = [m \in Media |-> IF m \in Ticketed(a) THEN "failed" ELSE @[m]],
            !.tickets = [m \in Media |-> NoTicket],
            !.requests = <<>>,
            !.checker = checker]

\* It reads no more than Capacity answers, the end of the worker being one.
PollProxyValidation(order) ==
  /\ results # <<>> \/ app.reconcile \/ app.checker = "closed"
  /\ IF app.checker = "closed" /\ Len(results) < Capacity
     THEN \E checker \in {"able", "unable"} :
            app' = SubmitDeferred(Abandoned(Answered(app), checker), order)
     ELSE app' = SubmitDeferred(Answered(app), order)
  /\ results' = <<>>
  /\ verified' = verified \ {results[i].token : i \in DOMAIN results}
  /\ UNCHANGED <<proxyWorkerVars, originals, analysis, said>>

\* The decoder cannot read the proxy (fallback_from_failed_proxy_decode).
Fallback(m) ==
  /\ app.records[m].enabled
  /\ app' = [app EXCEPT !.tickets[m] = NoTicket, !.records[m].enabled = FALSE,
                        !.status[m] = "failed"]
  /\ UNCHANGED <<proxyWorkerVars, said>> /\ Untouched

-----------------------------------------------------------------------------
(* The validation worker.                                                    *)

Usable(request) ==
  Stored(request.artifact) /\ request.artifact = Fingerprint(request.original)

\* validate: the file as recorded, the original as fingerprinted.  What was submitted for
\* another project is dropped, and so would be its answer, which nobody waits for.
Validate ==
  /\ app.checker = "able"
  /\ app.requests # <<>>
  /\ LET request == Head(app.requests) IN
     IF request.current
     THEN /\ Len(results) < Capacity
          /\ results' = Append(results, [token |-> request.token, usable |-> Usable(request)])
          /\ verified' = IF /\ Stored(request.artifact)
                            /\ request.artifact = Fingerprint(request.original)
                         THEN verified \cup {request.token} ELSE verified
     ELSE UNCHANGED <<results, verified>>
  /\ app' = [app EXCEPT !.requests = Tail(@)]
  /\ UNCHANGED <<proxyWorkerVars, originals, analysis, said>>

\* A check panics: what is queued is never looked at.
ValidatePanics ==
  /\ app.checker = "able"
  /\ app.requests # <<>> /\ Head(app.requests).current
  /\ app' = [app EXCEPT !.checker = "closed"]
  /\ UNCHANGED <<proxyWorkerVars, said>> /\ Untouched

\* Threads can be started again.
CheckerAble ==
  /\ app.checker = "unable"
  /\ app' = [app EXCEPT !.checker = "able"]
  /\ UNCHANGED <<proxyWorkerVars, said>> /\ Untouched

-----------------------------------------------------------------------------
(* The analysis of media and the change of project.                          *)

\* find_cached_proxy; the editor asks when a media is first used, and the application when a
\* project is restored.
FindCached(m) ==
  /\ analysis = NoAnalysis
  /\ Stored(Fingerprint(originals[m]))
  /\ analysis' = [media |-> m, artifact |-> Fingerprint(originals[m])]
  /\ UNCHANGED <<proxyWorkerVars, app, originals, results, said, verified>>

RestoreUnasked(m) ==
  /\ analysis.media = m
  /\ app' = IF app.records[m] # NoRecord \/ app.status[m] # "none" THEN app
            ELSE QueueCheck([app EXCEPT !.records[m] = Found(analysis.artifact)], m, TRUE)
  /\ analysis' = NoAnalysis
  /\ UNCHANGED <<proxyWorkerVars, originals, results, said, verified>>

\* restore_cached_proxy: nothing explicit is overruled.
RestoreCached(m) ==
  /\ analysis.media = m
  /\ LET found == [app EXCEPT !.records[m] = Found(analysis.artifact)] IN
     app' = IF m \in app.suppressed \/ app.records[m] # NoRecord \/ app.status[m] # "none" THEN app
            ELSE IF m \in app.desired THEN QueueCheck(found, m, TRUE)
            ELSE [found EXCEPT !.status[m] = "off"]
  /\ analysis' = NoAnalysis
  /\ UNCHANGED <<proxyWorkerVars, originals, results, said, verified>>

\* Nobody asks what it was about.
Outdated(request) == [request EXCEPT !.current = FALSE, !.artifact = NoArtifact]

\* show_editor_screen with reset_proxy_session, then the wishes of the document opened.
\* Jobs are cancelled and keep their slots; the analysis workers are joined.
OpenProject ==
  /\ \E wishes \in SUBSET Media :
       app' = [app EXCEPT !.records = [m \in Media |-> NoRecord],
                          !.status = [m \in Media |-> "none"],
                          !.tickets = [m \in Media |-> NoTicket],
                          !.desired = wishes,
                          !.suppressed = {},
                          !.reconcile = FALSE,
                          !.requests = [i \in DOMAIN @ |-> Outdated(@[i])],
                          !.job.media = NoMedia, !.job.cancelled = FALSE,
                          !.deletion.media = NoMedia]
  /\ originals' \in {f \in [Media -> Original] : IsInjective(f)}
  /\ SignalBuild(TRUE)
  /\ remover' = [remover EXCEPT !.cancel = @ \/ app.deletion.held]
  /\ analysis' = NoAnalysis
  /\ said' = [m \in Media |-> "free"]
  /\ UNCHANGED <<workerFiles, results, verified>>

-----------------------------------------------------------------------------
ProxyInit ==
  /\ WorkersInit
  /\ \E checker \in {"able", "unable"} :
       app = [records |-> [m \in Media |-> NoRecord],
              status |-> [m \in Media |-> "none"],
              tickets |-> [m \in Media |-> NoTicket],
              desired |-> {},
              suppressed |-> {},
              reconcile |-> FALSE,
              requests |-> <<>>,
              checker |-> checker,
              job |-> [held |-> FALSE, media |-> NoMedia, cancelled |-> FALSE],
              deletion |-> [held |-> FALSE, media |-> NoMedia]]
  /\ originals \in {f \in [Media -> Original] : IsInjective(f)}
  /\ results = <<>>
  /\ analysis = NoAnalysis
  /\ said = [m \in Media |-> "free"]
  /\ verified = {}

\* The order in which a hash map yields its keys.
Orders == {s \in [1..Cardinality(Media) -> Media] : IsInjective(s)}

MenuNext == \E m \in Media :
  \/ GenerateRefused(m) \/ Generate(m) \/ Cancel(m) \/ DeleteRefused(m) \/ Delete(m)
  \/ \E enabled \in BOOLEAN : Enable(m, enabled)

Apart == UNCHANGED <<app, originals, results, analysis, said, verified>>
Builds == BuildNext /\ Apart
Removes == RemoverNext /\ Apart

PollNext == PollProxyDelete \/ \E order \in Orders : PollProxyJob(order) \/ PollProxyValidation(order)

EnvironmentNext ==
  \/ ValidatePanics \/ CheckerAble
  \/ \E o \in Original : SourceChanges(o) /\ Apart
  \/ \E m \in Media : Fallback(m) \/ FindCached(m) \/ RestoreCached(m)

ProxyNext == MenuNext \/ Builds \/ Removes \/ PollNext \/ Validate \/ EnvironmentNext \/ OpenProject
ProxySafety == ProxyInit /\ [][ProxyNext]_proxyVars

\* Threads run, file operations and the media tool return, and the event loop polls.
ProxySpec ==
  /\ ProxySafety
  /\ WF_proxyVars(Builds)
  /\ WF_proxyVars(Removes)
  /\ WF_proxyVars(Validate)
  /\ WF_proxyVars(\E order \in Orders : PollProxyJob(order))
  /\ WF_proxyVars(PollProxyDelete)
  /\ WF_proxyVars(\E order \in Orders : PollProxyValidation(order))

-----------------------------------------------------------------------------
ProxyTypeOK ==
  /\ \A m \in Media :
       /\ app.records[m] = NoRecord \/ app.records[m].artifact \in Artifact
       /\ app.status[m] \in {"none", "generating", "checking", "off", "on", "deleting", "failed"}
       /\ app.tickets[m].token \in Token \cup {0}
  /\ app.desired \cup app.suppressed \subseteq Media
  /\ Len(app.requests) <= Capacity /\ Len(results) <= Capacity
  /\ IsInjective(originals)

\* The variables have their types, and the menu tells the truth, whatever worker has
\* answered late: a media is shown as generating, removing or checking exactly while a
\* job or a ticket of its own is under way, as in use exactly while its proxy feeds the
\* monitor, and a slot is free only when its thread has ended, so that never two threads
\* change the cache at once (proxy_media_menu, docs/proxy-media.md).
StatusTrue ==
  /\ ProxyTypeOK
  /\ \A m \in Media :
       /\ app.status[m] = "generating" <=> app.job.media = m
       /\ app.status[m] = "deleting" <=> app.deletion.media = m
       /\ app.status[m] = "checking" <=> app.tickets[m].activate
       /\ app.status[m] = "on" <=> app.records[m].enabled
       /\ app.status[m] \in {"off", "on", "checking", "deleting"} => app.records[m] # NoRecord
       /\ app.status[m] = "none" => app.records[m] = NoRecord
       /\ m \in Ticketed(app) => app.status[m] \in {"checking", "off", "on"}
       /\ app.records[m].recheck => app.reconcile
  /\ app.job.held <=> build # NoBuild
  /\ app.deletion.held <=> remover # NoRemover
  /\ ~(app.job.held /\ app.deletion.held)

\* No late answer overrules the user: after "use original", "cancel" or "delete" no proxy
\* feeds the monitor, no check can bring one back, and the wish that is saved with the
\* project is gone unless the user only cancelled ("late replies after explicit
\* generate/switch/delete actions cannot overwrite current proxy state").
LastWordKept ==
  \A m \in Media :
    /\ said[m] \in {"off", "cancel"} =>
         ~app.records[m].enabled /\ ~app.tickets[m].activate
    /\ said[m] = "off" => m \notin app.desired

\* A proxy begins to feed the monitor only through the ticket of its own check, made in
\* this project for this proxy and this original, and the check found the file and the
\* original as they were recorded.
RouteIsChecked ==
  [][\A m \in Media : app'.records[m].enabled /\ ~app.records[m].enabled =>
       /\ app.tickets[m].activate
       /\ app.tickets[m].token \in verified
       /\ app'.records[m].artifact = app.tickets[m].artifact
       /\ app'.records[m].artifact.original = originals[m]]_proxyVars

\* A temporary file lives no longer than the work on it, whether it fails, is cancelled or
\* panics; the cache names each proxy once, and no failure to prune lets it grow by more
\* than the proxy just published.
CacheTidy ==
  /\ part => Alive(build)
  /\ IsInjective(cache)
  /\ Len(cache) <= MaxItems + 1

-----------------------------------------------------------------------------
(* The inductive invariant.                                                  *)

ProxyRecord == [artifact : Artifact \cup {NoArtifact}, enabled : BOOLEAN, recheck : BOOLEAN]
Status == {"none", "generating", "checking", "off", "on", "deleting", "failed"}
Ticket == [token : Token \cup {0}, artifact : Artifact \cup {NoArtifact}, activate : BOOLEAN]
Check == [token : Token, original : Original, artifact : Artifact \cup {NoArtifact},
          current : BOOLEAN]
Answer == [token : Token, usable : BOOLEAN]
Word == {"free", "off", "cancel", "refused"}

BuildSlot == [held : BOOLEAN, media : Media \cup {NoMedia}, cancelled : BOOLEAN]
RemovalSlot == [held : BOOLEAN, media : Media \cup {NoMedia}]

App ==
  [records : [Media -> ProxyRecord],
   status : [Media -> Status],
   tickets : [Media -> Ticket],
   desired : SUBSET Media,
   suppressed : SUBSET Media,
   reconcile : BOOLEAN,
   requests : Seq(Check),
   checker : {"able", "unable", "closed"},
   job : BuildSlot,
   deletion : RemovalSlot]

ProxyValuesOK ==
  /\ WorkersTypeOK
  /\ app \in App /\ Len(app.requests) <= Capacity
  /\ originals \in [Media -> Original] /\ IsInjective(originals)
  /\ results \in Seq(Answer) /\ Len(results) <= Capacity
  /\ analysis \in [media : Media \cup {NoMedia}, artifact : Artifact \cup {NoArtifact}]
  /\ analysis.media # NoMedia => analysis.artifact \in Artifact
  /\ said \in [Media -> Word]

\* What the menu shows of a media, its record and its ticket agree.
MediaTrue(a, m) ==
  /\ a.records[m] = NoRecord \/ a.records[m].artifact \in Artifact
  /\ a.status[m] = "checking" <=> a.tickets[m].activate
  /\ a.status[m] = "on" <=> a.records[m].enabled
  /\ a.status[m] \in {"off", "on", "checking", "deleting"} => a.records[m] # NoRecord
  /\ a.status[m] = "none" => a.records[m] = NoRecord
  /\ m \in Ticketed(a) =>
       a.status[m] \in {"checking", "off", "on"} /\ a.tickets[m].artifact = a.records[m].artifact
  /\ a.records[m].recheck => a.reconcile

\* The tokens of the checks that somebody works on or has answered.
Awaited(a) == {a.requests[i].token : i \in DOMAIN a.requests} \cup {results[i].token : i \in DOMAIN results}

\* A ticket waits for one check in flight, of its own proxy and original; no other ticket
\* waits for it, and what is found usable has been verified.
TicketTrue(a, m) ==
  m \in Ticketed(a) =>
    LET ticket == a.tickets[m] IN
    /\ ticket.token \in Awaited(a)
    /\ \A n \in Media \ {m} : a.tickets[n].token # ticket.token
    /\ \A i \in DOMAIN a.requests : a.requests[i].token = ticket.token =>
         /\ a.requests[i].current
         /\ a.requests[i].artifact = ticket.artifact
         /\ a.requests[i].original = originals[m]
    /\ \A i \in DOMAIN results : results[i].token = ticket.token /\ results[i].usable =>
         ticket.token \in verified /\ ticket.artifact.original = originals[m]

\* What the user said last holds, and no job or discovery is left that could change it.
WordTrue(a, m) ==
  /\ said[m] \in {"off", "cancel"} => ~a.records[m].enabled /\ ~a.tickets[m].activate
  /\ said[m] = "off" => m \notin a.desired
  /\ said[m] # "free" \/ a.job.media = m => m \in a.suppressed
  /\ said[m] \in {"off", "cancel"} /\ a.job.media = m => a.job.cancelled

\* The two slots and their threads.
SlotsTrue(a) ==
  /\ a.job.held <=> build # NoBuild
  /\ a.deletion.held <=> remover # NoRemover
  /\ ~(a.job.held /\ a.deletion.held)
  /\ ~a.job.held => a.job.media = NoMedia
  /\ ~a.deletion.held => a.deletion.media = NoMedia
  /\ build.cancel /\ a.job.media # NoMedia => a.job.cancelled

\* A media is shown as generating or removing while it has the slot.
ShownTrue(a, m) ==
  /\ a.status[m] = "generating" <=> a.job.media = m
  /\ a.status[m] = "deleting" <=> a.deletion.media = m

ProxyInv ==
  /\ ProxyValuesOK /\ RoomKept /\ CacheTidy /\ SlotsTrue(app)
  /\ \A m \in Media :
       MediaTrue(app, m) /\ TicketTrue(app, m) /\ WordTrue(app, m) /\ ShownTrue(app, m)

-----------------------------------------------------------------------------
\* Whatever is shown as under way comes to an end.
MediaSettles ==
  \A m \in Media : []<>(app.status[m] \notin {"generating", "checking", "deleting"})

\* "Explicit enable saves intent immediately; disable or delete clears it": after the user
\* chose "delete", refused or not, the wish stays cleared until the next choice.
DeleteClearsIntent ==
  [][\A m \in Media : said[m] \in {"off", "refused"} /\ said'[m] = said[m] /\ m \notin app.desired
       => m \notin app'.desired]_proxyVars
=============================================================================
