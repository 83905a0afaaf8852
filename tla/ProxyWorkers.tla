------------------------------ MODULE ProxyWorkers ------------------------------
(*****************************************************************************)
(* The threads of nle-proxy that change the proxy cache: one builds a proxy  *)
(* of an original, one removes a proxy.  Each is started with a cancel flag  *)
(* that its owner may set at any moment, and leaves one last event in a      *)
(* channel before it exits.  Originals change under both.                    *)
(*****************************************************************************)
EXTENDS Naturals, Sequences, FiniteSets, SequencesExt, Keeping

CONSTANTS
  Original,   \* paths of original videos
  MaxVersion, \* bound on the changes of an original
  MaxItems    \* MAX_CACHE_ITEMS

ASSUME WorkerConstants ==
  /\ IsFiniteSet(Original) /\ "none" \notin Original
  /\ MaxVersion \in Nat
  /\ MaxItems \in Nat \ {0}

VARIABLES
  content, \* version of each original
  cache,   \* finished proxies, the oldest first
  part,    \* a temporary file is on disk
  build,   \* the worker that builds
  remover  \* the worker that removes

workerFiles == <<content, cache, part>>
proxyWorkerVars == <<workerFiles, build, remover>>

-----------------------------------------------------------------------------
\* The name of a proxy is made of its original's path, size and time, so a proxy is its
\* fingerprint.
Artifact == [original : Original, version : 0..MaxVersion]
Fingerprint(o) == [original |-> o, version |-> content[o]]

NoArtifact == [original |-> "none", version |-> 0]
NoEvent == "none"
NoBuild == [at |-> "none", artifact |-> NoArtifact, cancel |-> FALSE, event |-> NoEvent]
NoRemover == NoBuild

Building(o) == [at |-> "start", artifact |-> [original |-> o, version |-> 0],
                cancel |-> FALSE, event |-> NoEvent]
Removing(artifact) == [at |-> "remove", artifact |-> artifact, cancel |-> FALSE, event |-> NoEvent]

Alive(w) == w.at \notin {"none", "done"}
Stored(artifact) == artifact \in ToSet(cache)

Without(artifacts, artifact) == Kept(artifacts, Artifact \ {artifact})

\* prune_cache removes from the oldest on; the limit in bytes may take more than that in
\* files, and a file it cannot remove ends it.
Pruned == {SubSeq(cache, k + 1, Len(cache)) : k \in {n \in 0..Len(cache) : Len(cache) - n <= MaxItems}}
HalfPruned == {SubSeq(cache, k + 1, Len(cache)) : k \in 0..(Len(cache) - 1)}

-----------------------------------------------------------------------------
(* run_job and generate_proxy                                                *)

BuildAt(here) == build.at = here
Goto(there) == build' = [build EXCEPT !.at = there]

\* A set flag turns every outcome into "cancelled".
Ends(event) ==
  build' = [build EXCEPT !.at = "ended", !.event = IF build.cancel THEN "cancelled" ELSE event]

\* The outcomes of a check of the flag: the temporary file goes with the job.
Cancelled ==
  /\ build.cancel
  /\ part' = FALSE
  /\ Ends("cancelled")
  /\ UNCHANGED <<content, cache>>

Fails ==
  /\ part' = FALSE
  /\ Ends("failed")
  /\ UNCHANGED <<content, cache>>

\* Validation, fingerprint, pruning, and the removal of what it is going to replace (the
\* application always asks for that).
Prepare ==
  /\ BuildAt("start")
  /\ \/ Cancelled
     \/ Fails
     \/ /\ ~build.cancel
        /\ cache' \in HalfPruned
        /\ Ends("failed")
        /\ UNCHANGED <<content, part>>
     \/ /\ ~build.cancel
        /\ \E pruned \in Pruned : cache' = Without(pruned, Fingerprint(build.artifact.original))
        /\ build' = [build EXCEPT !.at = "encode",
                                  !.artifact = Fingerprint(build.artifact.original)]
        /\ part' = TRUE
        /\ UNCHANGED content

EncodeKeepsPart ==
  /\ BuildAt("encode")
  /\ \/ Cancelled
     \/ Ends("failed") /\ UNCHANGED workerFiles
     \/ /\ ~build.cancel
        /\ build.artifact = Fingerprint(build.artifact.original)
        /\ Goto("finished")
        /\ UNCHANGED workerFiles

\* The media tool runs and is killed on cancellation.  When it has written the file, the
\* original must still be the one fingerprinted.
Encode ==
  /\ BuildAt("encode")
  /\ \/ Cancelled
     \/ Fails
     \/ /\ ~build.cancel
        /\ build.artifact = Fingerprint(build.artifact.original)
        /\ Goto("finished")
        /\ UNCHANGED workerFiles

\* A flag set after the last look at the media tool meets unreachable!(): the thread unwinds
\* without an event.
Panics ==
  /\ BuildAt("encode")
  /\ build.cancel
  /\ part' = FALSE
  /\ Goto("done")
  /\ UNCHANGED <<content, cache>>

\* The rename, which looks at nothing: the flag and the original may have changed.
Publish ==
  /\ BuildAt("finished")
  /\ \/ Fails
     \/ /\ cache' = Append(cache, build.artifact)
        /\ part' = FALSE
        /\ Goto("published")
        /\ UNCHANGED content

\* The flag once more, then the pruning that may take the new file itself.
Published ==
  /\ BuildAt("published")
  /\ \/ /\ build.cancel
        /\ cache' = Without(cache, build.artifact)
        /\ Ends("cancelled")
     \/ /\ ~build.cancel
        /\ cache' \in Pruned
        /\ IF build.artifact \in ToSet(cache') THEN Goto("ready") ELSE Ends("failed")
     \/ /\ ~build.cancel
        /\ cache' \in HalfPruned
        /\ Ends("failed")
  /\ UNCHANGED <<content, part>>

\* The size of the new file may turn out to be unreadable.
Complete ==
  /\ BuildAt("ready")
  /\ Ends("completed") \/ Ends("failed")
  /\ UNCHANGED workerFiles

ExitBuild == BuildAt("ended") /\ Goto("done") /\ UNCHANGED workerFiles

BuildNext ==
  /\ Prepare \/ Encode \/ Panics \/ Publish \/ Published \/ Complete \/ ExitBuild
  /\ UNCHANGED remover

-----------------------------------------------------------------------------
(* ProxyDeleteJob                                                            *)

RemoverEnds(event) == remover' = [remover EXCEPT !.at = "ended", !.event = event]

\* Nothing to do is as good as done.
RemoveFile ==
  /\ remover.at = "remove"
  /\ \/ /\ remover.cancel \/ ~Stored(remover.artifact)
        /\ RemoverEnds("completed")
        /\ UNCHANGED cache
     \/ /\ ~remover.cancel /\ Stored(remover.artifact)
        /\ cache' = Without(cache, remover.artifact)
        /\ RemoverEnds("completed")
     \/ /\ ~remover.cancel /\ Stored(remover.artifact)
        /\ RemoverEnds("failed")
        /\ UNCHANGED cache

ExitRemover ==
  /\ remover.at = "ended"
  /\ remover' = [remover EXCEPT !.at = "done"]
  /\ UNCHANGED cache

RemoverNext ==
  /\ RemoveFile \/ ExitRemover
  /\ UNCHANGED <<content, part, build>>

-----------------------------------------------------------------------------
\* Somebody edits an original.
SourceChanges(o) ==
  /\ content[o] < MaxVersion
  /\ content' = [content EXCEPT ![o] = @ + 1]
  /\ UNCHANGED <<cache, part, build, remover>>

\* The cache holds what earlier runs left.
WorkersInit ==
  /\ content = [o \in Original |-> 0]
  /\ cache \in {<<>>} \cup {<<Fingerprint(o)>> : o \in Original}
  /\ part = FALSE
  /\ build = NoBuild
  /\ remover = NoRemover

-----------------------------------------------------------------------------
(* Parts of the inductive invariant.                                         *)

WorkerState ==
  [at : {"none", "start", "encode", "finished", "published", "ready", "remove", "ended", "done"},
   artifact : Artifact \cup {NoArtifact},
   cancel : BOOLEAN,
   event : {NoEvent, "completed", "cancelled", "failed"}]

\* Every thread has an artifact, and only a set flag makes an outcome "cancelled".
WorkersTypeOK ==
  /\ content \in [Original -> 0..MaxVersion]
  /\ cache \in Seq(Artifact)
  /\ part \in BOOLEAN
  /\ build \in WorkerState /\ remover \in WorkerState
  /\ build # NoBuild => build.at # "none" /\ build.artifact \in Artifact
  /\ remover # NoRemover => remover.at # "none"
  /\ build.event = "cancelled" => build.cancel

\* While a proxy is made, the cache has no file of its name and room for one.
RoomKept ==
  /\ part => build.at \in {"encode", "finished"}
  /\ build.at \in {"encode", "finished"} =>
       ~Stored(build.artifact) /\ Len(cache) <= MaxItems
=============================================================================
