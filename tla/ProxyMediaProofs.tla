---------------------------- MODULE ProxyMediaProofs ----------------------------
(*****************************************************************************)
(* Proxies tell the truth, whatever the order of the user's choices, the     *)
(* workers' answers and the changes of project, for any number of media, any *)
(* queue of checks and any limit of the cache.                               *)
(*****************************************************************************)
EXTENDS ProxyMedia, KeepingProofs, FiniteSetTheorems, SequenceTheorems

-----------------------------------------------------------------------------
(* The cache of proxies as a sequence without repetitions.                   *)

\* A sequence without repetitions is as long as the set of its entries.
LEMMA DistinctLength ==
  ASSUME NEW S, NEW s \in Seq(S), IsInjective(s)
  PROVE  IsFiniteSet(ToSet(s)) /\ Cardinality(ToSet(s)) = Len(s)
<1>1. s \in Bijection(1..Len(s), ToSet(s))
  <2>1. s \in [1..Len(s) -> ToSet(s)]
    BY DEF ToSet
  <2>2. \A x \in ToSet(s) : \E i \in 1..Len(s) : s[i] = x
    BY DEF ToSet
  <2>3. \A i, j \in 1..Len(s) : s[i] = s[j] => i = j
    BY DEF IsInjective
  <2> QED BY <2>1, <2>2, <2>3 DEF Bijection, Injection, Surjection, IsInjective
<1>2. IsFiniteSet(1..Len(s)) /\ Cardinality(1..Len(s)) = Len(s)
  BY FS_Interval, Len(s) \in Nat
<1> QED BY <1>1, <1>2, FS_Bijection DEF ExistsBijection

\* Removing a proxy from the cache removes nothing else.
LEMMA WithoutFacts ==
  ASSUME NEW s \in Seq(Artifact), IsInjective(s), NEW x
  PROVE  /\ Without(s, x) \in Seq(Artifact) /\ IsInjective(Without(s, x))
         /\ ToSet(Without(s, x)) = ToSet(s) \ {x}
         /\ Len(Without(s, x)) <= Len(s)
<1>1. /\ Without(s, x) \in Seq(Artifact) /\ IsInjective(Without(s, x))
      /\ ToSet(Without(s, x)) = ToSet(s) \cap (Artifact \ {x})
  BY KeptSet DEF Without
<1>2. ToSet(s) \subseteq Artifact
  BY DEF ToSet
<1>3. ToSet(Without(s, x)) = ToSet(s) \ {x}
  BY <1>1, <1>2
<1>4. /\ IsFiniteSet(ToSet(s)) /\ Cardinality(ToSet(s)) = Len(s)
      /\ Cardinality(ToSet(Without(s, x))) = Len(Without(s, x))
  BY <1>1, DistinctLength
<1>5. Cardinality(ToSet(Without(s, x))) <= Cardinality(ToSet(s))
  BY <1>3, <1>4, FS_Subset
<1> QED BY <1>1, <1>3, <1>4, <1>5

\* Pruning leaves the newest proxies.
LEMMA SuffixFacts ==
  ASSUME NEW s \in Seq(Artifact), IsInjective(s), NEW k \in 0..Len(s)
  PROVE  /\ SubSeq(s, k + 1, Len(s)) \in Seq(Artifact)
         /\ IsInjective(SubSeq(s, k + 1, Len(s)))
         /\ ToSet(SubSeq(s, k + 1, Len(s))) \subseteq ToSet(s)
         /\ Len(SubSeq(s, k + 1, Len(s))) = Len(s) - k
<1> DEFINE t == SubSeq(s, k + 1, Len(s))
<1>1. /\ t \in Seq(Artifact) /\ Len(t) = Len(s) - k /\ Len(s) \in Nat /\ k \in Nat
      /\ \A i \in 1..Len(t) : t[i] = s[i + k]
  BY SubSeqProperties
<1>2. DOMAIN t = 1..Len(t) /\ DOMAIN s = 1..Len(s)
  BY <1>1
<1> HIDE DEF t
<1>3. \A i \in 1..Len(t) : i + k \in 1..Len(s)
  BY <1>1
<1>4. IsInjective(t)
  <2>1. ASSUME NEW i \in 1..Len(t), NEW j \in 1..Len(t), t[i] = t[j]
        PROVE  i = j
    <3>1. i + k = j + k
      BY <1>1, <1>2, <1>3, <2>1 DEF IsInjective
    <3> QED BY <1>1, <3>1
  <2> QED BY <1>2, <2>1 DEF IsInjective
<1>5. ToSet(t) \subseteq ToSet(s)
  BY <1>1, <1>2, <1>3 DEF ToSet
<1> QED BY <1>1, <1>4, <1>5 DEF t

LEMMA PrunedFacts ==
  ASSUME WorkersTypeOK, CacheTidy, NEW pruned \in Pruned \cup HalfPruned
  PROVE  /\ pruned \in Seq(Artifact) /\ IsInjective(pruned)
         /\ ToSet(pruned) \subseteq ToSet(cache)
         /\ Len(pruned) <= Len(cache)
         /\ pruned \in Pruned => Len(pruned) <= MaxItems
<1>1. cache \in Seq(Artifact) /\ IsInjective(cache) /\ Len(cache) \in Nat
  BY DEF WorkersTypeOK, CacheTidy
<1>2. ASSUME NEW k \in 0..Len(cache), pruned = SubSeq(cache, k + 1, Len(cache))
      PROVE  /\ pruned \in Seq(Artifact) /\ IsInjective(pruned)
             /\ ToSet(pruned) \subseteq ToSet(cache)
             /\ Len(pruned) = Len(cache) - k /\ Len(pruned) <= Len(cache)
  <2>1. Len(cache) - k <= Len(cache)
    BY <1>1
  <2> QED BY <1>1, <1>2, <2>1, SuffixFacts
<1>3. CASE pruned \in HalfPruned /\ pruned \notin Pruned
  <2>1. PICK k \in 0..(Len(cache) - 1) : pruned = SubSeq(cache, k + 1, Len(cache))
    BY <1>3 DEF HalfPruned
  <2>2. k \in 0..Len(cache)
    BY <1>1
  <2> QED BY <1>2, <1>3, <2>1, <2>2
<1>4. CASE pruned \in Pruned
  <2>1. PICK k \in 0..Len(cache) :
          Len(cache) - k <= MaxItems /\ pruned = SubSeq(cache, k + 1, Len(cache))
    BY <1>4 DEF Pruned
  <2> QED BY <1>2, <2>1
<1> QED BY <1>3, <1>4

-----------------------------------------------------------------------------
(* The workers.                                                              *)

WorkersInv == WorkersTypeOK /\ RoomKept /\ CacheTidy

WorkerStep ==
  /\ WorkersInv'
  /\ build' # NoBuild /\ build'.cancel = build.cancel /\ UNCHANGED remover

LEMMA NoArtifactIsNone == NoArtifact \notin Artifact
BY WorkerConstants DEF NoArtifact, Artifact

LEMMA FingerprintFacts ==
  ASSUME WorkersTypeOK, NEW o \in Original
  PROVE  Fingerprint(o) \in Artifact /\ Fingerprint(o) # NoArtifact /\ Fingerprint(o).original = o
BY WorkerConstants DEF WorkersTypeOK, Fingerprint, Artifact, NoArtifact

\* A worker that has started has an artifact.
LEMMA BuildFacts ==
  ASSUME WorkersTypeOK, build.at # "none"
  PROVE  /\ build # NoBuild /\ build.artifact \in Artifact /\ build.artifact.original \in Original
         /\ build \in WorkerState
<1>1. build # NoBuild
  BY DEF NoBuild
<1> QED BY <1>1 DEF WorkersTypeOK, Artifact

\* A thread that ends leaves an event; the cache may be smaller and the temporary file gone.
LEMMA EndsStep ==
  ASSUME WorkersInv, build.at # "none", NEW event \in {"completed", "failed", "cancelled"},
         Ends(event), event = "cancelled" => build.cancel,
         UNCHANGED <<content, remover>>,
         part' \in BOOLEAN, part' => FALSE,
         cache' \in Seq(Artifact), IsInjective(cache'), Len(cache') <= MaxItems + 1
  PROVE  WorkerStep
<1>1. build \in WorkerState /\ build.artifact \in Artifact
  BY BuildFacts DEF WorkersInv
<1>2. PICK outcome \in {"completed", "failed", "cancelled"} :
        /\ build' = [build EXCEPT !.at = "ended", !.event = outcome]
        /\ outcome = "cancelled" => build.cancel
  BY DEF Ends
<1>3. /\ build' \in WorkerState /\ build'.at = "ended" /\ build'.event = outcome
      /\ build'.artifact = build.artifact /\ build'.cancel = build.cancel
  BY <1>1, <1>2 DEF WorkerState
<1>4. build' # NoBuild
  BY <1>3 DEF NoBuild
<1>5. WorkersTypeOK'
  BY <1>1, <1>2, <1>3, <1>4 DEF WorkersInv, WorkersTypeOK
<1>6. RoomKept' /\ CacheTidy'
  BY <1>3 DEF RoomKept, CacheTidy, Alive
<1> QED BY <1>3, <1>4, <1>5, <1>6 DEF WorkersInv, WorkerStep

\* A thread that goes on.
LEMMA GotoStep ==
  ASSUME WorkersInv, build.at # "none",
         NEW there \in {"encode", "finished", "published", "ready", "done"},
         NEW artifact \in Artifact,
         build' = [build EXCEPT !.at = there, !.artifact = artifact],
         UNCHANGED <<content, remover>>,
         cache' \in Seq(Artifact), IsInjective(cache'), Len(cache') <= MaxItems + 1,
         part' \in BOOLEAN, part' => there \in {"encode", "finished"},
         there \in {"encode", "finished"} => artifact \notin ToSet(cache') /\ Len(cache') <= MaxItems
  PROVE  WorkerStep
<1>1. build \in WorkerState /\ build.artifact \in Artifact
  BY BuildFacts DEF WorkersInv
<1>3. /\ build' \in WorkerState /\ build'.at = there /\ build'.event = build.event
      /\ build'.artifact = artifact /\ build'.cancel = build.cancel
  BY <1>1 DEF WorkerState
<1>4. build' # NoBuild
  BY <1>3 DEF NoBuild
<1>5. WorkersTypeOK'
  BY <1>1, <1>3, <1>4 DEF WorkersInv, WorkersTypeOK
<1>6. RoomKept'
  BY <1>3 DEF RoomKept, Stored
<1>7. CacheTidy'
  BY <1>3 DEF CacheTidy, Alive
<1> QED BY <1>3, <1>4, <1>5, <1>6, <1>7 DEF WorkersInv, WorkerStep

\* No step of the builder breaks its invariant, and none resets its flag.
LEMMA BuildKeeps ==
  ASSUME WorkersInv, BuildNext
  PROVE  WorkerStep
<1>1. build.at # "none" /\ UNCHANGED remover
  BY DEF BuildNext, Prepare, Encode, Panics, Publish, Published, Complete, ExitBuild, BuildAt
<1>2. /\ build \in WorkerState /\ build.artifact \in Artifact /\ build.artifact.original \in Original
      /\ cache \in Seq(Artifact) /\ IsInjective(cache) /\ Len(cache) <= MaxItems + 1
      /\ Len(cache) \in Nat /\ MaxItems \in Nat /\ part \in BOOLEAN
  BY <1>1, BuildFacts, WorkerConstants DEF WorkersInv, WorkersTypeOK, CacheTidy
<1>3. CASE Cancelled \/ Fails
  BY <1>1, <1>2, <1>3, EndsStep DEF Cancelled, Fails
<1>5. ASSUME NEW there, Goto(there)
      PROVE  build' = [build EXCEPT !.at = there, !.artifact = build.artifact]
  BY <1>2, <1>5 DEF Goto, WorkerState
<1>6. CASE Prepare
  <2>1. CASE cache' \in HalfPruned /\ Ends("failed") /\ UNCHANGED <<content, part>>
    <3>1. /\ cache' \in Seq(Artifact) /\ IsInjective(cache') /\ Len(cache') <= Len(cache)
          /\ Len(cache') \in Nat
      BY <2>1, PrunedFacts DEF WorkersInv
    <3>2. ~part
      BY <1>6 DEF Prepare, BuildAt, WorkersInv, RoomKept
    <3>3. Len(cache') <= MaxItems + 1
      BY <1>2, <3>1
    <3> QED BY <1>1, <1>2, <2>1, <3>1, <3>2, <3>3, EndsStep
  <2>2. ASSUME NEW pruned \in Pruned, cache' = Without(pruned, Fingerprint(build.artifact.original)),
               build' = [build EXCEPT !.at = "encode",
                                      !.artifact = Fingerprint(build.artifact.original)],
               part' = TRUE, UNCHANGED content
        PROVE  WorkerStep
    <3>1. pruned \in Seq(Artifact) /\ IsInjective(pruned) /\ Len(pruned) <= MaxItems
      BY PrunedFacts DEF WorkersInv
    <3>2. PICK artifact \in Artifact : artifact = Fingerprint(build.artifact.original)
      BY <1>2, FingerprintFacts DEF WorkersInv
    <3>3. /\ cache' \in Seq(Artifact) /\ IsInjective(cache') /\ artifact \notin ToSet(cache')
          /\ Len(cache') <= Len(pruned)
      BY <2>2, <3>1, <3>2, WithoutFacts
    <3>4. Len(cache') <= MaxItems /\ Len(cache') <= MaxItems + 1
      BY <1>2, <3>1, <3>3
    <3> QED BY <1>1, <2>2, <3>2, <3>3, <3>4, GotoStep
  <2> QED BY <1>3, <1>6, <2>1, <2>2 DEF Prepare
<1>7. CASE Encode
  <2>1. CASE Goto("finished") /\ UNCHANGED workerFiles
    <3>1. build.artifact \notin ToSet(cache) /\ Len(cache) <= MaxItems
      BY <1>7 DEF Encode, BuildAt, WorkersInv, RoomKept, Stored
    <3>2. cache' = cache /\ part' = part /\ UNCHANGED content
      BY <2>1 DEF workerFiles
    <3> QED BY <1>1, <1>2, <1>5, <2>1, <3>1, <3>2, GotoStep
  <2> QED BY <1>3, <1>7, <2>1 DEF Encode
<1>8. CASE Panics
  <2>1. build' = [build EXCEPT !.at = "done", !.artifact = build.artifact]
    BY <1>5, <1>8 DEF Panics
  <2>2. part' = FALSE /\ UNCHANGED <<content, cache>>
    BY <1>8 DEF Panics
  <2> QED BY <1>1, <1>2, <2>1, <2>2, GotoStep
<1>9. CASE Publish
  <2>1. CASE cache' = Append(cache, build.artifact) /\ part' = FALSE /\ Goto("published") /\ UNCHANGED content
    <3>1. build.artifact \notin ToSet(cache) /\ Len(cache) <= MaxItems
      BY <1>9 DEF Publish, BuildAt, WorkersInv, RoomKept, Stored
    <3>2. cache' \in Seq(Artifact) /\ IsInjective(cache') /\ Len(cache') = Len(cache) + 1
      BY <1>2, <2>1, <3>1, AppendSet
    <3>3. Len(cache') <= MaxItems + 1
      BY <1>2, <3>1, <3>2
    <3>4. build' = [build EXCEPT !.at = "published", !.artifact = build.artifact]
      BY <1>5, <2>1
    <3> QED BY <1>1, <1>2, <2>1, <3>2, <3>3, <3>4, GotoStep
  <2> QED BY <1>3, <1>9, <2>1 DEF Publish
<1>10. CASE Published
  <2>1. ~part /\ UNCHANGED <<content, part>>
    BY <1>10 DEF Published, BuildAt, WorkersInv, RoomKept
  <2>2. CASE build.cancel /\ cache' = Without(cache, build.artifact) /\ Ends("cancelled")
    <3>1. cache' \in Seq(Artifact) /\ IsInjective(cache') /\ Len(cache') <= Len(cache) /\ Len(cache') \in Nat
      BY <1>2, <2>2, WithoutFacts
    <3>2. Len(cache') <= MaxItems + 1
      BY <1>2, <3>1
    <3> QED BY <1>1, <1>2, <2>1, <2>2, <3>1, <3>2, EndsStep
  <2>3. CASE cache' \in Pruned \cup HalfPruned
    <3>1. cache' \in Seq(Artifact) /\ IsInjective(cache') /\ Len(cache') <= Len(cache) /\ Len(cache') \in Nat
      BY <2>3, PrunedFacts DEF WorkersInv
    <3>2. Len(cache') <= MaxItems + 1
      BY <1>2, <3>1
    <3>3. CASE Ends("failed")
      BY <1>1, <1>2, <2>1, <3>1, <3>2, <3>3, EndsStep
    <3>4. CASE Goto("ready")
      <4>1. build' = [build EXCEPT !.at = "ready", !.artifact = build.artifact]
        BY <1>5, <3>4
      <4> QED BY <1>1, <1>2, <2>1, <3>1, <3>2, <4>1, GotoStep
    <3> QED BY <1>10, <2>3, <3>3, <3>4, <2>2 DEF Published
  <2> QED BY <1>10, <2>2, <2>3 DEF Published
<1>11. CASE Complete
  <2>1. ~part /\ UNCHANGED <<content, part, cache>>
    BY <1>11 DEF Complete, BuildAt, WorkersInv, RoomKept, workerFiles
  <2> QED BY <1>1, <1>2, <1>11, <2>1, EndsStep DEF Complete
<1>12. CASE ExitBuild
  <2>1. ~part /\ UNCHANGED <<content, part, cache>>
    BY <1>12 DEF ExitBuild, BuildAt, WorkersInv, RoomKept, workerFiles
  <2>2. build' = [build EXCEPT !.at = "done", !.artifact = build.artifact]
    BY <1>5, <1>12 DEF ExitBuild
  <2> QED BY <1>1, <1>2, <2>1, <2>2, GotoStep
<1> QED BY <1>6, <1>7, <1>8, <1>9, <1>10, <1>11, <1>12 DEF BuildNext

\* Neither does a step of the remover.
LEMMA RemoverKeeps ==
  ASSUME WorkersInv, RemoverNext
  PROVE  WorkersInv' /\ remover' # NoRemover /\ UNCHANGED build
<1>1. remover.at \in {"remove", "ended"} /\ UNCHANGED <<content, part, build>>
  BY DEF RemoverNext, RemoveFile, ExitRemover
<1>2. PICK at \in {"ended", "done"}, event \in {NoEvent, "completed", "cancelled", "failed"} :
        remover' = [remover EXCEPT !.at = at, !.event = event]
  <2>1. ASSUME NEW event \in {"completed", "failed"}, RemoverEnds(event)
        PROVE  remover' = [remover EXCEPT !.at = "ended", !.event = event]
    BY <2>1 DEF RemoverEnds
  <2>2. CASE RemoveFile
    BY <2>1, <2>2 DEF RemoveFile
  <2>3. CASE ExitRemover
    <3>1. remover \in WorkerState
      BY DEF WorkersInv, WorkersTypeOK
    <3>2. PICK event \in {NoEvent, "completed", "cancelled", "failed"} : event = remover.event
      BY <3>1 DEF WorkerState
    <3>3. remover' = [remover EXCEPT !.at = "done", !.event = event]
      BY <2>3, <3>1, <3>2 DEF ExitRemover, WorkerState
    <3> QED BY <3>3
  <2> QED BY <2>2, <2>3 DEF RemoverNext
<1>3. remover' \in WorkerState /\ remover'.at = at
  BY <1>2 DEF WorkersInv, WorkersTypeOK, WorkerState
<1>4. remover' # NoRemover
  BY <1>3 DEF NoRemover, NoBuild
<1>5. /\ cache \in Seq(Artifact) /\ IsInjective(cache) /\ Len(cache) <= MaxItems + 1
      /\ Len(cache) \in Nat /\ MaxItems \in Nat
  BY WorkerConstants DEF WorkersInv, WorkersTypeOK, CacheTidy
<1>6. /\ cache' \in Seq(Artifact) /\ IsInjective(cache') /\ ToSet(cache') \subseteq ToSet(cache)
      /\ Len(cache') <= Len(cache) /\ Len(cache') \in Nat
  <2>1. CASE cache' = Without(cache, remover.artifact)
    BY <1>5, <2>1, WithoutFacts
  <2>2. CASE cache' = cache
    BY <1>5, <2>2
  <2> QED BY <2>1, <2>2 DEF RemoverNext, RemoveFile, ExitRemover
<1>7. WorkersTypeOK'
  BY <1>1, <1>3, <1>4, <1>6 DEF WorkersInv, WorkersTypeOK
<1>8. RoomKept'
  BY <1>1, <1>5, <1>6 DEF WorkersInv, RoomKept, Stored
<1>9. CacheTidy'
  BY <1>1, <1>5, <1>6 DEF WorkersInv, CacheTidy, Alive
<1> QED BY <1>1, <1>4, <1>7, <1>8, <1>9 DEF WorkersInv

LEMMA SourceChangesKeeps ==
  ASSUME WorkersInv, NEW o \in Original, SourceChanges(o)
  PROVE  WorkersInv'
<1>1. /\ content' = [content EXCEPT ![o] = @ + 1] /\ UNCHANGED <<cache, part, build, remover>>
      /\ content[o] < MaxVersion /\ MaxVersion \in Nat
  BY WorkerConstants DEF SourceChanges
<1>2. content' \in [Original -> 0..MaxVersion]
  BY <1>1 DEF WorkersInv, WorkersTypeOK
<1>3. WorkersTypeOK'
  BY <1>1, <1>2 DEF WorkersInv, WorkersTypeOK
<1>4. RoomKept' /\ CacheTidy'
  BY <1>1 DEF WorkersInv, RoomKept, CacheTidy, Stored, Alive
<1> QED BY <1>3, <1>4 DEF WorkersInv

-----------------------------------------------------------------------------
(* Tokens.                                                                   *)

\* A sequence of messages has no more tokens than messages.
LEMMA TokensOf ==
  ASSUME NEW S, NEW s \in Seq(S)
  PROVE  LET tokens == {s[i].token : i \in DOMAIN s}
         IN  IsFiniteSet(tokens) /\ Cardinality(tokens) <= Len(s)
<1> DEFINE tokens == {s[i].token : i \in DOMAIN s}
           f == [i \in 1..Len(s) |-> s[i].token]
<1>1. f \in Surjection(1..Len(s), tokens)
  <2>1. f \in [1..Len(s) -> tokens]
    OBVIOUS
  <2>2. \A t \in tokens : \E i \in 1..Len(s) : f[i] = t
    OBVIOUS
  <2> QED BY <2>1, <2>2 DEF Surjection
<1>2. IsFiniteSet(1..Len(s)) /\ Cardinality(1..Len(s)) = Len(s)
  BY FS_Interval, Len(s) \in Nat
<1> HIDE DEF f, tokens
<1>3. IsFiniteSet(tokens) /\ Cardinality(tokens) <= Len(s)
  BY <1>1, <1>2, FS_Surjection
<1> QED BY <1>3 DEF tokens

\* There is always a token nobody uses.
LEMMA FreshFacts ==
  ASSUME NEW a \in App, Len(a.requests) <= Capacity,
         results \in Seq(Answer), Len(results) <= Capacity,
         \A m \in Media : TicketTrue(a, m)
  PROVE  /\ Fresh(a) \in Token /\ Fresh(a) \notin Awaited(a) /\ Fresh(a) # 0
         /\ \A m \in Media : Fresh(a) # a.tickets[m].token
<1> DEFINE asked == {a.requests[i].token : i \in DOMAIN a.requests}
           answered == {results[i].token : i \in DOMAIN results}
<1>1. /\ a.requests \in Seq(Check) /\ a.tickets \in [Media -> Ticket]
      /\ Capacity \in Nat /\ Len(a.requests) \in Nat /\ Len(results) \in Nat
  BY MediaConstants DEF App
<1>2. /\ IsFiniteSet(asked) /\ Cardinality(asked) <= Len(a.requests)
      /\ IsFiniteSet(answered) /\ Cardinality(answered) <= Len(results)
  BY <1>1, TokensOf
<1>3. Awaited(a) = asked \cup answered
  BY DEF Awaited
<1> HIDE DEF asked, answered
<1>4. /\ IsFiniteSet(asked \cup answered)
      /\ Cardinality(asked) \in Nat /\ Cardinality(answered) \in Nat
      /\ Cardinality(asked \cap answered) \in Nat
      /\ Cardinality(asked \cup answered) =
           Cardinality(asked) + Cardinality(answered) - Cardinality(asked \cap answered)
  <2>1. IsFiniteSet(asked \cap answered)
    BY <1>2, FS_Subset
  <2> QED BY <1>2, <2>1, FS_Union, FS_CardinalityType
<1>5. IsFiniteSet(Token) /\ Cardinality(Token) = 2 * Capacity + 1 /\ 0 \notin Token
  <2>1. 1 \in Int /\ 2 * Capacity + 1 \in Int /\ ~(1 > 2 * Capacity + 1)
    BY <1>1
  <2>2. /\ IsFiniteSet(1..(2 * Capacity + 1))
        /\ Cardinality(1..(2 * Capacity + 1)) = (2 * Capacity + 1) - 1 + 1
    BY <2>1, FS_Interval
  <2> QED BY <1>1, <2>2 DEF Token
<1>6. PICK t \in Token : t \notin Awaited(a)
  <2>1. ASSUME Token \subseteq Awaited(a)
        PROVE  FALSE
    <3>1. Cardinality(Token) <= Cardinality(asked \cup answered)
      BY <1>3, <1>4, <2>1, FS_Subset
    <3> QED BY <1>1, <1>2, <1>4, <1>5, <3>1
  <2> QED BY <2>1
<1>7. \A m \in Media : t # a.tickets[m].token
  <2>1. ASSUME NEW m \in Media, t = a.tickets[m].token
        PROVE  FALSE
    <3>1. m \in Ticketed(a)
      BY <1>5, <2>1 DEF Ticketed, NoTicket
    <3> QED BY <1>6, <2>1, <3>1 DEF TicketTrue
  <2> QED BY <2>1
<1>8. /\ \A i \in DOMAIN a.requests : t # a.requests[i].token
      /\ \A i \in DOMAIN results : t # results[i].token
  BY <1>6 DEF Awaited
<1>9. /\ Fresh(a) \in Token
      /\ \A i \in DOMAIN a.requests : Fresh(a) # a.requests[i].token
      /\ \A i \in DOMAIN results : Fresh(a) # results[i].token
      /\ \A m \in Media : Fresh(a) # a.tickets[m].token
  BY <1>7, <1>8 DEF Fresh
<1> QED BY <1>5, <1>9 DEF Awaited

-----------------------------------------------------------------------------
(* Checks that are asked for.                                                *)

\* The checks that have an answer.
Replied == {results[i].token : i \in DOMAIN results}

\* What the workers' side of the queue is like.
AnswersOK ==
  /\ results \in Seq(Answer) /\ Len(results) <= Capacity
  /\ originals \in [Media -> Original]

\* The application's fields are those of a menu that tells the truth.
Sound(a) ==
  /\ a \in App /\ Len(a.requests) <= Capacity
  /\ \A m \in Media : MediaTrue(a, m) /\ TicketTrue(a, m)

\* b is what a has become by checks that activate nothing.
Quiet(a, b) ==
  /\ b.status = a.status /\ b.desired = a.desired /\ b.suppressed = a.suppressed
  /\ b.job = a.job /\ b.deletion = a.deletion
  /\ \A m \in Media :
       /\ b.records[m].artifact = a.records[m].artifact
       /\ b.records[m].enabled = a.records[m].enabled
       /\ b.tickets[m].activate = a.tickets[m].activate
       /\ b.tickets[m] \in {a.tickets[m], NoTicket} \/ b.tickets[m].token \notin Replied

LEMMA AppFacts ==
  ASSUME NEW a \in App
  PROVE  /\ a.records \in [Media -> ProxyRecord] /\ a.status \in [Media -> Status]
         /\ a.tickets \in [Media -> Ticket] /\ a.desired \subseteq Media
         /\ a.suppressed \subseteq Media /\ a.reconcile \in BOOLEAN
         /\ a.requests \in Seq(Check) /\ Len(a.requests) \in Nat
         /\ a.job \in BuildSlot
         /\ a.deletion \in RemovalSlot
BY DEF App

LEMMA QuietTransitive ==
  ASSUME NEW a, NEW b, NEW c, Quiet(a, b), Quiet(b, c)
  PROVE  Quiet(a, c)
<1>1. ASSUME NEW m \in Media
      PROVE  c.tickets[m] \in {a.tickets[m], NoTicket} \/ c.tickets[m].token \notin Replied
  BY DEF Quiet
<1> QED BY <1>1 DEF Quiet

\* No token is the one of a media without a ticket.
LEMMA TokensPositive ==
  ASSUME NEW a \in App, results \in Seq(Answer)
  PROVE  Awaited(a) \subseteq Token /\ Replied \subseteq Token /\ 0 \notin Token
<1>1. a.requests \in Seq(Check)
  BY AppFacts
<1>2. ASSUME NEW i \in DOMAIN a.requests
      PROVE  a.requests[i].token \in Token
  <2>1. a.requests[i] \in Check
    BY <1>1
  <2> QED BY <2>1 DEF Check
<1>3. ASSUME NEW i \in DOMAIN results
      PROVE  results[i].token \in Token
  <2>1. results[i] \in Answer
    OBVIOUS
  <2> QED BY <2>1 DEF Answer
<1> QED BY <1>2, <1>3 DEF Awaited, Replied, Token

\* What the checks do not depend on.
LEMMA SameChecks ==
  ASSUME NEW a, Sound(a), NEW b \in App,
         b.records = a.records, b.status = a.status, b.tickets = a.tickets,
         b.reconcile = a.reconcile, b.requests = a.requests
  PROVE  Sound(b)
<1>1. Awaited(b) = Awaited(a) /\ Ticketed(b) = Ticketed(a)
  BY DEF Awaited, Ticketed
<1>2. ASSUME NEW m \in Media
      PROVE  MediaTrue(b, m) /\ TicketTrue(b, m)
  <2>1. MediaTrue(a, m) /\ TicketTrue(a, m)
    BY DEF Sound
  <2>2. MediaTrue(b, m)
    BY <1>1, <2>1 DEF MediaTrue
  <2>3. TicketTrue(b, m)
    BY <1>1, <2>1 DEF TicketTrue
  <2> QED BY <2>2, <2>3
<1> QED BY <1>2 DEF Sound

\* A new ticket disturbs no other.
LEMMA NewTicket ==
  ASSUME AnswersOK, NEW a \in App, \A n \in Media : TicketTrue(a, n),
         Len(a.requests) < Capacity,
         NEW b \in App, NEW m \in Media, NEW activate \in BOOLEAN,
         b.requests = Append(a.requests, Submission(a, m)),
         b.tickets = [a.tickets EXCEPT ![m] = [token |-> Fresh(a),
                                               artifact |-> a.records[m].artifact,
                                               activate |-> activate]]
  PROVE  Len(b.requests) <= Capacity /\ \A n \in Media : TicketTrue(b, n)
<1>1. /\ a.requests \in Seq(Check) /\ a.tickets \in [Media -> Ticket]
      /\ Capacity \in Nat /\ Len(a.requests) \in Nat
  BY AppFacts, MediaConstants
<1>2. /\ Fresh(a) \in Token /\ Fresh(a) \notin Awaited(a) /\ Fresh(a) # 0
      /\ \A n \in Media : Fresh(a) # a.tickets[n].token
  BY <1>1, FreshFacts DEF AnswersOK
<1>3. PICK t \in Token : t = Fresh(a)
  BY <1>2
<1>4. PICK request : request = Submission(a, m)
  OBVIOUS
<1>5. /\ request.token = t /\ request.current /\ request.original = originals[m]
      /\ request.artifact = a.records[m].artifact
  BY <1>3, <1>4 DEF Submission
<1>6. PICK length \in Nat : length = Len(a.requests)
  BY <1>1
<1>7. /\ b.requests = Append(a.requests, request) /\ b.requests \in Seq(Check)
      /\ Len(b.requests) = length + 1
      /\ DOMAIN a.requests = 1..length /\ DOMAIN b.requests = 1..(length + 1)
      /\ \A i \in 1..length : b.requests[i] = a.requests[i]
      /\ b.requests[length + 1] = request
  <2>1. b.requests = Append(a.requests, request) /\ b.requests \in Seq(Check)
    BY <1>4, AppFacts
  <2>2. request \in Check
    <3>1. length + 1 \in 1..Len(b.requests) /\ b.requests[length + 1] = request
      BY <1>1, <1>6, <2>1
    <3> QED BY <2>1, <3>1
  <2> QED BY <1>1, <1>6, <2>1, <2>2
<1>8. Awaited(b) = Awaited(a) \cup {t}
  <2>1. {b.requests[i].token : i \in 1..(length + 1)} = {a.requests[i].token : i \in 1..length} \cup {t}
    <3>1. \A i \in 1..(length + 1) : i \in 1..length \/ i = length + 1
      OBVIOUS
    <3>2. \A i \in 1..length : i \in 1..(length + 1) /\ b.requests[i].token = a.requests[i].token
      BY <1>7
    <3>3. length + 1 \in 1..(length + 1) /\ b.requests[length + 1].token = t
      BY <1>5, <1>7
    <3>4. ASSUME NEW i \in 1..(length + 1)
          PROVE  b.requests[i].token \in {a.requests[j].token : j \in 1..length} \cup {t}
      BY <3>1, <3>2, <3>3
    <3>5. ASSUME NEW i \in 1..length
          PROVE  a.requests[i].token \in {b.requests[j].token : j \in 1..(length + 1)}
      BY <3>2
    <3>6. t \in {b.requests[j].token : j \in 1..(length + 1)}
      BY <3>3
    <3>7. {b.requests[i].token : i \in 1..(length + 1)}
            \subseteq {a.requests[i].token : i \in 1..length} \cup {t}
      BY <3>4
    <3>8. {a.requests[i].token : i \in 1..length}
            \subseteq {b.requests[i].token : i \in 1..(length + 1)}
      BY <3>5
    <3> QED BY <3>6, <3>7, <3>8
  <2> QED BY <1>7, <2>1 DEF Awaited
<1>9. \A i \in 1..(length + 1) : i \in 1..length \/ i = length + 1
  OBVIOUS
<1>10. TicketTrue(b, m)
  <2>1. /\ b.tickets[m].token = t /\ b.tickets[m].artifact = a.records[m].artifact
        /\ \A n \in Media \ {m} : b.tickets[n] = a.tickets[n]
    BY <1>1, <1>3
  <2>2. \A n \in Media \ {m} : b.tickets[n].token # t
    BY <1>2, <1>3, <2>1
  <2>3. ASSUME NEW i \in 1..(length + 1), b.requests[i].token = t
        PROVE  b.requests[i] = request
    <3>1. i \notin 1..length
      BY <1>2, <1>3, <1>7, <2>3 DEF Awaited
    <3> QED BY <1>7, <1>9, <3>1, SMTT(40)
  <2>4. \A i \in DOMAIN results : results[i].token # t
    BY <1>2, <1>3 DEF Awaited
  <2> QED BY <1>5, <1>7, <1>8, <2>1, <2>2, <2>3, <2>4 DEF TicketTrue
<1>11. ASSUME NEW n \in Media, n # m
       PROVE  TicketTrue(b, n)
  <2>1. SUFFICES ASSUME n \in Ticketed(b)
                 PROVE  TicketTrue(b, n)
    BY DEF TicketTrue
  <2>2. /\ b.tickets[n] = a.tickets[n] /\ n \in Ticketed(a)
        /\ \A k \in Media \ {m} : b.tickets[k] = a.tickets[k]
        /\ b.tickets[m].token = t
    BY <1>1, <1>3, <1>11, <2>1 DEF Ticketed
  <2>3. b.tickets[n].token \in Awaited(b) /\ b.tickets[n].token # t
    BY <1>2, <1>3, <1>8, <2>2 DEF TicketTrue
  <2>4. \A k \in Media \ {n} : b.tickets[k].token # b.tickets[n].token
    BY <2>2, <2>3 DEF TicketTrue
  <2>5. ASSUME NEW i \in DOMAIN b.requests, b.requests[i].token = b.tickets[n].token
        PROVE  /\ b.requests[i].current /\ b.requests[i].artifact = b.tickets[n].artifact
               /\ b.requests[i].original = originals[n]
    <3>1. i \in 1..length
      BY <1>5, <1>7, <1>9, <2>3, <2>5
    <3>2. b.requests[i] = a.requests[i] /\ i \in DOMAIN a.requests
      BY <1>7, <3>1
    <3> QED BY <2>2, <2>5, <3>2 DEF TicketTrue
  <2>6. \A i \in DOMAIN results : results[i].token = b.tickets[n].token /\ results[i].usable =>
          b.tickets[n].token \in verified /\ b.tickets[n].artifact.original = originals[n]
    BY <2>2 DEF TicketTrue
  <2> QED BY <2>3, <2>4, <2>5, <2>6 DEF TicketTrue
<1> QED BY <1>1, <1>6, <1>7, <1>10, <1>11

\* What a check leaves alone.
Checked(a, m, b) ==
  /\ b \in App /\ Len(b.requests) <= Capacity
  /\ \A n \in Media : TicketTrue(b, n)
  /\ b.desired = a.desired /\ b.suppressed = a.suppressed /\ b.reconcile = a.reconcile
  /\ b.job = a.job /\ b.deletion = a.deletion
  /\ \A n \in Media \ {m} :
       /\ b.tickets[n] = a.tickets[n] /\ b.records[n] = a.records[n]
       /\ b.status[n] = a.status[n]
  /\ b.records[m].artifact = a.records[m].artifact
  /\ b.records[m].enabled = a.records[m].enabled
  /\ b.records[m].recheck => a.records[m].recheck
  /\ b.tickets[m] # NoTicket =>
       /\ b.tickets[m].artifact = b.records[m].artifact
       /\ b.tickets[m].token \notin Replied

\* queue_proxy_validation finds no place, or makes a request and a ticket.
LEMMA QueueCheckFacts ==
  ASSUME AnswersOK, NEW a \in App, Len(a.requests) <= Capacity,
         \A n \in Media : TicketTrue(a, n),
         NEW m \in Media, NEW activate \in BOOLEAN,
         a.tickets[m] = NoTicket, a.records[m] # NoRecord,
         NEW b, b = QueueCheck(a, m, activate)
  PROVE  /\ Checked(a, m, b)
         /\ ~activate => b.status[m] = a.status[m] /\ ~b.tickets[m].activate
         /\ activate => /\ b.status[m] \in {"off", "checking"}
                        /\ b.status[m] = "checking" <=> b.tickets[m].activate
<1>1. /\ a.records \in [Media -> ProxyRecord] /\ a.status \in [Media -> Status]
      /\ a.tickets \in [Media -> Ticket] /\ a.requests \in Seq(Check)
      /\ Capacity \in Nat /\ Len(a.requests) \in Nat
  BY AppFacts, MediaConstants
<1>2. CASE Busy(a) \/ a.checker # "able"
  <2>1. b = [a EXCEPT !.records[m].recheck = @ /\ Busy(a),
                      !.status[m] = IF activate THEN "off" ELSE @]
    BY <1>2 DEF QueueCheck
  <2>2. PICK word \in Status : word = IF activate THEN "off" ELSE a.status[m]
    BY <1>1 DEF Status
  <2>8. PICK recheck \in BOOLEAN : recheck = (a.records[m].recheck /\ Busy(a))
    OBVIOUS
  <2>9. PICK record \in ProxyRecord : record = [a.records[m] EXCEPT !.recheck = recheck]
    BY <1>1 DEF ProxyRecord
  <2>10. /\ record.artifact = a.records[m].artifact /\ record.enabled = a.records[m].enabled
         /\ record.recheck => a.records[m].recheck
    BY <1>1, <2>8, <2>9 DEF ProxyRecord
  <2>11. b = [a EXCEPT !.records[m] = record, !.status[m] = word]
    BY <2>1, <2>2, <2>8, <2>9
  <2>3. b.status = [a.status EXCEPT ![m] = word] /\ b \in App
    <3>1. /\ [a.status EXCEPT ![m] = word] \in [Media -> Status]
          /\ [a.records EXCEPT ![m] = record] \in [Media -> ProxyRecord]
      BY <1>1
    <3> QED BY <2>11, <3>1 DEF App
  <2>4. /\ b.records = [a.records EXCEPT ![m] = record]
        /\ b.tickets = a.tickets /\ b.requests = a.requests
        /\ b.desired = a.desired /\ b.suppressed = a.suppressed /\ b.reconcile = a.reconcile
        /\ b.job = a.job /\ b.deletion = a.deletion
    BY <2>11 DEF App
  <2>5. \A n \in Media : TicketTrue(b, n)
    BY <2>4 DEF TicketTrue, Ticketed, Awaited
  <2>6. ~b.tickets[m].activate /\ b.tickets[m] = NoTicket
    BY <2>4 DEF NoTicket
  <2>7. /\ b.status[m] = word /\ \A n \in Media \ {m} : b.status[n] = a.status[n]
        /\ b.records[m] = record /\ \A n \in Media \ {m} : b.records[n] = a.records[n]
    BY <1>1, <2>3, <2>4
  <2> QED BY <2>2, <2>3, <2>4, <2>5, <2>6, <2>7, <2>10 DEF Checked
<1>3. CASE ~Busy(a) /\ a.checker = "able"
  <2> DEFINE request == Submission(a, m)
             ticket == [token |-> Fresh(a), artifact |-> a.records[m].artifact,
                        activate |-> activate]
  <2>1. b = [a EXCEPT !.requests = Append(@, request),
                      !.tickets[m] = [token |-> request.token, artifact |-> request.artifact,
                                      activate |-> activate],
                      !.records[m].recheck = FALSE,
                      !.status[m] = IF activate THEN "checking" ELSE @]
    BY <1>3 DEF QueueCheck
  <2>2. request.token = Fresh(a) /\ request.artifact = a.records[m].artifact
    BY DEF Submission
  <2>3. Fresh(a) \in Token
    BY <1>1, FreshFacts DEF AnswersOK
  <2>4. request \in Check /\ ticket \in Ticket
    BY <1>1, <2>3 DEF Submission, Check, Ticket, ProxyRecord, AnswersOK
  <2>5. PICK word \in Status : word = IF activate THEN "checking" ELSE a.status[m]
    BY <1>1 DEF Status
  <2>6. PICK record \in ProxyRecord : record = [a.records[m] EXCEPT !.recheck = FALSE]
    BY <1>1 DEF ProxyRecord
  <2>7. /\ record.artifact = a.records[m].artifact /\ record.enabled = a.records[m].enabled
        /\ ~record.recheck
    BY <1>1, <2>6 DEF ProxyRecord
  <2> HIDE DEF request, ticket
  <2>8. b = [a EXCEPT !.requests = Append(@, request), !.tickets[m] = ticket,
                      !.records[m] = record, !.status[m] = word]
    BY <2>1, <2>2, <2>5, <2>6 DEF ticket
  <2>9. /\ b.requests = Append(a.requests, request)
        /\ b.tickets = [a.tickets EXCEPT ![m] = ticket]
        /\ b.records = [a.records EXCEPT ![m] = record]
        /\ b.status = [a.status EXCEPT ![m] = word]
        /\ b.desired = a.desired /\ b.suppressed = a.suppressed /\ b.reconcile = a.reconcile
        /\ b.job = a.job /\ b.deletion = a.deletion
    BY <2>8 DEF App
  <2>10. b \in App
    <3>1. Append(a.requests, request) \in Seq(Check)
      BY <1>1, <2>4
    <3>2. [a.tickets EXCEPT ![m] = ticket] \in [Media -> Ticket]
      BY <1>1, <2>4
    <3>3. [a.records EXCEPT ![m] = record] \in [Media -> ProxyRecord]
      BY <1>1
    <3>4. [a.status EXCEPT ![m] = word] \in [Media -> Status]
      BY <1>1
    <3> QED BY <2>8, <3>1, <3>2, <3>3, <3>4 DEF App
  <2>11. Len(b.requests) <= Capacity /\ \A n \in Media : TicketTrue(b, n)
    <3>1. b.requests = Append(a.requests, Submission(a, m))
      BY <2>9 DEF request
    <3>2. b.tickets = [a.tickets EXCEPT ![m] = [token |-> Fresh(a),
                                                artifact |-> a.records[m].artifact,
                                                activate |-> activate]]
      BY <2>9 DEF ticket
    <3>3. Len(a.requests) < Capacity
      BY <1>1, <1>3 DEF Busy
    <3> QED BY <2>10, <3>1, <3>2, <3>3, NewTicket
  <2>12. /\ \A n \in Media \ {m} :
              /\ b.tickets[n] = a.tickets[n] /\ b.records[n] = a.records[n]
              /\ b.status[n] = a.status[n]
         /\ b.tickets[m] = ticket /\ b.records[m] = record /\ b.status[m] = word
    BY <1>1, <2>9
  <2>13. /\ ticket.activate = activate /\ ticket.artifact = a.records[m].artifact
         /\ ticket.token = Fresh(a)
    BY DEF ticket
  <2>14. Fresh(a) \notin Replied
    BY <1>1, FreshFacts DEF AnswersOK, Awaited, Replied
  <2> QED BY <2>5, <2>7, <2>9, <2>10, <2>11, <2>12, <2>13, <2>14 DEF Checked
<1> QED BY <1>1, <1>2, <1>3

\* A check of a proxy in use or switched off changes nothing the user sees.
LEMMA QuietCheck ==
  ASSUME AnswersOK, NEW a, Sound(a), NEW m \in Media, Ready(a, m), a.tickets[m] = NoTicket,
         NEW b, b = QueueCheck(a, m, FALSE)
  PROVE  Sound(b) /\ Quiet(a, b) /\ b.reconcile = a.reconcile
<1>1. a \in App /\ MediaTrue(a, m) /\ a.records[m] # NoRecord
  BY DEF Sound, MediaTrue, Ready
<1>2. /\ b \in App /\ Len(b.requests) <= Capacity
      /\ \A n \in Media : TicketTrue(b, n)
      /\ b.desired = a.desired /\ b.suppressed = a.suppressed /\ b.reconcile = a.reconcile
      /\ b.job = a.job /\ b.deletion = a.deletion
      /\ \A n \in Media \ {m} :
           /\ b.tickets[n] = a.tickets[n] /\ b.records[n] = a.records[n]
           /\ b.status[n] = a.status[n]
      /\ b.records[m].artifact = a.records[m].artifact
      /\ b.records[m].enabled = a.records[m].enabled
      /\ b.records[m].recheck => a.records[m].recheck
      /\ b.status[m] = a.status[m] /\ ~b.tickets[m].activate
      /\ b.tickets[m] # NoTicket =>
           /\ b.tickets[m].artifact = b.records[m].artifact
           /\ b.tickets[m].token \notin Replied
  <2>1. Len(a.requests) <= Capacity /\ \A n \in Media : TicketTrue(a, n)
    BY DEF Sound
  <2>2. PICK activate \in BOOLEAN : ~activate /\ activate = FALSE
    OBVIOUS
  <2>3. b = QueueCheck(a, m, activate)
    BY <2>2
  <2>4. /\ Checked(a, m, b)
        /\ ~activate => b.status[m] = a.status[m] /\ ~b.tickets[m].activate
    BY <1>1, <2>1, <2>3, QueueCheckFacts
  <2> QED BY <2>2, <2>4 DEF Checked
<1>3. \A n \in Media : b.status[n] = a.status[n]
  BY <1>2
<1>4. b.status = a.status
  <2>1. a.status \in [Media -> Status] /\ b.status \in [Media -> Status]
    BY <1>1, <1>2, AppFacts
  <2>2. /\ a.status = [n \in Media |-> a.status[n]]
        /\ b.status = [n \in Media |-> b.status[n]]
    BY <2>1
  <2> QED BY <1>3, <2>2
<1>5. ~a.tickets[m].activate
  BY DEF NoTicket
<1>6. \A n \in Media :
        /\ b.tickets[n].activate = a.tickets[n].activate
        /\ b.tickets[n] \in {a.tickets[n], NoTicket} \/ b.tickets[n].token \notin Replied
  <2>1. a.tickets[m].activate \in BOOLEAN /\ b.tickets[m].activate \in BOOLEAN
    BY <1>1, <1>2 DEF App, Ticket
  <2> QED BY <1>2, <1>5, <2>1
<1>7. a.records[m].artifact # NoArtifact
  <2>1. a.records[m].artifact \in Artifact
    BY <1>1 DEF MediaTrue
  <2> QED BY <2>1, NoArtifactIsNone
<1>8. b.records[m] # NoRecord /\ b.records[m].artifact \in Artifact
  <2>1. a.records[m].artifact \in Artifact
    BY <1>1 DEF MediaTrue
  <2>2. b.records[m].artifact \in Artifact /\ b.records[m].artifact # NoArtifact
    BY <1>2, <1>7, <2>1
  <2>3. NoRecord.artifact = NoArtifact
    BY DEF NoRecord
  <2> QED BY <2>2, <2>3
<1>9. MediaTrue(b, m)
  BY <1>1, <1>2, <1>5, <1>8 DEF MediaTrue, Ready, Ticketed
<1>10. ASSUME NEW n \in Media, n # m
       PROVE  MediaTrue(b, n)
  <2>1. MediaTrue(a, n)
    BY DEF Sound
  <2> QED BY <1>2, <1>10, <2>1 DEF MediaTrue, Ticketed
<1> QED BY <1>2, <1>4, <1>6, <1>9, <1>10 DEF Sound, Quiet

\* A check after which the proxy may come into use.
LEMMA ActiveCheck ==
  ASSUME AnswersOK, NEW a \in App, Len(a.requests) <= Capacity,
         NEW m \in Media,
         \A n \in Media : TicketTrue(a, n), \A n \in Media \ {m} : MediaTrue(a, n),
         a.tickets[m] = NoTicket, a.records[m].artifact \in Artifact,
         ~a.records[m].enabled, ~a.records[m].recheck,
         NEW b, b = QueueCheck(a, m, TRUE)
  PROVE  /\ Sound(b) /\ Checked(a, m, b) /\ b.status[m] \in {"off", "checking"}
         /\ ~b.records[m].enabled
<1>1. a.records[m] # NoRecord
  <2>1. NoRecord.artifact = NoArtifact
    BY DEF NoRecord
  <2> QED BY <2>1, NoArtifactIsNone
<1>2. PICK activate \in BOOLEAN : activate /\ activate = TRUE
  OBVIOUS
<1>3. b = QueueCheck(a, m, activate)
  BY <1>2
<1>4. /\ Checked(a, m, b)
      /\ activate => /\ b.status[m] \in {"off", "checking"}
                     /\ b.status[m] = "checking" <=> b.tickets[m].activate
  BY <1>1, <1>3, QueueCheckFacts
<1>5. /\ b.status[m] \in {"off", "checking"}
      /\ b.status[m] = "checking" <=> b.tickets[m].activate
  BY <1>2, <1>4
<1>6. b.records[m].artifact \in Artifact /\ ~b.records[m].enabled /\ ~b.records[m].recheck
  BY <1>4 DEF Checked
<1>7. b.records[m] # NoRecord
  <2>1. NoRecord.artifact = NoArtifact
    BY DEF NoRecord
  <2> QED BY <1>6, <2>1, NoArtifactIsNone
<1>8. MediaTrue(b, m)
  BY <1>4, <1>5, <1>6, <1>7 DEF MediaTrue, Checked, Ticketed
<1>9. ASSUME NEW n \in Media, n # m
      PROVE  MediaTrue(b, n)
  <2>1. MediaTrue(a, n)
    BY <1>9
  <2>2. /\ b.tickets[n] = a.tickets[n] /\ b.records[n] = a.records[n]
        /\ b.status[n] = a.status[n] /\ b.reconcile = a.reconcile
    BY <1>4, <1>9 DEF Checked
  <2> QED BY <2>1, <2>2 DEF MediaTrue, Ticketed
<1> QED BY <1>4, <1>5, <1>6, <1>8, <1>9 DEF Sound, Checked

-----------------------------------------------------------------------------
(* The checks a change of the cache has put off.                             *)

\* Tickets that go away disturb no other, and a media is judged by its own fields.
LEMMA Others ==
  ASSUME NEW a \in App, NEW b \in App, NEW m \in Media,
         results \in Seq(Answer),
         \A n \in Media : TicketTrue(a, n),
         \A n \in Media \ {m} : MediaTrue(a, n),
         b.requests = a.requests, b.reconcile = a.reconcile,
         b.tickets[m] \in {a.tickets[m], NoTicket},
         \A n \in Media \ {m} :
           /\ b.tickets[n] = a.tickets[n] /\ b.records[n] = a.records[n]
           /\ b.status[n] = a.status[n]
  PROVE  /\ \A n \in Media : TicketTrue(b, n)
         /\ \A n \in Media \ {m} : MediaTrue(b, n)
<1>1. Awaited(b) = Awaited(a)
  BY DEF Awaited
<1>2. ASSUME NEW n \in Media
      PROVE  b.tickets[n] \in {a.tickets[n], NoTicket}
  <2>1. CASE n = m
    BY <2>1
  <2>2. CASE n # m
    BY <2>2
  <2> QED BY <2>1, <2>2
<1>3. ASSUME NEW n \in Media
      PROVE  TicketTrue(b, n)
  <2>1. SUFFICES ASSUME n \in Ticketed(b)
                 PROVE  TicketTrue(b, n)
    BY DEF TicketTrue
  <2>2. b.tickets[n] = a.tickets[n] /\ n \in Ticketed(a)
    BY <1>2, <2>1 DEF Ticketed
  <2>3. TicketTrue(a, n)
    OBVIOUS
  <2>4. a.tickets[n].token \in Awaited(a)
    BY <2>2, <2>3 DEF TicketTrue
  <2>5. a.tickets[n].token # 0
    BY <2>4, TokensPositive
  <2>6. ASSUME NEW k \in Media \ {n}
        PROVE  b.tickets[k].token # b.tickets[n].token
    <3>1. a.tickets[k].token # a.tickets[n].token
      BY <2>2, <2>3 DEF TicketTrue
    <3>2. NoTicket.token = 0
      BY DEF NoTicket
    <3> QED BY <1>2, <2>2, <2>5, <3>1, <3>2
  <2> QED BY <1>1, <2>2, <2>3, <2>6 DEF TicketTrue
<1>4. ASSUME NEW n \in Media \ {m}
      PROVE  MediaTrue(b, n)
  <2>1. MediaTrue(a, n)
    OBVIOUS
  <2> QED BY <2>1 DEF MediaTrue, Ticketed
<1> QED BY <1>3, <1>4

\* One media is looked at.
LEMMA VisitFacts ==
  ASSUME AnswersOK, NEW s \in [app : App, room : Int], Sound(s.app), s.app.reconcile,
         NEW m \in Media
  PROVE  /\ Visit(s, m) \in [app : App, room : Int]
         /\ Sound(Visit(s, m).app) /\ Visit(s, m).app.reconcile
         /\ Quiet(s.app, Visit(s, m).app)
<1>1. PICK a \in App : a = s.app
  OBVIOUS
<1>2. /\ Sound(a) /\ a.reconcile /\ a.records \in [Media -> ProxyRecord]
      /\ s.room \in Int /\ s = [app |-> a, room |-> s.room]
  BY <1>1, AppFacts
<1>3. PICK word \in BOOLEAN : word = (a.records[m].recheck /\ Ready(a, m))
  OBVIOUS
<1>4. PICK record \in ProxyRecord : record = [a.records[m] EXCEPT !.recheck = word]
  BY <1>2 DEF ProxyRecord
<1>5. PICK kept : kept = [a EXCEPT !.records[m] = record]
  OBVIOUS
<1>6. kept = [s.app EXCEPT !.records[m].recheck = @ /\ Ready(s.app, m)]
  BY <1>1, <1>3, <1>4, <1>5
<1>7. /\ record.artifact = a.records[m].artifact /\ record.enabled = a.records[m].enabled
      /\ record.recheck = word
  BY <1>2, <1>4 DEF ProxyRecord
<1>8. /\ kept.records = [a.records EXCEPT ![m] = record]
      /\ kept.status = a.status /\ kept.tickets = a.tickets /\ kept.requests = a.requests
      /\ kept.desired = a.desired /\ kept.suppressed = a.suppressed
      /\ kept.reconcile = a.reconcile /\ kept.job = a.job /\ kept.deletion = a.deletion
  BY <1>5 DEF App
<1>9. kept \in App
  <2>1. [a.records EXCEPT ![m] = record] \in [Media -> ProxyRecord]
    BY <1>2
  <2> QED BY <1>5, <2>1 DEF App
<1>10. kept.records[m] = record /\ \A n \in Media \ {m} : kept.records[n] = a.records[n]
  BY <1>2, <1>8
<1>11. MediaTrue(kept, m)
  <2>1. MediaTrue(a, m)
    BY <1>2 DEF Sound
  <2>2. a.records[m] = NoRecord => record = NoRecord
    <3>1. ASSUME a.records[m] = NoRecord
          PROVE  record = NoRecord
      <4>1. ~a.records[m].recheck
        BY <3>1 DEF NoRecord
      <4>2. ~word
        BY <1>3, <4>1
      <4>3. record.artifact = a.records[m].artifact /\ record.enabled = a.records[m].enabled
            /\ record.recheck = a.records[m].recheck
        <5>1. a.records[m].recheck \in BOOLEAN
          BY <1>2 DEF ProxyRecord
        <5> QED BY <1>7, <4>1, <4>2, <5>1
      <4>4. record = a.records[m]
        BY <1>2, <4>3 DEF ProxyRecord
      <4> QED BY <3>1, <4>4
    <3> QED BY <3>1
  <2>3. record = NoRecord => a.records[m].artifact = NoArtifact
    BY <1>7 DEF NoRecord
  <2>4. a.records[m] # NoRecord => record # NoRecord
    BY <2>1, <2>3, NoArtifactIsNone DEF MediaTrue
  <2> QED BY <1>2, <1>7, <1>8, <1>10, <2>1, <2>2, <2>4 DEF MediaTrue, Ticketed
<1>12. \A n \in Media : TicketTrue(kept, n) /\ MediaTrue(kept, n)
  <2>1. \A n \in Media : TicketTrue(a, n) /\ MediaTrue(a, n)
    BY <1>2 DEF Sound
  <2>2. \A n \in Media \ {m} :
          /\ kept.tickets[n] = a.tickets[n] /\ kept.records[n] = a.records[n]
          /\ kept.status[n] = a.status[n]
    BY <1>8, <1>10
  <2>3. kept.tickets[m] \in {a.tickets[m], NoTicket}
    BY <1>8
  <2>4. /\ \A n \in Media : TicketTrue(kept, n)
        /\ \A n \in Media \ {m} : MediaTrue(kept, n)
    BY <1>8, <1>9, <2>1, <2>2, <2>3, Others DEF AnswersOK
  <2> QED BY <1>11, <2>4
<1>13. Sound(kept)
  <2>1. Len(kept.requests) <= Capacity
    BY <1>2, <1>8 DEF Sound
  <2> QED BY <1>9, <1>12, <2>1 DEF Sound
<1>14. Quiet(a, kept)
  <2>1. \A n \in Media :
          /\ kept.records[n].artifact = a.records[n].artifact
          /\ kept.records[n].enabled = a.records[n].enabled
    BY <1>7, <1>10
  <2> QED BY <1>8, <2>1 DEF Quiet
<1>15. CASE s.room = 0
  <2>1. Visit(s, m) = s
    BY <1>15 DEF Visit
  <2>2. Quiet(a, a)
    BY DEF Quiet
  <2> QED BY <1>1, <1>2, <2>1, <2>2
<1>16. CASE s.room # 0 /\ kept.records[m].recheck /\ kept.tickets[m] = NoTicket
  <2>1. PICK b : b = QueueCheck(kept, m, FALSE)
    OBVIOUS
  <2>2. Visit(s, m) = [app |-> b, room |-> s.room - 1]
    BY <1>6, <1>16, <2>1 DEF Visit
  <2>3. Ready(kept, m)
    BY <1>3, <1>7, <1>8, <1>10, <1>16 DEF Ready
  <2>4. Sound(b) /\ Quiet(kept, b) /\ b.reconcile = kept.reconcile
    BY <1>13, <1>16, <2>1, <2>3, QuietCheck
  <2>5. Quiet(a, b)
    BY <1>14, <2>4, QuietTransitive
  <2>6. b \in App
    BY <2>4 DEF Sound
  <2>7. Visit(s, m).app = b /\ Visit(s, m) \in [app : App, room : Int]
    BY <1>2, <2>2, <2>6
  <2> QED BY <1>1, <1>2, <1>8, <2>4, <2>5, <2>7
<1>17. CASE s.room # 0 /\ ~(kept.records[m].recheck /\ kept.tickets[m] = NoTicket)
  <2>1. Visit(s, m) = [s EXCEPT !.app = kept]
    BY <1>6, <1>17 DEF Visit
  <2>2. Visit(s, m).app = kept /\ Visit(s, m) \in [app : App, room : Int]
    BY <1>9, <2>1
  <2> QED BY <1>1, <1>2, <1>8, <1>13, <1>14, <2>2
<1> QED BY <1>15, <1>16, <1>17

\* The recursions of Asked and of Answered, as equations for the functions they define.
AskedStep(a, order, f, n) ==
  IF n = 0 THEN [app |-> a, room |-> Capacity - Cardinality(Ticketed(a))]
  ELSE Visit(f[n - 1], order[n])

AnsweredStep(a, f, n) == IF n = 0 THEN a ELSE ApplyResult(f[n - 1], results[n])

LEMMA AskedExists ==
  ASSUME NEW a, NEW order, NEW k \in Nat
  PROVE  \E f : f = [n \in 0..k |-> AskedStep(a, order, f, n)]
<1> DEFINE Solved == {n \in Nat : \E f : f = [m \in 0..n |-> AskedStep(a, order, f, m)]}
<1>1. 0 \in Solved
  <2>1. \A m \in 0..0 : AskedStep(a, order, [i \in 0..0 |-> AskedStep(a, order, a, 0)], m)
                          = AskedStep(a, order, a, 0)
    BY DEF AskedStep
  <2>2. PICK f : f = [i \in 0..0 |-> AskedStep(a, order, a, 0)]
    OBVIOUS
  <2>3. \A m \in 0..0 : AskedStep(a, order, f, m) = AskedStep(a, order, a, 0)
    BY <2>1, <2>2
  <2>4. f = [m \in 0..0 |-> AskedStep(a, order, f, m)]
    BY <2>2, <2>3
  <2> QED BY <2>4
<1>2. ASSUME NEW n \in Solved
      PROVE  n + 1 \in Solved
  <2>1. n \in Nat
    OBVIOUS
  <2>2. PICK f : f = [m \in 0..n |-> AskedStep(a, order, f, m)]
    OBVIOUS
  <2> DEFINE g == [m \in 0..(n + 1) |-> AskedStep(a, order, f, m)]
  <2>3. \A m \in 0..n : g[m] = f[m]
    BY <2>1, <2>2
  <2>4. g = [m \in 0..(n + 1) |-> AskedStep(a, order, f, m)]
    OBVIOUS
  <2> HIDE DEF g
  <2>5. ASSUME NEW m \in 0..(n + 1)
        PROVE  AskedStep(a, order, f, m) = AskedStep(a, order, g, m)
    <3>1. CASE m = 0
      BY <3>1 DEF AskedStep
    <3>2. CASE m # 0
      <4>1. m - 1 \in 0..n
        BY <2>1, <3>2
      <4>2. g[m - 1] = f[m - 1]
        BY <4>1, <2>3
      <4> QED BY <3>2, <4>2 DEF AskedStep
    <3> QED BY <3>1, <3>2
  <2>6. g = [m \in 0..(n + 1) |-> AskedStep(a, order, g, m)]
    BY <2>4, <2>5
  <2> QED BY <2>1, <2>6
<1> HIDE DEF Solved
<1>3. Nat \subseteq Solved
  BY <1>1, <1>2, NatSetInduction
<1> QED BY <1>3 DEF Solved

LEMMA AnsweredExists ==
  ASSUME NEW a, NEW k \in Nat
  PROVE  \E f : f = [n \in 0..k |-> AnsweredStep(a, f, n)]
<1> DEFINE Solved == {n \in Nat : \E f : f = [m \in 0..n |-> AnsweredStep(a, f, m)]}
<1>1. 0 \in Solved
  <2>1. PICK f : f = [i \in 0..0 |-> a]
    OBVIOUS
  <2>2. \A m \in 0..0 : AnsweredStep(a, f, m) = a
    BY DEF AnsweredStep
  <2>3. f = [m \in 0..0 |-> AnsweredStep(a, f, m)]
    BY <2>1, <2>2
  <2> QED BY <2>3
<1>2. ASSUME NEW n \in Solved
      PROVE  n + 1 \in Solved
  <2>1. n \in Nat
    OBVIOUS
  <2>2. PICK f : f = [m \in 0..n |-> AnsweredStep(a, f, m)]
    OBVIOUS
  <2> DEFINE g == [m \in 0..(n + 1) |-> AnsweredStep(a, f, m)]
  <2>3. \A m \in 0..n : g[m] = f[m]
    BY <2>1, <2>2
  <2>4. g = [m \in 0..(n + 1) |-> AnsweredStep(a, f, m)]
    OBVIOUS
  <2> HIDE DEF g
  <2>5. ASSUME NEW m \in 0..(n + 1)
        PROVE  AnsweredStep(a, f, m) = AnsweredStep(a, g, m)
    <3>1. CASE m = 0
      BY <3>1 DEF AnsweredStep
    <3>2. CASE m # 0
      <4>1. m - 1 \in 0..n
        BY <2>1, <3>2
      <4>2. g[m - 1] = f[m - 1]
        BY <4>1, <2>3
      <4> QED BY <3>2, <4>2 DEF AnsweredStep
    <3> QED BY <3>1, <3>2
  <2>6. g = [m \in 0..(n + 1) |-> AnsweredStep(a, g, m)]
    BY <2>4, <2>5
  <2> QED BY <2>1, <2>6
<1> HIDE DEF Solved
<1>3. Nat \subseteq Solved
  BY <1>1, <1>2, NatSetInduction
<1> QED BY <1>3 DEF Solved

\* After the whole list.
LEMMA AskedFacts ==
  ASSUME AnswersOK, NEW a, Sound(a), a.reconcile, NEW order \in Orders
  PROVE  Sound(Asked(a, order)) /\ Asked(a, order).reconcile /\ Quiet(a, Asked(a, order))
<1>1. Cardinality(Media) \in Nat
  BY MediaConstants, FS_CardinalityType
<1>2. order \in [1..Cardinality(Media) -> Media] /\ Len(order) = Cardinality(Media)
  BY <1>1 DEF Orders
<1>3. a \in App /\ Capacity - Cardinality(Ticketed(a)) \in Int
  <2>1. IsFiniteSet(Ticketed(a))
    BY MediaConstants, FS_Subset DEF Ticketed
  <2> QED BY <2>1, MediaConstants, FS_CardinalityType DEF Sound
<1> DEFINE f == CHOOSE g : g = [n \in 0..Len(order) |-> AskedStep(a, order, g, n)]
           Good(n) == /\ f[n] \in [app : App, room : Int]
                      /\ Sound(f[n].app) /\ f[n].app.reconcile /\ Quiet(a, f[n].app)
           Done == {n \in Nat : n <= Len(order) => Good(n)}
<1>4. f = [n \in 0..Len(order) |-> AskedStep(a, order, f, n)]
  BY <1>1, <1>2, AskedExists
<1>5. Asked(a, order) = f[Len(order)].app
  BY DEF Asked, AskedStep
<1> HIDE DEF f
<1>6. 0 \in Done
  <2>1. f[0] = [app |-> a, room |-> Capacity - Cardinality(Ticketed(a))]
    BY <1>1, <1>2, <1>4 DEF AskedStep
  <2>2. f[0].app = a /\ f[0] \in [app : App, room : Int]
    BY <1>3, <2>1
  <2>3. Quiet(a, a)
    BY DEF Quiet
  <2>4. Good(0)
    BY <2>2, <2>3
  <2> QED BY <2>4
<1>7. ASSUME NEW n \in Done
      PROVE  n + 1 \in Done
  <2>1. SUFFICES ASSUME n + 1 <= Len(order)
                 PROVE  Good(n + 1)
    OBVIOUS
  <2>2. /\ n \in Nat /\ n + 1 \in 0..Len(order) /\ n + 1 # 0 /\ (n + 1) - 1 = n
        /\ n + 1 \in 1..Cardinality(Media) /\ n <= Len(order)
    BY <1>1, <1>2, <2>1
  <2>3. Good(n)
    <3> HIDE DEF Good
    <3> QED BY <2>2 DEF Done
  <2>4. f[n + 1] = Visit(f[n], order[n + 1])
    <3>1. f[n + 1] = AskedStep(a, order, f, n + 1)
      BY <1>4, <2>2
    <3> QED BY <2>2, <3>1 DEF AskedStep
  <2>5. order[n + 1] \in Media
    BY <1>2, <2>2
  <2>6. /\ f[n + 1] \in [app : App, room : Int]
        /\ Sound(f[n + 1].app) /\ f[n + 1].app.reconcile
        /\ Quiet(f[n].app, f[n + 1].app)
    BY <2>3, <2>4, <2>5, VisitFacts
  <2>7. Quiet(a, f[n + 1].app)
    BY <2>3, <2>6, QuietTransitive
  <2> QED BY <2>6, <2>7
<1> HIDE DEF Good
<1>8. Nat \subseteq Done
  <2> HIDE DEF Done
  <2> QED BY <1>6, <1>7, NatSetInduction
<1>9. Good(Len(order))
  BY <1>1, <1>2, <1>8
<1> QED BY <1>5, <1>9 DEF Good

LEMMA SubmitFacts ==
  ASSUME AnswersOK, NEW a, Sound(a), NEW order \in Orders
  PROVE  Sound(SubmitDeferred(a, order)) /\ Quiet(a, SubmitDeferred(a, order))
<1>1. CASE ~a.reconcile
  <2>1. SubmitDeferred(a, order) = a
    BY <1>1 DEF SubmitDeferred
  <2> QED BY <2>1 DEF Quiet
<1>2. CASE a.reconcile
  <2>1. PICK asked : asked = Asked(a, order)
    OBVIOUS
  <2>2. Sound(asked) /\ asked.reconcile /\ Quiet(a, asked) /\ asked \in App
    BY <1>2, <2>1, AskedFacts DEF Sound
  <2>3. PICK more \in BOOLEAN : more = \E m \in Media : asked.records[m].recheck
    OBVIOUS
  <2>4. PICK b : b = [asked EXCEPT !.reconcile = more]
    OBVIOUS
  <2>5. b = SubmitDeferred(a, order)
    BY <1>2, <2>1, <2>3, <2>4 DEF SubmitDeferred
  <2>6. /\ b \in App /\ b.reconcile = more
        /\ b.records = asked.records /\ b.status = asked.status /\ b.tickets = asked.tickets
        /\ b.requests = asked.requests /\ b.desired = asked.desired
        /\ b.suppressed = asked.suppressed /\ b.job = asked.job /\ b.deletion = asked.deletion
    BY <2>2, <2>4 DEF App
  <2>7. Awaited(b) = Awaited(asked) /\ Ticketed(b) = Ticketed(asked)
    BY <2>6 DEF Awaited, Ticketed
  <2>8. ASSUME NEW m \in Media
        PROVE  MediaTrue(b, m) /\ TicketTrue(b, m)
    <3>1. MediaTrue(asked, m) /\ TicketTrue(asked, m)
      BY <2>2 DEF Sound
    <3>2. b.records[m].recheck => b.reconcile
      BY <2>3, <2>6
    <3>3. MediaTrue(b, m)
      BY <2>6, <2>7, <3>1, <3>2 DEF MediaTrue
    <3>4. TicketTrue(b, m)
      BY <2>6, <2>7, <3>1 DEF TicketTrue
    <3> QED BY <3>3, <3>4
  <2>9. Sound(b)
    BY <2>2, <2>6, <2>8 DEF Sound
  <2>10. Quiet(a, b)
    BY <2>2, <2>6 DEF Quiet
  <2> QED BY <2>5, <2>9, <2>10
<1> QED BY <1>1, <1>2

-----------------------------------------------------------------------------
(* Answers.                                                                  *)

\* b is what a has become by the first n answers.
Heard(a, b, n) ==
  /\ b.suppressed = a.suppressed /\ b.reconcile = a.reconcile
  /\ b.job = a.job /\ b.deletion = a.deletion
  /\ \A m \in Media :
       /\ b.tickets[m] \in {a.tickets[m], NoTicket}
       /\ \A i \in 1..n : b.tickets[m].token # results[i].token
       /\ m \in b.desired => m \in a.desired \/ a.tickets[m].activate
       /\ b.records[m].enabled =>
            \/ a.records[m].enabled
            \/ /\ a.tickets[m].activate /\ a.tickets[m].token \in verified
               /\ b.records[m].artifact = a.tickets[m].artifact
               /\ a.tickets[m].artifact.original = originals[m]
       /\ \/ b.status[m] = a.status[m]
          \/ a.status[m] \notin {"generating", "deleting"} /\ b.status[m] \notin {"generating", "deleting"}

\* One answer more: it meets its own ticket or none.
LEMMA ResultFacts ==
  ASSUME AnswersOK, NEW a, Sound(a), NEW b, Sound(b), NEW n \in Nat, Heard(a, b, n),
         n + 1 <= Len(results), NEW c, c = ApplyResult(b, results[n + 1])
  PROVE  Sound(c) /\ Heard(a, c, n + 1)
<1>1. /\ n + 1 \in DOMAIN results /\ Len(results) \in Nat
      /\ \A i \in 1..(n + 1) : i \in 1..n \/ i = n + 1
  BY DEF AnswersOK
<1>2. PICK r \in Answer : r = results[n + 1]
  BY <1>1 DEF AnswersOK
<1>3. r.token \in Token /\ r.token # 0 /\ r.usable \in BOOLEAN
  BY MediaConstants DEF Answer, Token
<1>4. /\ a \in App /\ b \in App /\ Len(b.requests) <= Capacity
      /\ b.records \in [Media -> ProxyRecord] /\ b.status \in [Media -> Status]
      /\ b.tickets \in [Media -> Ticket] /\ b.desired \subseteq Media
  BY AppFacts DEF Sound
<1>5. CASE Asker(b, r) = {}
  <2>1. c = b
    BY <1>2, <1>5 DEF ApplyResult
  <2>2. ASSUME NEW m \in Media, NEW i \in 1..(n + 1)
        PROVE  b.tickets[m].token # results[i].token
    BY <1>1, <1>2, <1>5 DEF Asker, Heard
  <2> QED BY <2>1, <2>2 DEF Heard
<1>6. CASE Asker(b, r) # {}
  <2>1. PICK m \in Media : m = (CHOOSE k \in Asker(b, r) : TRUE) /\ m \in Asker(b, r)
    BY <1>6 DEF Asker
  <2>2. b.tickets[m].token = r.token /\ b.tickets[m] # NoTicket /\ m \in Ticketed(b)
    BY <1>3, <2>1 DEF Asker, Ticketed, NoTicket
  <2>3. b.tickets[m] = a.tickets[m]
    BY <2>2 DEF Heard
  <2>4. MediaTrue(b, m) /\ TicketTrue(b, m)
    BY DEF Sound
  <2>5. b.tickets[m].artifact = b.records[m].artifact
    BY <2>2, <2>4 DEF MediaTrue
  <2>6. r.usable => /\ b.tickets[m].token \in verified
                    /\ b.tickets[m].artifact.original = originals[m]
    BY <1>1, <1>2, <2>2, <2>4 DEF TicketTrue
  <2>7. PICK answered : answered = [b EXCEPT !.tickets[m] = NoTicket]
    OBVIOUS
  <2>8. c = IF ~r.usable THEN Fail(answered, m)
            ELSE IF b.tickets[m].activate
            THEN [answered EXCEPT !.records[m].enabled = TRUE, !.status[m] = "on",
                                  !.desired = @ \cup {m}]
            ELSE answered
    BY <1>2, <1>6, <2>1, <2>5, <2>7 DEF ApplyResult
  <2>9. /\ answered.records = b.records /\ answered.status = b.status
        /\ answered.tickets = [b.tickets EXCEPT ![m] = NoTicket]
        /\ answered.desired = b.desired
    BY <1>4, <2>7, SMTT(40) DEF App
  <2>10. PICK record \in ProxyRecord, word \in Status, wishes \in SUBSET Media :
           /\ c = [b EXCEPT !.tickets[m] = NoTicket, !.records[m] = record,
                            !.status[m] = word, !.desired = wishes]
           /\ \/ record = NoRecord /\ word = "failed" /\ wishes = b.desired
              \/ /\ r.usable /\ b.tickets[m].activate
                 /\ record = [b.records[m] EXCEPT !.enabled = TRUE]
                 /\ word = "on" /\ wishes = b.desired \cup {m}
              \/ /\ ~b.tickets[m].activate
                 /\ record = b.records[m] /\ word = b.status[m] /\ wishes = b.desired
    <3>1. CASE ~r.usable
      <4>1. NoRecord \in ProxyRecord /\ "failed" \in Status
        BY DEF NoRecord, ProxyRecord, Status
      <4>2. c = [b EXCEPT !.tickets[m] = NoTicket, !.records[m] = NoRecord,
                          !.status[m] = "failed", !.desired = b.desired]
        <5>1. c = [answered EXCEPT !.tickets[m] = NoTicket, !.records[m] = NoRecord,
                                   !.status[m] = "failed"]
          BY <2>8, <3>1 DEF Fail
        <5>2. PICK tickets : tickets = [b.tickets EXCEPT ![m] = NoTicket]
          OBVIOUS
        <5>3. [tickets EXCEPT ![m] = NoTicket] = tickets
          BY <1>4, <5>2
        <5>4. c = [b EXCEPT !.tickets = tickets, !.records[m] = NoRecord, !.status[m] = "failed"]
          BY <1>4, <2>7, <5>1, <5>2, <5>3, ZenonT(60) DEF App
        <5> QED BY <1>4, <5>2, <5>4 DEF App
      <4> QED BY <1>4, <4>1, <4>2
    <3>2. CASE r.usable /\ b.tickets[m].activate
      <4>1. PICK record \in ProxyRecord : record = [b.records[m] EXCEPT !.enabled = TRUE]
        BY <1>4 DEF ProxyRecord
      <4>2. PICK wishes \in SUBSET Media : wishes = b.desired \cup {m}
        BY <1>4
      <4>3. c = [answered EXCEPT !.records[m] = record, !.status[m] = "on", !.desired = wishes]
        BY <1>4, <2>8, <2>9, <3>2, <4>1, <4>2
      <4>4. c = [b EXCEPT !.tickets[m] = NoTicket, !.records[m] = record,
                          !.status[m] = "on", !.desired = wishes]
        BY <1>4, <2>7, <4>3 DEF App
      <4>5. "on" \in Status
        BY DEF Status
      <4> QED BY <3>2, <4>1, <4>2, <4>4, <4>5
    <3>3. CASE r.usable /\ ~b.tickets[m].activate
      <4>1. c = [b EXCEPT !.tickets[m] = NoTicket, !.records[m] = b.records[m],
                          !.status[m] = b.status[m], !.desired = b.desired]
        <5>1. c = answered
          BY <2>8, <3>3
        <5>2. /\ [b.records EXCEPT ![m] = b.records[m]] = b.records
              /\ [b.status EXCEPT ![m] = b.status[m]] = b.status
          BY <1>4
        <5>3. [b EXCEPT !.tickets[m] = NoTicket, !.records[m] = b.records[m],
                        !.status[m] = b.status[m], !.desired = b.desired]
                = [b EXCEPT !.tickets[m] = NoTicket, !.records = b.records,
                            !.status = b.status, !.desired = b.desired]
          BY <5>2
        <5>4. PICK tickets : tickets = [b.tickets EXCEPT ![m] = NoTicket]
          OBVIOUS
        <5>5. [b EXCEPT !.tickets = tickets]
                = [b EXCEPT !.tickets = tickets, !.records = b.records, !.status = b.status,
                            !.desired = b.desired]
          BY <1>4 DEF App
        <5> QED BY <2>7, <5>1, <5>3, <5>4, <5>5
      <4>2. b.records[m] \in ProxyRecord /\ b.status[m] \in Status /\ b.desired \in SUBSET Media
        BY <1>4
      <4> QED BY <3>3, <4>1, <4>2
    <3> QED BY <3>1, <3>2, <3>3
  <2>11. /\ c.tickets = [b.tickets EXCEPT ![m] = NoTicket]
         /\ c.records = [b.records EXCEPT ![m] = record]
         /\ c.status = [b.status EXCEPT ![m] = word] /\ c.desired = wishes
         /\ c.requests = b.requests /\ c.suppressed = b.suppressed /\ c.reconcile = b.reconcile
         /\ c.job = b.job /\ c.deletion = b.deletion
    BY <1>4, <2>10 DEF App
  <2>12. c \in App
    <3>1. NoTicket \in Ticket
      BY DEF NoTicket, Ticket
    <3>2. /\ [b.tickets EXCEPT ![m] = NoTicket] \in [Media -> Ticket]
          /\ [b.records EXCEPT ![m] = record] \in [Media -> ProxyRecord]
          /\ [b.status EXCEPT ![m] = word] \in [Media -> Status]
      BY <1>4, <3>1
    <3> QED BY <1>4, <2>10, <3>2 DEF App
  <2>13. /\ c.tickets[m] = NoTicket /\ c.records[m] = record /\ c.status[m] = word
         /\ \A k \in Media \ {m} :
              c.tickets[k] = b.tickets[k] /\ c.records[k] = b.records[k] /\ c.status[k] = b.status[k]
    BY <1>4, <2>11
  <2>14. MediaTrue(c, m)
    <3>1. ~c.tickets[m].activate /\ m \notin Ticketed(c)
      BY <2>13 DEF NoTicket, Ticketed
    <3>2. CASE record = NoRecord /\ word = "failed"
      BY <2>13, <3>1, <3>2 DEF MediaTrue, NoRecord
    <3>3. CASE /\ r.usable /\ b.tickets[m].activate
               /\ record = [b.records[m] EXCEPT !.enabled = TRUE] /\ word = "on"
      <4>1. b.records[m] # NoRecord
        BY <2>4, <3>3 DEF MediaTrue
      <4>2. /\ record.artifact = b.records[m].artifact /\ record.enabled
            /\ record.recheck = b.records[m].recheck
        BY <1>4, <3>3 DEF ProxyRecord
      <4>3. record # NoRecord
        BY <4>2 DEF NoRecord
      <4>4. record.artifact \in Artifact
        BY <2>4, <4>1, <4>2 DEF MediaTrue
      <4> QED BY <2>4, <2>11, <2>13, <3>1, <3>3, <4>2, <4>3, <4>4 DEF MediaTrue
    <3>4. CASE ~b.tickets[m].activate /\ record = b.records[m] /\ word = b.status[m]
      BY <2>4, <2>11, <2>13, <3>1, <3>4 DEF MediaTrue
    <3> QED BY <2>10, <3>2, <3>3, <3>4
  <2>15. Sound(c)
    <3>1. \A k \in Media : TicketTrue(b, k) /\ MediaTrue(b, k)
      BY DEF Sound
    <3>2. /\ \A k \in Media : TicketTrue(c, k)
          /\ \A k \in Media \ {m} : MediaTrue(c, k)
      BY <1>4, <2>11, <2>12, <2>13, <3>1, Others DEF AnswersOK
    <3> QED BY <1>4, <2>11, <2>12, <2>14, <3>2 DEF Sound
  <2>16. ASSUME NEW k \in Media, NEW i \in 1..(n + 1)
         PROVE  c.tickets[k].token # results[i].token
    <3>1. CASE k = m
      <4>1. i \in DOMAIN results
        BY <1>1
      <4>2. results[i] \in Answer
        BY <4>1 DEF AnswersOK
      <4>3. results[i].token \in Token
        BY <4>2 DEF Answer
      <4> QED BY <2>13, <3>1, <4>3, MediaConstants DEF NoTicket, Token
    <3>2. CASE k # m /\ i \in 1..n
      BY <2>13, <3>2 DEF Heard
    <3>3. CASE k # m /\ i = n + 1
      BY <1>2, <2>2, <2>4, <2>13, <3>3 DEF TicketTrue
    <3> QED BY <1>1, <3>1, <3>2, <3>3
  <2>17. ASSUME NEW k \in Media, k # m
         PROVE  /\ c.tickets[k] \in {a.tickets[k], NoTicket}
                /\ k \in c.desired => k \in a.desired \/ a.tickets[k].activate
                /\ c.records[k].enabled =>
                     \/ a.records[k].enabled
                     \/ /\ a.tickets[k].activate /\ a.tickets[k].token \in verified
                        /\ c.records[k].artifact = a.tickets[k].artifact
                        /\ a.tickets[k].artifact.original = originals[k]
                /\ \/ c.status[k] = a.status[k]
                   \/ /\ a.status[k] \notin {"generating", "deleting"}
                      /\ c.status[k] \notin {"generating", "deleting"}
    <3>1. c.tickets[k] = b.tickets[k] /\ c.records[k] = b.records[k] /\ c.status[k] = b.status[k]
      BY <2>13, <2>17
    <3>2. k \in c.desired => k \in b.desired
      BY <2>10, <2>11, <2>17
    <3> QED BY <3>1, <3>2 DEF Heard
  <2>18. /\ c.tickets[m] \in {a.tickets[m], NoTicket}
         /\ m \in c.desired => m \in a.desired \/ a.tickets[m].activate
    BY <2>3, <2>10, <2>11, <2>13 DEF Heard
  <2>19. c.records[m].enabled =>
           \/ a.records[m].enabled
           \/ /\ a.tickets[m].activate /\ a.tickets[m].token \in verified
              /\ c.records[m].artifact = a.tickets[m].artifact
              /\ a.tickets[m].artifact.original = originals[m]
    <3>1. CASE record = NoRecord
      BY <2>13, <3>1 DEF NoRecord
    <3>2. CASE r.usable /\ b.tickets[m].activate /\ record = [b.records[m] EXCEPT !.enabled = TRUE]
      <4>1. record.artifact = b.records[m].artifact
        BY <1>4, <3>2 DEF ProxyRecord
      <4> QED BY <2>3, <2>5, <2>6, <2>13, <3>2, <4>1
    <3>3. CASE record = b.records[m]
      BY <2>13, <3>3 DEF Heard
    <3> QED BY <2>10, <3>1, <3>2, <3>3
  <2>20. \/ c.status[m] = a.status[m]
         \/ a.status[m] \notin {"generating", "deleting"} /\ c.status[m] \notin {"generating", "deleting"}
    <3>1. b.status[m] \in {"checking", "off", "on"}
      BY <2>2, <2>4 DEF MediaTrue
    <3>2. word \in {"failed", "on", "checking", "off"}
      BY <2>10, <3>1
    <3>3. a.status[m] \notin {"generating", "deleting"}
      BY <3>1 DEF Heard
    <3> QED BY <2>13, <3>2, <3>3
  <2>21. /\ c.suppressed = a.suppressed /\ c.reconcile = a.reconcile
         /\ c.job = a.job /\ c.deletion = a.deletion
    BY <2>11 DEF Heard
  <2>22. Heard(a, c, n + 1)
    BY <2>16, <2>17, <2>18, <2>19, <2>20, <2>21 DEF Heard
  <2> QED BY <2>15, <2>22
<1> QED BY <1>5, <1>6

LEMMA AnsweredFacts ==
  ASSUME AnswersOK, NEW a, Sound(a)
  PROVE  Sound(Answered(a)) /\ Heard(a, Answered(a), Len(results))
<1> DEFINE f == CHOOSE g : g = [n \in 0..Len(results) |-> AnsweredStep(a, g, n)]
           Good(n) == Sound(f[n]) /\ Heard(a, f[n], n)
           Done == {n \in Nat : n <= Len(results) => Good(n)}
<1>1. Len(results) \in Nat
  BY DEF AnswersOK
<1>2. f = [n \in 0..Len(results) |-> AnsweredStep(a, f, n)]
  BY <1>1, AnsweredExists
<1>3. Answered(a) = f[Len(results)]
  BY DEF Answered, AnsweredStep
<1> HIDE DEF f
<1>4. 0 \in Done
  <2>1. f[0] = a
    BY <1>1, <1>2 DEF AnsweredStep
  <2>2. 1..0 = {}
    OBVIOUS
  <2>3. Heard(a, a, 0)
    BY <2>2 DEF Heard
  <2>4. Good(0)
    BY <2>1, <2>3
  <2> QED BY <2>4
<1>5. ASSUME NEW n \in Done
      PROVE  n + 1 \in Done
  <2>1. SUFFICES ASSUME n + 1 <= Len(results)
                 PROVE  Good(n + 1)
    OBVIOUS
  <2>2. /\ n \in Nat /\ n + 1 \in 0..Len(results) /\ n + 1 # 0 /\ (n + 1) - 1 = n
        /\ n <= Len(results)
    BY <1>1, <2>1
  <2>3. Good(n)
    <3> HIDE DEF Good
    <3> QED BY <2>2 DEF Done
  <2>4. f[n + 1] = ApplyResult(f[n], results[n + 1])
    <3>1. f[n + 1] = AnsweredStep(a, f, n + 1)
      BY <1>2, <2>2
    <3> QED BY <2>2, <3>1 DEF AnsweredStep
  <2>5. Sound(f[n]) /\ Heard(a, f[n], n)
    BY <2>3
  <2> QED BY <2>1, <2>2, <2>4, <2>5, ResultFacts
<1> HIDE DEF Good
<1>6. Nat \subseteq Done
  <2> HIDE DEF Done
  <2> QED BY <1>4, <1>5, NatSetInduction
<1>7. Good(Len(results))
  BY <1>1, <1>6
<1> QED BY <1>3, <1>7 DEF Good

\* Without its worker every check has failed.
LEMMA AbandonedFacts ==
  ASSUME AnswersOK, NEW a, Sound(a), NEW h, Sound(h), Heard(a, h, Len(results)),
         NEW checker \in {"able", "unable"}, NEW b, b = Abandoned(h, checker)
  PROVE  Sound(b) /\ Heard(a, b, Len(results))
<1>1. h \in App /\ Ticketed(h) \subseteq Media
  BY DEF Sound, Ticketed
<1>2. NoRecord \in ProxyRecord /\ "failed" \in Status /\ NoTicket \in Ticket
  BY DEF NoRecord, ProxyRecord, Status, NoTicket, Ticket
<1>3. PICK records \in [Media -> ProxyRecord], status \in [Media -> Status] :
        /\ records = [m \in Media |-> IF m \in Ticketed(h) THEN NoRecord ELSE h.records[m]]
        /\ status = [m \in Media |-> IF m \in Ticketed(h) THEN "failed" ELSE h.status[m]]
  BY <1>1, <1>2, AppFacts
<1>4. PICK tickets \in [Media -> Ticket], requests \in Seq(Check) :
        tickets = [m \in Media |-> NoTicket] /\ requests = <<>>
  <2>1. [m \in Media |-> NoTicket] \in [Media -> Ticket]
    BY <1>2
  <2>2. <<>> \in Seq(Check)
    OBVIOUS
  <2> QED BY <2>1, <2>2
<1>5. b = [h EXCEPT !.records = records, !.status = status, !.tickets = tickets,
                    !.requests = requests, !.checker = checker]
  BY <1>3, <1>4 DEF Abandoned
<1>6. /\ b \in App /\ b.records = records /\ b.status = status /\ b.tickets = tickets
      /\ b.requests = requests /\ b.desired = h.desired /\ b.suppressed = h.suppressed
      /\ b.reconcile = h.reconcile /\ b.job = h.job /\ b.deletion = h.deletion
  BY <1>1, <1>5 DEF App
<1>7. Len(b.requests) <= Capacity
  BY <1>4, <1>6, MediaConstants
<1>8. ~NoRecord.enabled /\ ~NoRecord.recheck /\ ~NoTicket.activate /\ NoTicket.token = 0
  BY DEF NoRecord, NoTicket
<1>9. ASSUME NEW m \in Media
      PROVE  /\ b.tickets[m] = NoTicket /\ m \notin Ticketed(b)
             /\ m \in Ticketed(h) => b.records[m] = NoRecord /\ b.status[m] = "failed"
             /\ m \notin Ticketed(h) => /\ b.records[m] = h.records[m]
                                       /\ b.status[m] = h.status[m] /\ h.tickets[m] = NoTicket
  BY <1>3, <1>4, <1>6 DEF Ticketed
<1>10. ASSUME NEW m \in Media
       PROVE  MediaTrue(b, m) /\ TicketTrue(b, m)
  <2>1. MediaTrue(h, m)
    BY DEF Sound
  <2>2. MediaTrue(b, m)
    <3>1. CASE m \in Ticketed(h)
      BY <1>8, <1>9, <3>1 DEF MediaTrue
    <3>2. CASE m \notin Ticketed(h)
      BY <1>6, <1>9, <2>1, <3>2 DEF MediaTrue
    <3> QED BY <3>1, <3>2
  <2>3. TicketTrue(b, m)
    BY <1>9 DEF TicketTrue
  <2> QED BY <2>2, <2>3
<1>11. Sound(b)
  BY <1>6, <1>7, <1>10 DEF Sound
<1>12. ASSUME NEW m \in Media
       PROVE  /\ b.tickets[m] \in {a.tickets[m], NoTicket}
              /\ \A i \in 1..Len(results) : b.tickets[m].token # results[i].token
              /\ m \in b.desired => m \in a.desired \/ a.tickets[m].activate
              /\ b.records[m].enabled =>
                   \/ a.records[m].enabled
                   \/ /\ a.tickets[m].activate /\ a.tickets[m].token \in verified
                      /\ b.records[m].artifact = a.tickets[m].artifact
                      /\ a.tickets[m].artifact.original = originals[m]
              /\ \/ b.status[m] = a.status[m]
                 \/ /\ a.status[m] \notin {"generating", "deleting"}
                    /\ b.status[m] \notin {"generating", "deleting"}
  <2>1. \A i \in 1..Len(results) : results[i].token # 0
    <3>1. ASSUME NEW i \in 1..Len(results)
          PROVE  results[i].token # 0
      <4>1. results[i] \in Answer
        BY DEF AnswersOK
      <4> QED BY <4>1, MediaConstants DEF Answer, Token
    <3> QED BY <3>1
  <2>2. CASE m \in Ticketed(h)
    <3>1. h.status[m] \in {"checking", "off", "on"}
      BY <2>2 DEF Sound, MediaTrue
    <3>2. a.status[m] \notin {"generating", "deleting"}
      BY <3>1 DEF Heard
    <3> QED BY <1>6, <1>8, <1>9, <2>1, <2>2, <3>2 DEF Heard
  <2>3. CASE m \notin Ticketed(h)
    BY <1>6, <1>8, <1>9, <2>1, <2>3 DEF Heard
  <2> QED BY <2>2, <2>3
<1>13. /\ b.suppressed = a.suppressed /\ b.reconcile = a.reconcile
       /\ b.job = a.job /\ b.deletion = a.deletion
  BY <1>6 DEF Heard
<1> QED BY <1>11, <1>12, <1>13 DEF Heard

\* What a poll makes of the answers and of the end of the worker, before it asks again.
LEMMA PolledFacts ==
  ASSUME Sound(app), AnswersOK, NEW order \in Orders, PollProxyValidation(order)
  PROVE  \E heard : /\ Sound(heard) /\ Heard(app, heard, Len(results))
                    /\ app' = SubmitDeferred(heard, order)
<1>1. PICK h : h = Answered(app)
  OBVIOUS
<1>2. Sound(h) /\ Heard(app, h, Len(results))
  BY <1>1, AnsweredFacts
<1>3. CASE app.checker = "closed" /\ Len(results) < Capacity
  <2>1. PICK checker \in {"able", "unable"} :
          app' = SubmitDeferred(Abandoned(h, checker), order)
    BY <1>1, <1>3 DEF PollProxyValidation
  <2>2. PICK b : b = Abandoned(h, checker)
    OBVIOUS
  <2>3. Sound(b) /\ Heard(app, b, Len(results))
    BY <1>2, <2>2, AbandonedFacts
  <2> QED BY <2>1, <2>2, <2>3
<1>4. CASE ~(app.checker = "closed" /\ Len(results) < Capacity)
  <2>1. app' = SubmitDeferred(h, order)
    BY <1>1, <1>4 DEF PollProxyValidation
  <2> QED BY <1>2, <2>1
<1> QED BY <1>3, <1>4

-----------------------------------------------------------------------------
(* Steps that concern one media.                                             *)

\* What the handlers know of the state they find.
LEMMA StateFacts ==
  ASSUME ProxyInv
  PROVE  /\ app \in App /\ Sound(app) /\ AnswersOK /\ WorkersInv /\ SlotsTrue(app)
         /\ app.records \in [Media -> ProxyRecord] /\ app.status \in [Media -> Status]
         /\ app.tickets \in [Media -> Ticket] /\ app.desired \subseteq Media
         /\ app.suppressed \subseteq Media /\ app.reconcile \in BOOLEAN
         /\ app.requests \in Seq(Check)
         /\ app.job \in BuildSlot
         /\ app.deletion \in RemovalSlot
         /\ said \in [Media -> Word] /\ NoMedia \notin Media
<1>1. app \in App
  BY DEF ProxyInv, ProxyValuesOK
<1>2. Sound(app)
  BY <1>1 DEF ProxyInv, ProxyValuesOK, Sound
<1>3. AnswersOK /\ WorkersInv /\ SlotsTrue(app) /\ said \in [Media -> Word]
  BY DEF ProxyInv, ProxyValuesOK, AnswersOK, WorkersInv
<1> QED BY <1>1, <1>2, <1>3, AppFacts, MediaConstants DEF NoMedia

\* No proxy comes into use.
Unrouted == \A n \in Media : app'.records[n].enabled => app.records[n].enabled

\* The other media are as they were, and this one does not come into use.
Elsewhere(a, b, m) ==
  /\ m \in Media /\ b.records[m].enabled => a.records[m].enabled
  /\ \A n \in Media \ {m} :
       /\ b.records[n].enabled = a.records[n].enabled
       /\ b.tickets[n].activate = a.tickets[n].activate
       /\ b.status[n] = a.status[n]
       /\ n \in b.desired => n \in a.desired
       /\ n \in a.suppressed => n \in b.suppressed
       /\ b.job.media = n <=> a.job.media = n
       /\ b.job.media = n /\ a.job.cancelled => b.job.cancelled
       /\ b.deletion.media = n <=> a.deletion.media = n

LEMMA CoreStep ==
  ASSUME ProxyInv, said' \in [Media -> Word],
         WorkersInv', UNCHANGED <<originals, results, verified>>,
         analysis' \in {analysis, NoAnalysis},
         Sound(app'), SlotsTrue(app)',
         \A n \in Media : WordTrue(app, n)' /\ ShownTrue(app, n)'
  PROVE  ProxyInv'
<1>1. PICK b : b = app'
  OBVIOUS
<1>2. Sound(b) /\ b \in App
  BY <1>1 DEF Sound
<1>3. ASSUME NEW n \in Media
      PROVE  MediaTrue(app, n)' /\ TicketTrue(app, n)'
  <2>1. MediaTrue(b, n) /\ TicketTrue(b, n)
    BY <1>2 DEF Sound
  <2>2. MediaTrue(app, n)'
    BY <1>1, <2>1 DEF MediaTrue, Ticketed
  <2>3. Awaited(app)' = Awaited(b)
    BY <1>1 DEF Awaited
  <2>4. TicketTrue(app, n)'
    BY <1>1, <2>1, <2>3 DEF TicketTrue, Ticketed
  <2> QED BY <2>2, <2>4
<1>4. ProxyValuesOK'
  <2>1. WorkersTypeOK' /\ app' \in App /\ Len(app'.requests) <= Capacity
    BY <1>1, <1>2 DEF WorkersInv, Sound
  <2>2. /\ analysis' \in [media : Media \cup {NoMedia}, artifact : Artifact \cup {NoArtifact}]
        /\ analysis'.media # NoMedia => analysis'.artifact \in Artifact
    BY DEF ProxyInv, ProxyValuesOK, NoAnalysis
  <2> QED BY <2>1, <2>2 DEF ProxyInv, ProxyValuesOK
<1> QED BY <1>3, <1>4 DEF ProxyInv, WorkersInv

LEMMA ElsewhereFacts ==
  ASSUME ProxyInv, NEW m, NEW b, b = app', Elsewhere(app, b, m),
         NEW n \in Media \ {m}, said'[n] = said[n]
  PROVE  WordTrue(app, n)' /\ ShownTrue(app, n)'
<1>1. WordTrue(app, n) /\ ShownTrue(app, n)
  BY DEF ProxyInv
<1>2. /\ b.records[n].enabled = app.records[n].enabled
      /\ b.tickets[n].activate = app.tickets[n].activate
      /\ b.status[n] = app.status[n]
      /\ n \in b.desired => n \in app.desired
      /\ n \in app.suppressed => n \in b.suppressed
      /\ b.job.media = n <=> app.job.media = n
      /\ b.job.media = n /\ app.job.cancelled => b.job.cancelled
      /\ b.deletion.media = n <=> app.deletion.media = n
  BY DEF Elsewhere
<1>3. ShownTrue(app, n)'
  BY <1>1, <1>2 DEF ShownTrue
<1>4. WordTrue(app, n)'
  BY <1>1, <1>2 DEF WordTrue
<1> QED BY <1>3, <1>4

LEMMA MediaStep ==
  ASSUME ProxyInv, NEW m \in Media, NEW word \in Word, said' = [said EXCEPT ![m] = word],
         WorkersInv', UNCHANGED <<originals, results, verified>>,
         analysis' \in {analysis, NoAnalysis},
         Sound(app'), SlotsTrue(app)', Elsewhere(app, app', m),
         WordTrue(app, m)', ShownTrue(app, m)'
  PROVE  ProxyInv' /\ Unrouted
<1>1. PICK b : b = app'
  OBVIOUS
<1>2. Elsewhere(app, b, m) /\ said \in [Media -> Word]
  BY <1>1, StateFacts
<1>3. said' \in [Media -> Word] /\ \A n \in Media \ {m} : said'[n] = said[n]
  BY <1>2
<1>4. ASSUME NEW n \in Media \ {m}
      PROVE  WordTrue(app, n)' /\ ShownTrue(app, n)'
  BY <1>1, <1>2, <1>3, ElsewhereFacts
<1>5. \A n \in Media : WordTrue(app, n)' /\ ShownTrue(app, n)'
  BY <1>4
<1>6. Unrouted
  BY <1>1, <1>2 DEF Unrouted, Elsewhere
<1> QED BY <1>3, <1>5, <1>6, CoreStep

\* What a handler that only signals the builder does to the workers.
LEMMA SignalKeeps ==
  ASSUME ProxyInv, NEW cancelled \in BOOLEAN, SignalBuild(cancelled),
         UNCHANGED <<content, cache, part>>,
         remover' \in WorkerState, remover' # NoRemover => remover'.at # "none"
  PROVE  /\ WorkersInv'
         /\ build' # NoBuild <=> build # NoBuild
         /\ build'.cancel = (build.cancel \/ (cancelled /\ app.job.held))
<1>1. /\ build \in WorkerState /\ app.job.held \in BOOLEAN /\ WorkersInv
      /\ app.job.held <=> build # NoBuild
  BY StateFacts DEF SlotsTrue, WorkersInv, WorkersTypeOK, BuildSlot
<1>2. PICK flag \in BOOLEAN : flag = (build.cancel \/ (cancelled /\ app.job.held))
  OBVIOUS
<1>3. build' = [build EXCEPT !.cancel = flag]
  BY <1>2 DEF SignalBuild
<1>4. /\ build' \in WorkerState /\ build'.at = build.at /\ build'.artifact = build.artifact
      /\ build'.event = build.event /\ build'.cancel = flag
  <2> build \in WorkerState
    BY <1>1
  <2>1. build' \in WorkerState
    BY <1>3 DEF WorkerState
  <2>2. build'.at = build.at /\ build'.artifact = build.artifact /\ build'.event = build.event
    BY <1>1, <1>3 DEF WorkerState
  <2>3. build'.cancel = flag
    BY <1>1, <1>3 DEF WorkerState
  <2> QED BY <2>1, <2>2, <2>3
<1>5. build' # NoBuild <=> build # NoBuild
  <2>1. CASE build = NoBuild
    <3>1. flag = FALSE
      <4>1. ~build.cancel /\ ~app.job.held
        <5>1. ~NoBuild.cancel
          BY DEF NoBuild
        <5> QED BY <1>1, <2>1, <5>1
      <4>2. ~flag
        BY <1>2, <4>1
      <4> QED BY <4>2
    <3>2. build' = build
      <4>1. ~build.cancel /\ ~build'.cancel
        <5>1. ~NoBuild.cancel
          BY DEF NoBuild
        <5> QED BY <1>4, <2>1, <3>1, <5>1
      <4>2. build.cancel \in BOOLEAN /\ build'.cancel \in BOOLEAN
        BY <1>1, <1>4 DEF WorkerState
      <4>3. build'.cancel = build.cancel
        BY <4>1, <4>2
      <4> QED BY <1>1, <1>4, <4>3 DEF WorkerState
    <3> QED BY <2>1, <3>2
  <2>2. CASE build # NoBuild
    <3>1. build.at # "none"
      BY <1>1, <2>2 DEF WorkersInv, WorkersTypeOK
    <3> QED BY <1>4, <2>2, <3>1 DEF NoBuild
  <2> QED BY <2>1, <2>2
<1>6. WorkersTypeOK'
  <2>1. build' # NoBuild => build'.at # "none" /\ build'.artifact \in Artifact
    BY <1>1, <1>4, <1>5 DEF WorkersInv, WorkersTypeOK
  <2>2. build'.event = "cancelled" => build'.cancel
    BY <1>1, <1>2, <1>4 DEF WorkersInv, WorkersTypeOK
  <2> QED BY <1>1, <1>4, <2>1, <2>2 DEF WorkersInv, WorkersTypeOK
<1>7. RoomKept' /\ CacheTidy'
  BY <1>1, <1>4 DEF WorkersInv, RoomKept, CacheTidy, Stored, Alive
<1> QED BY <1>2, <1>4, <1>5, <1>6, <1>7 DEF WorkersInv

LEMMA SignalFacts ==
  ASSUME ProxyInv, NEW cancelled \in BOOLEAN, SignalBuild(cancelled),
         UNCHANGED <<content, cache, part, remover>>
  PROVE  /\ WorkersInv'
         /\ build' # NoBuild <=> build # NoBuild
         /\ build'.cancel = (build.cancel \/ (cancelled /\ app.job.held))
<1>1. remover' \in WorkerState /\ (remover' # NoRemover => remover'.at # "none")
  BY StateFacts DEF WorkersInv, WorkersTypeOK
<1> QED BY <1>1, SignalKeeps

\* The same workers.
LEMMA SameWorkers ==
  ASSUME ProxyInv, UNCHANGED proxyWorkerVars
  PROVE  WorkersInv' /\ build' = build /\ remover' = remover
<1>1. WorkersInv /\ UNCHANGED <<content, cache, part, build, remover>>
  BY StateFacts DEF proxyWorkerVars, workerFiles
<1> QED BY <1>1 DEF WorkersInv, WorkersTypeOK, RoomKept, CacheTidy, Stored, Alive

LEMMA GenerateRefusedKeeps ==
  ASSUME ProxyInv, NEW m \in Media, GenerateRefused(m)
  PROVE  ProxyInv' /\ Unrouted
<1>1. app' = [app EXCEPT !.suppressed = @ \cup {m}]
  BY DEF GenerateRefused, Suppress
<1>2. PICK b : b = app'
  OBVIOUS
<1>3. /\ b.records = app.records /\ b.status = app.status /\ b.tickets = app.tickets
      /\ b.desired = app.desired /\ b.suppressed = app.suppressed \cup {m}
      /\ b.reconcile = app.reconcile /\ b.requests = app.requests
      /\ b.job = app.job /\ b.deletion = app.deletion /\ b \in App
  BY <1>1, <1>2, StateFacts DEF App
<1>4. Sound(b)
  BY <1>3, StateFacts, SameChecks
<1>5. WordTrue(app, m)' /\ ShownTrue(app, m)'
  BY <1>2, <1>3 DEF GenerateRefused, ProxyInv, WordTrue, ShownTrue
<1>6. WorkersInv' /\ build' = build /\ remover' = remover
  BY SameWorkers DEF GenerateRefused
<1>7. SlotsTrue(app)'
  BY <1>2, <1>3, <1>6, StateFacts DEF SlotsTrue
<1>8. Elsewhere(app, b, m)
  BY <1>3 DEF Elsewhere
<1>9. said' = [said EXCEPT ![m] = said[m]] /\ said[m] \in Word
  BY StateFacts DEF GenerateRefused
<1>10. UNCHANGED <<originals, results, analysis, verified>>
  BY DEF GenerateRefused, Untouched
<1> QED BY <1>2, <1>4, <1>5, <1>6, <1>7, <1>8, <1>9, <1>10, MediaStep

\* A new thread for one of the slots.
LEMMA NewBuildFacts ==
  ASSUME ProxyInv, NEW o \in Original, build' = Building(o), build = NoBuild,
         UNCHANGED <<content, cache, part, remover>>
  PROVE  WorkersInv' /\ build' # NoBuild /\ ~build'.cancel
<1>1. WorkersInv /\ ~part
  <2>1. build.at = "none"
    BY DEF NoBuild
  <2>2. WorkersInv /\ RoomKept
    BY StateFacts DEF WorkersInv
  <2>3. build.at \notin {"encode", "finished"}
    BY <2>1
  <2> QED BY <2>2, <2>3 DEF RoomKept
<1>2. PICK artifact \in Artifact : artifact = [original |-> o, version |-> 0]
  <2>1. 0 \in 0..MaxVersion
    BY WorkerConstants
  <2>2. [original |-> o, version |-> 0] \in Artifact
    BY <2>1 DEF Artifact
  <2> QED BY <2>2
<1>3. build' = [at |-> "start", artifact |-> artifact, cancel |-> FALSE, event |-> NoEvent]
  BY <1>2 DEF Building
<1>4. /\ build' \in WorkerState /\ build'.at = "start" /\ build'.artifact = artifact
      /\ build'.event = NoEvent /\ ~build'.cancel
  BY <1>3 DEF WorkerState
<1>5. build' # NoBuild
  BY <1>4 DEF NoBuild
<1>6. WorkersTypeOK'
  BY <1>1, <1>4 DEF WorkersInv, WorkersTypeOK, NoEvent
<1>7. RoomKept' /\ CacheTidy'
  BY <1>1, <1>4 DEF WorkersInv, RoomKept, CacheTidy
<1> QED BY <1>4, <1>5, <1>6, <1>7 DEF WorkersInv

LEMMA NewRemoverFacts ==
  ASSUME ProxyInv, NEW artifact \in Artifact, remover' = Removing(artifact),
         UNCHANGED <<content, cache, part, build>>
  PROVE  WorkersInv' /\ remover' # NoRemover
<1>1. WorkersInv
  BY StateFacts
<1>2. remover' = [at |-> "remove", artifact |-> artifact, cancel |-> FALSE, event |-> NoEvent]
  BY DEF Removing
<1>3. remover' \in WorkerState /\ remover'.at = "remove"
  BY <1>2 DEF WorkerState
<1>4. remover' # NoRemover
  BY <1>3 DEF NoRemover, NoBuild
<1>5. WorkersTypeOK'
  BY <1>1, <1>3 DEF WorkersInv, WorkersTypeOK
<1>6. RoomKept' /\ CacheTidy'
  BY <1>1 DEF WorkersInv, RoomKept, CacheTidy, Stored, Alive
<1> QED BY <1>4, <1>5, <1>6 DEF WorkersInv

\* An edit of one media, of the wishes or of the slots.
LEMMA EditFacts ==
  ASSUME AnswersOK, NEW a, Sound(a), NEW m \in Media, NEW b \in App,
         b.tickets[m] \in {a.tickets[m], NoTicket},
         \A n \in Media \ {m} :
           b.records[n] = a.records[n] /\ b.tickets[n] = a.tickets[n] /\ b.status[n] = a.status[n],
         b.requests = a.requests, b.reconcile = a.reconcile
  PROVE  /\ Len(b.requests) <= Capacity
         /\ \A n \in Media : TicketTrue(b, n)
         /\ \A n \in Media \ {m} : MediaTrue(b, n)
         /\ MediaTrue(b, m) => Sound(b)
<1>1. a \in App /\ Len(a.requests) <= Capacity
  BY DEF Sound
<1>2. /\ \A n \in Media : TicketTrue(b, n)
      /\ \A n \in Media \ {m} : MediaTrue(b, n)
  <2>1. \A n \in Media : TicketTrue(a, n) /\ MediaTrue(a, n)
    BY DEF Sound
  <2>2. results \in Seq(Answer)
    BY DEF AnswersOK
  <2> QED BY <1>1, <2>1, <2>2, Others
<1>3. ASSUME MediaTrue(b, m)
      PROVE  Sound(b)
  BY <1>1, <1>2, <1>3 DEF Sound
<1> QED BY <1>1, <1>2, <1>3

LEMMA GenerateKeeps ==
  ASSUME ProxyInv, NEW m \in Media, Generate(m)
  PROVE  ProxyInv' /\ Unrouted
<1>1. MediaTrue(app, m) /\ ShownTrue(app, m) /\ WordTrue(app, m)
  BY DEF ProxyInv
<1>2. /\ app.status[m] \in {"none", "failed"} /\ ~app.deletion.held /\ ~app.job.held
      /\ said' = [said EXCEPT ![m] = "free"] /\ "free" \in Word
      /\ UNCHANGED <<content, cache, part, remover, originals, results, analysis, verified>>
  BY DEF Generate, Say, Untouched, workerFiles, Word
<1>3. /\ m \notin Ticketed(app) /\ ~app.records[m].enabled
      /\ app.status[m] = "none" => app.records[m] = NoRecord
  BY <1>1, <1>2 DEF MediaTrue
<1>4. /\ app.tickets[m] = NoTicket /\ app.job.media = NoMedia /\ app.deletion.media = NoMedia
      /\ build = NoBuild /\ remover = NoRemover
  BY <1>2, <1>3, StateFacts DEF Ticketed, SlotsTrue
<1>5. PICK b : b = app'
  OBVIOUS
<1>30. app.records[m] \in ProxyRecord
  BY StateFacts
<1>6. PICK record \in ProxyRecord : record = [app.records[m] EXCEPT !.enabled = FALSE]
  BY <1>30 DEF ProxyRecord
<1>7. record = app.records[m]
  <2>1. ~record.enabled /\ record.artifact = app.records[m].artifact /\ record.recheck = app.records[m].recheck
    BY <1>6, <1>30 DEF ProxyRecord
  <2>2. record.enabled \in BOOLEAN /\ app.records[m].enabled \in BOOLEAN
    BY <1>30 DEF ProxyRecord
  <2>3. record.enabled = app.records[m].enabled
    BY <1>3, <2>1, <2>2
  <2> QED BY <1>30, <2>1, <2>3 DEF ProxyRecord
<1>8. PICK word \in Status, job \in BuildSlot :
        /\ b.records = [app.records EXCEPT ![m] = record]
        /\ b.tickets = [app.tickets EXCEPT ![m] = NoTicket]
        /\ b.status = [app.status EXCEPT ![m] = word]
        /\ b.desired = app.desired /\ b.suppressed = app.suppressed \cup {m}
        /\ b.reconcile = app.reconcile /\ b.requests = app.requests
        /\ b.job = job /\ b.deletion = app.deletion
        /\ b \in App
        /\ \/ /\ job = [held |-> TRUE, media |-> m, cancelled |-> FALSE] /\ word = "generating"
              /\ build' = Building(originals[m])
           \/ job = app.job /\ word = "failed" /\ build' = build
  <2>1. PICK quiet : quiet = [Suppress(app, m) EXCEPT !.tickets[m] = NoTicket, !.records[m].enabled = FALSE]
    OBVIOUS
  <2>2. quiet = [app EXCEPT !.suppressed = app.suppressed \cup {m}]
    <3>1. /\ [app.tickets EXCEPT ![m] = NoTicket] = app.tickets
          /\ [app.records EXCEPT ![m] = record] = app.records
      BY <1>4, <1>7, StateFacts
    <3>2. PICK s : s = [app EXCEPT !.suppressed = app.suppressed \cup {m}]
      OBVIOUS
    <3>3. s = Suppress(app, m) /\ s.tickets = app.tickets /\ s.records = app.records /\ s \in App
      BY <3>2, StateFacts DEF Suppress, App
    <3>4. quiet = [s EXCEPT !.tickets[m] = NoTicket, !.records[m] = record]
      BY <1>6, <2>1, <3>3
    <3>5. quiet = [s EXCEPT !.tickets = s.tickets, !.records = s.records]
      BY <3>1, <3>3, <3>4
    <3>6. quiet = s
      BY <3>3, <3>5 DEF App
    <3> QED BY <3>2, <3>6
  <2>3. /\ quiet.records = [app.records EXCEPT ![m] = record]
        /\ quiet.tickets = [app.tickets EXCEPT ![m] = NoTicket]
        /\ quiet.status = app.status /\ quiet \in App
        /\ quiet.desired = app.desired /\ quiet.suppressed = app.suppressed \cup {m}
        /\ quiet.reconcile = app.reconcile /\ quiet.requests = app.requests
        /\ quiet.job = app.job /\ quiet.deletion = app.deletion
    BY <1>4, <1>7, <2>2, StateFacts DEF App
  <2>4. CASE /\ b = [quiet EXCEPT !.job = [held |-> TRUE, media |-> m, cancelled |-> FALSE],
                                  !.status[m] = "generating"]
             /\ build' = Building(originals[m])
    <3>1. PICK job \in BuildSlot :
            job = [held |-> TRUE, media |-> m, cancelled |-> FALSE]
      BY DEF BuildSlot
    <3>2. b = [quiet EXCEPT !.job = job, !.status[m] = "generating"] /\ "generating" \in Status
      BY <2>4, <3>1 DEF Status
    <3>3. /\ b.job = job /\ b.status = [app.status EXCEPT ![m] = "generating"]
          /\ b.records = quiet.records /\ b.tickets = quiet.tickets /\ b.desired = quiet.desired
          /\ b.suppressed = quiet.suppressed /\ b.reconcile = quiet.reconcile
          /\ b.requests = quiet.requests /\ b.deletion = quiet.deletion
      BY <2>3, <3>2 DEF App
    <3>4. b \in App
      <4>1. [app.status EXCEPT ![m] = "generating"] \in [Media -> Status]
        BY <3>2, StateFacts
      <4> QED BY <2>3, <3>2, <4>1 DEF App
    <3> QED BY <2>3, <2>4, <3>1, <3>2, <3>3, <3>4
  <2>5. CASE b \in {[quiet EXCEPT !.status[m] = "failed"],
                    [Suppress(app, m) EXCEPT !.status[m] = "failed"]} /\ build' = build
    <3>1. Suppress(app, m) = quiet
      BY <2>2 DEF Suppress
    <3>2. b = [quiet EXCEPT !.status[m] = "failed"] /\ "failed" \in Status
      BY <2>5, <3>1 DEF Status
    <3>3. /\ b.job = app.job /\ b.status = [app.status EXCEPT ![m] = "failed"]
          /\ b.records = quiet.records /\ b.tickets = quiet.tickets /\ b.desired = quiet.desired
          /\ b.suppressed = quiet.suppressed /\ b.reconcile = quiet.reconcile
          /\ b.requests = quiet.requests /\ b.deletion = quiet.deletion
      BY <2>3, <3>2 DEF App
    <3>4. b \in App
      <4>1. [app.status EXCEPT ![m] = "failed"] \in [Media -> Status]
        BY <3>2, StateFacts
      <4> QED BY <2>3, <3>2, <4>1 DEF App
    <3> QED BY <2>3, <2>5, <3>2, <3>3, <3>4, StateFacts
  <2> QED BY <1>5, <2>1, <2>4, <2>5 DEF Generate
<1>9. /\ b.records[m] = record /\ b.tickets[m] = NoTicket /\ b.status[m] = word
      /\ \A n \in Media \ {m} :
           b.records[n] = app.records[n] /\ b.tickets[n] = app.tickets[n] /\ b.status[n] = app.status[n]
      /\ MediaTrue(b, m) => Sound(b)
  <2>1. /\ b.records[m] = record /\ b.tickets[m] = NoTicket /\ b.status[m] = word
        /\ \A n \in Media \ {m} :
             b.records[n] = app.records[n] /\ b.tickets[n] = app.tickets[n] /\ b.status[n] = app.status[n]
    BY <1>8, StateFacts
  <2>2. b.tickets[m] \in {app.tickets[m], NoTicket}
    BY <2>1
  <2> QED BY <1>8, <2>1, <2>2, StateFacts, EditFacts
<1>10. ~NoTicket.activate /\ ~record.enabled /\ (record = NoRecord \/ record.artifact \in Artifact)
  BY <1>1, <1>3, <1>7 DEF MediaTrue, NoTicket
<1>11. word \in {"generating", "failed"}
  BY <1>8
<1>12. MediaTrue(b, m)
  BY <1>1, <1>7, <1>8, <1>9, <1>10, <1>11 DEF MediaTrue, Ticketed
<1>13. WorkersInv' /\ (b.job.held <=> build' # NoBuild) /\ ~(build'.cancel /\ ~b.job.cancelled /\ b.job.media # NoMedia)
  <2>1. CASE build' = Building(originals[m]) /\ job = [held |-> TRUE, media |-> m, cancelled |-> FALSE]
    BY <1>2, <1>4, <1>8, <2>1, NewBuildFacts, StateFacts DEF AnswersOK
  <2>2. CASE job = app.job /\ build' = build
    <3>1. UNCHANGED proxyWorkerVars
      BY <1>2, <2>2 DEF proxyWorkerVars, workerFiles
    <3> QED BY <1>2, <1>4, <1>8, <2>2, <3>1, SameWorkers
  <2> QED BY <1>8, <2>1, <2>2
<1>14. SlotsTrue(app)'
  <2>1. SlotsTrue(app) /\ remover' = remover
    BY <1>2, StateFacts
  <2>2. b.job.held \/ b.job.media = NoMedia
    BY <1>4, <1>8
  <2> QED BY <1>2, <1>4, <1>5, <1>8, <1>13, <2>1, <2>2 DEF SlotsTrue
<1>15. WordTrue(app, m)'
  <2>1. said'[m] = "free" /\ m \in b.suppressed
    BY <1>2, <1>8, StateFacts
  <2> QED BY <1>5, <2>1 DEF WordTrue
<1>16. ShownTrue(app, m)'
  <2>1. b.status[m] = "generating" <=> b.job.media = m
    BY <1>4, <1>8, <1>9, StateFacts
  <2>2. b.status[m] # "deleting" /\ b.deletion.media # m
    BY <1>4, <1>8, <1>9, <1>11, StateFacts
  <2> QED BY <1>5, <2>1, <2>2 DEF ShownTrue
<1>17. Elsewhere(app, b, m)
  <2>1. \A n \in Media \ {m} : b.job.media # n /\ app.job.media # n
    BY <1>4, <1>8, StateFacts
  <2> QED BY <1>8, <1>9, <1>10, <2>1 DEF Elsewhere
<1> QED BY <1>2, <1>5, <1>9, <1>12, <1>13, <1>14, <1>15, <1>16, <1>17, MediaStep

LEMMA CancelKeeps ==
  ASSUME ProxyInv, NEW m \in Media, Cancel(m)
  PROVE  ProxyInv' /\ Unrouted
<1>1. MediaTrue(app, m) /\ ShownTrue(app, m) /\ WordTrue(app, m) /\ SlotsTrue(app)
  BY DEF ProxyInv
<1>2. /\ app.status[m] = "generating" /\ app' = CancelJob(app, m)
      /\ said' = [said EXCEPT ![m] = "cancel"] /\ "cancel" \in Word
      /\ UNCHANGED <<content, cache, part, remover, originals, results, analysis, verified>>
  BY DEF Cancel, Say, Untouched, workerFiles, Word
<1>3. /\ app.tickets[m] = NoTicket /\ app.job.media = m /\ ~app.records[m].enabled
      /\ m \in app.suppressed /\ app.job.held
  BY <1>1, <1>2, StateFacts DEF MediaTrue, ShownTrue, WordTrue, SlotsTrue, Ticketed
<1>4. app.job \in BuildSlot
  BY StateFacts
<1>5. PICK job \in BuildSlot : job = [app.job EXCEPT !.cancelled = TRUE]
  BY <1>4 DEF BuildSlot
<1>6. job.cancelled /\ job.held = app.job.held /\ job.media = app.job.media
  BY <1>4, <1>5 DEF BuildSlot
<1>7. PICK b : b = app'
  OBVIOUS
<1>8. b = [app EXCEPT !.job = job]
  <2>1. b = [app EXCEPT !.job.cancelled = TRUE, !.tickets[m] = NoTicket]
    BY <1>2, <1>3, <1>7 DEF CancelJob
  <2>2. [app.tickets EXCEPT ![m] = NoTicket] = app.tickets
    BY <1>3, StateFacts
  <2>3. b = [app EXCEPT !.job = job, !.tickets = app.tickets]
    BY <1>5, <2>1, <2>2
  <2>4. app \in App
    BY StateFacts
  <2> QED BY <2>3, <2>4 DEF App
<1>9. /\ b.records = app.records /\ b.status = app.status /\ b.tickets = app.tickets
      /\ b.desired = app.desired /\ b.suppressed = app.suppressed
      /\ b.reconcile = app.reconcile /\ b.requests = app.requests
      /\ b.job = job /\ b.deletion = app.deletion /\ b \in App
  BY <1>8, StateFacts DEF App
<1>10. Sound(b)
  BY <1>9, StateFacts, SameChecks
<1>11. PICK cancelled \in BOOLEAN : cancelled = (app.job.media = m)
  OBVIOUS
<1>12. SignalBuild(cancelled)
  BY <1>11 DEF Cancel
<1>13. WorkersInv' /\ (build' # NoBuild <=> build # NoBuild)
  BY <1>2, <1>12, SignalFacts
<1>14. SlotsTrue(app)'
  BY <1>1, <1>2, <1>6, <1>7, <1>9, <1>13 DEF SlotsTrue
<1>15. WordTrue(app, m)'
  <2>1. ~b.tickets[m].activate
    BY <1>3, <1>9 DEF NoTicket
  <2>2. said'[m] = "cancel"
    BY <1>2, StateFacts
  <2> QED BY <1>3, <1>6, <1>7, <1>9, <2>1, <2>2 DEF WordTrue
<1>16. ShownTrue(app, m)'
  BY <1>1, <1>6, <1>7, <1>9 DEF ShownTrue
<1>17. Elsewhere(app, b, m)
  BY <1>6, <1>9 DEF Elsewhere
<1> QED BY <1>2, <1>7, <1>10, <1>13, <1>14, <1>15, <1>16, <1>17, MediaStep

LEMMA EnableKeeps ==
  ASSUME ProxyInv, NEW m \in Media, NEW enabled \in BOOLEAN, Enable(m, enabled)
  PROVE  ProxyInv' /\ Unrouted
<1>1. MediaTrue(app, m) /\ ShownTrue(app, m) /\ WordTrue(app, m) /\ SlotsTrue(app)
  BY DEF ProxyInv
<1>2. /\ app.status[m] \in {"off", "on", "checking"} /\ (enabled => app.status[m] = "off")
      /\ UNCHANGED <<content, cache, part, remover, originals, results, analysis, verified>>
  BY DEF Enable, Untouched, workerFiles
<1>3. /\ app.records[m] # NoRecord /\ app.records[m].artifact \in Artifact
      /\ app.job.media # m /\ app.deletion.media # m
  BY <1>1, <1>2 DEF MediaTrue, ShownTrue
<1>4. PICK word \in Word : word = IF enabled THEN "free" ELSE "off"
  BY DEF Word
<1>5. said' = [said EXCEPT ![m] = word]
  BY <1>4 DEF Enable, Say
<1>6. PICK desired \in SUBSET Media : desired = IF enabled THEN app.desired \cup {m} ELSE app.desired \ {m}
  BY StateFacts
<1>7. app.records[m] \in ProxyRecord
  BY StateFacts
<1>8. PICK record \in ProxyRecord : record = [app.records[m] EXCEPT !.enabled = FALSE, !.recheck = FALSE]
  BY <1>7 DEF ProxyRecord
<1>9. record.artifact = app.records[m].artifact /\ ~record.enabled /\ ~record.recheck
  BY <1>7, <1>8 DEF ProxyRecord
<1>10. PICK wish : wish = [Suppress(app, m) EXCEPT !.desired = desired, !.tickets[m] = NoTicket]
  OBVIOUS
<1>11. /\ wish.records = app.records /\ wish.status = app.status
       /\ wish.tickets = [app.tickets EXCEPT ![m] = NoTicket]
       /\ wish.desired = desired /\ wish.suppressed = app.suppressed \cup {m}
       /\ wish.reconcile = app.reconcile /\ wish.requests = app.requests
       /\ wish.job = app.job /\ wish.deletion = app.deletion /\ wish \in App
  <2>1. wish = [app EXCEPT !.suppressed = app.suppressed \cup {m}, !.desired = desired,
                           !.tickets[m] = NoTicket]
    BY <1>10, StateFacts DEF Suppress, App
  <2>2. [app.tickets EXCEPT ![m] = NoTicket] \in [Media -> Ticket]
    <3>1. NoTicket \in Ticket
      BY DEF NoTicket, Ticket
    <3> QED BY <3>1, StateFacts
  <2> QED BY <2>1, <2>2, StateFacts DEF App
<1>12. PICK quiet : quiet = [wish EXCEPT !.records[m] = record, !.status[m] = "off"]
  OBVIOUS
<1>13. /\ quiet.records = [app.records EXCEPT ![m] = record]
       /\ quiet.status = [app.status EXCEPT ![m] = "off"]
       /\ quiet.tickets = wish.tickets /\ quiet.desired = desired
       /\ quiet.suppressed = app.suppressed \cup {m}
       /\ quiet.reconcile = app.reconcile /\ quiet.requests = app.requests
       /\ quiet.job = app.job /\ quiet.deletion = app.deletion /\ quiet \in App
  <2>1. "off" \in Status
    BY DEF Status
  <2>2. /\ [app.records EXCEPT ![m] = record] \in [Media -> ProxyRecord]
        /\ [app.status EXCEPT ![m] = "off"] \in [Media -> Status]
    BY <2>1, StateFacts
  <2> QED BY <1>11, <1>12, <2>2 DEF App
<1>14. PICK b : b = app'
  OBVIOUS
<1>15. b = IF enabled THEN QueueCheck(quiet, m, TRUE) ELSE quiet
  <2>1. wish = [Suppress(app, m) EXCEPT
                  !.desired = IF enabled THEN @ \cup {m} ELSE @ \ {m},
                  !.tickets[m] = NoTicket]
    <3>1. Suppress(app, m).desired = app.desired
      BY StateFacts DEF Suppress, App
    <3> QED BY <1>6, <1>10, <3>1
  <2>2. (IF enabled THEN wish ELSE CancelJob(wish, m)) = wish
    BY <1>3, <1>11 DEF CancelJob
  <2>3. quiet = [wish EXCEPT !.records[m].enabled = FALSE, !.records[m].recheck = FALSE,
                             !.status[m] = "off"]
    <3>1. [[wish.records EXCEPT ![m].enabled = FALSE] EXCEPT ![m].recheck = FALSE]
            = [wish.records EXCEPT ![m] = record]
      BY <1>7, <1>8, <1>11, StateFacts
    <3> QED BY <1>11, <1>12, <3>1 DEF App
  <2> DEFINE asked == [Suppress(app, m) EXCEPT
                         !.desired = IF enabled THEN @ \cup {m} ELSE @ \ {m},
                         !.tickets[m] = NoTicket]
             alone == IF enabled THEN asked ELSE CancelJob(asked, m)
             off == [alone EXCEPT !.records[m].enabled = FALSE, !.records[m].recheck = FALSE,
                                  !.status[m] = "off"]
  <2>4. app' = IF app.records[m] = NoRecord
               THEN IF app.job.media = m THEN alone ELSE Fail(alone, m)
               ELSE IF enabled /\ app.job.media # m THEN QueueCheck(off, m, TRUE) ELSE off
    BY DEF Enable
  <2> HIDE DEF off
  <2>5. app' = IF enabled THEN QueueCheck(off, m, TRUE) ELSE off
    BY <1>3, <2>4
  <2>6. off = quiet
    BY <2>1, <2>2, <2>3 DEF off
  <2> QED BY <1>14, <2>5, <2>6
<1>16. /\ quiet.records[m] = record /\ quiet.status[m] = "off" /\ quiet.tickets[m] = NoTicket
       /\ \A n \in Media \ {m} :
            /\ quiet.records[n] = app.records[n] /\ quiet.tickets[n] = app.tickets[n]
            /\ quiet.status[n] = app.status[n]
  BY <1>11, <1>13, StateFacts
<1>17. record # NoRecord
  <2>1. NoRecord.artifact = NoArtifact
    BY DEF NoRecord
  <2> QED BY <1>3, <1>9, <2>1, NoArtifactIsNone
<1>18. Sound(quiet)
  <2>1. ~NoTicket.activate
    BY DEF NoTicket
  <2>2. MediaTrue(quiet, m)
    BY <1>3, <1>9, <1>16, <1>17, <2>1 DEF MediaTrue, Ticketed
  <2>3. quiet.tickets[m] \in {app.tickets[m], NoTicket}
    BY <1>16
  <2> QED BY <1>13, <1>16, <2>2, <2>3, StateFacts, EditFacts
<1>19. /\ Sound(b) /\ ~b.records[m].enabled /\ (~enabled => ~b.tickets[m].activate)
       /\ b.desired = desired /\ b.suppressed = app.suppressed \cup {m}
       /\ b.job = app.job /\ b.deletion = app.deletion
       /\ b.status[m] \in {"off", "checking"}
       /\ \A n \in Media \ {m} :
            /\ b.records[n] = app.records[n] /\ b.tickets[n] = app.tickets[n]
            /\ b.status[n] = app.status[n]
  <2>1. CASE enabled
    <3>1. b = QueueCheck(quiet, m, TRUE)
      BY <1>15, <2>1
    <3>2. /\ Len(quiet.requests) <= Capacity
          /\ \A n \in Media : TicketTrue(quiet, n)
          /\ \A n \in Media \ {m} : MediaTrue(quiet, n)
      BY <1>18 DEF Sound
    <3>3. /\ quiet.records[m].artifact \in Artifact /\ ~quiet.records[m].enabled
          /\ ~quiet.records[m].recheck
      BY <1>3, <1>9, <1>16
    <3>4. /\ Sound(b) /\ Checked(quiet, m, b) /\ b.status[m] \in {"off", "checking"}
          /\ ~b.records[m].enabled
      BY <1>13, <1>16, <3>1, <3>2, <3>3, StateFacts, ActiveCheck
    <3> QED BY <1>13, <1>16, <2>1, <3>4 DEF Checked
  <2>2. CASE ~enabled
    <3>1. b = quiet
      BY <1>15, <2>2
    <3>2. ~NoTicket.activate
      BY DEF NoTicket
    <3> QED BY <1>9, <1>13, <1>16, <1>18, <3>1, <3>2
  <2> QED BY <2>1, <2>2
<1>20. PICK cancelled \in BOOLEAN : cancelled = (~enabled /\ app.job.media = m)
  OBVIOUS
<1>21. SignalBuild(cancelled) /\ ~cancelled
  BY <1>3, <1>20 DEF Enable
<1>22. /\ WorkersInv' /\ (build' # NoBuild <=> build # NoBuild)
       /\ build'.cancel = (build.cancel \/ (cancelled /\ app.job.held))
  BY <1>2, <1>21, SignalFacts
<1>23. build'.cancel => build.cancel
  BY <1>21, <1>22
<1>24. SlotsTrue(app)'
  BY <1>1, <1>2, <1>14, <1>19, <1>22, <1>23 DEF SlotsTrue
<1>25. WordTrue(app, m)'
  <2>1. said'[m] = word /\ m \in b.suppressed
    BY <1>5, <1>19, StateFacts
  <2>2. word = "off" => ~enabled /\ m \notin desired
    BY <1>4, <1>6
  <2> QED BY <1>3, <1>4, <1>14, <1>19, <2>1, <2>2 DEF WordTrue
<1>26. ShownTrue(app, m)'
  BY <1>3, <1>14, <1>19 DEF ShownTrue
<1>27. Elsewhere(app, b, m)
  BY <1>6, <1>19 DEF Elsewhere
<1> QED BY <1>2, <1>5, <1>14, <1>19, <1>22, <1>24, <1>25, <1>26, <1>27, MediaStep

LEMMA DeleteRefusedKeeps ==
  ASSUME ProxyInv, NEW m \in Media, DeleteRefused(m)
  PROVE  ProxyInv' /\ Unrouted
<1>1. MediaTrue(app, m) /\ ShownTrue(app, m) /\ WordTrue(app, m) /\ SlotsTrue(app)
  BY DEF ProxyInv
<1>2. /\ app.status[m] \in {"checking", "off", "on", "failed"}
      /\ said' = [said EXCEPT ![m] = "refused"] /\ "refused" \in Word
      /\ UNCHANGED <<content, cache, part, remover, originals, results, analysis, verified>>
  BY DEF DeleteRefused, Deletable, Say, Untouched, workerFiles, Word
<1>3. app.job.media # m
  BY <1>1, <1>2 DEF ShownTrue
<1>4. PICK b : b = app'
  OBVIOUS
<1>5. b = [app EXCEPT !.suppressed = app.suppressed \cup {m}, !.desired = app.desired \ {m}]
  <2>1. Unwanted(m) = [app EXCEPT !.suppressed = app.suppressed \cup {m},
                                  !.desired = app.desired \ {m}]
    BY StateFacts DEF Unwanted, Suppress, App
  <2>2. Unwanted(m).job = app.job
    BY <2>1, StateFacts DEF App
  <2>3. CancelJob(Unwanted(m), m) = Unwanted(m)
    BY <1>3, <2>2 DEF CancelJob
  <2> QED BY <1>4, <2>1, <2>3 DEF DeleteRefused
<1>6. /\ b.records = app.records /\ b.status = app.status /\ b.tickets = app.tickets
      /\ b.desired = app.desired \ {m} /\ b.suppressed = app.suppressed \cup {m}
      /\ b.reconcile = app.reconcile /\ b.requests = app.requests
      /\ b.job = app.job /\ b.deletion = app.deletion /\ b \in App
  BY <1>5, StateFacts DEF App
<1>7. Sound(b)
  BY <1>6, StateFacts, SameChecks
<1>8. PICK cancelled \in BOOLEAN : cancelled = (app.job.media = m)
  OBVIOUS
<1>9. SignalBuild(cancelled) /\ ~cancelled
  BY <1>3, <1>8 DEF DeleteRefused
<1>10. /\ WorkersInv' /\ (build' # NoBuild <=> build # NoBuild)
       /\ build'.cancel = (build.cancel \/ (cancelled /\ app.job.held))
  BY <1>2, <1>9, SignalFacts
<1>11. build'.cancel => build.cancel
  BY <1>9, <1>10
<1>12. SlotsTrue(app)'
  BY <1>1, <1>2, <1>4, <1>6, <1>10, <1>11 DEF SlotsTrue
<1>13. WordTrue(app, m)'
  <2>1. said'[m] = "refused" /\ m \in b.suppressed
    BY <1>2, <1>6, StateFacts
  <2> QED BY <1>3, <1>4, <1>6, <2>1 DEF WordTrue
<1>14. ShownTrue(app, m)'
  BY <1>1, <1>4, <1>6 DEF ShownTrue
<1>15. Elsewhere(app, b, m)
  BY <1>6 DEF Elsewhere
<1> QED BY <1>2, <1>4, <1>7, <1>10, <1>12, <1>13, <1>14, <1>15, MediaStep

LEMMA DeleteKeeps ==
  ASSUME ProxyInv, NEW m \in Media, Delete(m)
  PROVE  ProxyInv' /\ Unrouted
<1>1. MediaTrue(app, m) /\ ShownTrue(app, m) /\ WordTrue(app, m) /\ SlotsTrue(app)
  BY DEF ProxyInv
<1>2. /\ app.status[m] \in {"checking", "off", "on", "failed"}
      /\ ~app.deletion.held /\ ~app.job.held
      /\ said' = [said EXCEPT ![m] = "off"] /\ "off" \in Word
      /\ UNCHANGED <<content, cache, part, build, originals, results, analysis, verified>>
  BY DEF Delete, Deletable, Say, Untouched, workerFiles, Word
<1>3. /\ app.job.media = NoMedia /\ app.deletion.media = NoMedia
      /\ build = NoBuild /\ remover = NoRemover /\ NoMedia \notin Media
  BY <1>1, <1>2, StateFacts DEF SlotsTrue
<1>4. app.records[m] \in ProxyRecord
  BY StateFacts
<1>5. PICK record \in ProxyRecord : record = [app.records[m] EXCEPT !.enabled = FALSE]
  BY <1>4 DEF ProxyRecord
<1>6. record.artifact = app.records[m].artifact /\ ~record.enabled /\ record.recheck = app.records[m].recheck
  BY <1>4, <1>5 DEF ProxyRecord
<1>7. PICK quiet : quiet = [Unwanted(m) EXCEPT !.tickets[m] = NoTicket, !.records[m] = record]
  OBVIOUS
<1>8. /\ quiet.records = [app.records EXCEPT ![m] = record]
      /\ quiet.status = app.status
      /\ quiet.tickets = [app.tickets EXCEPT ![m] = NoTicket]
      /\ quiet.desired = app.desired \ {m} /\ quiet.suppressed = app.suppressed \cup {m}
      /\ quiet.reconcile = app.reconcile /\ quiet.requests = app.requests
      /\ quiet.job = app.job /\ quiet.deletion = app.deletion /\ quiet \in App
  <2>1. quiet = [app EXCEPT !.suppressed = app.suppressed \cup {m}, !.desired = app.desired \ {m},
                            !.tickets[m] = NoTicket, !.records[m] = record]
    BY <1>7, StateFacts DEF Unwanted, Suppress, App
  <2>2. /\ [app.tickets EXCEPT ![m] = NoTicket] \in [Media -> Ticket]
        /\ [app.records EXCEPT ![m] = record] \in [Media -> ProxyRecord]
    <3>1. NoTicket \in Ticket
      BY DEF NoTicket, Ticket
    <3> QED BY <3>1, StateFacts
  <2> QED BY <2>1, <2>2, StateFacts DEF App
<1>9. quiet = [Unwanted(m) EXCEPT !.tickets[m] = NoTicket, !.records[m].enabled = FALSE]
  <2>1. Unwanted(m).records = app.records
    BY StateFacts DEF Unwanted, Suppress, App
  <2> QED BY <1>5, <1>7, <2>1
<1>10. PICK b : b = app'
  OBVIOUS
<1>11. PICK word \in Status, deletion \in RemovalSlot :
         /\ b.records = quiet.records /\ b.tickets = quiet.tickets
         /\ b.status = [app.status EXCEPT ![m] = word]
         /\ b.desired = quiet.desired /\ b.suppressed = quiet.suppressed
         /\ b.reconcile = app.reconcile /\ b.requests = app.requests
         /\ b.job = app.job /\ b.deletion = deletion /\ b \in App
         /\ \/ /\ app.records[m] = NoRecord /\ word = "none"
               /\ deletion = app.deletion /\ remover' = remover
            \/ /\ app.records[m] # NoRecord /\ word = "deleting"
               /\ deletion = [held |-> TRUE, media |-> m]
               /\ remover' = Removing(app.records[m].artifact)
            \/ /\ app.records[m] # NoRecord /\ word = "failed"
               /\ deletion = app.deletion /\ remover' = remover
  <2>1. {"none", "deleting", "failed"} \subseteq Status
    BY DEF Status
  <2>2. ASSUME NEW word \in Status, b = [quiet EXCEPT !.status[m] = word]
        PROVE  /\ b.records = quiet.records /\ b.tickets = quiet.tickets
               /\ b.status = [app.status EXCEPT ![m] = word]
               /\ b.desired = quiet.desired /\ b.suppressed = quiet.suppressed
               /\ b.reconcile = app.reconcile /\ b.requests = app.requests
               /\ b.job = app.job /\ b.deletion = app.deletion /\ b \in App
    <3>1. [app.status EXCEPT ![m] = word] \in [Media -> Status]
      BY StateFacts
    <3> QED BY <1>8, <2>2, <3>1 DEF App
  <2>3. app.deletion \in RemovalSlot
    BY StateFacts
  <2>4. CASE app.records[m] = NoRecord
    <3>1. b = [quiet EXCEPT !.status[m] = "none"] /\ remover' = remover
      BY <1>9, <1>10, <2>4 DEF Delete
    <3>2. PICK word \in Status : word = "none"
      BY <2>1
    <3>3. b = [quiet EXCEPT !.status[m] = word]
      BY <3>1, <3>2
    <3> QED BY <2>2, <2>3, <2>4, <3>1, <3>2, <3>3
  <2>5. CASE /\ app.records[m] # NoRecord
             /\ b = [quiet EXCEPT !.status[m] = "failed"] /\ remover' = remover
    <3>1. PICK word \in Status : word = "failed"
      BY <2>1
    <3>2. b = [quiet EXCEPT !.status[m] = word]
      BY <2>5, <3>1
    <3> QED BY <2>2, <2>3, <2>5, <3>1, <3>2
  <2>6. CASE /\ app.records[m] # NoRecord
             /\ b = [quiet EXCEPT !.deletion = [held |-> TRUE, media |-> m], !.status[m] = "deleting"]
             /\ remover' = Removing(app.records[m].artifact)
    <3>1. PICK word \in Status : word = "deleting"
      BY <2>1
    <3>2. PICK deletion \in RemovalSlot : deletion = [held |-> TRUE, media |-> m]
      BY DEF RemovalSlot
    <3>3. b = [quiet EXCEPT !.deletion = deletion, !.status[m] = word]
      BY <2>6, <3>1, <3>2
    <3>4. [app.status EXCEPT ![m] = word] \in [Media -> Status]
      BY StateFacts
    <3>5. /\ b.records = quiet.records /\ b.tickets = quiet.tickets
          /\ b.status = [app.status EXCEPT ![m] = word]
          /\ b.desired = quiet.desired /\ b.suppressed = quiet.suppressed
          /\ b.reconcile = app.reconcile /\ b.requests = app.requests
          /\ b.job = app.job /\ b.deletion = deletion /\ b \in App
      BY <1>8, <3>3, <3>4 DEF App
    <3> QED BY <2>6, <3>1, <3>2, <3>5
  <2> QED BY <1>9, <1>10, <2>4, <2>5, <2>6 DEF Delete
<1>12. /\ b.records[m] = record /\ b.tickets[m] = NoTicket /\ b.status[m] = word
       /\ \A n \in Media \ {m} :
            b.records[n] = app.records[n] /\ b.tickets[n] = app.tickets[n] /\ b.status[n] = app.status[n]
  BY <1>8, <1>11, StateFacts
<1>13. ~NoTicket.activate /\ NoRecord.artifact = NoArtifact /\ ~NoRecord.recheck /\ ~NoRecord.enabled
  BY DEF NoTicket, NoRecord
<1>14. app.records[m] = NoRecord => record = NoRecord
  <2>1. SUFFICES ASSUME app.records[m] = NoRecord
                 PROVE  record = app.records[m]
    OBVIOUS
  <2>2. ~app.records[m].enabled /\ ~record.enabled
    BY <1>6, <1>13, <2>1
  <2>3. app.records[m].enabled \in BOOLEAN /\ record.enabled \in BOOLEAN
    BY <1>4 DEF ProxyRecord
  <2>4. record.enabled = app.records[m].enabled
    BY <2>2, <2>3
  <2> QED BY <1>4, <1>6, <2>4 DEF ProxyRecord
<1>15. app.records[m] # NoRecord => record.artifact \in Artifact /\ record # NoRecord
  BY <1>1, <1>6, <1>13, NoArtifactIsNone DEF MediaTrue
<1>16. MediaTrue(b, m)
  BY <1>1, <1>6, <1>11, <1>12, <1>13, <1>14, <1>15 DEF MediaTrue, Ticketed
<1>17. Sound(b)
  <2>1. b.tickets[m] \in {app.tickets[m], NoTicket}
    BY <1>12
  <2> QED BY <1>11, <1>12, <1>16, <2>1, StateFacts, EditFacts
<1>18. /\ WorkersInv' /\ (b.deletion.held <=> remover' # NoRemover)
       /\ (~b.deletion.held => b.deletion.media = NoMedia)
  <2>1. CASE remover' = remover /\ deletion = app.deletion
    <3>1. UNCHANGED proxyWorkerVars
      BY <1>2, <2>1 DEF proxyWorkerVars, workerFiles
    <3> QED BY <1>2, <1>3, <1>11, <2>1, <3>1, SameWorkers
  <2>2. CASE /\ app.records[m] # NoRecord /\ deletion = [held |-> TRUE, media |-> m]
             /\ remover' = Removing(app.records[m].artifact)
    <3>1. app.records[m].artifact \in Artifact
      BY <1>1, <2>2 DEF MediaTrue
    <3>2. WorkersInv' /\ remover' # NoRemover
      BY <1>2, <2>2, <3>1, NewRemoverFacts
    <3>3. b.deletion.held
      BY <1>11, <2>2
    <3> QED BY <3>2, <3>3
  <2> QED BY <1>11, <2>1, <2>2
<1>19. SlotsTrue(app)'
  BY <1>1, <1>2, <1>3, <1>10, <1>11, <1>18 DEF SlotsTrue
<1>20. WordTrue(app, m)'
  <2>1. said'[m] = "off" /\ m \in b.suppressed /\ m \notin b.desired
    BY <1>2, <1>8, <1>11, StateFacts
  <2> QED BY <1>3, <1>6, <1>10, <1>11, <1>12, <1>13, <2>1 DEF WordTrue
<1>21. ShownTrue(app, m)'
  <2>1. b.status[m] # "generating" /\ b.job.media # m
    BY <1>3, <1>11, <1>12
  <2>2. b.status[m] = "deleting" <=> b.deletion.media = m
    BY <1>3, <1>11, <1>12
  <2> QED BY <1>10, <2>1, <2>2 DEF ShownTrue
<1>22. Elsewhere(app, b, m)
  <2>1. \A n \in Media \ {m} : b.deletion.media # n /\ app.deletion.media # n
    BY <1>3, <1>11
  <2> QED BY <1>6, <1>8, <1>11, <1>12, <2>1 DEF Elsewhere
<1> QED BY <1>2, <1>10, <1>17, <1>18, <1>19, <1>20, <1>21, <1>22, MediaStep

LEMMA FallbackKeeps ==
  ASSUME ProxyInv, NEW m \in Media, Fallback(m)
  PROVE  ProxyInv' /\ Unrouted
<1>1. MediaTrue(app, m) /\ ShownTrue(app, m) /\ WordTrue(app, m) /\ SlotsTrue(app)
  BY DEF ProxyInv
<1>2. /\ app.records[m].enabled /\ app.records[m] \in ProxyRecord
      /\ UNCHANGED <<originals, results, analysis, verified, said>>
  BY StateFacts DEF Fallback, Untouched
<1>3. app.status[m] = "on" /\ app.job.media # m /\ app.deletion.media # m
  BY <1>1, <1>2 DEF MediaTrue, ShownTrue
<1>4. PICK record \in ProxyRecord : record = [app.records[m] EXCEPT !.enabled = FALSE]
  BY <1>2 DEF ProxyRecord
<1>5. record.artifact = app.records[m].artifact /\ ~record.enabled /\ record.recheck = app.records[m].recheck
  BY <1>2, <1>4 DEF ProxyRecord
<1>6. PICK b : b = app'
  OBVIOUS
<1>7. /\ b.records = [app.records EXCEPT ![m] = record]
      /\ b.status = [app.status EXCEPT ![m] = "failed"]
      /\ b.tickets = [app.tickets EXCEPT ![m] = NoTicket]
      /\ b.desired = app.desired /\ b.suppressed = app.suppressed
      /\ b.reconcile = app.reconcile /\ b.requests = app.requests
      /\ b.job = app.job /\ b.deletion = app.deletion /\ b \in App
  <2>1. b = [app EXCEPT !.tickets[m] = NoTicket, !.records[m] = record, !.status[m] = "failed"]
    BY <1>4, <1>6 DEF Fallback
  <2>2. /\ [app.tickets EXCEPT ![m] = NoTicket] \in [Media -> Ticket]
        /\ [app.records EXCEPT ![m] = record] \in [Media -> ProxyRecord]
        /\ [app.status EXCEPT ![m] = "failed"] \in [Media -> Status]
    <3>1. NoTicket \in Ticket /\ "failed" \in Status
      BY DEF NoTicket, Ticket, Status
    <3> QED BY <3>1, StateFacts
  <2> QED BY <2>1, <2>2, StateFacts DEF App
<1>8. /\ b.records[m] = record /\ b.tickets[m] = NoTicket /\ b.status[m] = "failed"
      /\ \A n \in Media \ {m} :
           b.records[n] = app.records[n] /\ b.tickets[n] = app.tickets[n] /\ b.status[n] = app.status[n]
  BY <1>7, StateFacts
<1>9. ~NoTicket.activate
  BY DEF NoTicket
<1>10. record.artifact \in Artifact
  <2>1. app.records[m] # NoRecord
    BY <1>1, <1>3 DEF MediaTrue
  <2> QED BY <1>1, <1>5, <2>1 DEF MediaTrue
<1>11. record # NoRecord
  <2>1. NoRecord.artifact = NoArtifact
    BY DEF NoRecord
  <2> QED BY <1>10, <2>1, NoArtifactIsNone
<1>12. MediaTrue(b, m)
  BY <1>1, <1>5, <1>7, <1>8, <1>9, <1>10, <1>11 DEF MediaTrue, Ticketed
<1>13. Sound(b)
  <2>1. b.tickets[m] \in {app.tickets[m], NoTicket}
    BY <1>8
  <2> QED BY <1>7, <1>8, <1>12, <2>1, StateFacts, EditFacts
<1>14. WorkersInv' /\ build' = build /\ remover' = remover
  BY SameWorkers DEF Fallback
<1>15. SlotsTrue(app)'
  BY <1>1, <1>6, <1>7, <1>14 DEF SlotsTrue
<1>16. WordTrue(app, m)'
  BY <1>1, <1>2, <1>3, <1>5, <1>6, <1>7, <1>8, <1>9 DEF WordTrue
<1>17. ShownTrue(app, m)'
  BY <1>3, <1>6, <1>7, <1>8 DEF ShownTrue
<1>18. Elsewhere(app, b, m)
  BY <1>5, <1>7, <1>8 DEF Elsewhere
<1>19. said' = [said EXCEPT ![m] = said[m]] /\ said[m] \in Word
  BY <1>2, StateFacts
<1> QED BY <1>2, <1>6, <1>13, <1>14, <1>15, <1>16, <1>17, <1>18, <1>19, MediaStep

-----------------------------------------------------------------------------
(* What the event loop polls.                                                *)

LEMMA PollProxyDeleteKeeps ==
  ASSUME ProxyInv, PollProxyDelete
  PROVE  ProxyInv' /\ Unrouted
<1>1. /\ SlotsTrue(app) /\ WorkersInv /\ app \in App /\ app.deletion.held
      /\ app.deletion.media \in Media \cup {NoMedia} /\ NoMedia \notin Media
      /\ UNCHANGED <<content, cache, part, build, originals, results, analysis, verified, said>>
  BY StateFacts DEF PollProxyDelete, Untouched, workerFiles, RemovalSlot
<1>2. ~app.job.held /\ app.job.media = NoMedia
  BY <1>1 DEF SlotsTrue
<1>3. PICK b : b = app'
  OBVIOUS
<1>4. PICK deletion \in RemovalSlot : deletion = [held |-> Alive(remover), media |-> NoMedia]
  <2>1. PICK alive \in BOOLEAN : alive = Alive(remover)
    BY DEF Alive
  <2>2. [held |-> alive, media |-> NoMedia] \in RemovalSlot
    BY DEF RemovalSlot
  <2> QED BY <2>1, <2>2
<1>5. deletion.held = Alive(remover) /\ deletion.media = NoMedia
  BY <1>4
<1>6. WorkersInv' /\ (remover' # NoRemover <=> Alive(remover))
  <2>1. /\ remover \in WorkerState
        /\ remover' = IF Alive(remover) THEN [remover EXCEPT !.event = NoEvent] ELSE NoRemover
    BY <1>1 DEF PollProxyDelete, WorkersInv, WorkersTypeOK
  <2>2. CASE Alive(remover)
    <3>1. remover' \in WorkerState /\ remover'.at = remover.at
      BY <2>1, <2>2 DEF WorkerState
    <3>2. remover'.at # "none" /\ remover' # NoRemover
      BY <2>2, <3>1 DEF Alive, NoRemover, NoBuild
    <3>3. WorkersTypeOK'
      BY <1>1, <3>1, <3>2 DEF WorkersInv, WorkersTypeOK
    <3>4. RoomKept' /\ CacheTidy'
      BY <1>1 DEF WorkersInv, RoomKept, CacheTidy, Stored, Alive
    <3> QED BY <2>2, <3>2, <3>3, <3>4 DEF WorkersInv
  <2>3. CASE ~Alive(remover)
    <3>1. remover' = NoRemover
      BY <2>1, <2>3
    <3>2. NoRemover \in WorkerState
      BY DEF NoRemover, NoBuild, WorkerState
    <3>3. WorkersTypeOK'
      BY <1>1, <3>1, <3>2 DEF WorkersInv, WorkersTypeOK
    <3>4. RoomKept' /\ CacheTidy'
      BY <1>1 DEF WorkersInv, RoomKept, CacheTidy, Stored, Alive
    <3> QED BY <2>3, <3>1, <3>3, <3>4 DEF WorkersInv
  <2> QED BY <2>2, <2>3
<1>7. ASSUME b.job = app.job, b.deletion = deletion
      PROVE  SlotsTrue(app)'
  BY <1>1, <1>2, <1>3, <1>5, <1>6, <1>7 DEF SlotsTrue
<1>8. CASE app.deletion.media = NoMedia
  <2>1. b = [app EXCEPT !.deletion = deletion]
    BY <1>3, <1>4, <1>8 DEF PollProxyDelete
  <2>2. /\ b.records = app.records /\ b.status = app.status /\ b.tickets = app.tickets
        /\ b.desired = app.desired /\ b.suppressed = app.suppressed
        /\ b.reconcile = app.reconcile /\ b.requests = app.requests
        /\ b.job = app.job /\ b.deletion = deletion /\ b \in App
    BY <1>1, <2>1 DEF App
  <2>3. Sound(b)
    BY <2>2, StateFacts, SameChecks
  <2>4. Elsewhere(app, b, NoMedia)
    BY <1>1, <1>5, <1>8, <2>2 DEF Elsewhere
  <2>5. ASSUME NEW n \in Media
        PROVE  WordTrue(app, n)' /\ ShownTrue(app, n)'
    <3>1. n \in Media \ {NoMedia} /\ said'[n] = said[n]
      BY <1>1
    <3> QED BY <1>3, <2>4, <3>1, ElsewhereFacts
  <2>6. said' \in [Media -> Word] /\ analysis' \in {analysis, NoAnalysis}
    BY <1>1, StateFacts
  <2>7. SlotsTrue(app)'
    BY <1>7, <2>2
  <2>8. Unrouted
    BY <1>3, <2>2 DEF Unrouted
  <2> QED BY <1>1, <1>3, <1>6, <2>3, <2>5, <2>6, <2>7, <2>8, CoreStep
<1>9. ASSUME NEW m \in Media, app.deletion.media = m
      PROVE  ProxyInv' /\ Unrouted
  <2>1. MediaTrue(app, m) /\ ShownTrue(app, m) /\ WordTrue(app, m)
    BY DEF ProxyInv
  <2>2. app.status[m] = "deleting"
    BY <1>9, <2>1 DEF ShownTrue
  <2>3. /\ app.tickets[m] = NoTicket /\ ~app.tickets[m].activate /\ ~app.records[m].enabled
        /\ app.records[m] # NoRecord /\ m \notin Ticketed(app)
    BY <2>1, <2>2 DEF MediaTrue, Ticketed
  <2>4. PICK record \in ProxyRecord, word \in Status :
          /\ b = [app EXCEPT !.records[m] = record, !.status[m] = word, !.deletion = deletion]
          /\ \/ record = NoRecord /\ word = "none"
             \/ record = app.records[m] /\ word = "failed"
    <3>1. NoRecord \in ProxyRecord /\ {"none", "failed"} \subseteq Status /\ app.records[m] \in ProxyRecord
      BY StateFacts DEF NoRecord, ProxyRecord, Status
    <3>2. CASE remover.event = "completed"
      <4>1. b = [app EXCEPT !.records[m] = NoRecord, !.status[m] = "none", !.deletion = deletion]
        BY <1>1, <1>3, <1>4, <1>9, <3>2 DEF PollProxyDelete, App
      <4> QED BY <3>1, <4>1
    <3>3. CASE remover.event # "completed"
      <4>1. b = [app EXCEPT !.status[m] = "failed", !.deletion = deletion]
        BY <1>1, <1>3, <1>4, <1>9, <3>3 DEF PollProxyDelete
      <4>2. [app.records EXCEPT ![m] = app.records[m]] = app.records
        BY StateFacts
      <4>3. [app EXCEPT !.records[m] = app.records[m], !.status[m] = "failed", !.deletion = deletion]
              = [app EXCEPT !.records = app.records, !.status[m] = "failed", !.deletion = deletion]
        BY <4>2
      <4>4. b = [app EXCEPT !.records[m] = app.records[m], !.status[m] = "failed", !.deletion = deletion]
        BY <1>1, <4>1, <4>3 DEF App
      <4> QED BY <3>1, <4>4
    <3> QED BY <3>2, <3>3
  <2>5. /\ b.records = [app.records EXCEPT ![m] = record]
        /\ b.status = [app.status EXCEPT ![m] = word]
        /\ b.tickets = app.tickets /\ b.desired = app.desired /\ b.suppressed = app.suppressed
        /\ b.reconcile = app.reconcile /\ b.requests = app.requests
        /\ b.job = app.job /\ b.deletion = deletion /\ b \in App
    <3>1. /\ [app.records EXCEPT ![m] = record] \in [Media -> ProxyRecord]
          /\ [app.status EXCEPT ![m] = word] \in [Media -> Status]
      BY StateFacts
    <3> QED BY <1>1, <2>4, <3>1 DEF App
  <2>6. /\ b.records[m] = record /\ b.tickets[m] = NoTicket /\ b.status[m] = word
        /\ \A n \in Media \ {m} :
             b.records[n] = app.records[n] /\ b.tickets[n] = app.tickets[n] /\ b.status[n] = app.status[n]
    BY <2>3, <2>5, StateFacts
  <2>7. ~NoTicket.activate /\ ~NoRecord.enabled /\ ~NoRecord.recheck
    BY DEF NoTicket, NoRecord
  <2>8. MediaTrue(b, m)
    BY <2>1, <2>3, <2>4, <2>5, <2>6, <2>7 DEF MediaTrue, Ticketed
  <2>9. Sound(b)
    <3>1. b.tickets[m] \in {app.tickets[m], NoTicket}
      BY <2>6
    <3> QED BY <2>5, <2>6, <2>8, <3>1, StateFacts, EditFacts
  <2>10. SlotsTrue(app)'
    BY <1>7, <2>5
  <2>11. WordTrue(app, m)'
    BY <1>1, <1>2, <1>3, <2>1, <2>3, <2>4, <2>5, <2>6, <2>7 DEF WordTrue
  <2>12. ShownTrue(app, m)'
    BY <1>1, <1>2, <1>3, <1>5, <2>4, <2>5, <2>6 DEF ShownTrue
  <2>13. Elsewhere(app, b, m)
    BY <1>1, <1>5, <1>9, <2>4, <2>5, <2>6, <2>7 DEF Elsewhere
  <2>14. said' = [said EXCEPT ![m] = said[m]] /\ said[m] \in Word
    BY <1>1, StateFacts
  <2> QED BY <1>1, <1>3, <1>6, <2>9, <2>10, <2>11, <2>12, <2>13, <2>14, MediaStep
<1> QED BY <1>1, <1>8, <1>9

\* After a change of the cache.
LEMMA ReconcileFacts ==
  ASSUME AnswersOK, NEW a, Sound(a), NEW order \in Orders
  PROVE  Sound(Reconcile(a, order)) /\ Quiet(a, Reconcile(a, order))
<1>1. /\ a \in App /\ a.records \in [Media -> ProxyRecord] /\ a.reconcile \in BOOLEAN
      /\ Len(a.requests) <= Capacity
  BY AppFacts DEF Sound
<1>2. PICK stale : stale = {m \in Media : a.records[m] # NoRecord /\ Ready(a, m)}
  OBVIOUS
<1>3. PICK records \in [Media -> ProxyRecord] :
        records = [m \in Media |-> [a.records[m] EXCEPT !.recheck = @ \/ m \in stale]]
  <2>1. ASSUME NEW m \in Media
        PROVE  [a.records[m] EXCEPT !.recheck = @ \/ m \in stale] \in ProxyRecord
    <3>1. PICK recheck \in BOOLEAN : recheck = (a.records[m].recheck \/ m \in stale)
      OBVIOUS
    <3>2. a.records[m] \in ProxyRecord
      BY <1>1
    <3>3. [a.records[m] EXCEPT !.recheck = recheck] \in ProxyRecord
      BY <3>2 DEF ProxyRecord
    <3> QED BY <3>1, <3>3
  <2> QED BY <2>1
<1>4. PICK reconcile \in BOOLEAN : reconcile = (a.reconcile \/ stale # {})
  OBVIOUS
<1>5. PICK b : b = [a EXCEPT !.records = records, !.reconcile = reconcile]
  OBVIOUS
<1>6. Reconcile(a, order) = SubmitDeferred(b, order)
  <2>1. [a EXCEPT !.records = [m \in Media |-> [a.records[m] EXCEPT !.recheck = @ \/ m \in stale]],
                  !.reconcile = a.reconcile \/ stale # {}] = b
    BY <1>3, <1>4, <1>5
  <2> QED BY <1>2, <2>1 DEF Reconcile
<1>7. /\ b.records = records /\ b.reconcile = reconcile /\ b \in App
      /\ b.status = a.status /\ b.tickets = a.tickets /\ b.requests = a.requests
      /\ b.desired = a.desired /\ b.suppressed = a.suppressed
      /\ b.job = a.job /\ b.deletion = a.deletion
  BY <1>1, <1>5 DEF App
<1>8. ASSUME NEW m \in Media
      PROVE  /\ records[m].artifact = a.records[m].artifact
             /\ records[m].enabled = a.records[m].enabled
             /\ records[m].recheck => a.records[m].recheck \/ m \in stale
             /\ m \notin stale => records[m] = a.records[m]
  <2>1. PICK recheck \in BOOLEAN : recheck = (a.records[m].recheck \/ m \in stale)
    OBVIOUS
  <2>2. a.records[m] \in ProxyRecord
    BY <1>1
  <2>3. records[m] = [a.records[m] EXCEPT !.recheck = recheck]
    BY <1>3, <2>1
  <2>4. /\ records[m].artifact = a.records[m].artifact
        /\ records[m].enabled = a.records[m].enabled
        /\ records[m].recheck = recheck /\ records[m] \in ProxyRecord
    BY <2>2, <2>3 DEF ProxyRecord
  <2>5. m \notin stale => records[m] = a.records[m]
    <3>1. SUFFICES ASSUME m \notin stale
                   PROVE  records[m] = a.records[m]
      OBVIOUS
    <3>2. a.records[m].recheck \in BOOLEAN
      BY <2>2 DEF ProxyRecord
    <3>3. recheck = a.records[m].recheck
      BY <2>1, <3>1, <3>2
    <3> QED BY <2>2, <2>4, <3>3 DEF ProxyRecord
  <2> QED BY <2>1, <2>4, <2>5
<1>9. Awaited(b) = Awaited(a) /\ Ticketed(b) = Ticketed(a)
  BY <1>7 DEF Awaited, Ticketed
<1>10. ASSUME NEW m \in Media
       PROVE  MediaTrue(b, m) /\ TicketTrue(b, m)
  <2>1. MediaTrue(a, m) /\ TicketTrue(a, m)
    BY DEF Sound
  <2>2. TicketTrue(b, m)
    BY <1>7, <1>9, <2>1 DEF TicketTrue
  <2>3. b.records[m].recheck => b.reconcile
    BY <1>4, <1>7, <1>8, <2>1 DEF MediaTrue
  <2>4. CASE m \in stale
    <3>1. a.records[m].artifact \in Artifact /\ a.status[m] \in {"off", "on"}
      BY <1>2, <2>1, <2>4 DEF MediaTrue, Ready
    <3>2. records[m].artifact \in Artifact
      BY <1>8, <3>1
    <3>3. records[m] # NoRecord
      <4>1. NoRecord.artifact = NoArtifact
        BY DEF NoRecord
      <4> QED BY <3>2, <4>1, NoArtifactIsNone
    <3>4. MediaTrue(b, m)
      BY <1>7, <1>8, <1>9, <2>1, <2>3, <3>1, <3>2, <3>3 DEF MediaTrue
    <3> QED BY <2>2, <3>4
  <2>5. CASE m \notin stale
    <3>1. records[m] = a.records[m]
      BY <1>8, <2>5
    <3>2. MediaTrue(b, m)
      BY <1>7, <1>9, <2>1, <2>3, <3>1 DEF MediaTrue
    <3> QED BY <2>2, <3>2
  <2> QED BY <2>4, <2>5
<1>11. Sound(b)
  BY <1>1, <1>7, <1>10 DEF Sound
<1>12. Quiet(a, b)
  BY <1>7, <1>8 DEF Quiet
<1>13. Sound(SubmitDeferred(b, order)) /\ Quiet(b, SubmitDeferred(b, order))
  BY <1>11, SubmitFacts
<1> QED BY <1>6, <1>12, <1>13, QuietTransitive

\* What a job has to say concerns its media.
Eventful(m, b) ==
  /\ Sound(b) /\ b.status[m] \notin {"generating", "deleting"} /\ ~b.records[m].enabled
  /\ said[m] \in {"off", "cancel"} => ~b.tickets[m].activate
  /\ b.desired = app.desired /\ b.suppressed = app.suppressed
  /\ b.job = app.job /\ b.deletion = app.deletion
  /\ \A n \in Media \ {m} :
       /\ b.records[n].enabled = app.records[n].enabled
       /\ b.tickets[n].activate = app.tickets[n].activate
       /\ b.status[n] = app.status[n]

LEMMA EventFacts ==
  ASSUME ProxyInv, app.job.held, NEW m \in Media, app.job.media = m, NEW order \in Orders,
         NEW event \in {"completed", "cancelled", "failed"},
         event = "cancelled" => build.event = "cancelled"
  PROVE  Eventful(m, ApplyEvent(app, m, event, build.artifact, order))
<1>1. /\ MediaTrue(app, m) /\ ShownTrue(app, m) /\ WordTrue(app, m) /\ SlotsTrue(app)
      /\ Sound(app) /\ AnswersOK /\ app \in App /\ WorkersInv /\ NoMedia \notin Media
  BY StateFacts DEF ProxyInv
<1>2. /\ app.status[m] = "generating" /\ app.tickets[m] = NoTicket /\ ~app.records[m].enabled
      /\ app.deletion.media = NoMedia /\ m \notin Ticketed(app) /\ build # NoBuild
  BY <1>1 DEF MediaTrue, ShownTrue, SlotsTrue, Ticketed
<1>3. ~NoTicket.activate
  BY DEF NoTicket
<1>15. PICK b : b = ApplyEvent(app, m, event, build.artifact, order)
  OBVIOUS
<1>4. ASSUME NEW word \in Status, b = [app EXCEPT !.status[m] = word],
             \/ word = "failed"
             \/ app.records[m] = NoRecord /\ word = "none"
             \/ app.records[m] # NoRecord /\ word = "off"
      PROVE  Eventful(m, b)
  <2>1. /\ b.status = [app.status EXCEPT ![m] = word]
        /\ b.records = app.records /\ b.tickets = app.tickets
        /\ b.desired = app.desired /\ b.suppressed = app.suppressed
        /\ b.reconcile = app.reconcile /\ b.requests = app.requests
        /\ b.job = app.job /\ b.deletion = app.deletion /\ b \in App
    <3>1. [app.status EXCEPT ![m] = word] \in [Media -> Status]
      BY StateFacts
    <3> QED BY <1>1, <1>4, <3>1 DEF App
  <2>2. b.status[m] = word /\ \A n \in Media \ {m} : b.status[n] = app.status[n]
    BY <2>1, StateFacts
  <2>3. MediaTrue(b, m)
    BY <1>1, <1>2, <1>3, <1>4, <2>1, <2>2 DEF MediaTrue, Ticketed
  <2>4. Sound(b)
    <3>1. b.tickets[m] \in {app.tickets[m], NoTicket}
      BY <2>1
    <3>2. \A n \in Media \ {m} :
            b.records[n] = app.records[n] /\ b.tickets[n] = app.tickets[n] /\ b.status[n] = app.status[n]
      BY <2>1, <2>2
    <3>3. b \in App /\ b.requests = app.requests /\ b.reconcile = app.reconcile
      BY <2>1
    <3>4. AnswersOK /\ Sound(app)
      BY <1>1
    <3> QED BY <2>3, <3>1, <3>2, <3>3, <3>4, EditFacts
  <2> QED BY <1>2, <1>3, <1>4, <2>1, <2>2, <2>4 DEF Eventful
<1>5. {"none", "off", "failed"} \subseteq Status
  BY DEF Status
<1>6. CASE app.job.cancelled
  <2>1. PICK word \in Status : word = IF app.records[m] = NoRecord THEN "none" ELSE "off"
    BY <1>5
  <2>2. b = [app EXCEPT !.status[m] = word]
    BY <1>1, <1>2, <1>6, <1>15, <2>1 DEF ApplyEvent
  <2>3. \/ word = "failed"
        \/ app.records[m] = NoRecord /\ word = "none"
        \/ app.records[m] # NoRecord /\ word = "off"
    BY <2>1
  <2>4. Eventful(m, b)
    BY <1>4, <2>2, <2>3
  <2> QED BY <1>15, <2>4
<1>7. CASE ~app.job.cancelled /\ event = "failed"
  <2>1. PICK word \in Status : word = "failed"
    BY <1>5
  <2>2. b = [app EXCEPT !.status[m] = word]
    BY <1>7, <1>15, <2>1 DEF ApplyEvent
  <2>3. Eventful(m, b)
    BY <1>4, <2>1, <2>2
  <2> QED BY <1>15, <2>3
<1>8. CASE ~app.job.cancelled /\ event = "cancelled"
  <2>1. build.cancel
    BY <1>1, <1>8 DEF WorkersInv, WorkersTypeOK
  <2> QED BY <1>1, <1>8, <2>1 DEF SlotsTrue
<1>9. CASE ~app.job.cancelled /\ event = "completed"
  <2>1. build.artifact \in Artifact
    BY <1>1, <1>2 DEF WorkersInv, WorkersTypeOK
  <2>2. PICK record \in ProxyRecord :
          record = [artifact |-> build.artifact, enabled |-> FALSE, recheck |-> FALSE]
    BY <2>1 DEF ProxyRecord
  <2>3. record.artifact = build.artifact /\ ~record.enabled /\ ~record.recheck
    BY <2>2
  <2>4. PICK found : found = [app EXCEPT !.records[m] = record]
    OBVIOUS
  <2>5. /\ found.records = [app.records EXCEPT ![m] = record]
        /\ found.status = app.status /\ found.tickets = app.tickets
        /\ found.desired = app.desired /\ found.suppressed = app.suppressed
        /\ found.reconcile = app.reconcile /\ found.requests = app.requests
        /\ found.job = app.job /\ found.deletion = app.deletion /\ found \in App
    <3>1. [app.records EXCEPT ![m] = record] \in [Media -> ProxyRecord]
      BY StateFacts
    <3> QED BY <1>1, <2>4, <3>1 DEF App
  <2>6. found.records[m] = record /\ \A n \in Media \ {m} : found.records[n] = app.records[n]
    BY <2>5, StateFacts
  <2>7. /\ Len(found.requests) <= Capacity
        /\ \A n \in Media : TicketTrue(found, n)
        /\ \A n \in Media \ {m} : MediaTrue(found, n)
    <3>1. found.tickets[m] \in {app.tickets[m], NoTicket}
      BY <2>5
    <3>2. \A n \in Media \ {m} : /\ found.records[n] = app.records[n]
                                 /\ found.tickets[n] = app.tickets[n]
                                 /\ found.status[n] = app.status[n]
      BY <2>5, <2>6
    <3>3. /\ found \in App /\ found.requests = app.requests
          /\ found.reconcile = app.reconcile
      BY <2>5
    <3>4. AnswersOK /\ Sound(app)
      BY <1>1
    <3> QED BY <3>1, <3>2, <3>3, <3>4, EditFacts
  <2>8. PICK asked : asked = QueueCheck(found, m, TRUE)
    OBVIOUS
  <2>9. found.tickets[m] = NoTicket /\ found.records[m].artifact \in Artifact
        /\ ~found.records[m].enabled /\ ~found.records[m].recheck
    BY <1>2, <2>1, <2>3, <2>5, <2>6
  <2>10. /\ Sound(asked) /\ Checked(found, m, asked) /\ asked.status[m] \in {"off", "checking"}
         /\ ~asked.records[m].enabled
    BY <1>1, <2>5, <2>7, <2>8, <2>9, ActiveCheck
  <2>11. b = Reconcile(asked, order)
    <3>1. found = [app EXCEPT !.records[m] = Found(build.artifact)]
      BY <2>2, <2>4 DEF Found
    <3> QED BY <1>9, <1>15, <2>8, <3>1 DEF ApplyEvent
  <2>12. Sound(b) /\ Quiet(asked, b)
    BY <1>1, <2>10, <2>11, ReconcileFacts
  <2>13. said[m] \notin {"off", "cancel"}
    BY <1>1, <1>9 DEF WordTrue
  <2>14. ASSUME NEW n \in Media \ {m}
         PROVE  /\ b.records[n].enabled = app.records[n].enabled
                /\ b.tickets[n].activate = app.tickets[n].activate
                /\ b.status[n] = app.status[n]
    <3>1. /\ asked.tickets[n] = app.tickets[n] /\ asked.records[n] = app.records[n]
          /\ asked.status[n] = app.status[n]
      BY <2>5, <2>6, <2>10 DEF Checked
    <3> QED BY <2>12, <3>1 DEF Quiet
  <2>15. /\ b.status[m] \notin {"generating", "deleting"} /\ ~b.records[m].enabled
    BY <2>10, <2>12 DEF Quiet
  <2>16. /\ b.desired = app.desired /\ b.suppressed = app.suppressed
         /\ b.job = app.job /\ b.deletion = app.deletion
    BY <2>5, <2>10, <2>12 DEF Quiet, Checked
  <2>17. said[m] \in {"off", "cancel"} => ~b.tickets[m].activate
    BY <2>13
  <2>18. Eventful(m, b)
    BY <2>12, <2>14, <2>15, <2>16, <2>17 DEF Eventful
  <2> QED BY <1>15, <2>18
<1> QED BY <1>6, <1>7, <1>8, <1>9

LEMMA PollProxyJobKeeps ==
  ASSUME ProxyInv, NEW order \in Orders, PollProxyJob(order)
  PROVE  ProxyInv' /\ Unrouted
<1>1. /\ SlotsTrue(app) /\ WorkersInv /\ app \in App /\ Sound(app) /\ app.job.held /\ NoMedia \notin Media
      /\ app.job.media \in Media \cup {NoMedia} /\ said \in [Media -> Word]
      /\ UNCHANGED <<content, cache, part, remover, originals, results, analysis, verified, said>>
  BY StateFacts DEF PollProxyJob, Untouched, workerFiles, BuildSlot
<1>2. ~app.deletion.held /\ app.deletion.media = NoMedia /\ build # NoBuild
  BY <1>1 DEF SlotsTrue
<1>3. PICK job \in BuildSlot : job = [held |-> Alive(build), media |-> NoMedia, cancelled |-> FALSE]
  <2>1. PICK alive \in BOOLEAN : alive = Alive(build)
    BY DEF Alive
  <2>2. [held |-> alive, media |-> NoMedia, cancelled |-> FALSE] \in BuildSlot
    BY DEF BuildSlot
  <2> QED BY <2>1, <2>2
<1>4. job.held = Alive(build) /\ job.media = NoMedia
  BY <1>3
<1>5. WorkersInv' /\ (build' # NoBuild <=> Alive(build))
  <2>1. /\ build \in WorkerState
        /\ build' = IF Alive(build) THEN [build EXCEPT !.event = NoEvent] ELSE NoBuild
    BY <1>1 DEF PollProxyJob, WorkersInv, WorkersTypeOK
  <2>2. CASE Alive(build)
    <3>1. /\ build' \in WorkerState /\ build'.at = build.at /\ build'.artifact = build.artifact
          /\ build'.event = NoEvent
      BY <2>1, <2>2 DEF WorkerState
    <3>2. build'.at # "none" /\ build' # NoBuild
      BY <2>2, <3>1 DEF Alive, NoBuild
    <3>3. WorkersTypeOK'
      BY <1>1, <1>2, <3>1, <3>2 DEF WorkersInv, WorkersTypeOK, NoEvent
    <3>4. RoomKept' /\ CacheTidy'
      BY <1>1, <3>1 DEF WorkersInv, RoomKept, CacheTidy, Stored, Alive
    <3> QED BY <2>2, <3>2, <3>3, <3>4 DEF WorkersInv
  <2>3. CASE ~Alive(build)
    <3>1. build' = NoBuild /\ ~part
      BY <1>1, <2>1, <2>3 DEF WorkersInv, CacheTidy
    <3>2. NoBuild \in WorkerState /\ NoBuild.at = "none" /\ NoBuild.event = NoEvent
      BY DEF NoBuild, WorkerState
    <3>3. WorkersTypeOK'
      BY <1>1, <3>1, <3>2 DEF WorkersInv, WorkersTypeOK, NoEvent
    <3>4. RoomKept' /\ CacheTidy'
      BY <1>1, <3>1, <3>2 DEF WorkersInv, RoomKept, CacheTidy
    <3> QED BY <2>3, <3>1, <3>3, <3>4 DEF WorkersInv
  <2> QED BY <2>2, <2>3
<1>6. PICK b : b = app'
  OBVIOUS
<1>7. PICK event \in {"completed", "cancelled", "failed"} :
        /\ event = IF build.event = NoEvent THEN "failed" ELSE build.event
        /\ event = "cancelled" => build.event = "cancelled"
  <2>1. build.event \in {"none", "completed", "cancelled", "failed"}
    BY <1>1 DEF WorkersInv, WorkersTypeOK, WorkerState, NoEvent
  <2> QED BY <2>1 DEF NoEvent
<1>8. PICK heard : heard = IF app.job.media = NoMedia THEN app
                           ELSE ApplyEvent(app, app.job.media, event, build.artifact, order)
  OBVIOUS
<1>9. b = [heard EXCEPT !.job = job]
  BY <1>3, <1>6, <1>7, <1>8 DEF PollProxyJob
<1>10. ASSUME Sound(heard)
       PROVE  /\ b.records = heard.records /\ b.status = heard.status /\ b.tickets = heard.tickets
              /\ b.desired = heard.desired /\ b.suppressed = heard.suppressed
              /\ b.job = job /\ b.deletion = heard.deletion /\ Sound(b)
  <2>1. /\ b.records = heard.records /\ b.status = heard.status /\ b.tickets = heard.tickets
        /\ b.desired = heard.desired /\ b.suppressed = heard.suppressed
        /\ b.reconcile = heard.reconcile /\ b.requests = heard.requests
        /\ b.job = job /\ b.deletion = heard.deletion /\ b \in App
    BY <1>9, <1>10 DEF Sound, App
  <2> QED BY <1>10, <2>1, SameChecks
<1>11. ASSUME b.job = job, b.deletion = app.deletion
       PROVE  SlotsTrue(app)'
  BY <1>1, <1>2, <1>4, <1>5, <1>6, <1>11 DEF SlotsTrue
<1>12. CASE app.job.media = NoMedia
  <2>1. heard = app
    BY <1>8, <1>12
  <2>2. Elsewhere(app, b, NoMedia)
    BY <1>1, <1>4, <1>10, <1>12, <2>1 DEF Elsewhere
  <2>3. ASSUME NEW n \in Media
        PROVE  WordTrue(app, n)' /\ ShownTrue(app, n)'
    <3>1. n \in Media \ {NoMedia} /\ said'[n] = said[n]
      BY <1>1
    <3> QED BY <1>6, <2>2, <3>1, ElsewhereFacts
  <2>4. said' \in [Media -> Word] /\ analysis' \in {analysis, NoAnalysis}
    BY <1>1
  <2>5. SlotsTrue(app)' /\ Sound(b)
    BY <1>1, <1>10, <1>11, <2>1
  <2>6. Unrouted
    BY <1>1, <1>6, <1>10, <2>1 DEF Unrouted
  <2> QED BY <1>1, <1>5, <1>6, <2>3, <2>4, <2>5, <2>6, CoreStep
<1>13. ASSUME NEW m \in Media, app.job.media = m
       PROVE  ProxyInv' /\ Unrouted
  <2>1. heard = ApplyEvent(app, m, event, build.artifact, order)
    BY <1>1, <1>8, <1>13
  <2>2. /\ Sound(heard) /\ heard.status[m] \notin {"generating", "deleting"}
        /\ ~heard.records[m].enabled
        /\ said[m] \in {"off", "cancel"} => ~heard.tickets[m].activate
        /\ heard.desired = app.desired /\ heard.suppressed = app.suppressed
        /\ heard.job = app.job /\ heard.deletion = app.deletion
        /\ \A n \in Media \ {m} :
             /\ heard.records[n].enabled = app.records[n].enabled
             /\ heard.tickets[n].activate = app.tickets[n].activate
             /\ heard.status[n] = app.status[n]
    <3>1. Eventful(m, heard)
      BY <1>1, <1>7, <1>13, <2>1, EventFacts
    <3> QED BY <3>1 DEF Eventful
  <2>3. /\ b.records = heard.records /\ b.status = heard.status /\ b.tickets = heard.tickets
        /\ b.desired = heard.desired /\ b.suppressed = heard.suppressed
        /\ b.job = job /\ b.deletion = heard.deletion /\ Sound(b)
    BY <1>10, <2>2
  <2>4. SlotsTrue(app)'
    BY <1>11, <2>2, <2>3
  <2>5. WordTrue(app, m)'
    <3>1. WordTrue(app, m)
      BY DEF ProxyInv
    <3> QED BY <1>1, <1>4, <1>6, <2>2, <2>3, <3>1 DEF WordTrue
  <2>6. ShownTrue(app, m)'
    BY <1>1, <1>2, <1>4, <1>6, <2>2, <2>3 DEF ShownTrue
  <2>7. Elsewhere(app, b, m)
    BY <1>1, <1>4, <1>13, <2>2, <2>3 DEF Elsewhere
  <2>8. said' = [said EXCEPT ![m] = said[m]] /\ said[m] \in Word
    BY <1>1
  <2> QED BY <1>1, <1>5, <1>6, <2>3, <2>4, <2>5, <2>6, <2>7, <2>8, MediaStep
<1> QED BY <1>1, <1>12, <1>13

-----------------------------------------------------------------------------
(* The analysis of media.                                                    *)

LEMMA FindCachedKeeps ==
  ASSUME ProxyInv, NEW m \in Media, FindCached(m)
  PROVE  ProxyInv' /\ Unrouted
<1>1. /\ WorkersInv /\ UNCHANGED proxyWorkerVars
      /\ UNCHANGED <<app, originals, results, said, verified>>
      /\ analysis' = [media |-> m, artifact |-> Fingerprint(originals[m])]
  BY StateFacts DEF FindCached
<1>2. WorkersInv' /\ build' = build /\ remover' = remover
  BY <1>1, SameWorkers
<1>3. Fingerprint(originals[m]) \in Artifact
  <2>1. originals[m] \in Original
    BY DEF ProxyInv, ProxyValuesOK
  <2> QED BY <1>1, <2>1, FingerprintFacts DEF WorkersInv
<1>4. /\ analysis' \in [media : Media \cup {NoMedia}, artifact : Artifact \cup {NoArtifact}]
      /\ analysis'.media # NoMedia => analysis'.artifact \in Artifact
  BY <1>1, <1>3
<1>5. ProxyValuesOK'
  BY <1>1, <1>2, <1>4 DEF ProxyInv, ProxyValuesOK, WorkersInv
<1>6. SlotsTrue(app)'
  BY <1>1, <1>2 DEF ProxyInv, SlotsTrue
<1>7. ASSUME NEW n \in Media
      PROVE  MediaTrue(app, n)' /\ TicketTrue(app, n)' /\ WordTrue(app, n)' /\ ShownTrue(app, n)'
  <2>1. MediaTrue(app, n) /\ TicketTrue(app, n) /\ WordTrue(app, n) /\ ShownTrue(app, n)
    BY DEF ProxyInv
  <2>2. MediaTrue(app, n)'
    BY <1>1, <2>1 DEF MediaTrue, Ticketed
  <2>3. Awaited(app)' = Awaited(app)
    BY <1>1 DEF Awaited
  <2>4. TicketTrue(app, n)'
    BY <1>1, <2>1, <2>3 DEF TicketTrue, Ticketed
  <2>5. WordTrue(app, n)'
    BY <1>1, <2>1 DEF WordTrue
  <2>6. ShownTrue(app, n)'
    BY <1>1, <2>1 DEF ShownTrue
  <2> QED BY <2>2, <2>4, <2>5, <2>6
<1>8. Unrouted
  BY <1>1 DEF Unrouted
<1> QED BY <1>2, <1>5, <1>6, <1>7, <1>8 DEF ProxyInv, WorkersInv

\* Nothing that is untrue of the media changes with the fields of others.
LEMMA SameAppKeeps ==
  ASSUME ProxyInv, WorkersInv', SlotsTrue(app)',
         UNCHANGED <<app, originals, results, said, verified>>,
         analysis' \in {analysis, NoAnalysis}
  PROVE  ProxyInv' /\ Unrouted
<1>1. Sound(app) /\ said \in [Media -> Word] /\ app' = app /\ said' = said
  BY StateFacts
<1>2. Sound(app')
  BY <1>1
<1>3. ASSUME NEW n \in Media
      PROVE  WordTrue(app, n)' /\ ShownTrue(app, n)'
  <2>1. WordTrue(app, n) /\ ShownTrue(app, n)
    BY DEF ProxyInv
  <2>2. WordTrue(app, n)'
    BY <1>1, <2>1 DEF WordTrue
  <2>3. ShownTrue(app, n)'
    BY <1>1, <2>1 DEF ShownTrue
  <2> QED BY <2>2, <2>3
<1>4. Unrouted
  BY <1>1 DEF Unrouted
<1> QED BY <1>1, <1>2, <1>3, <1>4, CoreStep

LEMMA RestoreCachedKeeps ==
  ASSUME ProxyInv, NEW m \in Media, RestoreCached(m)
  PROVE  ProxyInv' /\ Unrouted
<1>1. /\ SlotsTrue(app) /\ Sound(app) /\ AnswersOK /\ app \in App /\ NoMedia \notin Media
      /\ MediaTrue(app, m) /\ WordTrue(app, m) /\ ShownTrue(app, m) /\ said \in [Media -> Word]
      /\ UNCHANGED <<originals, results, said, verified>> /\ UNCHANGED proxyWorkerVars
      /\ analysis.media = m /\ analysis' = NoAnalysis
  BY StateFacts DEF RestoreCached, ProxyInv
<1>2. WorkersInv' /\ build' = build /\ remover' = remover
  BY <1>1, SameWorkers
<1>3. PICK b : b = app'
  OBVIOUS
<1>4. CASE m \in app.suppressed \/ app.records[m] # NoRecord \/ app.status[m] # "none"
  <2>1. app' = app
    BY <1>4 DEF RestoreCached
  <2>2. SlotsTrue(app)'
    BY <1>1, <1>2, <2>1 DEF SlotsTrue
  <2> QED BY <1>1, <1>2, <2>1, <2>2, SameAppKeeps
<1>5. CASE ~(m \in app.suppressed \/ app.records[m] # NoRecord \/ app.status[m] # "none")
  <2>1. /\ m \notin app.suppressed /\ app.status[m] = "none" /\ app.tickets[m] = NoTicket
        /\ app.job.media # m /\ app.deletion.media # m /\ said[m] = "free"
    BY <1>1, <1>5 DEF MediaTrue, Ticketed, WordTrue, ShownTrue
  <2>2. analysis.artifact \in Artifact
    BY <1>1 DEF ProxyInv, ProxyValuesOK
  <2>3. PICK record \in ProxyRecord :
          record = [artifact |-> analysis.artifact, enabled |-> FALSE, recheck |-> FALSE]
    BY <2>2 DEF ProxyRecord
  <2>4. /\ record.artifact \in Artifact /\ ~record.enabled /\ ~record.recheck
        /\ record = Found(analysis.artifact)
    BY <2>2, <2>3 DEF Found
  <2>5. record # NoRecord
    <3>1. NoRecord.artifact = NoArtifact
      BY DEF NoRecord
    <3> QED BY <2>4, <3>1, NoArtifactIsNone
  <2>6. PICK found : found = [app EXCEPT !.records[m] = record]
    OBVIOUS
  <2>7. /\ found.records = [app.records EXCEPT ![m] = record]
        /\ found.status = app.status /\ found.tickets = app.tickets
        /\ found.desired = app.desired /\ found.suppressed = app.suppressed
        /\ found.reconcile = app.reconcile /\ found.requests = app.requests
        /\ found.job = app.job /\ found.deletion = app.deletion /\ found \in App
    <3>1. [app.records EXCEPT ![m] = record] \in [Media -> ProxyRecord]
      BY StateFacts
    <3> QED BY <1>1, <2>6, <3>1 DEF App
  <2>8. found.records[m] = record /\ \A n \in Media \ {m} : found.records[n] = app.records[n]
    BY <2>7, StateFacts
  <2>9. /\ Len(found.requests) <= Capacity
        /\ \A n \in Media : TicketTrue(found, n)
        /\ \A n \in Media \ {m} : MediaTrue(found, n)
    <3>1. found.tickets[m] \in {app.tickets[m], NoTicket}
      BY <2>7
    <3>2. /\ found \in App /\ found.requests = app.requests /\ found.reconcile = app.reconcile
          /\ \A n \in Media \ {m} :
               /\ found.records[n] = app.records[n] /\ found.tickets[n] = app.tickets[n]
               /\ found.status[n] = app.status[n]
      BY <2>7, <2>8
    <3>3. Sound(app) /\ AnswersOK
      BY <1>1
    <3> QED BY <3>1, <3>2, <3>3, EditFacts
  <2>10. ~NoTicket.activate
    BY DEF NoTicket
  <2>11. /\ Sound(b) /\ b.status[m] \in {"off", "checking"} /\ ~b.records[m].enabled
         /\ b.desired = app.desired /\ b.suppressed = app.suppressed
         /\ b.job = app.job /\ b.deletion = app.deletion
         /\ \A n \in Media \ {m} :
              /\ b.records[n] = app.records[n] /\ b.tickets[n] = app.tickets[n]
              /\ b.status[n] = app.status[n]
    <3>1. CASE m \in app.desired
      <4>1. b = QueueCheck(found, m, TRUE)
        BY <1>3, <1>5, <2>4, <2>6, <3>1 DEF RestoreCached
      <4>2. found.tickets[m] = NoTicket /\ found.records[m].artifact \in Artifact
            /\ ~found.records[m].enabled /\ ~found.records[m].recheck
        BY <2>1, <2>4, <2>7, <2>8
      <4>3. /\ Sound(b) /\ Checked(found, m, b) /\ b.status[m] \in {"off", "checking"}
            /\ ~b.records[m].enabled
        BY <1>1, <2>7, <2>9, <4>1, <4>2, ActiveCheck
      <4> QED BY <2>7, <2>8, <4>3 DEF Checked
    <3>2. CASE m \notin app.desired
      <4>1. b = [found EXCEPT !.status[m] = "off"]
        BY <1>3, <1>5, <2>4, <2>6, <3>2 DEF RestoreCached
      <4>2. /\ b.status = [app.status EXCEPT ![m] = "off"]
            /\ b.records = found.records /\ b.tickets = app.tickets
            /\ b.desired = app.desired /\ b.suppressed = app.suppressed
            /\ b.reconcile = app.reconcile /\ b.requests = app.requests
            /\ b.job = app.job /\ b.deletion = app.deletion /\ b \in App
        <5>1. [app.status EXCEPT ![m] = "off"] \in [Media -> Status]
          BY StateFacts DEF Status
        <5> QED BY <2>7, <4>1, <5>1 DEF App
      <4>3. b.status[m] = "off" /\ \A n \in Media \ {m} : b.status[n] = app.status[n]
        BY <4>2, StateFacts
      <4>4. MediaTrue(b, m)
        BY <1>1, <2>1, <2>4, <2>5, <2>8, <2>10, <4>2, <4>3 DEF MediaTrue, Ticketed
      <4>5. Sound(b)
        <5>1. b.tickets[m] \in {app.tickets[m], NoTicket}
          BY <4>2
        <5>2. /\ b \in App /\ b.requests = app.requests /\ b.reconcile = app.reconcile
              /\ \A n \in Media \ {m} :
                   /\ b.records[n] = app.records[n] /\ b.tickets[n] = app.tickets[n]
                   /\ b.status[n] = app.status[n]
          BY <2>8, <4>2, <4>3
        <5>3. Sound(app) /\ AnswersOK
          BY <1>1
        <5> QED BY <4>4, <5>1, <5>2, <5>3, EditFacts
      <4> QED BY <2>4, <2>8, <4>2, <4>3, <4>5
    <3> QED BY <3>1, <3>2
  <2>12. SlotsTrue(app)'
    BY <1>1, <1>2, <1>3, <2>11 DEF SlotsTrue
  <2>13. WordTrue(app, m)'
    BY <1>1, <1>3, <2>1, <2>11 DEF WordTrue
  <2>14. ShownTrue(app, m)'
    BY <1>3, <2>1, <2>11 DEF ShownTrue
  <2>15. Elsewhere(app, b, m)
    BY <2>11 DEF Elsewhere
  <2>16. said' = [said EXCEPT ![m] = said[m]] /\ said[m] \in Word
    BY <1>1
  <2> QED BY <1>1, <1>2, <1>3, <2>11, <2>12, <2>13, <2>14, <2>15, <2>16, MediaStep
<1> QED BY <1>4, <1>5

-----------------------------------------------------------------------------
(* The validation worker and its answers.                                    *)

LEMMA ValidateKeeps ==
  ASSUME ProxyInv, Validate
  PROVE  ProxyInv' /\ Unrouted
<1>1. /\ SlotsTrue(app) /\ AnswersOK /\ app \in App /\ WorkersInv /\ said \in [Media -> Word]
      /\ UNCHANGED <<originals, analysis, said>> /\ UNCHANGED proxyWorkerVars
      /\ app.requests \in Seq(Check) /\ app.requests # <<>> /\ Len(app.requests) <= Capacity
      /\ app' = [app EXCEPT !.requests = Tail(app.requests)]
  BY StateFacts DEF Validate, Sound
<1>2. WorkersInv' /\ build' = build /\ remover' = remover
  BY <1>1, SameWorkers
<1>3. PICK request \in Check : request = Head(app.requests)
  BY <1>1
<1>4. /\ request = app.requests[1] /\ 1 \in DOMAIN app.requests
      /\ Tail(app.requests) \in Seq(Check) /\ Len(Tail(app.requests)) <= Capacity
      /\ \A i \in DOMAIN Tail(app.requests) :
           i + 1 \in DOMAIN app.requests /\ Tail(app.requests)[i] = app.requests[i + 1]
  <2>1. Len(app.requests) \in Nat /\ Capacity \in Nat
    BY <1>1, MediaConstants
  <2> QED BY <1>1, <1>3, <2>1
<1>5. ASSUME NEW i \in DOMAIN app.requests
      PROVE  \/ app.requests[i] = request
             \/ \E j \in DOMAIN Tail(app.requests) : Tail(app.requests)[j] = app.requests[i]
  <2>1. i \in 1..Len(app.requests) /\ Len(app.requests) \in Nat
    BY <1>1
  <2>2. CASE i = 1
    BY <1>4, <2>2
  <2>3. CASE i # 1
    <3>1. i - 1 \in 1..(Len(app.requests) - 1) /\ (i - 1) + 1 = i
      BY <2>1, <2>3
    <3>2. i - 1 \in DOMAIN Tail(app.requests)
      BY <1>1, <2>1, <3>1
    <3>3. Tail(app.requests)[i - 1] = app.requests[i]
      BY <1>4, <3>1, <3>2
    <3> QED BY <3>2, <3>3
  <2> QED BY <2>2, <2>3
<1>6. PICK b : b = app'
  OBVIOUS
<1>7. /\ b.records = app.records /\ b.status = app.status /\ b.tickets = app.tickets
      /\ b.desired = app.desired /\ b.suppressed = app.suppressed /\ b.reconcile = app.reconcile
      /\ b.requests = Tail(app.requests)
      /\ b.job = app.job /\ b.deletion = app.deletion /\ b \in App
  BY <1>1, <1>4, <1>6 DEF App
<1>8. request.token \in Token /\ request.original \in Original /\ request.current \in BOOLEAN
  BY DEF Check
<1>9. PICK usable \in BOOLEAN : usable = Usable(request)
  BY DEF Usable
<1>10. PICK answer \in Answer : answer = [token |-> request.token, usable |-> usable]
  BY <1>8 DEF Answer
<1>11. answer.token = request.token /\ answer.usable = usable
  BY <1>10
<1>12. request.current => /\ Len(results) < Capacity
                          /\ results' = Append(results, answer)
  BY <1>3, <1>9, <1>10 DEF Validate
<1>13. /\ verified \subseteq verified'
       /\ request.current /\ usable =>
            /\ request.token \in verified'
            /\ request.artifact = Fingerprint(request.original)
  BY <1>3, <1>9 DEF Validate, Usable
<1>14. ~request.current => results' = results
  BY <1>3 DEF Validate
<1>15. Fingerprint(request.original).original = request.original
  BY <1>1, <1>8, FingerprintFacts DEF WorkersInv
<1>16. results \in Seq(Answer) /\ Len(results) \in Nat
  BY <1>1 DEF AnswersOK
<1>17. results' \in Seq(Answer) /\ Len(results') <= Capacity
  <2>1. CASE request.current
    <3>1. Append(results, answer) \in Seq(Answer) /\ Len(Append(results, answer)) = Len(results) + 1
      BY <1>16
    <3> QED BY <1>12, <1>16, <2>1, <3>1, MediaConstants
  <2>2. CASE ~request.current
    BY <1>1, <1>14, <1>16, <2>2 DEF AnswersOK
  <2> QED BY <1>8, <2>1, <2>2
<1>18. /\ \A i \in DOMAIN results : i \in DOMAIN results' /\ results'[i] = results[i]
       /\ request.current => \E i \in DOMAIN results' : results'[i].token = request.token
  <2>1. CASE request.current
    <3>1. results' = Append(results, answer)
      BY <1>12, <2>1
    <3>2. Len(results) + 1 \in DOMAIN results' /\ results'[Len(results) + 1] = answer
      BY <1>16, <3>1
    <3>3. \A i \in DOMAIN results : i \in DOMAIN results' /\ results'[i] = results[i]
      BY <1>16, <3>1
    <3> QED BY <1>11, <3>2, <3>3
  <2>2. CASE ~request.current
    BY <1>14, <2>2
  <2> QED BY <1>8, <2>1, <2>2
<1>19. ASSUME NEW i \in DOMAIN results'
       PROVE  \/ i \in DOMAIN results /\ results'[i] = results[i]
              \/ request.current /\ results'[i] = answer
  <2>1. CASE request.current
    <3>1. results' = Append(results, answer)
      BY <1>12, <2>1
    <3>2. i \in DOMAIN results \/ i = Len(results) + 1
      BY <1>16, <3>1
    <3>3. i \in DOMAIN results => results'[i] = results[i]
      BY <1>16, <3>1
    <3>4. i = Len(results) + 1 => results'[i] = answer
      BY <1>16, <3>1
    <3> QED BY <2>1, <3>2, <3>3, <3>4
  <2>2. CASE ~request.current
    BY <1>14, <2>2
  <2> QED BY <1>8, <2>1, <2>2
<1>20. ASSUME NEW n \in Media
       PROVE  TicketTrue(app, n)'
  <2>1. SUFFICES ASSUME b.tickets[n] # NoTicket
                 PROVE  TicketTrue(app, n)'
    BY <1>6 DEF TicketTrue, Ticketed
  <2>2. PICK ticket : ticket = app.tickets[n]
    OBVIOUS
  <2>3. /\ ticket.token \in Awaited(app)
        /\ \A k \in Media \ {n} : app.tickets[k].token # ticket.token
        /\ \A i \in DOMAIN app.requests : app.requests[i].token = ticket.token =>
             /\ app.requests[i].current
             /\ app.requests[i].artifact = ticket.artifact
             /\ app.requests[i].original = originals[n]
        /\ \A i \in DOMAIN results : results[i].token = ticket.token /\ results[i].usable =>
             ticket.token \in verified /\ ticket.artifact.original = originals[n]
    <3>1. TicketTrue(app, n)
      BY DEF ProxyInv
    <3>2. n \in Ticketed(app)
      BY <1>7, <2>1 DEF Ticketed
    <3> QED BY <2>2, <3>1, <3>2 DEF TicketTrue
  <2>4. request.token = ticket.token =>
          /\ request.current /\ request.artifact = ticket.artifact
          /\ request.original = originals[n]
    BY <1>4, <2>3
  <2>5. ticket.token \in Awaited(app)'
    <3>1. CASE \E i \in DOMAIN app.requests : app.requests[i].token = ticket.token
      <4>1. PICK i \in DOMAIN app.requests : app.requests[i].token = ticket.token
        BY <3>1
      <4>2. CASE app.requests[i] = request
        <5>1. \E j \in DOMAIN results' : results'[j].token = ticket.token
          BY <1>18, <2>4, <4>1, <4>2
        <5> QED BY <5>1 DEF Awaited
      <4>3. CASE \E j \in DOMAIN Tail(app.requests) : Tail(app.requests)[j] = app.requests[i]
        <5>1. \E j \in DOMAIN b.requests : b.requests[j].token = ticket.token
          BY <1>7, <4>1, <4>3
        <5> QED BY <1>6, <5>1 DEF Awaited
      <4> QED BY <1>5, <4>2, <4>3
    <3>2. CASE \E i \in DOMAIN results : results[i].token = ticket.token
      <4>1. \E i \in DOMAIN results' : results'[i].token = ticket.token
        BY <1>18, <3>2
      <4> QED BY <4>1 DEF Awaited
    <3> QED BY <2>3, <3>1, <3>2 DEF Awaited
  <2>6. ASSUME NEW i \in DOMAIN b.requests, b.requests[i].token = ticket.token
        PROVE  /\ b.requests[i].current /\ b.requests[i].artifact = ticket.artifact
               /\ b.requests[i].original = originals[n]
    BY <1>4, <1>7, <2>3, <2>6
  <2>7. ASSUME NEW i \in DOMAIN results', results'[i].token = ticket.token, results'[i].usable
        PROVE  ticket.token \in verified' /\ ticket.artifact.original = originals[n]
    <3>1. CASE i \in DOMAIN results /\ results'[i] = results[i]
      BY <1>13, <2>3, <2>7, <3>1
    <3>2. CASE request.current /\ results'[i] = answer
      <4>1. request.token = ticket.token /\ usable
        BY <1>11, <2>7, <3>2
      <4>2. /\ request.artifact = ticket.artifact /\ request.original = originals[n]
            /\ request.token \in verified' /\ request.artifact = Fingerprint(request.original)
        BY <1>13, <2>4, <3>2, <4>1
      <4> QED BY <1>15, <4>1, <4>2
    <3> QED BY <1>19, <3>1, <3>2
  <2>8. originals' = originals /\ b.tickets = app.tickets
    BY <1>1, <1>7
  <2> QED BY <1>6, <2>2, <2>3, <2>5, <2>6, <2>7, <2>8 DEF TicketTrue
<1>21. ASSUME NEW n \in Media
       PROVE  MediaTrue(app, n)' /\ WordTrue(app, n)' /\ ShownTrue(app, n)'
  <2>1. MediaTrue(app, n) /\ WordTrue(app, n) /\ ShownTrue(app, n) /\ said' = said
    BY <1>1 DEF ProxyInv
  <2>2. MediaTrue(app, n)'
    BY <1>6, <1>7, <2>1 DEF MediaTrue, Ticketed
  <2>3. WordTrue(app, n)'
    BY <1>6, <1>7, <2>1 DEF WordTrue
  <2>4. ShownTrue(app, n)'
    BY <1>6, <1>7, <2>1 DEF ShownTrue
  <2> QED BY <2>2, <2>3, <2>4
<1>22. SlotsTrue(app)'
  BY <1>1, <1>2, <1>6, <1>7 DEF SlotsTrue
<1>23. ProxyValuesOK'
  <2>1. app' \in App /\ Len(app'.requests) <= Capacity
    BY <1>4, <1>6, <1>7
  <2> QED BY <1>1, <1>2, <1>17, <2>1 DEF ProxyInv, ProxyValuesOK, WorkersInv
<1>24. Unrouted
  BY <1>6, <1>7 DEF Unrouted
<1> QED BY <1>2, <1>20, <1>21, <1>22, <1>23, <1>24 DEF ProxyInv, WorkersInv

LEMMA PollProxyValidationKeeps ==
  ASSUME ProxyInv, NEW order \in Orders, PollProxyValidation(order)
  PROVE  ProxyInv'
<1>1. /\ SlotsTrue(app) /\ Sound(app) /\ AnswersOK /\ WorkersInv /\ said \in [Media -> Word]
      /\ UNCHANGED <<originals, analysis, said>> /\ UNCHANGED proxyWorkerVars
      /\ results' = <<>>
  BY StateFacts DEF PollProxyValidation
<1>2. WorkersInv' /\ build' = build /\ remover' = remover
  BY <1>1, SameWorkers
<1>4. PICK heard : /\ Sound(heard) /\ Heard(app, heard, Len(results))
                  /\ app' = SubmitDeferred(heard, order)
  BY <1>1, PolledFacts
<1>5. PICK b : b = app'
  OBVIOUS
<1>6. Sound(b) /\ Quiet(heard, b)
  BY <1>1, <1>4, <1>5, SubmitFacts
<1>7. /\ b.suppressed = app.suppressed /\ b.job = app.job /\ b.deletion = app.deletion
  BY <1>4, <1>6 DEF Heard, Quiet
<1>8. SlotsTrue(app)'
  BY <1>1, <1>2, <1>5, <1>7 DEF SlotsTrue
<1>9. ASSUME NEW m \in Media
      PROVE  MediaTrue(app, m)' /\ TicketTrue(app, m)' /\ WordTrue(app, m)' /\ ShownTrue(app, m)'
  <2>1. MediaTrue(app, m) /\ WordTrue(app, m) /\ ShownTrue(app, m) /\ said' = said
    BY <1>1 DEF ProxyInv
  <2>2. /\ heard.tickets[m] \in {app.tickets[m], NoTicket}
        /\ \A i \in 1..Len(results) : heard.tickets[m].token # results[i].token
        /\ m \in heard.desired => m \in app.desired \/ app.tickets[m].activate
        /\ heard.records[m].enabled => app.records[m].enabled \/ app.tickets[m].activate
        /\ \/ heard.status[m] = app.status[m]
           \/ /\ app.status[m] \notin {"generating", "deleting"}
              /\ heard.status[m] \notin {"generating", "deleting"}
    BY <1>4 DEF Heard
  <2>3. /\ b.status[m] = heard.status[m] /\ b.desired = heard.desired
        /\ b.records[m].enabled = heard.records[m].enabled
        /\ b.tickets[m].activate = heard.tickets[m].activate
        /\ b.tickets[m] \in {heard.tickets[m], NoTicket} \/ b.tickets[m].token \notin Replied
    BY <1>6 DEF Quiet
  <2>4. ~NoTicket.activate
    BY DEF NoTicket
  <2>5. ShownTrue(app, m)'
    BY <1>5, <1>7, <2>1, <2>2, <2>3 DEF ShownTrue
  <2>6. WordTrue(app, m)'
    BY <1>5, <1>7, <2>1, <2>2, <2>3, <2>4 DEF WordTrue
  <2>7. MediaTrue(b, m) /\ TicketTrue(b, m)
    BY <1>6 DEF Sound
  <2>8. MediaTrue(app, m)'
    BY <1>5, <2>7 DEF MediaTrue, Ticketed
  <2>9. TicketTrue(app, m)'
    <3>1. SUFFICES ASSUME b.tickets[m] # NoTicket
                   PROVE  TicketTrue(app, m)'
      BY <1>5 DEF TicketTrue, Ticketed
    <3>2. m \in Ticketed(b)
      BY <3>1 DEF Ticketed
    <3>3. b.tickets[m].token \notin Replied
      <4>1. \A i \in DOMAIN results : heard.tickets[m].token # results[i].token
        <5>1. DOMAIN results = 1..Len(results)
          BY <1>1 DEF AnswersOK
        <5> QED BY <2>2, <5>1
      <4>2. heard.tickets[m].token \notin Replied
        BY <4>1 DEF Replied
      <4> QED BY <2>3, <3>1, <4>2
    <3>4. b.tickets[m].token \in Awaited(b)
      BY <2>7, <3>2 DEF TicketTrue
    <3>5. b.tickets[m].token \in Awaited(app)'
      <4>1. \E i \in DOMAIN b.requests : b.requests[i].token = b.tickets[m].token
        BY <3>3, <3>4 DEF Awaited, Replied
      <4> QED BY <1>5, <4>1 DEF Awaited
    <3>6. DOMAIN results' = {}
      BY <1>1
    <3>7. /\ \A n \in Media \ {m} : b.tickets[n].token # b.tickets[m].token
          /\ \A i \in DOMAIN b.requests : b.requests[i].token = b.tickets[m].token =>
               /\ b.requests[i].current
               /\ b.requests[i].artifact = b.tickets[m].artifact
               /\ b.requests[i].original = originals'[m]
      BY <1>1, <2>7, <3>2 DEF TicketTrue
    <3> QED BY <1>5, <3>5, <3>6, <3>7 DEF TicketTrue
  <2> QED BY <2>5, <2>6, <2>8, <2>9
<1>10. ProxyValuesOK'
  <2>1. app' \in App /\ Len(app'.requests) <= Capacity
    BY <1>5, <1>6 DEF Sound
  <2>2. results' \in Seq(Answer) /\ Len(results') <= Capacity
    BY <1>1, MediaConstants
  <2> QED BY <1>1, <1>2, <2>1, <2>2 DEF ProxyInv, ProxyValuesOK, WorkersInv
<1> QED BY <1>2, <1>8, <1>9, <1>10 DEF ProxyInv, WorkersInv

-----------------------------------------------------------------------------
(* The change of project.                                                    *)

LEMMA OpenProjectKeeps ==
  ASSUME ProxyInv, OpenProject
  PROVE  ProxyInv' /\ Unrouted
<1>1. /\ SlotsTrue(app) /\ AnswersOK /\ app \in App /\ WorkersInv
      /\ app.requests \in Seq(Check) /\ Len(app.requests) <= Capacity
      /\ app.job \in BuildSlot /\ app.deletion \in RemovalSlot /\ NoMedia \notin Media
      /\ UNCHANGED <<content, cache, part, results, verified>>
      /\ analysis' = NoAnalysis /\ said' = [m \in Media |-> "free"]
      /\ originals' \in [Media -> Original] /\ IsInjective(originals')
  BY StateFacts, SMTT(40) DEF OpenProject, Sound, workerFiles
<1>2. PICK b : b = app'
  OBVIOUS
<1>3. PICK wishes \in SUBSET Media :
        b = [app EXCEPT !.records = [m \in Media |-> NoRecord],
                        !.status = [m \in Media |-> "none"],
                        !.tickets = [m \in Media |-> NoTicket],
                        !.desired = wishes,
                        !.suppressed = {},
                        !.reconcile = FALSE,
                        !.requests = [i \in DOMAIN app.requests |-> Outdated(app.requests[i])],
                        !.job.media = NoMedia, !.job.cancelled = FALSE,
                        !.deletion.media = NoMedia]
  BY <1>2 DEF OpenProject
<1>4. PICK requests : requests = [i \in DOMAIN app.requests |-> Outdated(app.requests[i])]
  OBVIOUS
<1>5. requests \in Seq(Check) /\ Len(requests) <= Capacity
  <2>1. ASSUME NEW i \in DOMAIN app.requests
        PROVE  Outdated(app.requests[i]) \in Check
    <3>1. app.requests[i] \in Check
      BY <1>1
    <3>2. PICK no \in BOOLEAN : ~no /\ no = FALSE
      OBVIOUS
    <3>3. [app.requests[i] EXCEPT !.current = no, !.artifact = NoArtifact] \in Check
      BY <3>1 DEF Check
    <3> QED BY <3>2, <3>3 DEF Outdated
  <2>2. DOMAIN app.requests = 1..Len(app.requests) /\ Len(app.requests) \in Nat
    BY <1>1
  <2>3. requests \in [1..Len(app.requests) -> Check]
    BY <1>4, <2>1, <2>2
  <2>4. requests \in Seq(Check)
    BY <2>2, <2>3, IsASeq
  <2>5. Len(requests) = Len(app.requests)
    BY <2>2, <2>3
  <2> QED BY <1>1, <2>4, <2>5
<1>6. PICK job \in BuildSlot : job = [app.job EXCEPT !.media = NoMedia, !.cancelled = FALSE]
  <2>1. PICK no \in BOOLEAN : ~no /\ no = FALSE
    OBVIOUS
  <2>2. [app.job EXCEPT !.media = NoMedia, !.cancelled = no] \in BuildSlot
    BY <1>1 DEF BuildSlot
  <2> QED BY <2>1, <2>2
<1>7. job.held = app.job.held /\ job.media = NoMedia
  BY <1>1, <1>6 DEF BuildSlot
<1>8. PICK deletion \in RemovalSlot : deletion = [app.deletion EXCEPT !.media = NoMedia]
  BY <1>1 DEF RemovalSlot
<1>9. deletion.held = app.deletion.held /\ deletion.media = NoMedia
  BY <1>1, <1>8 DEF RemovalSlot
<1>10. PICK no \in BOOLEAN : ~no /\ no = FALSE
  OBVIOUS
<1>11. b = [app EXCEPT !.records = [m \in Media |-> NoRecord],
                       !.status = [m \in Media |-> "none"],
                       !.tickets = [m \in Media |-> NoTicket],
                       !.desired = wishes,
                       !.suppressed = {},
                       !.reconcile = no,
                       !.requests = requests,
                       !.job = job,
                       !.deletion = deletion]
  BY <1>1, <1>3, <1>4, <1>6, <1>8, <1>10 DEF App
<1>12. /\ [m \in Media |-> NoRecord] \in [Media -> ProxyRecord]
       /\ [m \in Media |-> "none"] \in [Media -> Status]
       /\ [m \in Media |-> NoTicket] \in [Media -> Ticket]
  <2>1. NoRecord \in ProxyRecord
    BY DEF NoRecord, ProxyRecord
  <2>2. NoTicket \in Ticket
    BY DEF NoTicket, Ticket
  <2> QED BY <2>1, <2>2 DEF Status
<1>13. /\ b.records = [m \in Media |-> NoRecord]
       /\ b.status = [m \in Media |-> "none"]
       /\ b.tickets = [m \in Media |-> NoTicket]
       /\ b.suppressed = {} /\ b.requests = requests
       /\ b.job = job /\ b.deletion = deletion /\ b \in App
  BY <1>1, <1>5, <1>11, <1>12 DEF App
<1>14. ASSUME NEW m \in Media
       PROVE  /\ b.records[m] = NoRecord /\ b.status[m] = "none" /\ b.tickets[m] = NoTicket
              /\ m \notin Ticketed(b) /\ said'[m] = "free"
  BY <1>1, <1>13 DEF Ticketed
<1>15. ~NoTicket.activate /\ ~NoRecord.enabled /\ ~NoRecord.recheck
  BY DEF NoTicket, NoRecord
<1>16. ASSUME NEW m \in Media
       PROVE  MediaTrue(app, m)' /\ TicketTrue(app, m)' /\ WordTrue(app, m)' /\ ShownTrue(app, m)'
  <2>1. MediaTrue(app, m)'
    BY <1>2, <1>14, <1>15 DEF MediaTrue, Ticketed
  <2>2. TicketTrue(app, m)'
    BY <1>2, <1>14 DEF TicketTrue, Ticketed
  <2>3. b.job.media # m /\ b.deletion.media # m
    BY <1>1, <1>7, <1>9, <1>13
  <2>4. WordTrue(app, m)'
    BY <1>2, <1>14, <2>3 DEF WordTrue
  <2>5. ShownTrue(app, m)'
    BY <1>2, <1>14, <2>3 DEF ShownTrue
  <2> QED BY <2>1, <2>2, <2>4, <2>5
<1>17. /\ remover' \in WorkerState /\ (remover' # NoRemover => remover'.at # "none")
       /\ (remover' # NoRemover <=> remover # NoRemover)
  <2>1. PICK flag \in BOOLEAN : flag = (remover.cancel \/ app.deletion.held)
    OBVIOUS
  <2>2. remover' = [remover EXCEPT !.cancel = flag]
    BY <2>1 DEF OpenProject
  <2>3. /\ remover \in WorkerState /\ (remover # NoRemover => remover.at # "none")
        /\ (app.deletion.held <=> remover # NoRemover)
    BY <1>1 DEF WorkersInv, WorkersTypeOK, SlotsTrue
  <2>4. /\ remover' \in WorkerState /\ remover'.at = remover.at
        /\ remover'.artifact = remover.artifact /\ remover'.event = remover.event
        /\ remover'.cancel = flag
    BY <2>2, <2>3 DEF WorkerState
  <2>5. CASE remover # NoRemover
    <3>1. NoRemover.at = "none"
      BY DEF NoRemover, NoBuild
    <3>2. remover' # NoRemover
      BY <2>3, <2>4, <2>5, <3>1
    <3> QED BY <2>3, <2>4, <2>5, <3>2
  <2>6. CASE remover = NoRemover
    <3>1. ~NoRemover.cancel
      BY DEF NoRemover, NoBuild
    <3>2. ~remover.cancel /\ ~flag
      BY <2>1, <2>3, <2>6, <3>1
    <3>3. remover.cancel \in BOOLEAN
      BY <2>3 DEF WorkerState
    <3>4. remover'.cancel = remover.cancel
      BY <2>4, <3>2, <3>3
    <3>5. remover' = remover
      BY <2>3, <2>4, <3>4 DEF WorkerState
    <3> QED BY <2>3, <2>4, <2>6, <3>5
  <2> QED BY <2>5, <2>6
<1>18. WorkersInv' /\ (build' # NoBuild <=> build # NoBuild)
  <2>1. PICK cancelled \in BOOLEAN : cancelled = TRUE
    OBVIOUS
  <2>2. SignalBuild(cancelled)
    BY <2>1 DEF OpenProject
  <2> QED BY <1>1, <1>17, <2>2, SignalKeeps
<1>19. SlotsTrue(app)'
  BY <1>1, <1>2, <1>7, <1>9, <1>13, <1>17, <1>18 DEF SlotsTrue
<1>20. ProxyValuesOK'
  <2>1. app' \in App /\ Len(app'.requests) <= Capacity
    BY <1>2, <1>5, <1>13
  <2>2. /\ analysis' \in [media : Media \cup {NoMedia}, artifact : Artifact \cup {NoArtifact}]
        /\ analysis'.media # NoMedia => analysis'.artifact \in Artifact
    BY <1>1 DEF NoAnalysis
  <2>3. said' \in [Media -> Word]
    BY <1>1 DEF Word
  <2> QED BY <1>1, <1>18, <2>1, <2>2, <2>3 DEF ProxyInv, ProxyValuesOK, WorkersInv
<1>21. Unrouted
  BY <1>2, <1>14, <1>15 DEF Unrouted
<1> QED BY <1>16, <1>18, <1>19, <1>20, <1>21 DEF ProxyInv, WorkersInv

-----------------------------------------------------------------------------
(* The workers and the originals.                                            *)

LEMMA BuildsKeep ==
  ASSUME ProxyInv, Builds
  PROVE  ProxyInv' /\ Unrouted
<1>1. WorkersInv /\ BuildNext /\ Apart /\ SlotsTrue(app)
  BY StateFacts DEF Builds
<1>2. WorkersInv' /\ build' # NoBuild /\ build'.cancel = build.cancel /\ UNCHANGED remover
  BY <1>1, BuildKeeps DEF WorkerStep
<1>3. build # NoBuild
  <2>1. build.at # "none"
    BY <1>1 DEF BuildNext, Prepare, Encode, Panics, Publish, Published, Complete, ExitBuild, BuildAt
  <2> QED BY <1>1, <2>1, BuildFacts DEF WorkersInv
<1>4. SlotsTrue(app)'
  BY <1>1, <1>2, <1>3 DEF SlotsTrue, Apart
<1> QED BY <1>1, <1>2, <1>4, SameAppKeeps DEF Apart

LEMMA RemovesKeep ==
  ASSUME ProxyInv, Removes
  PROVE  ProxyInv' /\ Unrouted
<1>1. WorkersInv /\ RemoverNext /\ Apart /\ SlotsTrue(app)
  BY StateFacts DEF Removes
<1>2. WorkersInv' /\ remover' # NoRemover /\ UNCHANGED build
  BY <1>1, RemoverKeeps
<1>3. remover # NoRemover
  BY <1>1 DEF RemoverNext, RemoveFile, ExitRemover, NoRemover, NoBuild
<1>4. SlotsTrue(app)'
  BY <1>1, <1>2, <1>3 DEF SlotsTrue, Apart
<1> QED BY <1>1, <1>2, <1>4, SameAppKeeps DEF Apart

LEMMA SourceKeeps ==
  ASSUME ProxyInv, NEW o \in Original, SourceChanges(o), Apart
  PROVE  ProxyInv' /\ Unrouted
<1>1. WorkersInv /\ SlotsTrue(app) /\ UNCHANGED <<build, remover>>
  BY StateFacts DEF SourceChanges
<1>2. WorkersInv'
  BY <1>1, SourceChangesKeeps
<1>3. SlotsTrue(app)'
  BY <1>1 DEF SlotsTrue, Apart
<1> QED BY <1>1, <1>2, <1>3, SameAppKeeps DEF Apart

\* A check comes into use by the answer to the ticket of its own.
Routed ==
  \A m \in Media : app'.records[m].enabled /\ ~app.records[m].enabled =>
    /\ app.tickets[m].activate
    /\ app.tickets[m].token \in verified
    /\ app'.records[m].artifact = app.tickets[m].artifact
    /\ app'.records[m].artifact.original = originals[m]

LEMMA PollProxyValidationRoutes ==
  ASSUME ProxyInv, NEW order \in Orders, PollProxyValidation(order)
  PROVE  Routed
<1>1. Sound(app) /\ AnswersOK
  BY StateFacts
<1>3. PICK heard : /\ Sound(heard) /\ Heard(app, heard, Len(results))
                  /\ app' = SubmitDeferred(heard, order)
  BY <1>1, PolledFacts
<1>4. PICK b : b = app'
  OBVIOUS
<1>5. Quiet(heard, b)
  BY <1>1, <1>3, <1>4, SubmitFacts
<1>6. ASSUME NEW m \in Media, b.records[m].enabled, ~app.records[m].enabled
      PROVE  /\ app.tickets[m].activate
             /\ app.tickets[m].token \in verified
             /\ b.records[m].artifact = app.tickets[m].artifact
             /\ b.records[m].artifact.original = originals[m]
  <2>1. heard.records[m].enabled /\ b.records[m].artifact = heard.records[m].artifact
    BY <1>5, <1>6 DEF Quiet
  <2>2. /\ app.tickets[m].activate /\ app.tickets[m].token \in verified
        /\ heard.records[m].artifact = app.tickets[m].artifact
        /\ app.tickets[m].artifact.original = originals[m]
    BY <1>3, <1>6, <2>1 DEF Heard
  <2> QED BY <2>1, <2>2
<1> QED BY <1>4, <1>6 DEF Routed

-----------------------------------------------------------------------------
(* The theorems.                                                             *)

LEMMA InitInv == ProxyInit => ProxyInv
<1> SUFFICES ASSUME ProxyInit
             PROVE  ProxyInv
  OBVIOUS
<1>1. /\ WorkersInit /\ NoMedia \notin Media
      /\ originals \in [Media -> Original] /\ IsInjective(originals)
      /\ results = <<>> /\ analysis = NoAnalysis /\ said = [m \in Media |-> "free"]
  BY MediaConstants DEF ProxyInit, NoMedia
<1>2. content = [o \in Original |-> 0] /\ content \in [Original -> 0..MaxVersion]
  BY <1>1, WorkerConstants DEF WorkersInit
<1>3. \A o \in Original : Fingerprint(o) \in Artifact
  BY <1>2, WorkerConstants DEF Fingerprint, Artifact
<1>4. cache \in Seq(Artifact) /\ IsInjective(cache) /\ Len(cache) <= MaxItems + 1
  <2>1. CASE cache = <<>>
    BY <2>1, WorkerConstants DEF IsInjective
  <2>2. CASE \E o \in Original : cache = <<Fingerprint(o)>>
    <3>1. PICK o \in Original : cache = <<Fingerprint(o)>>
      BY <2>2
    <3>2. cache \in Seq(Artifact) /\ DOMAIN cache = {1} /\ Len(cache) = 1
      BY <1>3, <3>1
    <3> QED BY <3>2, WorkerConstants DEF IsInjective
  <2>3. cache \in {<<>>} \cup {<<Fingerprint(o)>> : o \in Original}
    BY <1>1 DEF WorkersInit
  <2> QED BY <2>1, <2>2, <2>3
<1>5. /\ NoBuild \in WorkerState /\ NoBuild.at = "none" /\ ~NoBuild.cancel /\ NoBuild.event = NoEvent
      /\ build = NoBuild /\ remover = NoBuild /\ ~part /\ part \in BOOLEAN
  BY <1>1 DEF WorkersInit, NoBuild, NoRemover, WorkerState
<1>6. WorkersInv
  <2>1. WorkersTypeOK
    BY <1>2, <1>4, <1>5 DEF WorkersTypeOK, NoEvent, NoRemover
  <2>2. RoomKept /\ CacheTidy
    BY <1>4, <1>5 DEF RoomKept, CacheTidy
  <2> QED BY <2>1, <2>2 DEF WorkersInv
<1>7. PICK no \in BOOLEAN : ~no /\ no = FALSE
  OBVIOUS
<1>8. PICK job \in BuildSlot : job = [held |-> FALSE, media |-> NoMedia, cancelled |-> FALSE]
  <2>1. [held |-> no, media |-> NoMedia, cancelled |-> no] \in BuildSlot
    BY DEF BuildSlot
  <2> QED BY <1>7, <2>1
<1>9. PICK deletion \in RemovalSlot : deletion = [held |-> FALSE, media |-> NoMedia]
  <2>1. [held |-> no, media |-> NoMedia] \in RemovalSlot
    BY DEF RemovalSlot
  <2> QED BY <1>7, <2>1
<1>10. PICK nothing \in SUBSET Media : nothing = {}
  OBVIOUS
<1>11. PICK requests \in Seq(Check) : requests = <<>>
  <2>1. <<>> \in Seq(Check)
    OBVIOUS
  <2> QED BY <2>1
<1>12. \E checker \in {"able", "unable", "closed"} :
       app = [records |-> [m \in Media |-> NoRecord],
              status |-> [m \in Media |-> "none"],
              tickets |-> [m \in Media |-> NoTicket],
              desired |-> nothing,
              suppressed |-> nothing,
              reconcile |-> no,
              requests |-> requests,
              checker |-> checker,
              job |-> job,
              deletion |-> deletion]
  BY <1>7, <1>8, <1>9, <1>10, <1>11 DEF ProxyInit
<1>13. /\ [m \in Media |-> NoRecord] \in [Media -> ProxyRecord]
       /\ [m \in Media |-> "none"] \in [Media -> Status]
       /\ [m \in Media |-> NoTicket] \in [Media -> Ticket]
  <2>1. NoRecord \in ProxyRecord
    BY DEF NoRecord, ProxyRecord
  <2>2. NoTicket \in Ticket
    BY DEF NoTicket, Ticket
  <2> QED BY <2>1, <2>2 DEF Status
<1>14. app \in App
  BY <1>12, <1>13 DEF App
<1>15. ASSUME NEW m \in Media
       PROVE  /\ app.records[m] = NoRecord /\ app.status[m] = "none" /\ app.tickets[m] = NoTicket
              /\ m \notin Ticketed(app) /\ said[m] = "free"
  BY <1>1, <1>12 DEF Ticketed
<1>16. ~app.job.held /\ app.job.media = NoMedia /\ ~app.deletion.held /\ app.deletion.media = NoMedia
  BY <1>8, <1>9, <1>12
<1>17. ~NoTicket.activate /\ ~NoRecord.enabled /\ ~NoRecord.recheck
  BY DEF NoTicket, NoRecord
<1>18. ASSUME NEW m \in Media
       PROVE  MediaTrue(app, m) /\ TicketTrue(app, m) /\ WordTrue(app, m) /\ ShownTrue(app, m)
  <2>1. MediaTrue(app, m)
    BY <1>15, <1>17 DEF MediaTrue
  <2>2. TicketTrue(app, m)
    BY <1>15 DEF TicketTrue
  <2>3. app.job.media # m /\ app.deletion.media # m
    BY <1>1, <1>16
  <2>4. WordTrue(app, m)
    BY <1>15, <2>3 DEF WordTrue
  <2>5. ShownTrue(app, m)
    BY <1>15, <2>3 DEF ShownTrue
  <2> QED BY <2>1, <2>2, <2>4, <2>5
<1>19. SlotsTrue(app)
  BY <1>5, <1>16 DEF SlotsTrue, NoRemover
<1>20. ProxyValuesOK
  <2>1. app.requests = <<>> /\ Len(app.requests) <= Capacity
    <3>1. app.requests = <<>>
      BY <1>11, <1>12
    <3>2. Len(<<>>) <= Capacity
      BY MediaConstants
    <3> QED BY <3>1, <3>2
  <2>2. results \in Seq(Answer) /\ Len(results) <= Capacity
    BY <1>1, MediaConstants
  <2>3. /\ analysis \in [media : Media \cup {NoMedia}, artifact : Artifact \cup {NoArtifact}]
        /\ analysis.media = NoMedia
    BY <1>1 DEF NoAnalysis
  <2>4. said \in [Media -> Word]
    BY <1>1 DEF Word
  <2> QED BY <1>1, <1>6, <1>14, <2>1, <2>2, <2>3, <2>4 DEF ProxyValuesOK, WorkersInv
<1> QED BY <1>6, <1>18, <1>19, <1>20 DEF ProxyInv, WorkersInv

\* The validation worker ends, or can be started again.
LEMMA CheckerKeeps ==
  ASSUME ProxyInv, ValidatePanics \/ CheckerAble
  PROVE  ProxyInv' /\ Unrouted
<1>1. PICK checker \in {"able", "unable", "closed"} : app' = [app EXCEPT !.checker = checker]
  BY DEF ValidatePanics, CheckerAble
<1>2. UNCHANGED <<originals, results, analysis, verified, said>> /\ UNCHANGED proxyWorkerVars
  BY DEF ValidatePanics, CheckerAble, Untouched
<1>3. PICK b : b = app'
  OBVIOUS
<1>4. /\ b.records = app.records /\ b.status = app.status /\ b.tickets = app.tickets
      /\ b.desired = app.desired /\ b.suppressed = app.suppressed
      /\ b.reconcile = app.reconcile /\ b.requests = app.requests
      /\ b.job = app.job /\ b.deletion = app.deletion /\ b \in App
  BY <1>1, <1>3, StateFacts DEF App
<1>5. Sound(b)
  BY <1>4, StateFacts, SameChecks
<1>6. WorkersInv' /\ build' = build /\ remover' = remover
  BY <1>2, SameWorkers
<1>7. SlotsTrue(app)'
  BY <1>3, <1>4, <1>6, StateFacts DEF SlotsTrue
<1>8. ASSUME NEW m \in Media
      PROVE  WordTrue(app, m)' /\ ShownTrue(app, m)'
  <2>1. WordTrue(app, m) /\ ShownTrue(app, m)
    BY DEF ProxyInv
  <2>2. ShownTrue(app, m)'
    BY <1>3, <1>4, <2>1 DEF ShownTrue
  <2>3. WordTrue(app, m)'
    BY <1>2, <1>3, <1>4, <2>1 DEF WordTrue
  <2> QED BY <2>2, <2>3
<1>9. Unrouted
  BY <1>3, <1>4 DEF Unrouted
<1> QED BY <1>2, <1>3, <1>5, <1>6, <1>7, <1>8, <1>9, CoreStep, StateFacts

LEMMA NextKeeps ==
  ASSUME ProxyInv, [ProxyNext]_proxyVars
  PROVE  ProxyInv' /\ Routed
<1>1. ASSUME Unrouted
      PROVE  Routed
  BY <1>1 DEF Unrouted, Routed
<1>2. CASE MenuNext
  BY <1>1, <1>2, GenerateRefusedKeeps, GenerateKeeps, CancelKeeps, EnableKeeps, DeleteRefusedKeeps,
     DeleteKeeps DEF MenuNext
<1>3. CASE Builds
  BY <1>1, <1>3, BuildsKeep
<1>4. CASE Removes
  BY <1>1, <1>4, RemovesKeep
<1>5. CASE PollNext
  BY <1>1, <1>5, PollProxyDeleteKeeps, PollProxyJobKeeps, PollProxyValidationKeeps,
     PollProxyValidationRoutes DEF PollNext
<1>6. CASE Validate
  BY <1>1, <1>6, ValidateKeeps
<1>7. CASE EnvironmentNext
  BY <1>1, <1>7, CheckerKeeps, SourceKeeps, FallbackKeeps, FindCachedKeeps,
     RestoreCachedKeeps DEF EnvironmentNext
<1>8. CASE OpenProject
  BY <1>1, <1>8, OpenProjectKeeps
<1>9. CASE UNCHANGED proxyVars
  <2>1. WorkersInv /\ SlotsTrue(app)
    BY StateFacts
  <2>2. UNCHANGED <<app, originals, results, said, verified, analysis>> /\ UNCHANGED proxyWorkerVars
    BY <1>9 DEF proxyVars
  <2>3. WorkersInv' /\ build' = build /\ remover' = remover
    BY <2>2, SameWorkers
  <2>4. SlotsTrue(app)'
    BY <2>1, <2>2, <2>3 DEF SlotsTrue
  <2> QED BY <1>1, <2>2, <2>3, <2>4, SameAppKeeps
<1> QED BY <1>2, <1>3, <1>4, <1>5, <1>6, <1>7, <1>8, <1>9 DEF ProxyNext

\* What the menu shows, the tickets, the jobs, the user's last word and the cache fit together in
\* every state the application reaches (proxy_media_menu and the handlers of main.rs, nle-proxy).
THEOREM ProxyInvariant == ProxySafety => []ProxyInv
<1>1. ProxyInv /\ [ProxyNext]_proxyVars => ProxyInv'
  BY NextKeeps
<1> QED BY InitInv, <1>1, PTL DEF ProxySafety

LEMMA StatusTrueFollows == ProxyInv => StatusTrue
<1> SUFFICES ASSUME ProxyInv
             PROVE  StatusTrue
  OBVIOUS
<1>1. /\ app \in App /\ Len(app.requests) <= Capacity /\ Len(results) <= Capacity
      /\ IsInjective(originals) /\ SlotsTrue(app)
  BY DEF ProxyInv, ProxyValuesOK
<1>2. ASSUME NEW m \in Media
      PROVE  /\ MediaTrue(app, m) /\ ShownTrue(app, m) /\ app.status[m] \in Status
             /\ app.tickets[m].token \in Token \cup {0}
  <2>1. app.tickets[m] \in Ticket /\ app.status[m] \in Status
    BY StateFacts
  <2>2. app.tickets[m].token \in Token \cup {0}
    BY <2>1 DEF Ticket
  <2> QED BY <2>1, <2>2 DEF ProxyInv
<1>3. app.desired \cup app.suppressed \subseteq Media
  BY StateFacts
<1>4. ProxyTypeOK
  BY <1>1, <1>2, <1>3 DEF ProxyTypeOK, MediaTrue, Status
<1>5. ASSUME NEW m \in Media
      PROVE  /\ app.status[m] = "generating" <=> app.job.media = m
             /\ app.status[m] = "deleting" <=> app.deletion.media = m
             /\ app.status[m] = "checking" <=> app.tickets[m].activate
             /\ app.status[m] = "on" <=> app.records[m].enabled
             /\ app.status[m] \in {"off", "on", "checking", "deleting"} => app.records[m] # NoRecord
             /\ app.status[m] = "none" => app.records[m] = NoRecord
             /\ m \in Ticketed(app) => app.status[m] \in {"checking", "off", "on"}
             /\ app.records[m].recheck => app.reconcile
  BY <1>2 DEF MediaTrue, ShownTrue
<1>6. /\ app.job.held <=> build # NoBuild
      /\ app.deletion.held <=> remover # NoRemover
      /\ ~(app.job.held /\ app.deletion.held)
  BY <1>1 DEF SlotsTrue
<1> QED BY <1>4, <1>5, <1>6 DEF StatusTrue

\* A media is shown as generating, removing, checking or in use exactly while that is so, and no two
\* threads change the cache at once (proxy_media_menu, docs/proxy-media.md).
THEOREM MenuTellsTheTruth == ProxySafety => []StatusTrue
BY ProxyInvariant, StatusTrueFollows, PTL

\* After "use original", "cancel" or "delete" no late answer brings the proxy back.
THEOREM TheLastWordIsKept == ProxySafety => []LastWordKept
<1>1. ProxyInv => LastWordKept
  BY DEF ProxyInv, WordTrue, LastWordKept
<1> QED BY <1>1, ProxyInvariant, PTL

\* Temporary files go with their job, and the cache holds each proxy once and never more than one
\* too many (generate_proxy, prune_cache).
THEOREM TheCacheIsTidy == ProxySafety => []CacheTidy
<1>1. ProxyInv => CacheTidy
  BY DEF ProxyInv
<1> QED BY <1>1, ProxyInvariant, PTL

\* A proxy feeds the monitor only after a check of its own that found it and its original unchanged
\* (apply_proxy_validation_result).
THEOREM EveryRouteIsChecked == ProxySafety => RouteIsChecked
<1>1. ProxyInv /\ [ProxyNext]_proxyVars
        => [\A m \in Media : app'.records[m].enabled /\ ~app.records[m].enabled =>
              /\ app.tickets[m].activate
              /\ app.tickets[m].token \in verified
              /\ app'.records[m].artifact = app.tickets[m].artifact
              /\ app'.records[m].artifact.original = originals[m]]_proxyVars
  BY NextKeeps DEF Routed
<1> QED BY <1>1, ProxyInvariant, PTL DEF ProxySafety, RouteIsChecked
=============================================================================
