--------------------------- MODULE ProjectWriterProofs ---------------------------
(* Proofs about ProjectWriter, for every set of paths and every bound on requests. *)
EXTENDS ProjectWriter, SequenceTheorems, TLAPS

-----------------------------------------------------------------------------
(* Requests *)

\* A request differs from the absence of one, which has no thumbnail.
LEMMA RequestFacts ==
  /\ \A r \in Request : /\ r # NoRequest /\ r.doc \in 1..MaxSave
                        /\ r.thumbnail \in 0..MaxSave
  /\ NoRequest \notin Request /\ NoRequest.doc = 0 /\ NoRequest.thumbnail = 0
  /\ \A r \in Request \cup {NoRequest} : r.thumbnail \in 0..MaxSave
  /\ MaxSave \in Nat
BY WriterConstants DEF Request, NoRequest

\* A newer request keeps its document, and its thumbnail or the older one's.
LEMMA CoalesceFacts ==
  ASSUME NEW older \in Request \cup {NoRequest}, NEW newer \in Request
  PROVE  /\ Coalesce(older, newer) \in Request
         /\ Coalesce(older, newer).doc = newer.doc
         /\ Coalesce(older, newer).thumbnail =
              IF newer.thumbnail = 0 THEN older.thumbnail ELSE newer.thumbnail
<1>1. older.thumbnail \in 0..MaxSave
  BY RequestFacts
<1>2. CASE newer.thumbnail = 0
  BY <1>1, <1>2 DEF Coalesce, Request
<1>3. CASE newer.thumbnail # 0
  BY <1>3 DEF Coalesce
<1>4. QED
  BY <1>2, <1>3

\* So does a request that failed, with whatever has been queued meanwhile.
LEMMA RetainFacts ==
  ASSUME NEW queued \in Request \cup {NoRequest}, NEW lost \in Request
  PROVE  /\ Retain(queued, lost) \in Request
         /\ Retain(queued, lost).doc = IF queued = NoRequest THEN lost.doc ELSE queued.doc
         /\ Retain(queued, lost).thumbnail =
              IF queued.thumbnail = 0 THEN lost.thumbnail ELSE queued.thumbnail
<1>1. lost.thumbnail \in 0..MaxSave
  BY RequestFacts
<1>2. CASE queued = NoRequest
  BY <1>2, RequestFacts DEF Retain
<1>3. CASE queued # NoRequest /\ queued.thumbnail = 0
  BY <1>1, <1>3 DEF Retain, Request
<1>4. CASE queued # NoRequest /\ queued.thumbnail # 0
  BY <1>4 DEF Retain
<1>5. QED
  BY <1>2, <1>3, <1>4

-----------------------------------------------------------------------------
(* The inductive invariant *)

\* What it says of one path.
InOrder(p) ==
  /\ asked[p] = IF pending[p] # NoRequest THEN pending[p].doc
                ELSE IF InFlight(p) # NoRequest THEN InFlight(p).doc
                ELSE disk[p].doc
  /\ image[p] = IF pending[p].thumbnail # 0 THEN pending[p].thumbnail
                ELSE IF InFlight(p).thumbnail # 0 THEN InFlight(p).thumbnail
                ELSE disk[p].thumbnail
  /\ InFlight(p) # NoRequest => disk[p].doc <= InFlight(p).doc /\ InFlight(p).doc <= asked[p]

\* A path whose requests, files and history a step leaves alone.
LEMMA SameInOrder ==
  ASSUME NEW p \in Path, InOrder(p), InFlight(p)' = InFlight(p),
         asked'[p] = asked[p], image'[p] = image[p], pending'[p] = pending[p],
         disk'[p] = disk[p]
  PROVE  InOrder(p)'
BY DEF InOrder

\* The types of one path's parts.
LEMMA PathFacts ==
  ASSUME WriterInv, NEW p \in Path
  PROVE  /\ pending[p] \in Request \cup {NoRequest} /\ hand[p] \in Request \cup {NoRequest}
         /\ InFlight(p) \in Request \cup {NoRequest}
         /\ asked[p] \in 0..MaxSave /\ image[p] \in 0..MaxSave
         /\ disk[p] \in [doc : 0..MaxSave, thumbnail : 0..MaxSave]
         /\ disk[p].doc \in 0..MaxSave /\ disk[p].thumbnail \in 0..MaxSave
         /\ disk[p].doc <= asked[p] /\ image[p] <= asked[p]
         /\ InOrder(p)
<1>1. /\ pending[p] \in Request \cup {NoRequest} /\ hand[p] \in Request \cup {NoRequest}
      /\ asked[p] \in 0..MaxSave /\ image[p] \in 0..MaxSave
      /\ disk[p] \in [doc : 0..MaxSave, thumbnail : 0..MaxSave]
      /\ disk[p].doc <= asked[p] /\ image[p] <= asked[p]
  BY DEF WriterInv, WriterTypeOK, HistoryTypeOK
<1>2. InFlight(p) \in Request \cup {NoRequest}
  BY <1>1 DEF InFlight, WriterInv, HistoryTypeOK
<1>3. InOrder(p)
  BY DEF WriterInv, NewestInOrder, InOrder
<1>4. QED
  BY <1>1, <1>2, <1>3

\* Nothing is queued, taken or saved at first.
LEMMA WriterInitInv == WriterInit => WriterInv
<1> SUFFICES ASSUME WriterInit PROVE WriterInv
  OBVIOUS
<1>1. /\ \A p \in Path : /\ pending[p] = NoRequest /\ hand[p] = NoRequest /\ disk[p] = NoRequest
                         /\ asked[p] = 0 /\ image[p] = 0
      /\ MaxSave \in Nat /\ failed = NoFailure
  BY WriterConstants DEF WriterInit, NoRequests
<1>2. NoRequest \in [doc : 0..MaxSave, thumbnail : 0..MaxSave]
  BY <1>1 DEF NoRequest
<1>3. WriterTypeOK
  <2>1. /\ pending \in [Path -> Request \cup {NoRequest}]
        /\ hand \in [Path -> Request \cup {NoRequest}]
    BY DEF WriterInit, NoRequests
  <2>2. \A p \in Path : disk[p].doc <= asked[p] /\ image[p] <= asked[p]
    BY <1>1 DEF NoRequest
  <2>3. QED
    BY <2>1, <2>2 DEF WriterInit, WriterTypeOK
<1>4. HistoryTypeOK
  BY <1>1, <1>2 DEF WriterInit, HistoryTypeOK, NoRequests
<1>5. WorkerShape
  BY <1>1 DEF WriterInit, WorkerShape
<1>6. NewestInOrder
  BY <1>1 DEF NewestInOrder, InFlight, NoRequest
<1>7. FailuresReported
  BY DEF WriterInit, FailuresReported
<1>8. QED
  BY <1>3, <1>4, <1>5, <1>6, <1>7 DEF WriterInv

\* A request replaces the document queued before it.
LEMMA SaveLatestInv ==
  ASSUME WriterInv, NEW p \in Path, SaveLatest(p)
  PROVE  WriterInv'
<1>1. /\ owner = "running" /\ asked[p] < MaxSave /\ owner' = "wake"
      /\ asked' = [asked EXCEPT ![p] = @ + 1]
      /\ UNCHANGED <<channel, worker, command, hand, failed, disk, errors, reported>>
  BY DEF SaveLatest, workerVars
<1>2. /\ asked \in [Path -> 0..MaxSave] /\ image \in [Path -> 0..MaxSave]
      /\ pending \in [Path -> Request \cup {NoRequest}] /\ MaxSave \in Nat
  BY WriterConstants DEF WriterInv, WriterTypeOK, HistoryTypeOK
<1>3. /\ asked' \in [Path -> 0..MaxSave] /\ asked'[p] = asked[p] + 1
      /\ \A q \in Path \ {p} : asked'[q] = asked[q]
      /\ asked'[p] \in 1..MaxSave
  BY <1>1, <1>2
<1>4. PICK withImage \in {Thumbnails, FALSE} :
        LET thumbnail == IF withImage THEN asked'[p] ELSE 0 IN
        /\ pending' = [pending EXCEPT
             ![p] = Coalesce(pending[p], [doc |-> asked'[p], thumbnail |-> thumbnail])]
        /\ image' = IF withImage THEN [image EXCEPT ![p] = thumbnail] ELSE image
  BY DEF SaveLatest
<1> DEFINE t == IF withImage THEN asked'[p] ELSE 0
           r == [doc |-> asked'[p], thumbnail |-> t]
           k == Coalesce(pending[p], r)
<1>5. /\ r \in Request /\ r.doc = asked'[p] /\ r.thumbnail = t /\ t \in 0..MaxSave
  BY <1>3, WriterConstants DEF Request
<1>6. k \in Request /\ k.doc = asked'[p] /\ k.thumbnail = IF t = 0 THEN pending[p].thumbnail ELSE t
  BY <1>2, <1>5, CoalesceFacts
<1>7. /\ pending' = [pending EXCEPT ![p] = k]
      /\ image' = IF withImage THEN [image EXCEPT ![p] = t] ELSE image
  BY <1>4
<1>8. t # 0 <=> withImage
  BY <1>3
<1> HIDE DEF k, r, t
<1>9. /\ pending' \in [Path -> Request \cup {NoRequest}] /\ pending'[p] = k
      /\ \A q \in Path \ {p} : pending'[q] = pending[q]
  BY <1>2, <1>6, <1>7
<1>10. /\ image' \in [Path -> 0..MaxSave] /\ image'[p] = IF withImage THEN t ELSE image[p]
       /\ \A q \in Path \ {p} : image'[q] = image[q]
  BY <1>2, <1>5, <1>7
<1>11. /\ disk[p].doc \in 0..MaxSave /\ disk[p].doc <= asked[p] /\ image[p] <= asked[p]
       /\ image[p] \in 0..MaxSave /\ InOrder(p) /\ asked[p] \in 0..MaxSave
       /\ InFlight(p) \in Request \cup {NoRequest}
  BY PathFacts
<1>12. \A q \in Path : InFlight(q)' = InFlight(q)
  BY <1>1 DEF InFlight
<1>13. t <= asked'[p]
  BY <1>3, <1>11 DEF t
<1>14. WriterTypeOK'
  <2>1. \A q \in Path : disk[q].doc <= asked'[q] /\ image'[q] <= asked'[q]
    <3>1. disk[p].doc <= asked'[p] /\ image'[p] <= asked'[p]
      BY <1>2, <1>3, <1>10, <1>11, <1>13
    <3>2. QED
      BY <1>3, <1>10, <3>1, PathFacts
  <2>2. QED
    BY <1>1, <1>9, <2>1 DEF WriterInv, WriterTypeOK
<1>15. HistoryTypeOK'
  BY <1>1, <1>3, <1>10 DEF WriterInv, HistoryTypeOK
<1>16. WorkerShape'
  BY <1>1 DEF WriterInv, WorkerShape
<1>17. InOrder(p)'
  <2>1. InFlight(p) # NoRequest => InFlight(p).doc <= asked'[p]
    <3>1. InFlight(p) # NoRequest => InFlight(p).doc \in 1..MaxSave /\ InFlight(p).doc <= asked[p]
      BY <1>11, RequestFacts DEF InOrder
    <3>2. QED
      BY <1>2, <1>3, <1>11, <3>1
  <2>2. image'[p] = IF k.thumbnail # 0 THEN k.thumbnail
                    ELSE IF InFlight(p).thumbnail # 0 THEN InFlight(p).thumbnail
                    ELSE disk[p].thumbnail
    BY <1>6, <1>8, <1>10, <1>11 DEF InOrder
  <2>3. k # NoRequest
    BY <1>6, RequestFacts
  <2>4. QED
    BY <1>1, <1>6, <1>9, <1>11, <1>12, <2>1, <2>2, <2>3 DEF InOrder
<1>18. NewestInOrder'
  <2>1. ASSUME NEW q \in Path \ {p}
        PROVE  InOrder(q)'
    BY <1>1, <1>3, <1>9, <1>10, <1>12, PathFacts, SameInOrder
  <2>2. QED
    BY <1>17, <2>1 DEF NewestInOrder, InOrder
<1>19. FailuresReported'
  <2>1. command = "wake"
    BY <1>1 DEF WriterInv, WriterTypeOK
  <2>2. QED
    BY <1>1, <2>1 DEF FailuresReported
<1>20. QED
  BY <1>14, <1>15, <1>16, <1>18, <1>19 DEF WriterInv

\* The owner's other steps leave requests and files alone.
LEMMA OwnerInv ==
  ASSUME WriterInv, Wake \/ OwnerSends \/ PollErrors
  PROVE  WriterInv'
<1>1. UNCHANGED <<pending, asked, image, worker, command, hand, failed, disk, reported>>
  BY DEF Wake, OwnerSends, Send, PollErrors, workerVars, ownerVars
<1>2. \A p \in Path : InFlight(p)' = InFlight(p)
  BY <1>1 DEF InFlight
<1>3. NewestInOrder'
  BY <1>1, <1>2 DEF WriterInv, NewestInOrder
<1>4. HistoryTypeOK'
  BY <1>1 DEF WriterInv, HistoryTypeOK
<1>5. command = "wake"
  BY DEF Wake, OwnerSends, Send, PollErrors, WriterInv, WriterTypeOK
<1>6. WorkerShape' /\ FailuresReported'
  BY <1>1, <1>5 DEF WriterInv, WorkerShape, FailuresReported
<1>7. /\ channel' \in {<<>>, <<"wake">>, <<"flush">>, <<"shutdown">>}
      /\ owner' \in {"running", "wake", "flushing", "closing", "closed"}
      /\ owner' \in {"flushing", "closing"} <=>
           channel' \in {<<"flush">>, <<"shutdown">>} \/ command # "wake"
      /\ errors' \subseteq Path
  <2>1. /\ channel \in {<<>>, <<"wake">>, <<"flush">>, <<"shutdown">>}
        /\ errors \subseteq Path
        /\ owner \in {"running", "wake", "flushing", "closing", "closed"}
        /\ owner \in {"flushing", "closing"} <=>
             channel \in {<<"flush">>, <<"shutdown">>} \/ command # "wake"
    BY DEF WriterInv, WriterTypeOK
  <2>2. /\ <<"wake">> # <<"flush">> /\ <<"wake">> # <<"shutdown">>
        /\ <<>> # <<"flush">> /\ <<>> # <<"shutdown">>
    OBVIOUS
  <2>3. CASE Wake
    BY <1>5, <2>1, <2>2, <2>3 DEF Wake
  <2>4. CASE OwnerSends
    BY <1>5, <2>1, <2>2, <2>4 DEF OwnerSends, Send
  <2>5. CASE PollErrors
    BY <1>5, <2>1, <2>2, <2>5 DEF PollErrors, ownerVars
  <2>6. QED
    BY <2>3, <2>4, <2>5
<1>8. WriterTypeOK'
  BY <1>1, <1>7 DEF WriterInv, WriterTypeOK
<1>9. QED
  BY <1>3, <1>4, <1>6, <1>8 DEF WriterInv

\* The worker receives a command.
LEMMA ReceiveInv ==
  ASSUME WriterInv, Receive
  PROVE  WriterInv'
<1>1. /\ worker = "receiving" /\ worker' = "taking" /\ channel # <<>>
      /\ command' = Head(channel) /\ channel' = Tail(channel)
      /\ UNCHANGED <<pending, owner, asked, image, hand, failed, disk, errors, reported>>
  BY DEF Receive, ownerVars
<1>2. command = "wake" /\ hand = NoRequests /\ failed = NoFailure
  BY <1>1 DEF WriterInv, WriterTypeOK, WorkerShape
<1>3. channel \in {<<"wake">>, <<"flush">>, <<"shutdown">>}
  BY <1>1 DEF WriterInv, WriterTypeOK
<1>4. /\ channel' = <<>> /\ command' \in {"wake", "flush", "shutdown"}
      /\ command' # "wake" <=> channel \in {<<"flush">>, <<"shutdown">>}
  <2>1. PICK c \in {"wake", "flush", "shutdown"} : channel = <<c>>
    BY <1>3
  <2>2. channel' = <<>> /\ command' = c
    BY <1>1, <2>1
  <2>3. channel \in {<<"flush">>, <<"shutdown">>} <=> c # "wake"
    BY <2>1
  <2>4. QED
    BY <2>1, <2>2, <2>3
<1>5. <<>> \notin {<<"flush">>, <<"shutdown">>}
  OBVIOUS
<1>6. WriterTypeOK'
  BY <1>1, <1>2, <1>4, <1>5 DEF WriterInv, WriterTypeOK
<1>7. HistoryTypeOK'
  BY <1>1, <1>4 DEF WriterInv, HistoryTypeOK
<1>8. WorkerShape'
  BY <1>1, <1>2, <1>4 DEF WriterInv, WorkerShape, NoRequests
<1>9. NewestInOrder'
  BY <1>1 DEF WriterInv, NewestInOrder, InFlight
<1>10. FailuresReported'
  BY <1>1 DEF FailuresReported
<1>11. QED
  BY <1>6, <1>7, <1>8, <1>9, <1>10 DEF WriterInv

\* It takes the whole map, with nothing in its hands.
LEMMA TakeInv ==
  ASSUME WriterInv, Take
  PROVE  WriterInv'
<1>1. /\ worker = "taking" /\ worker' = "saving" /\ hand' = pending /\ pending' = NoRequests
      /\ UNCHANGED <<channel, owner, asked, image, command, failed, disk, errors, reported>>
  BY DEF Take, ownerVars
<1>2. hand = NoRequests /\ failed = NoFailure
  BY <1>1 DEF WriterInv, WriterTypeOK, WorkerShape
<1>3. \A p \in Path : pending'[p] = NoRequest /\ InFlight(p) = NoRequest
                       /\ InFlight(p)' = pending[p]
  BY <1>1, <1>2 DEF NoRequests, InFlight
<1>4. /\ pending' \in [Path -> Request \cup {NoRequest}]
      /\ hand' \in [Path -> Request \cup {NoRequest}]
  BY <1>1 DEF WriterInv, WriterTypeOK, NoRequests
<1>5. WriterTypeOK'
  BY <1>1, <1>2, <1>4 DEF WriterInv, WriterTypeOK
<1>6. HistoryTypeOK'
  BY <1>1 DEF WriterInv, HistoryTypeOK
<1>7. WorkerShape'
  BY <1>1, <1>2 DEF WriterInv, WorkerShape
<1>8. ASSUME NEW p \in Path
      PROVE  InOrder(p)'
  <2>1. /\ pending'[p] = NoRequest /\ InFlight(p) = NoRequest /\ InFlight(p)' = pending[p]
        /\ UNCHANGED <<asked, image, disk>> /\ InOrder(p)
        /\ pending[p] \in Request \cup {NoRequest}
        /\ asked[p] \in 0..MaxSave /\ disk[p].doc \in 0..MaxSave /\ disk[p].doc <= asked[p]
    BY <1>1, <1>3, PathFacts
  <2>2. NoRequest.thumbnail = 0
    BY RequestFacts
  <2>3. InFlight(p)' # NoRequest => disk[p].doc <= InFlight(p)'.doc /\ InFlight(p)'.doc <= asked[p]
    BY <2>1, RequestFacts DEF InOrder
  <2>4. QED
    BY <2>1, <2>2, <2>3 DEF InOrder
<1>9. NewestInOrder'
  BY <1>8 DEF NewestInOrder, InOrder
<1>10. FailuresReported'
  BY <1>3 DEF FailuresReported
<1>11. QED
  BY <1>5, <1>6, <1>7, <1>9, <1>10 DEF WriterInv

\* It saves the document of a path, and the thumbnail that comes with it.
LEMMA PersistInv ==
  ASSUME WriterInv, NEW p \in Path, Persist(p)
  PROVE  WriterInv'
<1> DEFINE t == IF hand[p].thumbnail = 0 THEN disk[p].thumbnail ELSE hand[p].thumbnail
<1>1. /\ worker = "saving" /\ hand[p] # NoRequest /\ hand' = [hand EXCEPT ![p] = NoRequest]
      /\ UNCHANGED <<pending, channel, owner, asked, image, worker, command, failed, errors, reported>>
      /\ failed = NoFailure
  BY DEF Persist, ownerVars, WriterInv, WriterTypeOK
<1>2. /\ hand \in [Path -> Request \cup {NoRequest}] /\ hand[p] \in Request
      /\ disk \in [Path -> [doc : 0..MaxSave, thumbnail : 0..MaxSave]]
  BY <1>1 DEF WriterInv, WriterTypeOK, HistoryTypeOK
<1>3. /\ hand[p].doc \in 1..MaxSave /\ hand[p].thumbnail \in 0..MaxSave /\ MaxSave \in Nat
      /\ disk[p].doc \in 0..MaxSave /\ disk[p].thumbnail \in 0..MaxSave /\ t \in 0..MaxSave
  BY <1>2, RequestFacts
<1>4. disk' = [disk EXCEPT ![p] = [doc |-> hand[p].doc, thumbnail |-> t]]
  <2> DEFINE written == [disk EXCEPT ![p].doc = hand[p].doc]
  <2>1. disk' = [written EXCEPT ![p].thumbnail =
                   IF hand[p].thumbnail = 0 THEN @ ELSE hand[p].thumbnail]
    BY DEF Persist
  <2>2. /\ written \in [Path -> [doc : 0..MaxSave, thumbnail : 0..MaxSave]]
        /\ written[p] = [doc |-> hand[p].doc, thumbnail |-> disk[p].thumbnail]
        /\ \A q \in Path \ {p} : written[q] = disk[q]
    BY <1>2, <1>3
  <2> HIDE DEF written
  <2>3. disk' = [written EXCEPT ![p] = [doc |-> hand[p].doc, thumbnail |-> t]]
    <3>1. disk' = [written EXCEPT ![p].thumbnail = t]
      BY <2>1, <2>2
    <3>2. [written[p] EXCEPT !.thumbnail = t] = [doc |-> hand[p].doc, thumbnail |-> t]
      BY <2>2
    <3>3. QED
      BY <2>2, <3>1, <3>2
  <2>4. QED
    BY <1>2, <2>2, <2>3
<1> HIDE DEF t
<1>5. /\ disk'[p].doc = hand[p].doc /\ disk'[p].thumbnail = t
      /\ \A q \in Path \ {p} : disk'[q] = disk[q]
      /\ disk' \in [Path -> [doc : 0..MaxSave, thumbnail : 0..MaxSave]]
  BY <1>2, <1>3, <1>4
<1>6. /\ hand' \in [Path -> Request \cup {NoRequest}] /\ hand'[p] = NoRequest
      /\ \A q \in Path \ {p} : hand'[q] = hand[q]
  BY <1>1, <1>2
<1>7. /\ InFlight(p) = hand[p] /\ InFlight(p)' = NoRequest
      /\ \A q \in Path \ {p} : InFlight(q)' = InFlight(q)
  BY <1>1, <1>6 DEF InFlight
<1>8. WriterTypeOK'
  <2>1. disk'[p].doc <= asked[p]
    BY <1>1, <1>5, <1>7, PathFacts DEF InOrder
  <2>2. \A q \in Path : disk'[q].doc <= asked[q]
    BY <1>5, <2>1, PathFacts
  <2>3. QED
    BY <1>1, <1>6, <2>2 DEF WriterInv, WriterTypeOK
<1>9. HistoryTypeOK'
  BY <1>1, <1>5 DEF WriterInv, HistoryTypeOK
<1>10. WorkerShape'
  BY <1>1 DEF WriterInv, WorkerShape
<1>11. InOrder(p)'
  <2>1. InOrder(p) /\ pending[p] \in Request \cup {NoRequest}
    BY PathFacts
  <2>2. asked[p] = IF pending[p] # NoRequest THEN pending[p].doc ELSE hand[p].doc
    BY <1>1, <1>7, <2>1 DEF InOrder
  <2>3. image[p] = IF pending[p].thumbnail # 0 THEN pending[p].thumbnail ELSE t
    BY <1>7, <2>1 DEF InOrder, t
  <2>4. NoRequest.thumbnail = 0
    BY RequestFacts
  <2>5. QED
    BY <1>1, <1>5, <1>7, <2>2, <2>3, <2>4 DEF InOrder
<1>12. NewestInOrder'
  <2>1. ASSUME NEW q \in Path \ {p}
        PROVE  InOrder(q)'
    BY <1>1, <1>5, <1>7, PathFacts, SameInOrder
  <2>2. QED
    BY <1>11, <2>1 DEF NewestInOrder, InOrder
<1>13. FailuresReported'
  BY <1>1 DEF WriterInv, FailuresReported
<1>14. QED
  BY <1>8, <1>9, <1>10, <1>12, <1>13 DEF WriterInv

\* It fails to, or at the thumbnail only: the request is still in its hands.
LEMMA PersistFailsInv ==
  ASSUME WriterInv, NEW p \in Path, PersistFails(p)
  PROVE  WriterInv'
<1>1. /\ worker = "saving" /\ worker' = "failing" /\ hand[p] # NoRequest
      /\ hand' = [hand EXCEPT ![p] = NoRequest] /\ failed' = <<p, hand[p]>>
      /\ UNCHANGED <<pending, channel, owner, asked, image, command, errors, reported>>
      /\ failed = NoFailure
  BY DEF PersistFails, ownerVars, WriterInv, WriterTypeOK
<1>2. /\ hand \in [Path -> Request \cup {NoRequest}] /\ hand[p] \in Request
      /\ disk \in [Path -> [doc : 0..MaxSave, thumbnail : 0..MaxSave]]
      /\ hand[p].doc \in 1..MaxSave /\ MaxSave \in Nat
  BY <1>1, RequestFacts DEF WriterInv, WriterTypeOK, HistoryTypeOK
<1>3. failed' # NoFailure /\ failed'[1] = p /\ failed'[2] = hand[p] /\ failed' \in Path \X Request
  BY <1>1, <1>2 DEF NoFailure
<1>4. /\ hand' \in [Path -> Request \cup {NoRequest}] /\ hand'[p] = NoRequest
      /\ \A q \in Path \ {p} : hand'[q] = hand[q]
  BY <1>1, <1>2
<1>5. /\ InFlight(p) = hand[p]
      /\ \A q \in Path : InFlight(q)' = InFlight(q)
  BY <1>1, <1>3, <1>4 DEF InFlight
<1>6. disk' = disk \/ (hand[p].thumbnail # 0 /\ disk' = [disk EXCEPT ![p].doc = hand[p].doc])
  BY DEF PersistFails
<1>7. /\ disk' \in [Path -> [doc : 0..MaxSave, thumbnail : 0..MaxSave]]
      /\ disk'[p].thumbnail = disk[p].thumbnail
      /\ disk'[p].doc \in {disk[p].doc, hand[p].doc}
      /\ \A q \in Path \ {p} : disk'[q] = disk[q]
  BY <1>2, <1>6
<1>8. /\ InOrder(p) /\ disk[p].doc \in 0..MaxSave /\ asked[p] \in 0..MaxSave
      /\ disk[p].doc <= hand[p].doc /\ hand[p].doc <= asked[p]
  BY <1>1, <1>5, PathFacts DEF InOrder
<1>9. WriterTypeOK'
  <2>1. \A q \in Path : disk'[q].doc <= asked[q]
    BY <1>2, <1>7, <1>8, PathFacts
  <2>2. QED
    BY <1>1, <1>3, <1>4, <2>1 DEF WriterInv, WriterTypeOK
<1>10. HistoryTypeOK'
  BY <1>1, <1>3, <1>7 DEF WriterInv, HistoryTypeOK
<1>11. WorkerShape'
  BY <1>1, <1>3, <1>4 DEF WriterInv, WorkerShape
<1>12. InOrder(p)'
  <2>1. disk'[p].doc <= hand[p].doc
    BY <1>2, <1>7, <1>8
  <2>2. QED
    BY <1>1, <1>5, <1>7, <1>8, <2>1 DEF InOrder
<1>13. NewestInOrder'
  <2>1. ASSUME NEW q \in Path \ {p}
        PROVE  InOrder(q)'
    BY <1>1, <1>5, <1>7, PathFacts, SameInOrder
  <2>2. QED
    BY <1>12, <2>1 DEF NewestInOrder, InOrder
<1>14. FailuresReported'
  BY <1>1 DEF WriterInv, FailuresReported
<1>15. QED
  BY <1>9, <1>10, <1>11, <1>13, <1>14 DEF WriterInv

\* It puts the request back, behind what has been queued meanwhile, and reports the failure.
LEMMA RecordInv ==
  ASSUME WriterInv, Record
  PROVE  WriterInv'
<1>0. failed # NoFailure /\ failed[1] \in Path /\ failed[2] \in Request
      /\ hand[failed[1]] = NoRequest
  BY DEF Record, WriterInv, WriterTypeOK, HistoryTypeOK, WorkerShape
<1>p. PICK p \in Path : p = failed[1]
  BY <1>0
<1>r. PICK r : r = Retain(pending[p], failed[2])
  OBVIOUS
<1>1. /\ worker = "failing" /\ worker' = "saving" /\ failed' = NoFailure
      /\ pending' = [pending EXCEPT ![p] = r] /\ errors' = errors \cup {p}
      /\ reported' = [reported EXCEPT ![p] = failed[2].doc]
      /\ UNCHANGED <<channel, owner, asked, image, command, hand, disk>>
  BY <1>p, <1>r DEF Record, ownerVars
<1>2. failed # NoFailure /\ failed[1] = p /\ failed[2] \in Request /\ hand[p] = NoRequest
  BY <1>0, <1>p
<1>3. /\ pending \in [Path -> Request \cup {NoRequest}] /\ pending[p] \in Request \cup {NoRequest}
      /\ reported \in [Path -> 0..MaxSave] /\ failed[2].doc \in 0..MaxSave
  BY <1>2, RequestFacts DEF WriterInv, WriterTypeOK, HistoryTypeOK
<1>4. /\ r \in Request
      /\ r.doc = IF pending[p] = NoRequest THEN failed[2].doc ELSE pending[p].doc
      /\ r.thumbnail = IF pending[p].thumbnail = 0 THEN failed[2].thumbnail ELSE pending[p].thumbnail
  BY <1>2, <1>3, <1>r, RetainFacts
<1>5. /\ InFlight(p) = failed[2] /\ InFlight(p)' = NoRequest
      /\ \A q \in Path \ {p} : InFlight(q)' = InFlight(q)
  BY <1>1, <1>2 DEF InFlight
<1>6. /\ pending' \in [Path -> Request \cup {NoRequest}] /\ pending'[p] = r
      /\ \A q \in Path \ {p} : pending'[q] = pending[q]
  BY <1>1, <1>2, <1>3, <1>4
<1>7. WriterTypeOK'
  BY <1>1, <1>2, <1>6 DEF WriterInv, WriterTypeOK
<1>8. HistoryTypeOK'
  BY <1>1, <1>2, <1>3 DEF WriterInv, HistoryTypeOK
<1>9. WorkerShape'
  BY <1>1 DEF WriterInv, WorkerShape
<1>10. InOrder(p)'
  <2>1. InOrder(p)
    BY <1>2, PathFacts
  <2>2. r # NoRequest /\ failed[2] # NoRequest /\ NoRequest.thumbnail = 0
    BY <1>2, <1>4, RequestFacts
  <2>3. asked[p] = r.doc
    BY <1>4, <1>5, <2>1, <2>2 DEF InOrder
  <2>4. image[p] = IF r.thumbnail # 0 THEN r.thumbnail ELSE disk[p].thumbnail
    BY <1>4, <1>5, <2>1 DEF InOrder
  <2>5. QED
    BY <1>1, <1>5, <1>6, <2>2, <2>3, <2>4 DEF InOrder
<1>11. NewestInOrder'
  <2>1. ASSUME NEW q \in Path \ {p}
        PROVE  InOrder(q)'
    BY <1>1, <1>5, <1>6, PathFacts, SameInOrder
  <2>2. QED
    BY <1>2, <1>10, <2>1 DEF NewestInOrder, InOrder
<1>12. FailuresReported'
  BY <1>1, <1>2, <1>6 DEF WriterInv, FailuresReported
<1>13. QED
  BY <1>7, <1>8, <1>9, <1>11, <1>12 DEF WriterInv

\* It answers the command, once its hands are empty.
LEMMA FinishInv ==
  ASSUME WriterInv, Finish
  PROVE  WriterInv'
<1>1. /\ worker = "saving" /\ hand = NoRequests /\ worker' \in {"receiving", "stopped"}
      /\ owner' = IF command = "wake" THEN owner
                  ELSE IF command = "flush" THEN "running" ELSE "closed"
      /\ command' = "wake" /\ failed = NoFailure
      /\ UNCHANGED <<pending, channel, asked, image, hand, failed, disk, errors, reported>>
  BY DEF Finish, WriterInv, WriterTypeOK
<1>2. command # "wake" => channel \in {<<>>, <<"wake">>}
  BY DEF WriterInv, WorkerShape
<1>3. /\ <<"wake">> # <<"flush">> /\ <<"wake">> # <<"shutdown">>
      /\ <<>> # <<"flush">> /\ <<>> # <<"shutdown">>
  OBVIOUS
<1>4. /\ owner' \in {"running", "wake", "flushing", "closing", "closed"}
      /\ owner' \in {"flushing", "closing"} <=> channel \in {<<"flush">>, <<"shutdown">>}
  BY <1>1, <1>2, <1>3 DEF WriterInv, WriterTypeOK
<1>5. WriterTypeOK'
  BY <1>1, <1>4 DEF WriterInv, WriterTypeOK
<1>6. HistoryTypeOK'
  BY <1>1 DEF WriterInv, HistoryTypeOK
<1>7. WorkerShape'
  BY <1>1 DEF WriterInv, WorkerShape, NoRequests
<1>8. NewestInOrder'
  BY <1>1 DEF WriterInv, NewestInOrder, InFlight
<1>9. FailuresReported'
  BY <1>1 DEF FailuresReported
<1>10. QED
  BY <1>5, <1>6, <1>7, <1>8, <1>9 DEF WriterInv

-----------------------------------------------------------------------------
(* The safety properties *)

\* Every step of the two threads preserves the invariant.
LEMMA WriterStepInv == WriterInv /\ [WriterNext]_writerVars => WriterInv'
<1> SUFFICES ASSUME WriterInv, [WriterNext]_writerVars
             PROVE  WriterInv'
  OBVIOUS
<1>1. CASE OwnerNext
  BY <1>1, SaveLatestInv, OwnerInv DEF OwnerNext
<1>2. CASE WorkerNext
  BY <1>2, ReceiveInv, TakeInv, PersistInv, PersistFailsInv, RecordInv, FinishInv DEF WorkerNext
<1>3. CASE UNCHANGED writerVars
  <2>1. UNCHANGED <<pending, channel, owner, asked, image, worker, command, hand, failed,
                    disk, errors, reported>>
    BY <1>3 DEF writerVars, ownerVars, workerVars
  <2>2. QED
    BY <2>1 DEF WriterInv, WriterTypeOK, HistoryTypeOK, WorkerShape, NewestInOrder, InFlight,
                FailuresReported
<1>4. QED
  BY <1>1, <1>2, <1>3 DEF WriterNext

\* The newest document and thumbnail of a path are in the first of map, worker and disk that
\* has one, whatever is coalesced, fails and is put back, and in whatever order.
THEOREM WriterInvariant == WriterSafety => []WriterInv
<1>1. QED
  BY WriterInitInv, WriterStepInv, PTL DEF WriterSafety

\* So no save is lost between the lock of the map, the worker and a failure it records.
THEOREM NewestKeptAlways == WriterSafety => []NewestKept
<1>1. WriterInv => NewestKept
  <2> SUFFICES ASSUME WriterInv, NEW p \in Path
               PROVE  LET held == {pending[p], hand[p], disk[p]}
                          \cup (IF failed # NoFailure /\ failed[1] = p THEN {failed[2]} ELSE {})
                      IN  /\ asked[p] \in {r.doc : r \in held}
                          /\ image[p] \in {r.thumbnail : r \in held}
    BY DEF NewestKept, WriterInv
  <2> DEFINE held == {pending[p], hand[p], disk[p]}
                     \cup (IF failed # NoFailure /\ failed[1] = p THEN {failed[2]} ELSE {})
  <2>1. InFlight(p) \in held /\ pending[p] \in held /\ disk[p] \in held
    BY DEF InFlight
  <2>2. InOrder(p)
    BY PathFacts
  <2>3. QED
    BY <2>1, <2>2 DEF InOrder
<1>2. QED
  BY <1>1, WriterInvariant, PTL

\* A flush and the shutdown are answered by the worker's last step of serving them, and then
\* whatever is not on disk has failed and is reported.
LEMMA FlushStep ==
  ASSUME WriterInv, [WriterNext]_writerVars,
         owner' # owner, owner \in {"flushing", "closing"}, NEW p \in Path
  PROVE  p \in errors \/ disk[p] = [doc |-> asked[p], thumbnail |-> image[p]]
<1>1. Finish /\ command # "wake"
  BY DEF WriterNext, OwnerNext, OwnerSends, Send, WorkerNext, SaveLatest, Wake, PollErrors,
         Receive, Take, Persist, PersistFails, Record, Finish, ownerVars, writerVars
<1>2. worker = "saving" /\ failed = NoFailure /\ hand[p] = NoRequest
  BY <1>1 DEF Finish, WriterInv, WriterTypeOK, NoRequests
<1>3. InFlight(p) = NoRequest /\ NoRequest.thumbnail = 0
  BY <1>2, RequestFacts DEF InFlight
<1>4. pending[p] # NoRequest => p \in errors
  BY <1>1, <1>2 DEF WriterInv, FailuresReported
<1>5. CASE pending[p] = NoRequest
  <2>1. /\ disk[p] \in [doc : 0..MaxSave, thumbnail : 0..MaxSave]
        /\ asked[p] = disk[p].doc /\ image[p] = disk[p].thumbnail
    BY <1>3, <1>5, PathFacts DEF InOrder
  <2>2. QED
    BY <2>1
<1>6. QED
  BY <1>4, <1>5

\* What flush_project_autosave builds on, for every history of requests and failures.
THEOREM FlushIsDurableAlways == WriterSafety => FlushIsDurable
<1>1. WriterInv /\ [WriterNext]_writerVars =>
        [owner' # owner /\ owner \in {"flushing", "closing"} =>
           \A p \in Path : p \in errors \/ disk[p] = [doc |-> asked[p], thumbnail |-> image[p]]
        ]_writerVars
  BY FlushStep
<1>2. QED
  BY <1>1, WriterInvariant, PTL DEF WriterSafety, FlushIsDurable

-----------------------------------------------------------------------------
(* The service it implements *)

\* The documents after the a-th, up to the b-th: those of a path that are queued and not
\* on disk, its first on disk being the a-th.
Documents(a, b) == [i \in 1..b - a |-> a + i]

\* They are in order and without a gap.
LEMMA DocumentsShape ==
  ASSUME NEW m \in Nat, NEW n \in Nat, m <= n
  PROVE  /\ Documents(m, n) \in Seq(Nat) /\ Len(Documents(m, n)) = n - m
         /\ \A i \in 1..n - m : Documents(m, n)[i] = m + i
<1>1. n - m \in Nat /\ \A i \in 1..n - m : m + i \in Nat
  OBVIOUS
<1>2. QED
  BY <1>1 DEF Documents

\* They grow by one when a later one is queued.
LEMMA DocumentsGrow ==
  ASSUME NEW a \in Nat, NEW b \in Nat, a <= b
  PROVE  /\ Documents(a, b) = <<>> <=> a = b
         /\ Documents(a, b + 1) = Append(Documents(a, b), b + 1)
<1>1. Documents(a, b) = <<>> <=> a = b
  <2>1. /\ Documents(a, b) \in Seq(Nat) /\ Len(Documents(a, b)) = b - a
    BY DocumentsShape
  <2>2. Documents(a, b) = <<>> <=> Len(Documents(a, b)) = 0
    BY <2>1, EmptySeq
  <2>3. b - a = 0 <=> a = b
    OBVIOUS
  <2>4. QED
    BY <2>1, <2>2, <2>3
<1>2. Documents(a, b + 1) = Append(Documents(a, b), b + 1)
  <2>1. /\ Append(Documents(a, b), b + 1) \in Seq(Nat)
        /\ Len(Append(Documents(a, b), b + 1)) = b - a + 1
        /\ \A i \in 1..b - a : Append(Documents(a, b), b + 1)[i] = a + i
        /\ Append(Documents(a, b), b + 1)[b - a + 1] = b + 1
    <3>1. /\ Documents(a, b) \in Seq(Nat) /\ Len(Documents(a, b)) = b - a
          /\ \A i \in 1..b - a : Documents(a, b)[i] = a + i
          /\ b + 1 \in Nat
      BY DocumentsShape
    <3>2. /\ Append(Documents(a, b), b + 1) \in Seq(Nat)
          /\ Len(Append(Documents(a, b), b + 1)) = Len(Documents(a, b)) + 1
          /\ \A i \in 1..Len(Documents(a, b)) :
               Append(Documents(a, b), b + 1)[i] = Documents(a, b)[i]
          /\ Append(Documents(a, b), b + 1)[Len(Documents(a, b)) + 1] = b + 1
      BY <3>1, AppendProperties
    <3>3. QED
      BY <3>1, <3>2
  <2>2. /\ Documents(a, b + 1) \in Seq(Nat) /\ Len(Documents(a, b + 1)) = b - a + 1
        /\ \A i \in 1..b - a + 1 : Documents(a, b + 1)[i] = a + i
    BY DocumentsShape
  <2>3. \A i \in 1..b - a + 1 : Documents(a, b + 1)[i] = Append(Documents(a, b), b + 1)[i]
    BY <2>1, <2>2
  <2>4. QED
    BY <2>1, <2>2, <2>3, SeqEqual
<1>3. QED
  BY <1>1, <1>2

\* They are cut off up to the one that is written.
LEMMA DocumentsCut ==
  ASSUME NEW a \in Nat, NEW b \in Nat, NEW c \in a + 1..b
  PROVE  /\ c - a \in 1..Len(Documents(a, b)) /\ Documents(a, b)[c - a] = c
         /\ Documents(c, b) = SubSeq(Documents(a, b), c - a + 1, Len(Documents(a, b)))
<1> DEFINE k == c - a + 1
           n == b - a
           rest == SubSeq(Documents(a, b), k, n)
<1>1. /\ k \in 1..n + 1 /\ n \in Nat /\ c \in Nat /\ c <= b /\ n - k + 1 = b - c
      /\ c - a \in 1..n
  OBVIOUS
<1>2. /\ rest \in Seq(Nat) /\ Len(rest) = b - c
      /\ \A i \in 1..b - c : rest[i] = Documents(a, b)[k + i - 1]
  <2>1. \A i \in k..n : Documents(a, b)[i] \in Nat
    <3>1. \A i \in 1..n : Documents(a, b)[i] = a + i /\ a + i \in Nat
      BY DocumentsShape
    <3>2. \A i \in k..n : i \in 1..n
      BY <1>1
    <3>3. QED
      BY <3>1, <3>2
  <2>2. k \in Int /\ n \in Int /\ (IF k <= n THEN n - k + 1 ELSE 0) = b - c
    BY <1>1
  <2> HIDE DEF k, n
  <2>3. /\ rest \in Seq(Nat) /\ Len(rest) = IF k <= n THEN n - k + 1 ELSE 0
        /\ \A i \in 1..n - k + 1 : rest[i] = Documents(a, b)[k + i - 1]
    BY <2>1, <2>2, SubSeqProperties
  <2>4. QED
    BY <1>1, <2>2, <2>3
<1>3. \A i \in 1..b - c : Documents(c, b)[i] = rest[i]
  <2>1. \A i \in 1..b - c : k + i - 1 \in 1..n /\ a + (k + i - 1) = c + i
    BY <1>1
  <2>2. QED
    BY DocumentsShape, <1>1, <1>2, <2>1
<1>4. Documents(c, b) = rest
  BY DocumentsShape, <1>1, <1>2, <1>3, SeqEqual
<1>5. Len(Documents(a, b)) = n /\ Documents(a, b)[c - a] = a + (c - a) /\ a + (c - a) = c
  <2>1. \A i \in 1..n : Documents(a, b)[i] = a + i
    BY DocumentsShape
  <2>2. c - a \in 1..n /\ a + (c - a) = c
    BY <1>1
  <2>3. Len(Documents(a, b)) = n
    <3>1. a <= b
      OBVIOUS
    <3>2. QED
      BY <3>1, DocumentsShape
  <2>4. QED
    BY <2>1, <2>2, <2>3
<1>6. QED
  BY <1>1, <1>4, <1>5

\* The types of the files, as the service sees them.
LEMMA FileFacts ==
  ASSUME WriterInv
  PROVE  /\ \A p \in Path : /\ asked[p] \in Nat /\ disk[p].doc \in Nat
                            /\ disk[p].doc <= asked[p] /\ asked[p] \in 0..MaxSave
         /\ MaxSave \in Nat
BY PathFacts, WriterConstants

\* The service's queue, with a name for the documents that wait.
LEMMA ServiceQueue ==
  [p \in Path |-> [i \in 1..asked[p] - disk[p].doc |-> disk[p].doc + i]]
    = [p \in Path |-> Documents(disk[p].doc, asked[p])]
BY DEF Documents

\* A step that neither queues nor writes nor reports, and leaves the owner blocked or free.
LEMMA ServiceStutter ==
  ASSUME UNCHANGED <<asked, errors>>, \A p \in Path : disk'[p].doc = disk[p].doc,
         owner' \in {"flushing", "closing"} <=> owner \in {"flushing", "closing"}
  PROVE  UNCHANGED Service!serviceVars
<1>1. [p \in Path |-> disk'[p].doc] = [p \in Path |-> disk[p].doc]
  OBVIOUS
<1>2. [p \in Path |-> [i \in 1..asked'[p] - disk'[p].doc |-> disk'[p].doc + i]]
        = [p \in Path |-> [i \in 1..asked[p] - disk[p].doc |-> disk[p].doc + i]]
  OBVIOUS
<1>3. (owner' \in {"flushing", "closing"}) = (owner \in {"flushing", "closing"})
  OBVIOUS
<1>4. QED
  BY <1>1, <1>2, <1>3 DEF Service!serviceVars

\* A request is queued with the service.
LEMMA SaveStep ==
  ASSUME WriterInv, NEW p \in Path, SaveLatest(p), NEW d, d = asked'[p]
  PROVE  Service!Save(p, d)
<1>1. /\ owner = "running" /\ owner' = "wake" /\ asked' = [asked EXCEPT ![p] = @ + 1]
      /\ UNCHANGED <<disk, errors>>
  BY DEF SaveLatest
<1>2. asked \in [Path -> 0..MaxSave]
  BY DEF WriterInv, HistoryTypeOK
<1>3. asked'[p] = asked[p] + 1 /\ \A q \in Path \ {p} : asked'[q] = asked[q]
  BY <1>1, <1>2
<1> DEFINE before == [q \in Path |-> Documents(disk[q].doc, asked[q])]
           after == [q \in Path |-> Documents(disk'[q].doc, asked'[q])]
<1>4. after = [before EXCEPT ![p] = Append(@, asked'[p])]
  <2>1. Documents(disk[p].doc, asked[p] + 1)
          = Append(Documents(disk[p].doc, asked[p]), asked[p] + 1)
    BY FileFacts, DocumentsGrow
  <2>2. \A q \in Path : after[q] = [before EXCEPT ![p] = Append(@, asked'[p])][q]
    <3>1. after[p] = Append(before[p], asked'[p])
      BY <1>1, <1>3, <2>1
    <3>2. \A q \in Path \ {p} : after[q] = before[q]
      BY <1>1, <1>3
    <3> HIDE DEF after
    <3>3. QED
      BY <3>1, <3>2
  <2> HIDE DEF Documents
  <2>3. QED
    BY <2>2
<1>5. [q \in Path |-> [i \in 1..asked'[q] - disk'[q].doc |-> disk'[q].doc + i]]
        = [[q \in Path |-> [i \in 1..asked[q] - disk[q].doc |-> disk[q].doc + i]]
            EXCEPT ![p] = Append(@, asked'[p])]
  BY <1>4 DEF Documents
<1>6. (owner' \in {"flushing", "closing"}) = (owner \in {"flushing", "closing"})
      /\ ~(owner \in {"flushing", "closing"})
  BY <1>1
<1>7. QED
  BY <1>1, <1>5, <1>6 DEF Service!Save

\* A document that is written is a queued one, or the one that is on disk already.
LEMMA WriteStep ==
  ASSUME WriterInv, NEW p \in Path, UNCHANGED <<asked, errors, owner>>,
         NEW d \in Nat, disk[p].doc <= d, d <= asked[p], disk'[p].doc = d,
         \A q \in Path \ {p} : disk'[q] = disk[q]
  PROVE  Service!Advance(p) \/ UNCHANGED Service!serviceVars
<1>1. CASE d = disk[p].doc
  BY <1>1, ServiceStutter
<1>2. CASE d # disk[p].doc
  <2> DEFINE before == [q \in Path |-> Documents(disk[q].doc, asked[q])]
             after == [q \in Path |-> Documents(disk'[q].doc, asked'[q])]
             i == d - disk[p].doc
  <2>1. asked[p] \in Nat /\ disk[p].doc \in Nat /\ d \in disk[p].doc + 1..asked[p]
    BY <1>2, FileFacts
  <2>2. /\ i \in 1..Len(before[p]) /\ before[p][i] = d
        /\ Documents(d, asked[p]) = SubSeq(before[p], i + 1, Len(before[p]))
    <3>1. before[p] = Documents(disk[p].doc, asked[p])
      OBVIOUS
    <3>2. disk[p].doc <= asked[p]
      BY FileFacts
    <3> HIDE DEF before
    <3>3. /\ i \in 1..Len(Documents(disk[p].doc, asked[p]))
          /\ Documents(disk[p].doc, asked[p])[i] = d
          /\ Documents(d, asked[p]) = SubSeq(Documents(disk[p].doc, asked[p]), i + 1,
                                            Len(Documents(disk[p].doc, asked[p])))
      <4>1. PICK a \in Nat, b \in Nat : a = disk[p].doc /\ b = asked[p]
        BY <2>1
      <4>2. a <= b /\ d \in a + 1..b
        BY <2>1, <3>2, <4>1
      <4>3. /\ d - a \in 1..Len(Documents(a, b)) /\ Documents(a, b)[d - a] = d
            /\ Documents(d, b) = SubSeq(Documents(a, b), d - a + 1, Len(Documents(a, b)))
        BY <4>2, DocumentsCut
      <4>4. QED
        BY <4>1, <4>3
    <3>4. QED
      BY <3>1, <3>3
  <2>3. after = [before EXCEPT ![p] = SubSeq(@, i + 1, Len(@))]
    BY <2>2
  <2>4. [q \in Path |-> disk'[q].doc]
          = [[q \in Path |-> disk[q].doc] EXCEPT ![p] = before[p][i]]
    BY <2>2
  <2>5. (owner' \in {"flushing", "closing"}) = (owner \in {"flushing", "closing"})
    OBVIOUS
  <2>6. Service!Advance(p)
    BY <2>2, <2>3, <2>4, <2>5 DEF Service!Advance, Documents
  <2>7. QED
    BY <2>6
<1>3. QED
  BY <1>1, <1>2

\* A failure is reported of a path for which a document is queued or on disk.
LEMMA ReportStep ==
  ASSUME WriterInv, Record
  PROVE  \E p \in Path : Service!Report(p)
<1>1. /\ failed # NoFailure /\ failed[1] \in Path /\ failed[2] \in Request
      /\ errors' = errors \cup {failed[1]} /\ UNCHANGED <<asked, disk, owner>>
  BY DEF Record, WriterInv, WriterTypeOK, HistoryTypeOK, ownerVars
<1>2. PICK p \in Path : p = failed[1]
  BY <1>1
<1>3. InFlight(p) = failed[2]
  BY <1>1, <1>2 DEF InFlight
<1>4. failed[2].doc \in 1..MaxSave /\ failed[2].doc <= asked[p] /\ MaxSave \in Nat
  BY <1>1, <1>3, PathFacts, RequestFacts DEF InOrder
<1>5. disk[p].doc = 0 => Documents(disk[p].doc, asked[p]) # <<>>
  <2>1. /\ asked[p] \in Nat /\ disk[p].doc \in Nat /\ disk[p].doc <= asked[p]
        /\ asked[p] # 0
    BY <1>4, FileFacts
  <2>2. QED
    BY <2>1, DocumentsGrow
<1>6. (owner' \in {"flushing", "closing"}) = (owner \in {"flushing", "closing"})
  BY <1>1
<1>7. /\ [q \in Path |-> disk'[q].doc] = [q \in Path |-> disk[q].doc]
      /\ [q \in Path |-> [i \in 1..asked'[q] - disk'[q].doc |-> disk'[q].doc + i]]
           = [q \in Path |-> [i \in 1..asked[q] - disk[q].doc |-> disk[q].doc + i]]
  BY <1>1
<1>8. Service!Report(p)
  BY <1>1, <1>2, <1>5, <1>6, <1>7 DEF Service!Report, Documents
<1>9. QED
  BY <1>8

\* A flush is answered when every path is up to date or its failure reported.
LEMMA FlushedStep ==
  ASSUME WriterInv, Finish, command # "wake"
  PROVE  Service!Flushed
<1>1. /\ owner \in {"flushing", "closing"} /\ owner' \in {"running", "closed"}
      /\ UNCHANGED <<asked, disk, errors>>
  BY DEF Finish, WriterInv, WriterTypeOK
<1>2. ASSUME NEW p \in Path
      PROVE  Documents(disk[p].doc, asked[p]) = <<>> \/ p \in errors
  <2>1. [WriterNext]_writerVars /\ owner' # owner
    BY <1>1 DEF WriterNext, WorkerNext
  <2>2. p \in errors \/ disk[p] = [doc |-> asked[p], thumbnail |-> image[p]]
    BY <1>1, <2>1, FlushStep
  <2>3. p \in errors \/ disk[p].doc = asked[p]
    BY <2>2
  <2>4. QED
    BY <2>3, FileFacts, DocumentsGrow
<1>3. /\ (owner' \in {"flushing", "closing"}) = FALSE
      /\ (owner \in {"flushing", "closing"}) = TRUE
  BY <1>1
<1>4. /\ [q \in Path |-> disk'[q].doc] = [q \in Path |-> disk[q].doc]
      /\ [q \in Path |-> [i \in 1..asked'[q] - disk'[q].doc |-> disk'[q].doc + i]]
           = [q \in Path |-> [i \in 1..asked[q] - disk[q].doc |-> disk[q].doc + i]]
  BY <1>1
<1>5. QED
  BY <1>1, <1>2, <1>3, <1>4 DEF Service!Flushed, Service!UpToDate, Documents

\* Each step of the two threads is one of the service's, or none.
LEMMA WriterStepService ==
  ASSUME WriterInv, [WriterNext]_writerVars
  PROVE  [Service!ServiceNext]_(Service!serviceVars)
<1>1. ASSUME NEW p \in Path, SaveLatest(p)
      PROVE  Service!ServiceNext
  <2>1. asked'[p] \in 1..MaxSave
    BY <1>1, FileFacts DEF SaveLatest, WriterInv, HistoryTypeOK
  <2>2. PICK d \in 1..MaxSave : d = asked'[p]
    BY <2>1
  <2>3. Service!Save(p, d)
    BY <1>1, <2>2, SaveStep
  <2>4. QED
    BY <2>3 DEF Service!ServiceNext
<1>2. CASE Wake \/ Receive \/ Take
  <2>1. UNCHANGED <<asked, errors, disk>>
    BY <1>2 DEF Wake, Receive, Take, ownerVars
  <2>2. owner' \in {"flushing", "closing"} <=> owner \in {"flushing", "closing"}
    BY <1>2 DEF Wake, Receive, Take, ownerVars
  <2>3. QED
    BY <2>1, <2>2, ServiceStutter
<1>3. CASE OwnerSends
  <2>1. /\ owner = "running" /\ owner' \in {"flushing", "closing"}
        /\ UNCHANGED <<asked, errors, disk>>
    BY <1>3 DEF OwnerSends, Send
  <2>2. /\ (owner' \in {"flushing", "closing"}) = TRUE
        /\ (owner \in {"flushing", "closing"}) = FALSE
    BY <2>1
  <2>3. /\ [q \in Path |-> disk'[q].doc] = [q \in Path |-> disk[q].doc]
        /\ [q \in Path |-> [i \in 1..asked'[q] - disk'[q].doc |-> disk'[q].doc + i]]
             = [q \in Path |-> [i \in 1..asked[q] - disk[q].doc |-> disk[q].doc + i]]
    BY <2>1
  <2>4. Service!Flush
    BY <2>1, <2>2, <2>3 DEF Service!Flush
  <2>5. QED
    BY <2>4 DEF Service!ServiceNext
<1>4. CASE PollErrors
  <2>1. owner = "running" /\ errors' = {} /\ UNCHANGED <<asked, disk, owner>>
    BY <1>4 DEF PollErrors, ownerVars
  <2>2. /\ (owner' \in {"flushing", "closing"}) = (owner \in {"flushing", "closing"})
        /\ ~(owner \in {"flushing", "closing"})
    BY <2>1
  <2>3. /\ [q \in Path |-> disk'[q].doc] = [q \in Path |-> disk[q].doc]
        /\ [q \in Path |-> [i \in 1..asked'[q] - disk'[q].doc |-> disk'[q].doc + i]]
             = [q \in Path |-> [i \in 1..asked[q] - disk[q].doc |-> disk[q].doc + i]]
    BY <2>1
  <2>4. Service!TakeFailures
    BY <2>1, <2>2, <2>3 DEF Service!TakeFailures
  <2>5. QED
    BY <2>4 DEF Service!ServiceNext
<1>5. ASSUME NEW p \in Path, Persist(p) \/ PersistFails(p)
      PROVE  [Service!ServiceNext]_(Service!serviceVars)
  <2>1. /\ worker = "saving" /\ hand[p] # NoRequest /\ UNCHANGED <<asked, errors, owner>>
        /\ failed = NoFailure
    BY <1>5 DEF Persist, PersistFails, ownerVars, WriterInv, WriterTypeOK
  <2>2. /\ disk \in [Path -> [doc : 0..MaxSave, thumbnail : 0..MaxSave]]
        /\ InFlight(p) = hand[p]
    BY <2>1 DEF WriterInv, HistoryTypeOK, InFlight
  <2>3. /\ disk[p].doc <= hand[p].doc /\ hand[p].doc <= asked[p] /\ hand[p].doc \in Nat
        /\ disk[p].doc <= asked[p] /\ disk[p].doc \in Nat
    BY <2>1, <2>2, PathFacts, RequestFacts DEF InOrder
  <2>4. /\ disk'[p].doc \in {disk[p].doc, hand[p].doc}
        /\ \A q \in Path \ {p} : disk'[q] = disk[q]
    <3>1. CASE PersistFails(p)
      BY <2>2, <3>1 DEF PersistFails
    <3>2. CASE Persist(p)
      BY <2>2, <3>2 DEF Persist
    <3>3. QED
      BY <1>5, <3>1, <3>2
  <2>5. PICK d \in Nat : disk'[p].doc = d /\ disk[p].doc <= d /\ d <= asked[p]
    BY <2>3, <2>4
  <2>6. Service!Advance(p) \/ UNCHANGED Service!serviceVars
    BY <2>1, <2>4, <2>5, WriteStep
  <2>7. QED
    BY <2>6 DEF Service!ServiceNext, Service!ServiceWork
<1>6. CASE Record
  BY <1>6, ReportStep DEF Service!ServiceNext, Service!ServiceWork
<1>7. CASE Finish
  <2>1. CASE command = "wake"
    <3>1. UNCHANGED <<asked, errors, disk, owner>>
      BY <1>7, <2>1 DEF Finish
    <3>2. QED
      BY <3>1, ServiceStutter
  <2>2. CASE command # "wake"
    BY <1>7, <2>2, FlushedStep DEF Service!ServiceNext, Service!ServiceWork
  <2>3. QED
    BY <2>1, <2>2
<1>8. CASE UNCHANGED writerVars
  <2>1. UNCHANGED <<asked, errors, disk, owner>>
    BY <1>8 DEF writerVars, ownerVars
  <2>2. QED
    BY <2>1, ServiceStutter
<1>9. QED
  BY <1>1, <1>2, <1>3, <1>4, <1>5, <1>6, <1>7, <1>8 DEF WriterNext, OwnerNext, WorkerNext

\* The writer implements the service that the application builds on: a document queued
\* earlier never replaces a later one, and a flush is answered once all is saved or reported.
THEOREM WriterImplementsService == WriterSafety => ImplementsService
<1>1. WriterInit => Service!ServiceInit
  <2> SUFFICES ASSUME WriterInit
               PROVE  Service!ServiceInit
    OBVIOUS
  <2>1. /\ owner = "running" /\ errors = {}
        /\ \A p \in Path : asked[p] = 0 /\ disk[p].doc = 0
    BY DEF WriterInit, NoRequests, NoRequest
  <2>2. [p \in Path |-> Documents(disk[p].doc, asked[p])] = [p \in Path |-> <<>>]
    <3>1. Documents(0, 0) = <<>>
      BY DocumentsGrow
    <3>2. QED
      BY <2>1, <3>1
  <2>3. (owner \in {"flushing", "closing"}) = FALSE
    BY <2>1
  <2>4. [p \in Path |-> disk[p].doc] \in [Path -> 1..MaxSave \cup {0}]
    BY <2>1
  <2>5. QED
    BY <2>1, <2>2, <2>3, <2>4 DEF Service!ServiceInit, Documents
<1>2. WriterInv /\ [WriterNext]_writerVars => [Service!ServiceNext]_(Service!serviceVars)
  BY WriterStepService
<1>3. QED
  BY <1>1, <1>2, WriterInvariant, PTL DEF WriterSafety, ImplementsService, Service!ServiceSpec
=============================================================================
