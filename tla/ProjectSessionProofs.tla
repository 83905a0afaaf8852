-------------------------- MODULE ProjectSessionProofs --------------------------
(*****************************************************************************)
(* Proofs about ProjectSession, for any number of projects, contents and     *)
(* background threads.                                                       *)
(*****************************************************************************)
EXTENDS ProjectSession, KeepingProofs, SequenceTheorems

-----------------------------------------------------------------------------
(* The numbers of projects and contents. *)

LEMMA SessionNumbers ==
  /\ MaxEdit \in Nat /\ MaxQueue \in Nat /\ NoDocument = 0
  /\ \A p \in Project : p \in Nat /\ p # NoProject /\ p <= MaxEdit
BY SessionConstants DEF NoProject

\* A set of numbers with a bound has a greatest one.
LEMMA GreatestNumber ==
  ASSUME NEW S, S \subseteq 0..MaxEdit, S # {}
  PROVE  Max(S) \in S /\ \A x \in S : Max(S) >= x
<1> DEFINE Above == {n \in Nat : \A x \in S : n >= x}
<1>1. MaxEdit \in Above
  BY SessionNumbers
<1>2. PICK n \in Above : \A k \in Above : n <= k
  <2>1. Above \subseteq Nat /\ Above # {}
    BY <1>1
  <2>2. QED
    BY <2>1, LeastElement
<1>3. n \in Nat /\ \A x \in S : x \in Nat /\ n >= x
  BY <1>2, SessionNumbers
<1>4. n \in S
  <2>1. SUFFICES ASSUME n \notin S
                 PROVE  FALSE
    OBVIOUS
  <2>2. PICK x \in S : TRUE
    OBVIOUS
  <2>3. n # 0
    BY <1>3, <2>1, <2>2
  <2>4. n - 1 \in Nat /\ \A y \in S : n - 1 >= y
    BY <1>3, <2>1, <2>3
  <2>5. n <= n - 1
    BY <1>2, <2>4
  <2>6. QED
    BY <1>3, <2>5
<1>5. QED
  BY <1>3, <1>4 DEF Max

\* The next project id is a new one.
LEMMA NextIdIsNew ==
  ASSUME known \subseteq Project
  PROVE  NextId \notin known
<1>1. CASE known = {}
  BY <1>1
<1>2. CASE known # {}
  <2>1. known \subseteq 0..MaxEdit
    BY SessionNumbers
  <2>2. Max(known) \in known /\ \A x \in known : Max(known) >= x
    BY <1>2, <2>1, GreatestNumber
  <2>3. Max(known) \in Nat
    BY <2>1, <2>2, SessionNumbers
  <2>4. NextId = Max(known) + 1
    BY <1>2 DEF NextId
  <2>5. \A x \in known : x \in Nat /\ Max(known) >= x
    BY <2>1, <2>2
  <2>6. QED
    BY <2>3, <2>4, <2>5
<1>3. QED
  BY <1>1, <1>2

-----------------------------------------------------------------------------
(* The inductive invariant. *)

JobState ==
  [kind : {"idle"}]
    \cup [kind : {"open"}, path : Project]
    \cup [kind : {"copy"}, source : Project, path : Project, doc : 0..lastEdit]

\* Nothing holds a content that has not been made.
SessionTypes ==
  /\ known \subseteq Project
  /\ current \in known \cup {NoProject}
  /\ screen \in {"hub", "editor"}
  /\ lastEdit \in 0..MaxEdit
  /\ editor \in 0..lastEdit /\ saved \in 0..lastEdit /\ armed \in 0..lastEdit
  /\ due => armed # None
  /\ queue \in [Project -> Seq(1..lastEdit)]
  /\ file \in [Project -> 0..lastEdit]
  /\ newest \in [Project -> 0..lastEdit]
  /\ job \in [Job -> JobState]
  /\ opened \in Seq([path : Project, doc : 0..lastEdit])

\* A project the hub does not know has had no save.
UnknownUnsaved == \A p \in Project \ known : UpToDate(p) /\ newest[p] = NoDocument

EditorHasContent ==
  IF current = NoProject THEN editor = None /\ screen = "hub" ELSE editor # None

\* Outside the editor, and in every round of the final flush, the editor's content has been
\* queued.
QueuedOutside == screen = "hub" \/ ~Running => saved = editor

\* What the last flush has found.
LastFlush ==
  /\ closing \in {"shutdown", "closed"} /\ ~flushing =>
       \A p \in Project : UpToDate(p) \/ p \in failures
  /\ closing = "closed" => ~flushing

SessionInv == SessionTypes /\ UnknownUnsaved /\ EditorHasContent /\ QueuedOutside /\ LastFlush

LEMMA SessionInitially ==
  ASSUME SessionInit
  PROVE  SessionInv
<1>1. known \cup {0} \subseteq 0..MaxEdit /\ known \subseteq Project
  BY SessionNumbers DEF SessionInit
<1>2. lastEdit \in known \cup {0} /\ \A x \in known \cup {0} : lastEdit >= x
  BY <1>1, GreatestNumber DEF SessionInit
<1>3. lastEdit \in 0..MaxEdit
  BY <1>1, <1>2
<1>4. file \in [Project -> 0..lastEdit]
  <2>1. \A p \in Project : p \in known => p \in 0..lastEdit
    BY <1>2, <1>3, SessionNumbers
  <2>2. file = [p \in Project |-> IF p \in known THEN p ELSE NoDocument]
    BY DEF SessionInit
  <2>3. 0 \in 0..lastEdit /\ NoDocument = 0
    BY <1>3, SessionNumbers
  <2>4. QED
    BY <2>1, <2>2, <2>3
<1>5. queue \in [Project -> Seq(1..lastEdit)] /\ \A p \in Project : queue[p] = <<>>
  <2>1. queue = [p \in Project |-> <<>>]
    BY DEF SessionInit, ServiceInit
  <2>2. <<>> \in Seq(1..lastEdit)
    OBVIOUS
  <2>3. QED
    BY <2>1, <2>2
<1>6. SessionTypes
  <2>1. job \in [Job -> JobState]
    BY DEF SessionInit, JobState, Idle
  <2>2. opened \in Seq([path : Project, doc : 0..lastEdit])
    BY DEF SessionInit
  <2>3. newest \in [Project -> 0..lastEdit]
    BY <1>4 DEF SessionInit
  <2>4. 0 \in 0..lastEdit
    BY <1>3
  <2>5. QED
    BY <1>1, <1>3, <1>4, <1>5, <2>1, <2>2, <2>3, <2>4
       DEF SessionInit, SessionTypes, NoProject, None
<1>7. UnknownUnsaved
  BY <1>5, <1>4 DEF UnknownUnsaved, UpToDate, SessionInit
<1>8. QED
  BY <1>6, <1>7
     DEF SessionInv, SessionInit, EditorHasContent, QueuedOutside, LastFlush, Running

-----------------------------------------------------------------------------
(* Parts of steps. *)

\* Contents made stay made.
LEMMA MoreContents ==
  ASSUME NEW m \in Nat, NEW n \in Nat, m <= n
  PROVE  /\ 0..m \subseteq 0..n /\ 1..m \subseteq 1..n
         /\ Seq(1..m) \subseteq Seq(1..n)
<1>1. 0..m \subseteq 0..n /\ 1..m \subseteq 1..n
  OBVIOUS
<1>2. QED
  BY <1>1

LEMMA SequenceOfMore ==
  ASSUME NEW A, NEW B, A \subseteq B, NEW s \in Seq(A)
  PROVE  s \in Seq(B)
OBVIOUS

\* A save appends to one queue.
LEMMA SaveFacts ==
  ASSUME NEW n \in Nat, queue \in [Project -> Seq(1..n)], NEW p \in Project, NEW d \in 1..n,
         queue' = [queue EXCEPT ![p] = Append(@, d)]
  PROVE  /\ queue' \in [Project -> Seq(1..n)]
         /\ queue'[p] # <<>> /\ Last(queue'[p]) = d
         /\ \A q \in Project : q # p => queue'[q] = queue[q]
<1>1. queue[p] \in Seq(1..n)
  OBVIOUS
<1>2. queue'[p] = Append(queue[p], d) /\ \A q \in Project : q # p => queue'[q] = queue[q]
  OBVIOUS
<1>3. Append(queue[p], d) \in Seq(1..n) /\ Append(queue[p], d) # <<>>
  BY <1>1
<1>4. Last(Append(queue[p], d)) = d
  BY <1>1 DEF Last
<1>5. queue' \in [Project -> Seq(1..n)]
  BY <1>3
<1>6. QED
  BY <1>2, <1>3, <1>4, <1>5

\* The writer's progress takes a queue's front away; what the path is coming to stays.
LEMMA AdvanceFacts ==
  ASSUME NEW n \in Nat, queue \in [Project -> Seq(1..n)], file \in [Project -> 0..n],
         NEW p \in Project, Advance(p)
  PROVE  /\ queue' \in [Project -> Seq(1..n)] /\ file' \in [Project -> 0..n]
         /\ queue[p] # <<>>
         /\ \A q \in Project : q # p => queue'[q] = queue[q] /\ file'[q] = file[q]
         /\ queue'[p] = <<>> => file'[p] = Last(queue[p])
         /\ queue'[p] # <<>> => Last(queue'[p]) = Last(queue[p])
         /\ failures' = failures /\ flushing' = flushing
<1>1. PICK i \in 1..Len(queue[p]) :
        /\ file' = [file EXCEPT ![p] = queue[p][i]]
        /\ queue' = [queue EXCEPT ![p] = SubSeq(@, i + 1, Len(@))]
        /\ UNCHANGED <<failures, flushing>>
  BY DEF Advance
<1>2. PICK s \in Seq(1..n) : s = queue[p]
  OBVIOUS
<1>3. PICK t : t = SubSeq(s, i + 1, Len(s))
  OBVIOUS
<1>4. i \in 1..Len(s) /\ Len(s) \in Nat /\ s[i] \in 1..n /\ s # <<>>
  BY <1>1, <1>2
<1>5. /\ t \in Seq(1..n) /\ Len(t) = Len(s) - i
      /\ \A j \in 1..Len(t) : t[j] = s[i + j]
  <2>1. i + 1 \in 1..(Len(s) + 1) /\ Len(s) \in 0..Len(s) /\ i + 1 \in Int /\ Len(s) \in Int
    BY <1>4
  <2>2. \A j \in (i + 1)..Len(s) : s[j] \in 1..n
    BY <1>2, <1>4
  <2>3. /\ t \in Seq(1..n)
        /\ Len(t) = IF i + 1 <= Len(s) THEN Len(s) - (i + 1) + 1 ELSE 0
        /\ \A j \in 1..(Len(s) - (i + 1) + 1) : t[j] = s[(i + 1) + j - 1]
    BY <1>3, <2>1, <2>2, SubSeqProperties
  <2>4. Len(t) = Len(s) - i
    BY <1>4, <2>3
  <2>5. \A j \in 1..Len(t) : (i + 1) + j - 1 = i + j /\ j \in 1..(Len(s) - (i + 1) + 1)
    BY <1>4, <2>4
  <2>6. QED
    BY <2>3, <2>4, <2>5
<1>6. queue'[p] = t /\ file'[p] = s[i]
  BY <1>1, <1>2, <1>3
<1>7. queue' \in [Project -> Seq(1..n)]
  BY <1>1, <1>2, <1>3, <1>5
<1>8. file' \in [Project -> 0..n]
  BY <1>1, <1>2, <1>4
<1>9. \A q \in Project : q # p => queue'[q] = queue[q] /\ file'[q] = file[q]
  BY <1>1
<1>10. t = <<>> => s[i] = Last(s)
  <2>1. t = <<>> => Len(t) = 0
    OBVIOUS
  <2>2. t = <<>> => i = Len(s)
    BY <1>4, <1>5, <2>1
  <2>3. QED
    BY <2>2 DEF Last
<1>11. t # <<>> => Last(t) = Last(s)
  <2>1. SUFFICES ASSUME t # <<>>
                 PROVE  Last(t) = Last(s)
    OBVIOUS
  <2>2. Len(t) \in 1..Len(t)
    BY <1>5, <2>1
  <2>3. i + Len(t) = Len(s)
    BY <1>4, <1>5
  <2>4. QED
    BY <1>5, <2>2, <2>3 DEF Last
<1>12. QED
  BY <1>1, <1>2, <1>4, <1>6, <1>7, <1>8, <1>9, <1>10, <1>11

\* A new content is one nothing holds yet.
LEMMA MadeFacts ==
  ASSUME SessionTypes, NEW p \in Project, MakeContent(p)
  PROVE  /\ lastEdit' = lastEdit + 1 /\ lastEdit' \in 1..MaxEdit /\ lastEdit' \in Nat
         /\ editor' = lastEdit' /\ editor' \in 1..lastEdit' /\ editor' \in 0..lastEdit'
         /\ saved # editor' /\ 0..lastEdit \subseteq 0..lastEdit'
         /\ queue \in [Project -> Seq(1..lastEdit')] /\ file \in [Project -> 0..lastEdit']
         /\ newest' \in [Project -> 0..lastEdit'] /\ newest'[p] = editor'
         /\ \A q \in Project : q # p => newest'[q] = newest[q]
         /\ job \in [Job -> JobState'] /\ opened \in Seq([path : Project, doc : 0..lastEdit'])
<1>1. lastEdit \in 0..MaxEdit /\ lastEdit < MaxEdit /\ MaxEdit \in Nat
  BY SessionNumbers DEF SessionTypes, MakeContent
<1>2. /\ lastEdit' = lastEdit + 1 /\ lastEdit' \in 1..MaxEdit /\ lastEdit' \in Nat
      /\ lastEdit \in Nat /\ lastEdit <= lastEdit'
  BY <1>1 DEF MakeContent
<1>3. 0..lastEdit \subseteq 0..lastEdit' /\ Seq(1..lastEdit) \subseteq Seq(1..lastEdit')
  BY <1>2, MoreContents
<1>4. editor' = lastEdit' /\ editor' \in 1..lastEdit' /\ editor' \in 0..lastEdit'
  BY <1>2 DEF MakeContent
<1>5. saved # editor'
  BY <1>2, <1>4 DEF SessionTypes
<1>6. queue \in [Project -> Seq(1..lastEdit')] /\ file \in [Project -> 0..lastEdit']
  BY <1>3 DEF SessionTypes
<1>7. newest' = [newest EXCEPT ![p] = editor'] /\ newest \in [Project -> 0..lastEdit']
  BY <1>3, <1>4 DEF SessionTypes, MakeContent
<1>8. JobState \subseteq JobState'
  <2>1. [kind : {"copy"}, source : Project, path : Project, doc : 0..lastEdit]
          \subseteq [kind : {"copy"}, source : Project, path : Project, doc : 0..lastEdit']
    BY <1>3
  <2>2. QED
    BY <2>1 DEF JobState
<1>9. opened \in Seq([path : Project, doc : 0..lastEdit'])
  <2>1. [path : Project, doc : 0..lastEdit] \subseteq [path : Project, doc : 0..lastEdit']
    BY <1>3
  <2>2. opened \in Seq([path : Project, doc : 0..lastEdit])
    BY DEF SessionTypes
  <2>3. QED
    BY <2>1, <2>2, SequenceOfMore
<1>10. job \in [Job -> JobState']
  BY <1>8 DEF SessionTypes
<1>11. QED
  BY <1>2, <1>3, <1>4, <1>5, <1>6, <1>7, <1>9, <1>10

-----------------------------------------------------------------------------
(* The hub and the editor. *)

\* A save of what the editor of a known project shows.
LEMMA EnqueueFacts ==
  ASSUME NEW n \in Nat, queue \in [Project -> Seq(1..n)], NEW p \in Project, NEW d \in 1..n,
         Enqueue(p, d)
  PROVE  /\ queue' \in [Project -> Seq(1..n)] /\ queue'[p] # <<>> /\ Last(queue'[p]) = d
         /\ \A q \in Project : q # p => queue'[q] = queue[q]
         /\ saved' = d /\ armed' = None /\ due' = FALSE
         /\ file' = file /\ failures' = failures /\ flushing' = flushing /\ ~flushing
<1>1. queue' = [queue EXCEPT ![p] = Append(@, d)]
  BY DEF Enqueue, Save
<1>2. QED
  BY <1>1, SaveFacts DEF Enqueue, Save

LEMMA NewProjectStep ==
  ASSUME SessionInv, NewProject
  PROVE  SessionInv' /\ \A p \in Project : NewestHeld(p) => NewestHeld(p)'
<1>1. PICK p \in Project : /\ p = NextId /\ MakeContent(p) /\ ShowEditor(p, lastEdit')
  BY DEF NewProject
<1>2. SessionTypes /\ p \notin known /\ p # NoProject
  BY <1>1, NextIdIsNew, SessionNumbers DEF SessionInv, SessionTypes
<1>3. PICK n : n = lastEdit'
  OBVIOUS
<1>4. /\ n \in Nat /\ n \in 1..MaxEdit /\ editor' = n /\ n \in 1..n /\ n \in 0..n
      /\ queue \in [Project -> Seq(1..n)] /\ file \in [Project -> 0..n]
      /\ newest' \in [Project -> 0..n] /\ newest'[p] = n
      /\ \A q \in Project : q # p => newest'[q] = newest[q]
      /\ job \in [Job -> JobState'] /\ opened \in Seq([path : Project, doc : 0..n])
  BY <1>1, <1>2, <1>3, MadeFacts
<1>5. /\ queue' \in [Project -> Seq(1..n)] /\ queue'[p] # <<>> /\ Last(queue'[p]) = n
      /\ \A q \in Project : q # p => queue'[q] = queue[q]
      /\ saved' = n /\ armed' = None /\ due' = FALSE
      /\ file' = file /\ failures' = failures /\ flushing' = flushing /\ ~flushing
  <2>1. Enqueue(p, n)
    BY <1>1, <1>3 DEF ShowEditor
  <2>2. queue \in [Project -> Seq(1..n)] /\ n \in Nat /\ n \in 1..n
    BY <1>4
  <2>3. QED
    BY <2>1, <2>2, EnqueueFacts
<1>6. /\ known' = known \cup {p} /\ current' = p /\ screen' = "editor"
      /\ job' = job /\ opened' = opened /\ closing' = closing /\ closing = "no"
      /\ screen = "hub"
  BY <1>1 DEF NewProject, ShowEditor, jobVars, Running
<1>7. SessionTypes'
  <2>1. 0 \in 0..n /\ n \in 0..MaxEdit
    BY <1>4, SessionNumbers
  <2>2. QED
    BY <1>2, <1>3, <1>4, <1>5, <1>6, <2>1 DEF SessionTypes, None
<1>8. UnknownUnsaved'
  BY <1>4, <1>5, <1>6 DEF SessionInv, UnknownUnsaved, UpToDate
<1>9. EditorHasContent' /\ QueuedOutside' /\ LastFlush'
  BY <1>2, <1>4, <1>5, <1>6 DEF EditorHasContent, QueuedOutside, LastFlush, None, Running
<1>10. ASSUME NEW q \in Project, NewestHeld(q)
       PROVE  NewestHeld(q)'
  <2>1. CASE q = p
    BY <2>1, <1>4, <1>5, <1>6 DEF NewestHeld, UpToDate
  <2>2. CASE q # p
    <3>1. saved = editor
      BY <1>6 DEF SessionInv, QueuedOutside
    <3>2. QED
      BY <1>10, <2>2, <3>1, <1>4, <1>5, <1>6 DEF NewestHeld, UpToDate
  <2>3. QED
    BY <2>1, <2>2
<1>11. QED
  BY <1>7, <1>8, <1>9, <1>10 DEF SessionInv

\* What a thread or the loop leaves alone.
LEMMA StartStep ==
  ASSUME SessionInv, NEW j \in Job, NEW work \in JobState, Start(j, work)
  PROVE  SessionInv' /\ \A p \in Project : NewestHeld(p) => NewestHeld(p)'
<1>1. job' \in [Job -> JobState]
  BY DEF SessionInv, SessionTypes, Start
<1>2. QED
  BY <1>1
     DEF SessionInv, SessionTypes, UnknownUnsaved, EditorHasContent, QueuedOutside, LastFlush,
         Start, JobState, NewestHeld, UpToDate, serviceVars, editorVars, scheduleVars, Running

LEMMA BackgroundStarts ==
  ASSUME SessionInv, NEW j \in Job, NEW p \in Project, OpenExisting(j, p) \/ Duplicate(j, p)
  PROVE  SessionInv' /\ \A q \in Project : NewestHeld(q) => NewestHeld(q)'
<1>1. Reader(p) \in JobState
  BY DEF Reader, JobState
<1>2. CASE OpenExisting(j, p)
  BY <1>1, <1>2, StartStep DEF OpenExisting
<1>3. CASE Duplicate(j, p)
  <2>1. PICK d : d = IF current = p THEN editor ELSE NoDocument
    OBVIOUS
  <2>2. d \in 0..lastEdit
    BY <2>1, SessionNumbers DEF SessionInv, SessionTypes
  <2>3. Copier(p, NextId, d) \in JobState
    BY <1>3, <2>2 DEF Duplicate, Copier, JobState
  <2>4. QED
    BY <1>3, <2>1, <2>3, StartStep DEF Duplicate
<1>4. QED
  BY <1>2, <1>3

LEMMA EditStep ==
  ASSUME SessionInv, Edit
  PROVE  SessionInv' /\ \A p \in Project : NewestHeld(p) => NewestHeld(p)'
<1>1. PICK p \in Project : p = current /\ MakeContent(p)
  BY DEF Edit, SessionInv, SessionTypes, EditorHasContent
<1>2. PICK n : n = lastEdit'
  OBVIOUS
<1>3. /\ n \in Nat /\ n \in 1..MaxEdit /\ editor' = n /\ n \in 1..n /\ n \in 0..n
      /\ queue \in [Project -> Seq(1..n)] /\ file \in [Project -> 0..n]
      /\ newest' \in [Project -> 0..n] /\ newest'[p] = n /\ saved # n
      /\ \A q \in Project : q # p => newest'[q] = newest[q]
      /\ job \in [Job -> JobState'] /\ opened \in Seq([path : Project, doc : 0..n])
      /\ 0..lastEdit \subseteq 0..n
  BY <1>1, <1>2, MadeFacts DEF SessionInv
<1>4. /\ queue' = queue /\ file' = file /\ failures' = failures /\ flushing' = flushing
      /\ known' = known /\ current' = current /\ screen' = screen /\ saved' = saved
      /\ armed' = armed /\ due' = due /\ job' = job /\ opened' = opened
      /\ closing' = closing /\ closing = "no" /\ screen = "editor"
  BY DEF Edit, serviceVars, scheduleVars, jobVars, Running
<1>5. SessionTypes'
  <2>1. saved \in 0..lastEdit /\ armed \in 0..lastEdit
    BY DEF SessionInv, SessionTypes
  <2>2. saved \in 0..n /\ armed \in 0..n
    BY <1>3, <2>1
  <2>3. n \in 0..MaxEdit
    BY <1>3, SessionNumbers
  <2>4. QED
    BY <1>2, <1>3, <1>4, <2>2, <2>3 DEF SessionInv, SessionTypes
<1>6. UnknownUnsaved'
  <2>1. p \in known
    BY <1>1, SessionNumbers DEF SessionInv, SessionTypes
  <2>2. QED
    BY <2>1, <1>3, <1>4 DEF SessionInv, UnknownUnsaved, UpToDate
<1>7. EditorHasContent' /\ QueuedOutside' /\ LastFlush'
  BY <1>1, <1>3, <1>4, SessionNumbers
     DEF SessionInv, EditorHasContent, QueuedOutside, LastFlush, None, Running
<1>8. ASSUME NEW q \in Project, NewestHeld(q)
      PROVE  NewestHeld(q)'
  BY <1>1, <1>3, <1>4, <1>8 DEF NewestHeld, UpToDate
<1>9. QED
  BY <1>5, <1>6, <1>7, <1>8 DEF SessionInv

LEMMA EditForcedStep ==
  ASSUME SessionInv, EditForced
  PROVE  SessionInv' /\ \A p \in Project : NewestHeld(p) => NewestHeld(p)'
<1>1. PICK p \in Project : p = current /\ MakeContent(p) /\ Enqueue(p, editor')
  BY DEF EditForced, SessionInv, SessionTypes, EditorHasContent
<1>2. PICK n : n = lastEdit'
  OBVIOUS
<1>3. /\ n \in Nat /\ n \in 1..MaxEdit /\ editor' = n /\ n \in 1..n /\ n \in 0..n
      /\ queue \in [Project -> Seq(1..n)] /\ file \in [Project -> 0..n]
      /\ newest' \in [Project -> 0..n] /\ newest'[p] = n
      /\ \A q \in Project : q # p => newest'[q] = newest[q]
      /\ job \in [Job -> JobState'] /\ opened \in Seq([path : Project, doc : 0..n])
  BY <1>1, <1>2, MadeFacts DEF SessionInv
<1>4. /\ queue' \in [Project -> Seq(1..n)] /\ queue'[p] # <<>> /\ Last(queue'[p]) = n
      /\ \A q \in Project : q # p => queue'[q] = queue[q]
      /\ saved' = n /\ armed' = None /\ due' = FALSE
      /\ file' = file /\ failures' = failures /\ flushing' = flushing /\ ~flushing
  <2>1. Enqueue(p, n)
    BY <1>1, <1>2 DEF MakeContent
  <2>2. queue \in [Project -> Seq(1..n)] /\ n \in Nat /\ n \in 1..n
    BY <1>3
  <2>3. QED
    BY <2>1, <2>2, EnqueueFacts
<1>5. /\ known' = known /\ current' = current /\ screen' = screen /\ job' = job
      /\ opened' = opened /\ closing' = closing /\ closing = "no" /\ screen = "editor"
  BY DEF EditForced, jobVars, Running
<1>6. SessionTypes'
  <2>1. 0 \in 0..n /\ n \in 0..MaxEdit
    BY <1>3, SessionNumbers
  <2>2. QED
    BY <1>2, <1>3, <1>4, <1>5, <2>1 DEF SessionInv, SessionTypes, None
<1>7. UnknownUnsaved'
  <2>1. p \in known
    BY <1>1, SessionNumbers DEF SessionInv, SessionTypes
  <2>2. QED
    BY <2>1, <1>3, <1>4, <1>5 DEF SessionInv, UnknownUnsaved, UpToDate
<1>8. EditorHasContent' /\ QueuedOutside' /\ LastFlush'
  BY <1>1, <1>3, <1>4, <1>5, SessionNumbers
     DEF SessionInv, EditorHasContent, QueuedOutside, LastFlush, None, Running
<1>9. ASSUME NEW q \in Project, NewestHeld(q)
      PROVE  NewestHeld(q)'
  BY <1>1, <1>3, <1>4, <1>5, <1>9 DEF NewestHeld, UpToDate
<1>10. QED
  BY <1>6, <1>7, <1>8, <1>9 DEF SessionInv

\* The saves of what the editor shows: on the way to the hub, debounced, and in the final
\* flush.
LEMMA CurrentSaved ==
  ASSUME SessionInv, current # NoProject,
         queue' = [queue EXCEPT ![current] = Append(@, editor)],
         saved' = editor, armed' = None, due' = FALSE, screen' \in {"hub", "editor"},
         UNCHANGED <<file, known, current, editor, jobVars, lastEdit, newest>>
  PROVE  /\ SessionTypes' /\ UnknownUnsaved' /\ EditorHasContent' /\ QueuedOutside'
         /\ \A p \in Project : NewestHeld(p) => NewestHeld(p)'
<1>1. PICK n : n = lastEdit
  OBVIOUS
<1>2. n \in Nat /\ editor \in 0..n /\ editor # None /\ queue \in [Project -> Seq(1..n)]
  BY <1>1, SessionNumbers DEF SessionInv, SessionTypes, EditorHasContent
<1>3. editor \in 1..n
  BY <1>2 DEF None
<1>4. PICK p \in Project : p = current /\ p \in known
  BY DEF SessionInv, SessionTypes
<1>5. /\ queue' \in [Project -> Seq(1..n)] /\ queue'[p] # <<>> /\ Last(queue'[p]) = editor
      /\ \A q \in Project : q # p => queue'[q] = queue[q]
  BY <1>2, <1>3, <1>4, SaveFacts
<1>6. SessionTypes'
  <2>1. 0 \in 0..n
    BY <1>2
  <2>2. job' = job /\ opened' = opened
    BY DEF jobVars
  <2>3. JobState' = JobState
    BY DEF JobState
  <2>4. QED
    BY <1>1, <1>2, <1>5, <2>1, <2>2, <2>3 DEF SessionInv, SessionTypes, None
<1>7. UnknownUnsaved'
  BY <1>4, <1>5 DEF SessionInv, UnknownUnsaved, UpToDate
<1>8. EditorHasContent' /\ QueuedOutside'
  BY <1>2 DEF EditorHasContent, QueuedOutside
<1>9. ASSUME NEW q \in Project, NewestHeld(q)
      PROVE  NewestHeld(q)'
  BY <1>4, <1>5, <1>9 DEF NewestHeld, UpToDate
<1>10. QED
  BY <1>6, <1>7, <1>8, <1>9

LEMMA ReturnToHubStep ==
  ASSUME SessionInv, ReturnToHub
  PROVE  SessionInv' /\ \A p \in Project : NewestHeld(p) => NewestHeld(p)'
<1>1. current # NoProject
  BY DEF SessionInv, EditorHasContent, ReturnToHub
<1>2. /\ queue' = [queue EXCEPT ![current] = Append(@, editor)]
      /\ saved' = editor /\ armed' = None /\ due' = FALSE /\ screen' \in {"hub", "editor"}
      /\ UNCHANGED <<file, known, current, editor, jobVars, lastEdit, newest>>
  BY DEF ReturnToHub, Enqueue, Save
<1>3. LastFlush'
  BY DEF ReturnToHub, Running, LastFlush
<1>4. QED
  BY <1>1, <1>2, <1>3, CurrentSaved DEF SessionInv

LEMMA AutosaveStep ==
  ASSUME SessionInv, AutosaveTick
  PROVE  SessionInv' /\ \A p \in Project : NewestHeld(p) => NewestHeld(p)'
<1>1. /\ Running /\ current # NoProject /\ saved # editor
      /\ UNCHANGED <<known, current, screen, editor, jobVars, closing, lastEdit, newest>>
  BY DEF AutosaveTick
<1>2. CASE /\ armed' = editor /\ due' = FALSE
           /\ UNCHANGED <<serviceVars, saved>>
  BY <1>1, <1>2
     DEF SessionInv, SessionTypes, UnknownUnsaved, EditorHasContent, QueuedOutside, LastFlush,
         JobState, NewestHeld, UpToDate, serviceVars, jobVars, Running
<1>3. CASE Enqueue(current, editor)
  <2>1. /\ queue' = [queue EXCEPT ![current] = Append(@, editor)]
        /\ saved' = editor /\ armed' = None /\ due' = FALSE /\ screen' \in {"hub", "editor"}
        /\ UNCHANGED <<file, known, current, editor, jobVars, lastEdit, newest>>
    BY <1>1, <1>3 DEF Enqueue, Save, SessionInv, SessionTypes
  <2>2. LastFlush'
    BY <1>1 DEF Running, LastFlush
  <2>3. QED
    BY <1>1, <2>1, <2>2, CurrentSaved DEF SessionInv
<1>4. QED
  BY <1>2, <1>3 DEF AutosaveTick

LEMMA QuietPeriodStep ==
  ASSUME SessionInv, QuietPeriodEnds \/ PollFailures
  PROVE  SessionInv' /\ \A p \in Project : NewestHeld(p) => NewestHeld(p)'
<1>1. CASE QuietPeriodEnds
  BY <1>1
     DEF SessionInv, SessionTypes, UnknownUnsaved, EditorHasContent, QueuedOutside, LastFlush,
         JobState, NewestHeld, UpToDate, serviceVars, jobVars, Running, QuietPeriodEnds
<1>2. CASE PollFailures
  BY <1>2
     DEF SessionInv, SessionTypes, UnknownUnsaved, EditorHasContent, QueuedOutside, LastFlush,
         JobState, NewestHeld, UpToDate, editorVars, scheduleVars, jobVars, Running,
         PollFailures, TakeFailures
<1>3. QED
  BY <1>1, <1>2

-----------------------------------------------------------------------------
(* Background threads and their results. *)

\* What a thread is doing, by kind.
LEMMA JobFacts ==
  ASSUME SessionTypes, NEW j \in Job
  PROVE  /\ job[j].kind = "open" => job[j].path \in Project
         /\ job[j].kind = "copy" =>
              /\ job[j] \in [kind : {"copy"}, source : Project, path : Project, doc : 0..lastEdit]
              /\ job[j].path \in Project /\ job[j].source \in Project /\ job[j].doc \in 0..lastEdit
<1>1. job[j] \in JobState
  BY DEF SessionTypes
<1>2. QED
  BY <1>1 DEF JobState

\* A thread that finishes leaves a result.
LEMMA FinishFacts ==
  ASSUME SessionTypes, NEW j \in Job, NEW p \in Project, NEW d \in 0..lastEdit,
         Deliver(j, Result(p, d))
  PROVE  /\ job' \in [Job -> JobState]
         /\ opened' \in Seq([path : Project, doc : 0..lastEdit])
         /\ opened' # opened
<1>1. PICK S : S = [path : Project, doc : 0..lastEdit]
  OBVIOUS
<1>2. opened \in Seq(S) /\ Result(p, d) \in S
  BY <1>1 DEF SessionTypes, Result
<1>3. Append(opened, Result(p, d)) \in Seq(S) /\ Append(opened, Result(p, d)) # opened
  <2>1. Len(Append(opened, Result(p, d))) = Len(opened) + 1 /\ Len(opened) \in Nat
    BY <1>2
  <2>2. QED
    BY <1>2, <2>1
<1>4. Idle \in JobState
  BY DEF Idle, JobState
<1>5. QED
  BY <1>1, <1>3, <1>4 DEF Deliver, SessionTypes

\* A step of a thread, which at most writes a file of a content made.
LEMMA ThreadStep ==
  ASSUME SessionInv, file' \in [Project -> 0..lastEdit], job' \in [Job -> JobState],
         opened' \in Seq([path : Project, doc : 0..lastEdit]),
         UNCHANGED <<queue, failures, flushing, known, editorVars, closing, lastEdit, newest>>
  PROVE  SessionInv'
<1>1. JobState' = JobState
  BY DEF JobState
<1>2. SessionTypes'
  BY <1>1 DEF SessionInv, SessionTypes, editorVars, scheduleVars
<1>3. QED
  BY <1>2
     DEF SessionInv, UnknownUnsaved, EditorHasContent, QueuedOutside, LastFlush, UpToDate,
         editorVars, scheduleVars, Running

LEMMA ReadDocumentStep ==
  ASSUME SessionInv, NEW j \in Job, ReadDocument(j)
  PROVE  SessionInv' /\ opened' # opened
<1>1. SessionTypes /\ job[j].path \in Project
  BY JobFacts DEF SessionInv, ReadDocument
<1>2. PICK p \in Project : p = job[j].path
  BY <1>1
<1>3. PICK d \in 0..lastEdit : d = file[p]
  BY <1>1 DEF SessionTypes
<1>4. Deliver(j, Result(p, d))
  BY <1>2, <1>3 DEF ReadDocument
<1>5. /\ job' \in [Job -> JobState] /\ opened' # opened
      /\ opened' \in Seq([path : Project, doc : 0..lastEdit])
  BY <1>1, <1>4, FinishFacts
<1>6. /\ UNCHANGED <<queue, failures, flushing, known, editorVars, closing, lastEdit, newest>>
      /\ file' = file /\ file \in [Project -> 0..lastEdit]
  BY <1>1 DEF ReadDocument, serviceVars, SessionTypes
<1>7. QED
  BY <1>5, <1>6, ThreadStep

LEMMA ReadSourceStep ==
  ASSUME SessionInv, NEW j \in Job, ReadSource(j)
  PROVE  /\ SessionInv'
         /\ opened' # opened \/ \A p \in Project : NewestHeld(p) => NewestHeld(p)'
<1>1. /\ SessionTypes
      /\ job[j] \in [kind : {"copy"}, source : Project, path : Project, doc : 0..lastEdit]
      /\ job[j].path \in Project /\ job[j].source \in Project
  BY JobFacts DEF SessionInv, ReadSource
<1>2. /\ UNCHANGED <<queue, failures, flushing, known, editorVars, closing, lastEdit, newest>>
      /\ file' = file /\ file \in [Project -> 0..lastEdit]
  BY <1>1 DEF ReadSource, serviceVars, SessionTypes
<1>3. CASE file[job[j].source] = NoDocument
  <2>1. Deliver(j, Result(job[j].path, NoDocument))
    BY <1>3 DEF ReadSource
  <2>2. NoDocument \in 0..lastEdit
    BY <1>1, <1>2, <1>3
  <2>3. /\ job' \in [Job -> JobState] /\ opened' # opened
        /\ opened' \in Seq([path : Project, doc : 0..lastEdit])
    BY <1>1, <2>1, <2>2, FinishFacts
  <2>4. QED
    BY <1>2, <2>3, ThreadStep
<1>4. CASE file[job[j].source] # NoDocument
  <2>1. job' = [job EXCEPT ![j].doc = file[job[j].source]] /\ opened' = opened
    BY <1>4 DEF ReadSource
  <2>2. PICK d \in 0..lastEdit : d = file[job[j].source]
    BY <1>1, <1>2
  <2>3. [job[j] EXCEPT !.doc = d] \in JobState
    BY <1>1 DEF JobState
  <2>4. job' \in [Job -> JobState]
    BY <1>1, <2>1, <2>2, <2>3 DEF SessionTypes
  <2>5. SessionInv'
    BY <1>1, <1>2, <2>1, <2>4, ThreadStep DEF SessionTypes
  <2>6. \A p \in Project : NewestHeld(p) => NewestHeld(p)'
    BY <1>2 DEF NewestHeld, UpToDate, editorVars, scheduleVars
  <2>7. QED
    BY <2>5, <2>6
<1>5. QED
  BY <1>3, <1>4

LEMMA WriteCopyStep ==
  ASSUME SessionInv, NEW j \in Job, WriteCopy(j)
  PROVE  SessionInv' /\ opened' # opened
<1>1. SessionTypes /\ job[j].path \in Project /\ job[j].doc \in 0..lastEdit
  BY JobFacts DEF SessionInv, WriteCopy
<1>2. PICK p \in Project : p = job[j].path
  BY <1>1
<1>3. PICK d \in 0..lastEdit : d = job[j].doc
  BY <1>1
<1>4. 0 \in 0..lastEdit /\ NoDocument = 0
  BY <1>1, SessionNumbers DEF SessionTypes
<1>5. \E e \in 0..lastEdit : Deliver(j, Result(p, e))
  BY <1>2, <1>3, <1>4 DEF WriteCopy
<1>6. /\ job' \in [Job -> JobState] /\ opened' # opened
      /\ opened' \in Seq([path : Project, doc : 0..lastEdit])
  BY <1>1, <1>5, FinishFacts
<1>7. file' = [file EXCEPT ![p] = d] \/ file' = file
  BY <1>2, <1>3 DEF WriteCopy
<1>8. file' \in [Project -> 0..lastEdit]
  BY <1>1, <1>7 DEF SessionTypes
<1>9. UNCHANGED <<queue, failures, flushing, known, editorVars, closing, lastEdit, newest>>
  BY DEF WriteCopy
<1>10. QED
  BY <1>6, <1>8, <1>9, ThreadStep

LEMMA CompleteOpenStep ==
  ASSUME SessionInv, CompleteOpen
  PROVE  SessionInv' /\ opened' # opened
<1>1. PICK S : S = [path : Project, doc : 0..lastEdit]
  OBVIOUS
<1>2. SessionTypes /\ opened \in Seq(S) /\ opened # <<>> /\ opened' = Tail(opened)
  BY <1>1 DEF SessionInv, SessionTypes, CompleteOpen
<1>3. /\ Head(opened) \in S /\ Tail(opened) \in Seq(S) /\ Len(opened) \in Nat
      /\ Len(Tail(opened)) = Len(opened) - 1
  BY <1>2
<1>4. opened' # opened /\ opened' \in Seq(S)
  <2>1. opened \in Seq(S) /\ opened # <<>>
    BY <1>2
  <2>2. Tail(opened) # opened
    BY <2>1
  <2>3. QED
    BY <1>2, <1>3, <2>2
<1>5. PICK n : n = lastEdit
  OBVIOUS
<1>6. PICK p \in Project : p = Head(opened).path
  BY <1>1, <1>3
<1>7. PICK d \in 0..n : d = Head(opened).doc
  BY <1>1, <1>3, <1>5
<1>8. /\ n \in Nat /\ queue \in [Project -> Seq(1..n)] /\ file \in [Project -> 0..n]
      /\ newest \in [Project -> 0..n] /\ job \in [Job -> JobState] /\ p # NoProject
  <2>1. n \in Nat /\ p # NoProject
    BY <1>2, <1>5, SessionNumbers DEF SessionTypes
  <2>2. QED
    BY <1>2, <1>5, <2>1 DEF SessionTypes
<1>9. Running /\ job' = job /\ closing' = closing /\ lastEdit' = lastEdit
  BY DEF CompleteOpen
<1>10. CASE d = NoDocument
  <2>1. UNCHANGED <<serviceVars, known, editorVars, newest>>
    BY <1>6, <1>7, <1>10 DEF CompleteOpen
  <2>2. QED
    BY <1>1, <1>4, <1>5, <1>8, <1>9, <2>1, ThreadStep DEF serviceVars
<1>11. CASE d # NoDocument
  <2>1. /\ ShowEditor(p, d)
        /\ newest' = [newest EXCEPT ![p] = IF p \in known THEN @ ELSE d]
    BY <1>6, <1>7, <1>11 DEF CompleteOpen
  <2>2. d \in 1..n
    BY <1>7, <1>8, <1>11, SessionNumbers
  <2>3. /\ queue' \in [Project -> Seq(1..n)] /\ queue'[p] # <<>> /\ Last(queue'[p]) = d
        /\ \A q \in Project : q # p => queue'[q] = queue[q]
        /\ saved' = d /\ armed' = None /\ due' = FALSE
        /\ file' = file /\ failures' = failures /\ flushing' = flushing /\ ~flushing
    BY <1>8, <2>1, <2>2, EnqueueFacts DEF ShowEditor
  <2>4. /\ known' = known \cup {p} /\ current' = p /\ screen' = "editor" /\ editor' = d
    BY <2>1 DEF ShowEditor
  <2>5. newest' \in [Project -> 0..n] /\ \A q \in Project : q # p => newest'[q] = newest[q]
    BY <1>8, <2>1
  <2>6. JobState' = JobState
    BY <1>9 DEF JobState
  <2>7. SessionTypes'
    <3>1. 0 \in 0..n /\ d \in 0..n
      BY <1>8
    <3>2. QED
      BY <1>1, <1>2, <1>4, <1>5, <1>8, <1>9, <2>3, <2>4, <2>5, <2>6, <3>1
         DEF SessionTypes, None
  <2>8. UnknownUnsaved'
    BY <2>3, <2>4, <2>5 DEF SessionInv, UnknownUnsaved, UpToDate
  <2>9. EditorHasContent' /\ QueuedOutside' /\ LastFlush'
    BY <1>8, <1>9, <2>2, <2>3, <2>4
       DEF EditorHasContent, QueuedOutside, LastFlush, None, Running
  <2>10. QED
    BY <1>4, <2>7, <2>8, <2>9 DEF SessionInv
<1>12. QED
  BY <1>10, <1>11

-----------------------------------------------------------------------------
(* The writer and the final flush. *)

LEMMA AdvanceStep ==
  ASSUME SessionInv, NEW p \in Project, Advance(p), closing # "closed",
         UNCHANGED <<known, editorVars, jobVars, closing, lastEdit, newest>>
  PROVE  SessionInv' /\ \A q \in Project : NewestHeld(q) => NewestHeld(q)'
<1>1. PICK n : n = lastEdit
  OBVIOUS
<1>2. /\ n \in Nat /\ queue \in [Project -> Seq(1..n)] /\ file \in [Project -> 0..n]
  BY <1>1, SessionNumbers DEF SessionInv, SessionTypes
<1>3. /\ queue' \in [Project -> Seq(1..n)] /\ file' \in [Project -> 0..n]
      /\ queue[p] # <<>>
      /\ \A q \in Project : q # p => queue'[q] = queue[q] /\ file'[q] = file[q]
      /\ queue'[p] = <<>> => file'[p] = Last(queue[p])
      /\ queue'[p] # <<>> => Last(queue'[p]) = Last(queue[p])
      /\ failures' = failures /\ flushing' = flushing
  BY <1>2, AdvanceFacts
<1>4. JobState' = JobState
  BY DEF JobState
<1>5. SessionTypes'
  BY <1>1, <1>3, <1>4 DEF SessionInv, SessionTypes, editorVars, scheduleVars, jobVars
<1>6. UnknownUnsaved'
  BY <1>3 DEF SessionInv, UnknownUnsaved, UpToDate
<1>7. EditorHasContent' /\ QueuedOutside'
  BY DEF SessionInv, EditorHasContent, QueuedOutside, editorVars, scheduleVars, Running
<1>8. LastFlush'
  BY <1>3 DEF SessionInv, LastFlush, UpToDate
<1>9. ASSUME NEW q \in Project, NewestHeld(q)
      PROVE  NewestHeld(q)'
  BY <1>3, <1>9 DEF NewestHeld, UpToDate, editorVars, scheduleVars
<1>10. QED
  BY <1>5, <1>6, <1>7, <1>8, <1>9 DEF SessionInv

LEMMA ServiceStepKeeps ==
  ASSUME SessionInv, ServiceStep
  PROVE  SessionInv' /\ \A q \in Project : NewestHeld(q) => NewestHeld(q)'
<1>1. /\ closing # "closed" /\ ServiceWork
      /\ UNCHANGED <<known, editorVars, jobVars, closing, lastEdit, newest>>
  BY DEF ServiceStep
<1>2. CASE \E p \in Project : Advance(p)
  BY <1>1, <1>2, AdvanceStep
<1>3. CASE (\E p \in Project : Report(p)) \/ Flushed
  <2>1. queue' = queue /\ file' = file
    BY <1>3 DEF Report, Flushed
  <2>2. LastFlush'
    <3>1. CASE \E p \in Project : Report(p)
      BY <1>1, <3>1 DEF SessionInv, LastFlush, Report, UpToDate
    <3>2. CASE Flushed
      BY <1>1, <3>2 DEF LastFlush, Flushed, UpToDate
    <3>3. QED
      BY <1>3, <3>1, <3>2
  <2>3. JobState' = JobState
    BY <1>1 DEF JobState
  <2>4. SessionTypes'
    BY <1>1, <2>1, <2>3 DEF SessionInv, SessionTypes, editorVars, scheduleVars, jobVars
  <2>5. UnknownUnsaved' /\ EditorHasContent' /\ QueuedOutside'
    BY <1>1, <2>1
       DEF SessionInv, UnknownUnsaved, UpToDate, EditorHasContent, QueuedOutside,
           editorVars, scheduleVars, Running
  <2>6. \A q \in Project : NewestHeld(q) => NewestHeld(q)'
    BY <1>1, <2>1 DEF NewestHeld, UpToDate, editorVars, scheduleVars
  <2>7. QED
    BY <2>2, <2>4, <2>5, <2>6 DEF SessionInv
<1>4. QED
  BY <1>1, <1>2, <1>3 DEF ServiceWork

\* A round of the flush queues what the editor shows; what it finds is known when it ends.
LEMMA RoundStep ==
  ASSUME SessionInv, NEW round, round # "no", round # "shutdown", round # "closed",
         BeginRound(round)
  PROVE  SessionInv' /\ \A q \in Project : NewestHeld(q) => NewestHeld(q)'
<1>1. /\ closing' = round /\ flushing' = TRUE
      /\ UNCHANGED <<file, known, current, screen, editor, jobVars, lastEdit, newest>>
  BY DEF BeginRound
<1>2. LastFlush'
  BY <1>1 DEF LastFlush
<1>3. CASE current = NoProject
  <2>1. UNCHANGED <<queue, scheduleVars>>
    BY <1>3 DEF BeginRound
  <2>2. saved = editor
    BY <1>3 DEF SessionInv, EditorHasContent, QueuedOutside
  <2>3. JobState' = JobState
    BY <1>1 DEF JobState
  <2>4. SessionTypes'
    BY <1>1, <2>1, <2>3 DEF SessionInv, SessionTypes, scheduleVars, jobVars
  <2>5. UnknownUnsaved' /\ EditorHasContent' /\ QueuedOutside'
    BY <1>1, <2>1, <2>2
       DEF SessionInv, UnknownUnsaved, UpToDate, EditorHasContent, QueuedOutside, scheduleVars
  <2>6. \A q \in Project : NewestHeld(q) => NewestHeld(q)'
    BY <1>1, <2>1 DEF NewestHeld, UpToDate, scheduleVars
  <2>7. QED
    BY <1>2, <2>4, <2>5, <2>6 DEF SessionInv
<1>4. CASE current # NoProject
  <2>1. /\ queue' = [queue EXCEPT ![current] = Append(@, editor)]
        /\ saved' = editor /\ armed' = None /\ due' = FALSE
    BY <1>4 DEF BeginRound
  <2>2. screen' \in {"hub", "editor"}
    BY <1>1 DEF SessionInv, SessionTypes
  <2>3. QED
    BY <1>1, <1>2, <1>4, <2>1, <2>2, CurrentSaved DEF SessionInv
<1>5. QED
  BY <1>3, <1>4

LEMMA CloseStep ==
  ASSUME SessionInv, Close
  PROVE  SessionInv' /\ \A q \in Project : NewestHeld(q) => NewestHeld(q)'
<1>1. CASE \E round \in {"window", "window again", "drop", "drop again"} : BeginRound(round)
  BY <1>1, RoundStep
<1>2. CASE /\ closing \in {"drop", "drop again", "shutdown"} /\ ~flushing
           /\ \/ BeginShutdown
              \/ /\ closing = "shutdown" /\ closing' = "closed"
                 /\ UNCHANGED <<serviceVars, known, editorVars, jobVars, lastEdit, newest>>
  <2>1. /\ UNCHANGED <<queue, file, known, editorVars, jobVars, lastEdit, newest>>
        /\ closing' # "no" /\ closing # "no" /\ failures' \subseteq failures
    BY <1>2 DEF BeginShutdown, serviceVars
  <2>2. LastFlush'
    <3>1. CASE BeginShutdown
      BY <3>1 DEF LastFlush, BeginShutdown
    <3>2. CASE closing = "shutdown" /\ closing' = "closed" /\ UNCHANGED serviceVars
      BY <1>2, <3>2 DEF SessionInv, LastFlush, serviceVars, UpToDate
    <3>3. QED
      BY <1>2, <3>1, <3>2
  <2>3. JobState' = JobState
    BY <2>1 DEF JobState
  <2>4. SessionTypes'
    BY <2>1, <2>3 DEF SessionInv, SessionTypes, editorVars, scheduleVars, jobVars
  <2>5. UnknownUnsaved' /\ EditorHasContent' /\ QueuedOutside'
    BY <2>1
       DEF SessionInv, UnknownUnsaved, UpToDate, EditorHasContent, QueuedOutside,
           editorVars, scheduleVars, Running
  <2>6. \A q \in Project : NewestHeld(q) => NewestHeld(q)'
    BY <2>1 DEF NewestHeld, UpToDate, editorVars, scheduleVars
  <2>7. QED
    BY <2>2, <2>4, <2>5, <2>6 DEF SessionInv
<1>3. QED
  BY <1>1, <1>2 DEF Close

-----------------------------------------------------------------------------
(* The theorems. *)

\* One step.
LEMMA SessionStep ==
  ASSUME SessionInv, [SessionNext]_sessionVars
  PROVE  /\ SessionInv'
         /\ opened' # opened \/ \A p \in Project : NewestHeld(p) => NewestHeld(p)'
<1>1. CASE UNCHANGED sessionVars
  BY <1>1
     DEF SessionInv, SessionTypes, UnknownUnsaved, EditorHasContent, QueuedOutside, LastFlush,
         JobState, NewestHeld, UpToDate, Running, sessionVars, serviceVars, editorVars,
         scheduleVars, jobVars
<1>2. CASE UserNext
  BY <1>2, NewProjectStep, EditStep, EditForcedStep, ReturnToHubStep, BackgroundStarts
     DEF UserNext
<1>3. CASE JobNext
  BY <1>3, ReadDocumentStep, ReadSourceStep, WriteCopyStep DEF JobNext
<1>4. CASE LoopNext
  BY <1>4, CompleteOpenStep, AutosaveStep, QuietPeriodStep, CloseStep DEF LoopNext
<1>5. CASE ServiceStep
  BY <1>5, ServiceStepKeeps
<1>6. QED
  BY <1>1, <1>2, <1>3, <1>4, <1>5 DEF SessionNext

\* In every reachable state: types, no save of a project the hub does not know, the editor's
\* content queued outside the editor and in every round of the final flush, and what the
\* last flush found still there (queue_project_autosave_at, flush_project_autosave).
THEOREM SessionInvariant == SessionSafety => []SessionInv
<1>1. SessionInit => SessionInv
  BY SessionInitially
<1>2. SessionInv /\ [SessionNext]_sessionVars => SessionInv'
  BY SessionStep
<1>3. QED
  BY <1>1, <1>2, PTL DEF SessionSafety

\* When the application has closed, the editor's content has been queued and every queued
\* document is on disk, or the last attempt has failed, whatever readers, copiers and saves
\* were under way (App::drop).
THEOREM ClosedIsSavedAlways == SessionSafety => []ClosedIsSaved
<1>1. ASSUME SessionInv
      PROVE  ClosedIsSaved
  <2>1. \A n \in 0..lastEdit : n \in 0..MaxEdit
    BY <1>1, SessionNumbers DEF SessionInv, SessionTypes
  <2>2. SessionTypeOK
    BY <1>1, <2>1
       DEF SessionInv, SessionTypes, SessionTypeOK, UnknownUnsaved, EditorHasContent
  <2>3. QED
    BY <1>1, <2>2 DEF SessionInv, ClosedIsSaved, LastFlush, QueuedOutside, Running
<1>2. SessionInv => ClosedIsSaved
  BY <1>1
<1>3. QED
  BY <1>2, SessionInvariant, PTL

\* No step but the arrival of an opened document or of a copy loses the newest content of any
\* project, with any number of readers and copiers under way (queue_project_autosave_at,
\* ReturnToHub).
THEOREM LostByOpeningOnlyAlways == SessionSafety => LostByOpeningOnly
<1>1. ASSUME SessionInv, [SessionNext]_sessionVars
      PROVE  [\A p \in Project : NewestHeld(p) =>
                NewestHeld(p)' \/ opened' # opened]_sessionVars
  BY <1>1, SessionStep
<1>2. SessionInv /\ [SessionNext]_sessionVars =>
        [\A p \in Project : NewestHeld(p) => NewestHeld(p)' \/ opened' # opened]_sessionVars
  BY <1>1
<1>3. QED
  BY <1>2, SessionInvariant, PTL DEF SessionSafety, LostByOpeningOnly
=============================================================================
