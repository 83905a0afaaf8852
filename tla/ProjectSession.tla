----------------------------- MODULE ProjectSession -----------------------------
(*****************************************************************************)
(* Projects in the application: the hub, the editor and its debounced        *)
(* autosave, the background readers and copiers whose results arrive as      *)
(* dialog results, and the final flush, over the save service that           *)
(* ProjectWriter implements.  One thread handles the events; readers and     *)
(* copiers touch the files directly.                                         *)
(*****************************************************************************)
EXTENDS SaveService, FiniteSetsExt, SequencesExt

CONSTANTS
  MaxEdit,  \* bound on the contents users make
  MaxQueue, \* bound on the saves queued and not on disk
  Job       \* readers and copiers, a bound on them and on the results not yet polled

\* Paths are project ids (project_document_path), contents are numbered as they are made.
ASSUME SessionConstants ==
  /\ Project = 1..Cardinality(Project)
  /\ MaxEdit \in Nat
  /\ Project \subseteq 1..MaxEdit
  /\ MaxQueue \in Nat
  /\ Document = 1..MaxEdit
  /\ NoDocument = 0

VARIABLES
  known,    \* projects of the hub
  current,  \* current_project_id; it stays when the hub is shown
  screen,
  editor,   \* what the editor shows; stands for durable_generation as well
  saved,    \* last_enqueued_generation
  armed,    \* pending_generation of the autosave schedule
  due,      \* its deadline has passed
  job,      \* what each background thread is doing
  opened,   \* dialog results on their way to the event loop
  closing,  \* rounds of the final flush
  lastEdit, \* contents made so far
  newest    \* history: the newest content a user has made or opened in each project

scheduleVars == <<saved, armed, due>>
editorVars == <<current, screen, editor, scheduleVars>>
jobVars == <<job, opened>>
sessionVars == <<serviceVars, known, editorVars, jobVars, closing, lastEdit, newest>>

-----------------------------------------------------------------------------
NoProject == 0
None == 0
Idle == [kind |-> "idle"]
Reader(p) == [kind |-> "open", path |-> p]
Copier(p, q, d) == [kind |-> "copy", source |-> p, path |-> q, doc |-> d]
Result(p, d) == [path |-> p, doc |-> d]

Running == closing = "no"
Room == MapThenSumSet(LAMBDA p : Len(queue[p]), Project) < MaxQueue
Outstanding == Cardinality({j \in Job : job[j] # Idle}) + Len(opened)
NextId == IF known = {} THEN 1 ELSE Max(known) + 1

\* queue_project_autosave_at once the schedule is ready
Enqueue(p, d) ==
  /\ Room
  /\ Save(p, d)
  /\ saved' = d
  /\ armed' = None
  /\ due' = FALSE

\* The durable state changed: a new content in the editor.
MakeContent(p) ==
  /\ lastEdit < MaxEdit
  /\ lastEdit' = lastEdit + 1
  /\ editor' = lastEdit'
  /\ newest' = [newest EXCEPT ![p] = lastEdit']

\* show_editor_screen; the schedule it resets is set by the save that follows.
ShowEditor(p, d) ==
  /\ known' = known \cup {p}
  /\ current' = p
  /\ screen' = "editor"
  /\ editor' = d
  /\ Enqueue(p, d)

-----------------------------------------------------------------------------
(* The hub.                                                                  *)

\* A new editor has no enqueued generation, so its first autosave is at once.
NewProject ==
  /\ Running /\ screen = "hub"
  /\ NextId \in Project
  /\ MakeContent(NextId)
  /\ ShowEditor(NextId, lastEdit')
  /\ UNCHANGED <<jobVars, closing>>

Start(j, work) ==
  /\ Running /\ screen = "hub"
  /\ job[j] = Idle
  /\ Outstanding < Cardinality(Job)
  /\ job' = [job EXCEPT ![j] = work]
  /\ UNCHANGED <<serviceVars, known, editorVars, opened, closing, lastEdit, newest>>

OpenExisting(j, p) == p \in known /\ Start(j, Reader(p))

\* The id of the copy is chosen now, the hub learns of it when the copy has been opened.
Duplicate(j, p) ==
  /\ p \in known
  /\ NextId \in Project
  /\ Start(j, Copier(p, NextId, IF current = p THEN editor ELSE NoDocument))

-----------------------------------------------------------------------------
(* Background threads.                                                       *)

Deliver(j, result) ==
  /\ job' = [job EXCEPT ![j] = Idle]
  /\ opened' = Append(opened, result)

ReadDocument(j) ==
  /\ job[j].kind = "open"
  /\ Deliver(j, Result(job[j].path, file[job[j].path]))
  /\ UNCHANGED <<serviceVars, known, editorVars, closing, lastEdit, newest>>

ReadSource(j) ==
  /\ job[j].kind = "copy"
  /\ job[j].doc = NoDocument
  /\ IF file[job[j].source] = NoDocument
     THEN Deliver(j, Result(job[j].path, NoDocument))
     ELSE /\ job' = [job EXCEPT ![j].doc = file[job[j].source]]
          /\ UNCHANGED opened
  /\ UNCHANGED <<serviceVars, known, editorVars, closing, lastEdit, newest>>

\* A copier writes its destination itself, past the background writer.
WriteCopy(j) ==
  /\ job[j].kind = "copy"
  /\ job[j].doc # NoDocument
  /\ \/ /\ file' = [file EXCEPT ![job[j].path] = job[j].doc]
        /\ Deliver(j, Result(job[j].path, job[j].doc))
     \/ /\ Deliver(j, Result(job[j].path, NoDocument))
        /\ UNCHANGED file
  /\ UNCHANGED <<queue, failures, flushing, known, editorVars, closing, lastEdit, newest>>

\* complete_project_open, whatever screen is shown by then; a result without a document
\* only sets the status line.
CompleteOpen ==
  /\ Running
  /\ opened # <<>>
  /\ opened' = Tail(opened)
  /\ LET p == Head(opened).path
         d == Head(opened).doc
     IN  IF d = NoDocument
         THEN UNCHANGED <<serviceVars, known, editorVars, newest>>
         ELSE /\ ShowEditor(p, d)
              /\ newest' = [newest EXCEPT ![p] = IF p \in known THEN @ ELSE d]
  /\ UNCHANGED <<job, closing, lastEdit>>

-----------------------------------------------------------------------------
(* The editor.                                                               *)

Edit ==
  /\ Running /\ screen = "editor"
  /\ MakeContent(current)
  /\ UNCHANGED <<serviceVars, known, current, screen, scheduleVars, jobVars, closing>>

\* A proxy preference is saved at once.
EditForced ==
  /\ Running /\ screen = "editor"
  /\ MakeContent(current)
  /\ Enqueue(current, editor')
  /\ UNCHANGED <<known, current, screen, jobVars, closing>>

AutosaveTickRestarts ==
  /\ Running /\ current # NoProject
  /\ saved # editor
  /\ \/ /\ armed' = editor
        /\ due' = FALSE
        /\ UNCHANGED <<serviceVars, saved>>
     \/ /\ armed = editor
        /\ due
        /\ Enqueue(current, editor)
  /\ UNCHANGED <<known, current, screen, editor, jobVars, closing, lastEdit, newest>>

\* AutosaveSchedule::ready without force: a new generation restarts the quiet period, and
\* what has not changed until its end is queued.
AutosaveTick ==
  /\ Running /\ current # NoProject
  /\ saved # editor
  /\ \/ /\ armed # editor
        /\ armed' = editor
        /\ due' = FALSE
        /\ UNCHANGED <<serviceVars, saved>>
     \/ /\ armed = editor
        /\ due
        /\ Enqueue(current, editor)
  /\ UNCHANGED <<known, current, screen, editor, jobVars, closing, lastEdit, newest>>

QuietPeriodEnds ==
  /\ armed # None
  /\ ~due
  /\ due' = TRUE
  /\ UNCHANGED <<serviceVars, known, current, screen, editor, saved, armed, jobVars,
                 closing, lastEdit, newest>>

ReturnUnsaved ==
  /\ Running /\ screen = "editor"
  /\ screen' = "hub"
  /\ UNCHANGED <<serviceVars, known, current, editor, scheduleVars, jobVars, closing,
                 lastEdit, newest>>

\* Queues the latest state without waiting for the disk.
ReturnToHub ==
  /\ Running /\ screen = "editor"
  /\ screen' = "hub"
  /\ Enqueue(current, editor)
  /\ UNCHANGED <<known, current, editor, jobVars, closing, lastEdit, newest>>

-----------------------------------------------------------------------------
(* The end: flush_project_autosave when the window closes and again when the *)
(* application is dropped, each with one retry, then flush_and_shutdown.     *)

BeginRoundDebounced(round) ==
  /\ closing' = round
  /\ failures' = {}
  /\ flushing' = TRUE
  /\ UNCHANGED <<queue, file, known, editorVars, jobVars, lastEdit, newest>>

\* Failures polled, the current state queued, and the flush sent.
BeginRound(round) ==
  /\ closing' = round
  /\ failures' = {}
  /\ flushing' = TRUE
  /\ IF current = NoProject
     THEN UNCHANGED <<queue, scheduleVars>>
     ELSE /\ queue' = [queue EXCEPT ![current] = Append(@, editor)]
          /\ saved' = editor
          /\ armed' = None
          /\ due' = FALSE
  /\ UNCHANGED <<file, known, current, screen, editor, jobVars, lastEdit, newest>>

\* Failures polled, and the shutdown sent: one more attempt at what is left.
BeginShutdown ==
  /\ closing' = "shutdown"
  /\ failures' = {}
  /\ flushing' = TRUE
  /\ UNCHANGED <<queue, file, known, editorVars, jobVars, lastEdit, newest>>

Close ==
  /\ ~flushing
  /\ \/ closing = "no" /\ BeginRound("window")
     \/ closing = "window" /\ failures # {} /\ BeginRound("window again")
     \/ closing = "window" /\ failures = {} /\ BeginRound("drop")
     \/ closing = "window again" /\ BeginRound("drop")
     \/ closing = "drop" /\ failures # {} /\ BeginRound("drop again")
     \/ closing = "drop" /\ failures = {} /\ BeginShutdown
     \/ closing = "drop again" /\ BeginShutdown
     \/ /\ closing = "shutdown"
        /\ closing' = "closed"
        /\ UNCHANGED <<serviceVars, known, editorVars, jobVars, lastEdit, newest>>

ServiceStep ==
  /\ closing # "closed"
  /\ ServiceWork
  /\ UNCHANGED <<known, editorVars, jobVars, closing, lastEdit, newest>>

PollFailures ==
  /\ Running /\ failures # {}
  /\ TakeFailures
  /\ UNCHANGED <<known, editorVars, jobVars, closing, lastEdit, newest>>

-----------------------------------------------------------------------------
\* The catalog lists the projects of earlier sessions; the document of project p is number p.
SessionInit ==
  /\ ServiceInit
  /\ known \in SUBSET Project
  /\ file = [p \in Project |-> IF p \in known THEN p ELSE NoDocument]
  /\ current = NoProject
  /\ screen = "hub"
  /\ editor = None
  /\ saved = None
  /\ armed = None
  /\ due = FALSE
  /\ job = [j \in Job |-> Idle]
  /\ opened = <<>>
  /\ closing = "no"
  /\ lastEdit = Max(known \cup {0})
  /\ newest = file

UserNext ==
  \/ NewProject \/ Edit \/ EditForced \/ ReturnToHub
  \/ \E j \in Job, p \in Project : OpenExisting(j, p) \/ Duplicate(j, p)

JobNext == \E j \in Job : ReadDocument(j) \/ ReadSource(j) \/ WriteCopy(j)
LoopNext == CompleteOpen \/ AutosaveTick \/ QuietPeriodEnds \/ PollFailures \/ Close

SessionNext == UserNext \/ JobNext \/ LoopNext \/ ServiceStep
SessionSafety == SessionInit /\ [][SessionNext]_sessionVars

\* The event loop runs and time passes; users owe nothing.
SessionSpec ==
  SessionSafety /\ WF_sessionVars(AutosaveTick) /\ WF_sessionVars(QuietPeriodEnds)

-----------------------------------------------------------------------------
SessionTypeOK ==
  /\ known \subseteq Project
  /\ current \in known \cup {NoProject}
  /\ screen \in {"hub", "editor"}
  /\ screen = "editor" => current # NoProject
  /\ {editor, saved, armed, lastEdit} \subseteq 0..MaxEdit
  /\ due => armed # None
  /\ \A p \in Project : newest[p] \in 0..lastEdit
  /\ \A p \in Project \ known : UpToDate(p) /\ newest[p] = NoDocument

\* The newest content of a project is what its file is coming to, or in the editor and
\* not queued yet; and the editor, when it has the project, has nothing else.
NewestHeld(p) ==
  /\ current = p => newest[p] = editor
  /\ newest[p] =
       IF current = p /\ saved # editor THEN editor
       ELSE IF UpToDate(p) THEN file[p] ELSE Last(queue[p])

\* Apart from the arrival of an opened document and the write of a copy, no step, be it a
\* new project, the way back to the hub, a debounced, coalesced or repeated save, loses the
\* newest content of any project (ReturnToHub, queue_project_autosave_at).
LostByOpeningOnly ==
  [][\A p \in Project : NewestHeld(p) =>
       NewestHeld(p)' \/ opened' # opened]_sessionVars

\* The variables have their types, and when the application has closed, the editor's
\* content has been queued and every queued document is on disk, or an attempt of the shutdown
\* itself, after those of the rounds before it, has failed (App::drop).
ClosedIsSaved ==
  /\ SessionTypeOK
  /\ closing = "closed" =>
       /\ \A p \in Project : UpToDate(p) \/ p \in failures
       /\ saved = editor

\* An edit that is not overtaken by another one is queued (the autosave debounce): no content
\* stays for ever in the editor alone.
EditIsQueued ==
  \A d \in Document :
    []<>(Running /\ editor = d => saved = d \/ ~Room)

\* "returning to the Hub queues the latest state without waiting for filesystem work": the
\* project opened next, the same one included, is the latest state of it.
OpenShowsNewest ==
  [][current' \in known /\ editor' # editor => editor' = newest'[current']]_sessionVars
=============================================================================
