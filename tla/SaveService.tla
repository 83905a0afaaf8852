------------------------------ MODULE SaveService ------------------------------
(*****************************************************************************)
(* What the application relies on when it hands documents to its background *)
(* writer: the file of a path moves forward through the documents queued for *)
(* it, skipping some, and a flush returns once every path is up to date or   *)
(* its failure is reported.  ProjectWriter implements this; ProjectSession   *)
(* builds on it.                                                             *)
(*****************************************************************************)
EXTENDS Naturals, Sequences

CONSTANTS
  Project,   \* projects, one document path each
  Document,  \* contents of a document
  NoDocument \* no file at the path

VARIABLES
  queue,    \* documents queued for each path and not on disk, oldest first
  file,     \* what a reader finds at each path
  failures, \* paths with a failure nobody has polled
  flushing  \* a flush is under way and its caller blocked

serviceVars == <<queue, file, failures, flushing>>

-----------------------------------------------------------------------------
ServiceInit ==
  /\ queue = [p \in Project |-> <<>>]
  /\ file \in [Project -> Document \cup {NoDocument}]
  /\ failures = {}
  /\ flushing = FALSE

\* save_latest
Save(p, d) ==
  /\ ~flushing
  /\ queue' = [queue EXCEPT ![p] = Append(@, d)]
  /\ UNCHANGED <<file, failures, flushing>>

\* The writer puts one of the queued documents on disk; those before it never follow.
Advance(p) ==
  \E i \in 1..Len(queue[p]) :
    /\ file' = [file EXCEPT ![p] = queue[p][i]]
    /\ queue' = [queue EXCEPT ![p] = SubSeq(@, i + 1, Len(@))]
    /\ UNCHANGED <<failures, flushing>>

\* A failure may concern the thumbnail of a document that is on disk.
Report(p) ==
  /\ queue[p] # <<>> \/ file[p] # NoDocument
  /\ failures' = failures \cup {p}
  /\ UNCHANGED <<queue, file, flushing>>

TakeFailures ==
  /\ ~flushing
  /\ failures' = {}
  /\ UNCHANGED <<queue, file, flushing>>

Flush ==
  /\ ~flushing
  /\ flushing' = TRUE
  /\ UNCHANGED <<queue, file, failures>>

UpToDate(p) == queue[p] = <<>>

Flushed ==
  /\ flushing
  /\ \A p \in Project : UpToDate(p) \/ p \in failures
  /\ flushing' = FALSE
  /\ UNCHANGED <<queue, file, failures>>

ServiceWork == (\E p \in Project : Advance(p) \/ Report(p)) \/ Flushed

ServiceNext ==
  \/ \E p \in Project, d \in Document : Save(p, d)
  \/ TakeFailures \/ Flush \/ ServiceWork

ServiceSpec == ServiceInit /\ [][ServiceNext]_serviceVars
=============================================================================
