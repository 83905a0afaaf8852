----------------------------- MODULE AtomicFile -----------------------------
(***************************************************************************)
(* What the project store promises to the writer threads: the document a   *)
(* project loads changes in one step, from the one saved before to the one *)
(* being saved, or it does not change; an accident from outside ends the   *)
(* promise.  ProjectStore implements this file with a staging file, a      *)
(* backup and a rename.                                                    *)
(***************************************************************************)
EXTENDS Naturals

CONSTANT MaxSave    \* calls to write_document, a bound

VARIABLES
    file,       \* the document the project loads, 0 if it has none
    doc,        \* the document of the latest call, numbered by the calls
    writing,    \* the call has not returned
    damaged     \* there was an accident

fileVars == <<file, doc, writing, damaged>>

FileInit == /\ file = 0
            /\ doc = 0
            /\ writing = FALSE
            /\ damaged = FALSE

Begin == /\ ~writing
         /\ doc < MaxSave
         /\ writing' = TRUE
         /\ doc' = doc + 1
         /\ UNCHANGED <<file, damaged>>

Commit == /\ writing
          /\ writing' = FALSE
          /\ file' = doc
          /\ UNCHANGED <<doc, damaged>>

\* The call fails, or the process dies in it.
Abandon == /\ writing
           /\ writing' = FALSE
           /\ UNCHANGED <<file, doc, damaged>>

\* From an accident on anything may be found.
Accident == /\ damaged' = TRUE
            /\ file' \in 0..MaxSave /\ doc' \in 0..MaxSave /\ writing' \in BOOLEAN

FileNext == Begin \/ Commit \/ Abandon \/ Accident

FileSpec == FileInit /\ [][FileNext]_fileVars
=============================================================================
