---------------------------- MODULE ProjectStore ----------------------------
(***************************************************************************)
(* One project document on disk (nle-project-io): the thread that saves it *)
(* (write_document, atomic_write), the thread that loads it                *)
(* (read_document), and what happens to the files meanwhile.  A document   *)
(* is the number of the call that saved it; validation, parsing and the    *)
(* migration of old versions only say whether a file holds a document.     *)
(*                                                                         *)
(* A crash may come between any two steps.  A power loss may also tear     *)
(* what was written and not synced.  Damage is an accident from outside,   *)
(* the one the backup is kept for.                                         *)
(***************************************************************************)
EXTENDS Integers

CONSTANTS
    MaxSave,    \* calls to write_document, a bound
    MaxDamage,  \* accidents to the primary file, a bound
    Absent,     \* no such file
    Torn,       \* a file that does not parse as a document
    Newer       \* a document of a version this build does not support

ASSUME StoreConstants ==
    /\ MaxSave \in Nat /\ MaxDamage \in Nat
    /\ Absent \notin Nat /\ Torn \notin Nat /\ Newer \notin Nat
    /\ Absent # Torn /\ Absent # Newer /\ Torn # Newer

VARIABLES
    primary,    \* contents of the project file
    backup,     \* contents of its .bak sibling
    temp,       \* contents of the staging file of the running save
    unsynced,   \* the files a power loss may tear
    step,       \* where the running save is
    doc,        \* the document it saves, or the latest one saved
    committed,  \* the document of the last save that reached its rename
    damages,    \* accidents so far
    reader      \* the running load

files == <<primary, backup, temp, unsynced>>
saver == <<step, doc, committed>>
storeVars  == <<primary, backup, temp, unsynced, step, doc, committed, damages, reader>>

Doc     == 1..MaxSave
Content == Doc \cup {Absent, Torn, Newer}
Steps   == {"idle", "create", "write", "sync", "copy", "copying", "rename"}

\* What a load that nothing disturbs finds.
Loaded == IF primary \in Doc \cup {Newer} THEN primary ELSE backup

NoLoad   == [at |-> "idle", found |-> FALSE, since |-> 0, got |-> 0]
ReaderAt(stage) == [reader EXCEPT !.at = stage]
Read(number)    == [reader EXCEPT !.at = "done", !.got = number]

StoreInit == /\ primary \in {Absent, Newer}
             /\ backup = Absent /\ temp = Absent
             /\ unsynced = {}
             /\ step = "idle"
             /\ doc = 0 /\ committed = 0
             /\ damages = 0
             /\ reader = NoLoad

-----------------------------------------------------------------------------
(* Saving. *)

WriteDocument == /\ step = "idle"
                 /\ doc < MaxSave
                 /\ step' = "create"
                 /\ doc' = doc + 1
                 /\ UNCHANGED <<files, committed, damages, reader>>

\* An empty file: it does not parse.
CreateTemp == /\ step = "create"
              /\ step' = "write"
              /\ temp' = Torn
              /\ UNCHANGED <<primary, backup, unsynced, doc, committed, damages, reader>>

WriteTemp == /\ step = "write"
             /\ step' = "sync"
             /\ temp' = doc
             /\ unsynced' = unsynced \cup {"temp"}
             /\ UNCHANGED <<primary, backup, doc, committed, damages, reader>>

\* A save without sync_all.
SyncSkipped == /\ step = "sync"
               /\ step' = "copy"
               /\ UNCHANGED <<files, doc, committed, damages, reader>>

SyncTemp == /\ step = "sync"
            /\ step' = "copy"
            /\ unsynced' = unsynced \ {"temp"}
            /\ UNCHANGED <<primary, backup, temp, doc, committed, damages, reader>>

\* fs::copy empties the backup before it fills it, and syncs nothing.
OpenBackup == /\ step = "copy"
              /\ primary # Absent
              /\ step' = "copying"
              /\ backup' = Torn
              /\ unsynced' = unsynced \cup {"backup"}
              /\ UNCHANGED <<primary, temp, doc, committed, damages, reader>>

SkipBackup == /\ step = "copy"
              /\ primary = Absent
              /\ step' = "rename"
              /\ UNCHANGED <<files, doc, committed, damages, reader>>

FillBackup == /\ step = "copying"
              /\ step' = "rename"
              /\ backup' = primary
              /\ UNCHANGED <<primary, temp, unsynced, doc, committed, damages, reader>>

ReplaceFile ==
    /\ step = "rename"
    /\ step' = "idle"
    /\ primary' = temp
    /\ temp' = Absent
    /\ unsynced' = {f \in {"primary", "backup"} :
                       (IF f = "primary" THEN "temp" ELSE f) \in unsynced}
    /\ committed' = doc
    /\ UNCHANGED <<backup, doc, damages, reader>>

\* A failing save that leaves its staging file.
FailsWithTemp == /\ step # "idle"
                 /\ step' = "idle"
                 /\ UNCHANGED <<files, doc, committed, damages, reader>>

\* A failing save that puts the backup back.
FailsRestoring == /\ step # "idle"
                  /\ step' = "idle"
                  /\ primary' = backup
                  /\ temp' = Absent
                  /\ unsynced' = unsynced \ {"temp"}
                  /\ UNCHANGED <<backup, doc, committed, damages, reader>>

\* Any step may fail; the staging file is removed.  (If that fails too, the
\* file stays under a name no other save uses, and is not modelled.)
SaveFails == /\ step # "idle"
             /\ step' = "idle"
             /\ temp' = Absent
             /\ unsynced' = unsynced \ {"temp"}
             /\ UNCHANGED <<primary, backup, doc, committed, damages, reader>>

-----------------------------------------------------------------------------
(* Loading, by a thread of its own: two reads with the saver between them. *)

\* A load that takes the backup first.
ReadBackupFirst == /\ reader = NoLoad
                   /\ reader' = [NoLoad EXCEPT !.at = "backup", !.since = committed]
                   /\ UNCHANGED <<files, saver, damages>>

ReadDocument == /\ reader = NoLoad
                /\ reader' = [NoLoad EXCEPT !.at = "primary", !.since = committed]
                /\ UNCHANGED <<files, saver, damages>>

ReadPrimary ==
    /\ reader.at = "primary"
    /\ \/ primary \in Doc  /\ reader' = Read(primary)
       \/ primary = Newer  /\ reader' = ReaderAt("unsupported")
       \/ primary = Torn   /\ reader' = [ReaderAt("backup") EXCEPT !.found = TRUE]
       \/ primary = Absent /\ reader' = ReaderAt("backup")
    /\ UNCHANGED <<files, saver, damages>>

ReadBackup ==
    /\ reader.at = "backup"
    /\ \/ backup \in Doc /\ reader' = Read(backup)
       \/ backup \in {Torn, Newer} /\ reader' = ReaderAt("unreadable")
       \/ backup = Absent /\ reader.found /\ reader' = ReaderAt("unreadable")
       \/ backup = Absent /\ ~reader.found /\ reader' = ReaderAt("missing")
    /\ UNCHANGED <<files, saver, damages>>

\* A read error other than "not found" ends the load.
ReadFails == /\ reader.at \in {"primary", "backup"}
             /\ reader' = ReaderAt("failed")
             /\ UNCHANGED <<files, saver, damages>>

Return == /\ reader.at \notin {"idle", "primary", "backup"}
          /\ reader' = NoLoad
          /\ UNCHANGED <<files, saver, damages>>

-----------------------------------------------------------------------------
(* The world. *)

Crash == /\ step' = "idle"
         /\ temp' = Absent
         /\ unsynced' = unsynced \ {"temp"}
         /\ reader' = NoLoad
         /\ UNCHANGED <<primary, backup, doc, committed, damages>>

AfterPowerLoss(name, content) == IF name \in unsynced THEN {content, Torn} ELSE {content}

PowerLoss == /\ step' = "idle"
             /\ temp' = Absent
             /\ primary' \in AfterPowerLoss("primary", primary)
             /\ backup' \in AfterPowerLoss("backup", backup)
             /\ unsynced' = {}
             /\ reader' = NoLoad
             /\ UNCHANGED <<doc, committed, damages>>

Damage == /\ damages < MaxDamage
          /\ primary # Absent
          /\ primary' = Torn
          /\ damages' = damages + 1
          /\ UNCHANGED <<backup, temp, unsynced, saver, reader>>

SaverNext  == \/ WriteDocument \/ CreateTemp \/ WriteTemp \/ SyncTemp
              \/ OpenBackup \/ SkipBackup \/ FillBackup \/ ReplaceFile \/ SaveFails
ReaderNext == ReadDocument \/ ReadPrimary \/ ReadBackup \/ ReadFails \/ Return
StoreNext  == SaverNext \/ ReaderNext \/ Crash \/ PowerLoss \/ Damage

StoreSpec == StoreInit /\ [][StoreNext]_storeVars

-----------------------------------------------------------------------------
(* Properties. *)

Reader == [at : {"idle", "primary", "backup", "done", "unsupported", "missing", "unreadable",
                 "failed"},
           found : BOOLEAN, since : 0..MaxSave, got : 0..MaxSave]

\* The variables have their types, and a save that has ended, in whatever way
\* this process could notice, has left no staging file (atomic_write).
StoreTypeOK ==
    /\ primary \in Content /\ backup \in Content /\ temp \in Content
    /\ unsynced \subseteq {"primary", "backup", "temp"}
    /\ step \in Steps
    /\ doc \in 0..MaxSave /\ committed \in 0..doc
    /\ damages \in 0..MaxDamage
    /\ reader \in Reader
    /\ step = "idle" => temp = Absent

\* The variables have their types, and a project that was saved loads, without an
\* accident from outside, what the last completed save wrote: whatever step a later
\* save is in, failed at or died at, also if the power went (atomic_write,
\* replace_file).
SavedStaysReadable ==
    /\ StoreTypeOK
    /\ committed > 0 /\ damages = 0 => Loaded = committed

\* A load that runs beside the saver returns a document at least as new as the
\* one saved when it began; it never sees a half-written file (read_document
\* reads two files one after the other, atomic_write replaces both).
ReadIsFresh ==
    damages = 0 /\ reader.since > 0
        => /\ reader.at \notin {"missing", "unreadable", "unsupported"}
           /\ reader.at = "done" => reader.got >= reader.since

\* No step of a save, no crash and no power loss turns a project that could
\* be loaded into one that cannot, as long as there is no accident.
WritesKeepLoadable ==
    [][damages' = 0 /\ Loaded \in Doc => Loaded' \in Doc]_storeVars

AbstractFile == INSTANCE AtomicFile WITH
    file <- IF Loaded \in Doc THEN Loaded ELSE 0, writing <- step # "idle",
    damaged <- damages > 0

\* Until there is an accident the three files behave as one file that is replaced
\* in one step, which is what the writer threads of the application build on.
ImplementsAtomicFile == AbstractFile!FileSpec
=============================================================================
