---------------------------- MODULE StoresProofs ----------------------------
(***************************************************************************)
(* The stores.  The project store keeps what it saved, for any number of   *)
(* saves, and, as long as nothing damages its file, implements AtomicFile. *)
(* The frame cache implements LruCache, across renumberings and evictions. *)
(* The monitor's cache has frames of the present policy only.              *)
(***************************************************************************)
EXTENDS FrameCache, MonitorCache, ProjectStore, KeepingProofs, FiniteSetTheorems

(* The project store. *)

\* The staging file holds the whole document once it is written, and can no
\* longer be torn once it is synced.
Staged ==
    /\ step # "idle" => doc \in Doc
    /\ step \in {"sync", "copy", "copying", "rename"} => temp = doc
    /\ step # "sync" => "temp" \notin unsynced

\* The project file is never at risk, and holds the last completed save.
Sound ==
    /\ "primary" \notin unsynced
    /\ damages = 0 /\ committed > 0 => primary = committed

\* Before the first completed save there is nothing of this build to load.
Unsaved == damages = 0 /\ committed = 0
               => primary \in {Absent, Newer} /\ backup \notin Doc

\* What a load has seen is as new as what was committed when it began.
Fresh ==
    /\ reader.since <= committed
    /\ reader.at = "backup" /\ damages = 0 => reader.since = 0
    /\ ReadIsFresh

StoreInv == StoreTypeOK /\ Staged /\ Sound /\ Unsaved /\ Fresh

-----------------------------------------------------------------------------

\* The invariant holds of an idle store.
LEMMA InitStore == StoreInit => StoreInv
BY StoreConstants
DEF StoreInit, StoreInv, StoreTypeOK, Staged, Sound, Unsaved, Fresh, ReadIsFresh, NoLoad,
    Content, Doc, Steps, Reader

\* The saver's steps keep the invariant.
LEMMA SaverKeepsStore == StoreInv /\ SaverNext => StoreInv'
<1> SUFFICES ASSUME StoreInv, SaverNext PROVE StoreInv'
    OBVIOUS
<1>1. CASE WriteDocument
  <2>1. StoreTypeOK'
        BY <1>1, StoreConstants
        DEF WriteDocument, StoreInv, StoreTypeOK, Staged, Content, Doc, Steps, Reader,
            files
  <2>2. Staged'
        BY <1>1, StoreConstants DEF WriteDocument, StoreInv, StoreTypeOK, Staged, Doc, files
  <2>3. Sound' /\ Unsaved'
        BY <1>1, StoreConstants
        DEF WriteDocument, StoreInv, StoreTypeOK, Staged, Sound, Unsaved, Content, Doc,
            files
  <2>4. Fresh'
        BY <1>1, StoreConstants
        DEF WriteDocument, StoreInv, StoreTypeOK, Staged, Fresh, ReadIsFresh, Reader,
            files
  <2> QED BY <2>1, <2>2, <2>3, <2>4 DEF StoreInv
<1>2. CASE CreateTemp
  <2>1. StoreTypeOK'
        BY <1>2, StoreConstants
        DEF CreateTemp, StoreInv, StoreTypeOK, Staged, Content, Doc, Steps, Reader
  <2>2. Staged'
        BY <1>2, StoreConstants DEF CreateTemp, StoreInv, StoreTypeOK, Staged, Doc
  <2>3. Sound' /\ Unsaved'
        BY <1>2, StoreConstants
        DEF CreateTemp, StoreInv, StoreTypeOK, Staged, Sound, Unsaved, Content, Doc
  <2>4. Fresh'
        BY <1>2, StoreConstants
        DEF CreateTemp, StoreInv, StoreTypeOK, Staged, Fresh, ReadIsFresh, Reader
  <2> QED BY <2>1, <2>2, <2>3, <2>4 DEF StoreInv
<1>3. CASE WriteTemp
  <2>1. StoreTypeOK'
        BY <1>3, StoreConstants
        DEF WriteTemp, StoreInv, StoreTypeOK, Staged, Content, Doc, Steps, Reader
  <2>2. Staged'
        BY <1>3, StoreConstants DEF WriteTemp, StoreInv, StoreTypeOK, Staged, Doc
  <2>3. Sound' /\ Unsaved'
        BY <1>3, StoreConstants
        DEF WriteTemp, StoreInv, StoreTypeOK, Staged, Sound, Unsaved, Content, Doc
  <2>4. Fresh'
        BY <1>3, StoreConstants
        DEF WriteTemp, StoreInv, StoreTypeOK, Staged, Fresh, ReadIsFresh, Reader
  <2> QED BY <2>1, <2>2, <2>3, <2>4 DEF StoreInv
<1>4. CASE SyncTemp
  <2>1. StoreTypeOK'
        BY <1>4, StoreConstants
        DEF SyncTemp, StoreInv, StoreTypeOK, Staged, Content, Doc, Steps, Reader
  <2>2. Staged'
        BY <1>4, StoreConstants DEF SyncTemp, StoreInv, StoreTypeOK, Staged, Doc
  <2>3. Sound' /\ Unsaved'
        BY <1>4, StoreConstants
        DEF SyncTemp, StoreInv, StoreTypeOK, Staged, Sound, Unsaved, Content, Doc
  <2>4. Fresh'
        BY <1>4, StoreConstants
        DEF SyncTemp, StoreInv, StoreTypeOK, Staged, Fresh, ReadIsFresh, Reader
  <2> QED BY <2>1, <2>2, <2>3, <2>4 DEF StoreInv
<1>5. CASE OpenBackup
  <2>1. StoreTypeOK'
        BY <1>5, StoreConstants
        DEF OpenBackup, StoreInv, StoreTypeOK, Staged, Content, Doc, Steps, Reader
  <2>2. Staged'
        BY <1>5, StoreConstants DEF OpenBackup, StoreInv, StoreTypeOK, Staged, Doc
  <2>3. Sound' /\ Unsaved'
        BY <1>5, StoreConstants
        DEF OpenBackup, StoreInv, StoreTypeOK, Staged, Sound, Unsaved, Content, Doc
  <2>4. Fresh'
        BY <1>5, StoreConstants
        DEF OpenBackup, StoreInv, StoreTypeOK, Staged, Fresh, ReadIsFresh, Reader
  <2> QED BY <2>1, <2>2, <2>3, <2>4 DEF StoreInv
<1>6. CASE SkipBackup
  <2>1. StoreTypeOK'
        BY <1>6, StoreConstants
        DEF SkipBackup, StoreInv, StoreTypeOK, Staged, Content, Doc, Steps, Reader,
            files
  <2>2. Staged'
        BY <1>6, StoreConstants DEF SkipBackup, StoreInv, StoreTypeOK, Staged, Doc, files
  <2>3. Sound' /\ Unsaved'
        BY <1>6, StoreConstants
        DEF SkipBackup, StoreInv, StoreTypeOK, Staged, Sound, Unsaved, Content, Doc,
            files
  <2>4. Fresh'
        BY <1>6, StoreConstants
        DEF SkipBackup, StoreInv, StoreTypeOK, Staged, Fresh, ReadIsFresh, Reader, files
  <2> QED BY <2>1, <2>2, <2>3, <2>4 DEF StoreInv
<1>7. CASE FillBackup
  <2>1. StoreTypeOK'
        BY <1>7, StoreConstants
        DEF FillBackup, StoreInv, StoreTypeOK, Staged, Content, Doc, Steps, Reader
  <2>2. Staged'
        BY <1>7, StoreConstants DEF FillBackup, StoreInv, StoreTypeOK, Staged, Doc
  <2>3. Sound' /\ Unsaved'
        BY <1>7, StoreConstants
        DEF FillBackup, StoreInv, StoreTypeOK, Staged, Sound, Unsaved, Content, Doc
  <2>4. Fresh'
        BY <1>7, StoreConstants
        DEF FillBackup, StoreInv, StoreTypeOK, Staged, Fresh, ReadIsFresh, Reader
  <2> QED BY <2>1, <2>2, <2>3, <2>4 DEF StoreInv
<1>8. CASE ReplaceFile
  <2>1. StoreTypeOK'
        BY <1>8, StoreConstants
        DEF ReplaceFile, StoreInv, StoreTypeOK, Staged, Content, Doc, Steps, Reader
  <2>2. Staged'
        BY <1>8, StoreConstants DEF ReplaceFile, StoreInv, StoreTypeOK, Staged, Doc
  <2>3. Sound' /\ Unsaved'
        BY <1>8, StoreConstants
        DEF ReplaceFile, StoreInv, StoreTypeOK, Staged, Sound, Unsaved, Content, Doc
  <2>4. Fresh'
        BY <1>8, StoreConstants
        DEF ReplaceFile, StoreInv, StoreTypeOK, Staged, Fresh, ReadIsFresh, Reader
  <2> QED BY <2>1, <2>2, <2>3, <2>4 DEF StoreInv
<1>9. CASE SaveFails
  <2>1. StoreTypeOK'
        BY <1>9, StoreConstants
        DEF SaveFails, StoreInv, StoreTypeOK, Staged, Content, Doc, Steps, Reader
  <2>2. Staged'
        BY <1>9, StoreConstants DEF SaveFails, StoreInv, StoreTypeOK, Staged, Doc
  <2>3. Sound' /\ Unsaved'
        BY <1>9, StoreConstants
        DEF SaveFails, StoreInv, StoreTypeOK, Staged, Sound, Unsaved, Content, Doc
  <2>4. Fresh'
        BY <1>9, StoreConstants
        DEF SaveFails, StoreInv, StoreTypeOK, Staged, Fresh, ReadIsFresh, Reader
  <2> QED BY <2>1, <2>2, <2>3, <2>4 DEF StoreInv
<1> QED BY <1>1, <1>2, <1>3, <1>4, <1>5, <1>6, <1>7, <1>8, <1>9 DEF SaverNext

\* The loader only changes what it has seen.
LEMMA ReaderKeepsStore == StoreInv /\ ReaderNext => StoreInv'
<1> SUFFICES ASSUME StoreInv, ReaderNext PROVE StoreInv'
    OBVIOUS
<1>0. Staged' /\ Sound' /\ Unsaved'
      BY
      DEF StoreInv, Staged, Sound, Unsaved, ReaderNext, ReadDocument, ReadPrimary,
          ReadBackup,
             ReadFails, Return, files, saver
<1>1. CASE ReadDocument
  <2>1. StoreTypeOK'
    <3>1. reader \in Reader /\ committed \in 0..MaxSave /\ Doc \subseteq 0..MaxSave
          BY StoreConstants DEF StoreInv, StoreTypeOK, Doc
    <3>2. reader' \in Reader
          BY <1>1, <3>1 DEF ReadDocument, Reader, NoLoad, ReaderAt, Read
    <3> QED BY <1>1, <3>2 DEF ReadDocument, StoreInv, StoreTypeOK, Content, Doc, files, saver
  <2>2. Fresh'
        BY <1>1, StoreConstants
       
        DEF ReadDocument, StoreInv, StoreTypeOK, Sound, Unsaved, Fresh, ReadIsFresh,
            Reader, Doc, files, saver,
            NoLoad, ReaderAt, Read
  <2> QED BY <1>0, <2>1, <2>2 DEF StoreInv
<1>2. CASE ReadPrimary
  <2>1. StoreTypeOK'
    <3>1. reader \in Reader /\ committed \in 0..MaxSave /\ Doc \subseteq 0..MaxSave
          BY StoreConstants DEF StoreInv, StoreTypeOK, Doc
    <3>2. reader' \in Reader
          BY <1>2, <3>1, StoreConstants DEF ReadPrimary, Reader, ReaderAt, Read
    <3> QED BY <1>2, <3>2 DEF ReadPrimary, StoreInv, StoreTypeOK, Content, Doc, files, saver
  <2>2. Fresh'
    <3>1. reader'.since = reader.since /\ committed' = committed /\ damages' = damages
          BY <1>2 DEF ReadPrimary, saver, ReaderAt, Read, StoreInv, StoreTypeOK, Reader
    <3>2. damages = 0 /\ reader.since > 0 => primary \in Doc /\ primary >= reader.since
          BY <1>2, StoreConstants
          DEF ReadPrimary, StoreInv, StoreTypeOK, Sound, Fresh, Reader, Doc
    <3>3. primary \in Doc => reader' = Read(primary)
          BY <1>2, StoreConstants DEF ReadPrimary, Doc
    <3>4. damages = 0 /\ reader.since > 0 => reader'.at = "done" /\ reader'.got >= reader.since
          BY <3>2, <3>3 DEF Read, StoreInv, StoreTypeOK, Reader
    <3>5. reader.since \in Nat
          BY StoreConstants DEF StoreInv, StoreTypeOK, Reader
    <3> QED BY <3>1, <3>4, <3>5 DEF StoreInv, Fresh, ReadIsFresh
  <2> QED BY <1>0, <2>1, <2>2 DEF StoreInv
<1>3. CASE ReadBackup
  <2>1. StoreTypeOK'
    <3>1. reader \in Reader /\ committed \in 0..MaxSave /\ Doc \subseteq 0..MaxSave
          BY StoreConstants DEF StoreInv, StoreTypeOK, Doc
    <3>2. reader' \in Reader
          BY <1>3, <3>1 DEF ReadBackup, Reader, NoLoad, ReaderAt, Read
    <3> QED BY <1>3, <3>2 DEF ReadBackup, StoreInv, StoreTypeOK, Content, Doc, files, saver
  <2>2. Fresh'
    <3>1. reader'.since = reader.since /\ committed' = committed /\ damages' = damages
          BY <1>3 DEF ReadBackup, saver, ReaderAt, Read, StoreInv, StoreTypeOK, Reader
    <3>2. damages = 0 /\ reader.since > 0 => FALSE
          BY <1>3, StoreConstants DEF ReadBackup, StoreInv, StoreTypeOK, Fresh, Reader
    <3>3. damages = 0 /\ reader'.at = "backup" => reader.since = 0
          BY <1>3, <3>2, StoreConstants
          DEF ReadBackup, StoreInv, StoreTypeOK, Reader, ReaderAt, Read, Doc
    <3>4. damages = 0 /\ reader.since > 0 => reader'.at = "done" /\ reader'.got >= reader.since
          BY <1>3, <3>2, StoreConstants
          DEF ReadBackup, StoreInv, StoreTypeOK, Reader, ReaderAt, Read, Doc
    <3> QED BY <3>1, <3>3, <3>4 DEF StoreInv, Fresh, ReadIsFresh
  <2> QED BY <1>0, <2>1, <2>2 DEF StoreInv
<1>4. CASE ReadFails
  <2>1. StoreTypeOK'
        BY <1>4, StoreConstants
       
        DEF ReadFails, StoreInv, StoreTypeOK, Reader, Content, Doc, files, saver,
            NoLoad, ReaderAt, Read
  <2>2. Fresh'
        BY <1>4, StoreConstants
       
        DEF ReadFails, StoreInv, StoreTypeOK, Reader, Sound, Unsaved, Fresh,
            ReadIsFresh, Reader, Doc, files, saver,
            NoLoad, ReaderAt, Read
  <2> QED BY <1>0, <2>1, <2>2 DEF StoreInv
<1>5. CASE Return
  <2>1. StoreTypeOK'
        BY <1>5, StoreConstants
        DEF Return, StoreInv, StoreTypeOK, Reader, Content, Doc, files, saver, NoLoad, ReaderAt, Read
  <2>2. Fresh'
        BY <1>5, StoreConstants
       
        DEF Return, StoreInv, StoreTypeOK, Reader, Sound, Unsaved, Fresh, ReadIsFresh,
            Reader, Doc, files, saver,
            NoLoad, ReaderAt, Read
  <2> QED BY <1>0, <2>1, <2>2 DEF StoreInv
<1> QED BY <1>1, <1>2, <1>3, <1>4, <1>5 DEF ReaderNext

\* Neither a crash nor a power loss reaches the project file.
LEMMA WorldKeepsStore == StoreInv /\ (Crash \/ PowerLoss \/ Damage) => StoreInv'
<1> SUFFICES ASSUME StoreInv, Crash \/ PowerLoss \/ Damage PROVE StoreInv'
    OBVIOUS
<1>1. CASE Crash
  <2>1. StoreTypeOK'
        BY <1>1, StoreConstants
        DEF Crash, StoreInv, StoreTypeOK, Staged, Content, Doc, Steps, Reader, NoLoad
  <2>2. Staged'
        BY <1>1, StoreConstants DEF Crash, StoreInv, StoreTypeOK, Staged, Doc, NoLoad
  <2>3. Sound' /\ Unsaved'
        BY <1>1, StoreConstants
        DEF Crash, StoreInv, StoreTypeOK, Staged, Sound, Unsaved, Content, Doc, NoLoad
  <2>4. Fresh'
        BY <1>1, StoreConstants
        DEF Crash, StoreInv, StoreTypeOK, Staged, Fresh, ReadIsFresh, Reader, NoLoad
  <2> QED BY <2>1, <2>2, <2>3, <2>4 DEF StoreInv
<1>2. CASE PowerLoss
  <2>1. StoreTypeOK'
        BY <1>2, StoreConstants
        DEF PowerLoss, StoreInv, StoreTypeOK, Staged, Content, Doc, Steps, Reader,
            NoLoad, AfterPowerLoss
  <2>2. Staged'
        BY <1>2, StoreConstants
        DEF PowerLoss, StoreInv, StoreTypeOK, Staged, Doc, NoLoad, AfterPowerLoss
  <2>3. Sound' /\ Unsaved'
        BY <1>2, StoreConstants
        DEF PowerLoss, StoreInv, StoreTypeOK, Staged, Sound, Unsaved, Content, Doc,
            NoLoad, AfterPowerLoss
  <2>4. Fresh'
        BY <1>2, StoreConstants
        DEF PowerLoss, StoreInv, StoreTypeOK, Staged, Fresh, ReadIsFresh, Reader,
            NoLoad, AfterPowerLoss
  <2> QED BY <2>1, <2>2, <2>3, <2>4 DEF StoreInv
<1>3. CASE Damage
  <2>1. StoreTypeOK'
        BY <1>3, StoreConstants
        DEF Damage, StoreInv, StoreTypeOK, Staged, Content, Doc, Steps, Reader, saver
  <2>2. Staged'
        BY <1>3, StoreConstants DEF Damage, StoreInv, StoreTypeOK, Staged, Doc, saver
  <2>3. Sound' /\ Unsaved'
        BY <1>3, StoreConstants
        DEF Damage, StoreInv, StoreTypeOK, Staged, Sound, Unsaved, Content, Doc, saver
  <2>4. Fresh'
        BY <1>3, StoreConstants
        DEF Damage, StoreInv, StoreTypeOK, Staged, Fresh, ReadIsFresh, Reader, saver
  <2> QED BY <2>1, <2>2, <2>3, <2>4 DEF StoreInv
<1> QED BY <1>1, <1>2, <1>3

\* Every step keeps the invariant.
LEMMA StepKeepsStore == StoreInv /\ [StoreNext]_storeVars => StoreInv'
<1>1. ASSUME StoreInv, UNCHANGED storeVars PROVE StoreInv'
      BY <1>1 DEF storeVars, StoreInv, StoreTypeOK, Staged, Sound, Unsaved, Fresh, ReadIsFresh,
                  Content, Doc
<1> QED BY <1>1, SaverKeepsStore, ReaderKeepsStore, WorldKeepsStore DEF StoreNext

\* Every reachable state of the store satisfies the inductive invariant.
THEOREM StoreInvariant == StoreSpec => []StoreInv
BY InitStore, StepKeepsStore, PTL DEF StoreSpec

\* The variables have their types and no ended save leaves its staging file
\* (atomic_write), for any number of saves and accidents.
THEOREM StoreTypeCorrect == StoreSpec => []StoreTypeOK
<1>1. StoreInv => StoreTypeOK BY DEF StoreInv
<1> QED BY <1>1, StoreInvariant, PTL

\* What a completed save wrote stays loadable through later saves, failures,
\* crashes and power losses (atomic_write, replace_file).
THEOREM SavedStays == StoreSpec => []SavedStaysReadable
<1>1. StoreInv => SavedStaysReadable
      BY StoreConstants DEF StoreInv, StoreTypeOK, Sound, SavedStaysReadable, Loaded, Doc
<1> QED BY <1>1, StoreInvariant, PTL

\* A load beside the saver is never older than the save it began after
\* (read_document against atomic_write).
THEOREM ReadsFresh == StoreSpec => []ReadIsFresh
<1>1. StoreInv => ReadIsFresh BY DEF StoreInv, Fresh
<1> QED BY <1>1, StoreInvariant, PTL

-----------------------------------------------------------------------------
(* The refinement. *)

Document == IF Loaded \in Doc THEN Loaded ELSE 0

\* Undamaged, the document is the last committed one.
LEMMA DocumentIsCommitted == StoreInv /\ damages = 0 => Document = committed
BY StoreConstants
DEF StoreInv, StoreTypeOK, Sound, Unsaved, Document, Loaded, Doc

\* The same after a step.
LEMMA DocumentStaysCommitted == StoreInv' /\ damages' = 0 => Document' = committed'
BY StoreConstants
DEF StoreInv, StoreTypeOK, Sound, Unsaved, Document, Loaded, Doc

\* A step without an accident before or in it is a step of the file, or none.
LEMMA SoundStepImplementsFile ==
    ASSUME StoreInv, StoreInv', [StoreNext]_storeVars, damages = 0, damages' = 0
    PROVE  [AbstractFile!FileNext]_(AbstractFile!fileVars)
<1>2. Document = committed /\ Document' = committed'
      BY DocumentIsCommitted, DocumentStaysCommitted
<1> USE <1>2 DEF AbstractFile!FileNext, AbstractFile!fileVars, AbstractFile!Begin,
                 AbstractFile!Commit, AbstractFile!Abandon, Document
<1>3. CASE WriteDocument
      BY <1>3 DEF WriteDocument
<1>4. CASE CreateTemp \/ WriteTemp \/ SyncTemp \/ OpenBackup \/ SkipBackup \/ FillBackup
      BY <1>4 DEF CreateTemp, WriteTemp, SyncTemp, OpenBackup, SkipBackup, FillBackup
<1>5. CASE ReplaceFile
      BY <1>5 DEF ReplaceFile
<1>6. CASE SaveFails
      BY <1>6 DEF SaveFails
<1>7. CASE ReaderNext
      BY <1>7 DEF ReaderNext, ReadDocument, ReadPrimary, ReadBackup, ReadFails, Return, saver
<1>8. CASE Crash \/ PowerLoss
      BY <1>8 DEF Crash, PowerLoss
<1>9. CASE Damage
      BY <1>9 DEF Damage
<1>10. CASE UNCHANGED storeVars
      BY <1>10 DEF storeVars
<1> QED BY <1>3, <1>4, <1>5, <1>6, <1>7, <1>8, <1>9, <1>10 DEF StoreNext, SaverNext

\* Accidents are counted and never taken back.
LEMMA DamagesOnlyGrow ==
    ASSUME StoreInv, [StoreNext]_storeVars
    PROVE  damages' = damages \/ damages' = damages + 1
BY DEF StoreNext, SaverNext, ReaderNext, storeVars, files, saver, WriteDocument, CreateTemp,
       WriteTemp, SyncTemp, OpenBackup, SkipBackup, FillBackup, ReplaceFile, SaveFails,
       ReadDocument, ReadPrimary, ReadBackup, ReadFails, Return, Crash, PowerLoss, Damage

\* Every step of the store is a step of the file it implements, or none.
LEMMA StepImplementsFile ==
    ASSUME StoreInv, StoreInv', [StoreNext]_storeVars
    PROVE  [AbstractFile!FileNext]_(AbstractFile!fileVars)
<1>1. damages \in Nat /\ damages' \in Nat
      BY StoreConstants DEF StoreInv, StoreTypeOK
<1>2. CASE damages' = 0
      BY <1>1, <1>2, DamagesOnlyGrow, SoundStepImplementsFile
<1>3. CASE damages' # 0
  <2>1. Document' \in 0..MaxSave /\ doc' \in 0..MaxSave /\ (step' # "idle") \in BOOLEAN
        BY StoreConstants DEF StoreInv, StoreTypeOK, Document, Doc
  <2> QED BY <1>1, <1>3, <2>1 DEF AbstractFile!FileNext, AbstractFile!Accident, Document
<1> QED BY <1>2, <1>3

\* Until there is an accident the project file, its backup and the staging file
\* are one file replaced in one step (write_document, read_document).
THEOREM StoreImplementsFile == StoreSpec => ImplementsAtomicFile
<1>1. StoreInit => AbstractFile!FileInit
      BY StoreConstants DEF StoreInit, AbstractFile!FileInit, Loaded, Doc
<1>2. StoreInv /\ StoreInv' /\ [StoreNext]_storeVars
          => [AbstractFile!FileNext]_(AbstractFile!fileVars)
      BY StepImplementsFile
<1> QED BY <1>1, <1>2, StoreInvariant, PTL
DEF StoreSpec, ImplementsAtomicFile, AbstractFile!FileSpec

\* Until there is an accident a project that loads goes on loading, whatever step
\* is taken (atomic_write, replace_file).
THEOREM LoadableStays == StoreSpec => WritesKeepLoadable
<1>1. ASSUME StoreInv, StoreInv', [StoreNext]_storeVars
      PROVE  [damages' = 0 /\ Loaded \in Doc => Loaded' \in Doc]_storeVars
  <2> SUFFICES ASSUME damages' = 0, Loaded \in Doc
               PROVE  Loaded' \in Doc
        OBVIOUS
  <2>1. damages = 0 /\ damages' = 0
        BY <1>1, DamagesOnlyGrow, StoreConstants DEF StoreInv, StoreTypeOK
  <2>2. Document = committed /\ Document' = committed'
        BY <1>1, <2>1, DocumentIsCommitted, DocumentStaysCommitted
  <2>3. committed' = committed \/ (committed' = doc /\ step # "idle")
    <3>1. CASE SaverNext
          BY <3>1
          DEF SaverNext, WriteDocument, CreateTemp, WriteTemp, SyncTemp, OpenBackup, SkipBackup,
              FillBackup, ReplaceFile, SaveFails
    <3>2. CASE ReaderNext
          BY <3>2
          DEF ReaderNext, ReadDocument, ReadPrimary, ReadBackup, ReadFails, Return,
              saver
    <3>3. CASE Crash \/ PowerLoss \/ Damage
          BY <3>3 DEF Crash, PowerLoss, Damage, saver
    <3>4. CASE UNCHANGED storeVars
          BY <3>4 DEF storeVars
    <3> QED BY <1>1, <3>1, <3>2, <3>3, <3>4 DEF StoreNext
  <2>4. committed \in Doc => committed' \in Doc
        BY <1>1, <2>3 DEF StoreInv, Staged
  <2>5. committed \in Doc
        BY <2>2 DEF Document
  <2>6. committed' \in Doc => Loaded' \in Doc
        BY <2>2, StoreConstants DEF Document, Doc
  <2> QED BY <2>4, <2>5, <2>6
<1>2. StoreInv /\ StoreInv' /\ [StoreNext]_storeVars
          => [damages' = 0 /\ Loaded \in Doc => Loaded' \in Doc]_storeVars
      BY <1>1
<1> QED BY <1>2, StoreInvariant, PTL DEF StoreSpec, WritesKeepLoadable

-----------------------------------------------------------------------------
(* The bytes of a cache. *)

Distinct(q) == \A i, j \in 1..Len(q) : q[i].key = q[j].key => i = j

\* The recursion of Bytes, as an equation for the function it defines.
BytesStep(q, f, m) == IF m = 0 THEN 0 ELSE f[m - 1] + q[m].value.size

\* The recursion defines a function, up to any length.
LEMMA BytesExists ==
  ASSUME NEW q, NEW k \in Nat
  PROVE  \E f : f = [m \in 0..k |-> BytesStep(q, f, m)]
<1> DEFINE Solved == {n \in Nat : \E f : f = [m \in 0..n |-> BytesStep(q, f, m)]}
<1>1. 0 \in Solved
  <2>1. [m \in 0..0 |-> 0] = [m \in 0..0 |-> BytesStep(q, [i \in 0..0 |-> 0], m)]
    BY DEF BytesStep
  <2>2. QED
    BY <2>1
<1>2. ASSUME NEW n \in Solved
      PROVE  n + 1 \in Solved
  <2>1. n \in Nat
    OBVIOUS
  <2>2. PICK f : f = [m \in 0..n |-> BytesStep(q, f, m)]
    OBVIOUS
  <2> DEFINE g == [m \in 0..(n + 1) |-> BytesStep(q, f, m)]
  <2>3. \A m \in 0..n : g[m] = f[m]
    BY <2>1, <2>2
  <2>4. g = [m \in 0..(n + 1) |-> BytesStep(q, f, m)]
    OBVIOUS
  <2> HIDE DEF g
  <2>5. ASSUME NEW m \in 0..(n + 1)
        PROVE  BytesStep(q, f, m) = BytesStep(q, g, m)
    <3>1. CASE m = 0
      BY <3>1 DEF BytesStep
    <3>2. CASE m # 0
      <4>1. m - 1 \in 0..n
        BY <2>1, <3>2
      <4>2. g[m - 1] = f[m - 1]
        BY <4>1, <2>3
      <4>3. QED
        BY <3>2, <4>2 DEF BytesStep
    <3>3. QED
      BY <3>1, <3>2
  <2>6. g = [m \in 0..(n + 1) |-> BytesStep(q, g, m)]
    BY <2>4, <2>5
  <2>7. QED
    BY <2>1, <2>6
<1> HIDE DEF Solved
<1>3. Nat \subseteq Solved
  BY <1>1, <1>2, NatSetInduction
<1>4. QED
  BY <1>3 DEF Solved

\* The bytes of a prefix, and that they are what the sequence of the prefix has.
LEMMA BytesSolved ==
  ASSUME NEW q, Len(q) \in Nat
  PROVE  \E f : /\ f = [m \in 0..Len(q) |-> BytesStep(q, f, m)]
                /\ Bytes(q) = f[Len(q)]
<1> DEFINE f == CHOOSE g : g = [m \in 0..Len(q) |-> BytesStep(q, g, m)]
<1>1. f = [m \in 0..Len(q) |-> BytesStep(q, f, m)]
  BY BytesExists
<1>2. Bytes(q) = f[Len(q)]
  BY DEF Bytes, BytesStep
<1> HIDE DEF f
<1>3. QED
  BY <1>1, <1>2

\* Nothing has no bytes.
LEMMA BytesOfNothing == Bytes(<<>>) = 0
<1>1. Len(<<>>) = 0
  OBVIOUS
<1>2. PICK f : f = [m \in 0..Len(<<>>) |-> BytesStep(<<>>, f, m)] /\ Bytes(<<>>) = f[Len(<<>>)]
  BY <1>1, BytesSolved
<1>3. f[0] = BytesStep(<<>>, f, 0)
  BY <1>1, <1>2
<1>4. QED
  BY <1>1, <1>2, <1>3 DEF BytesStep

\* An appended entry adds its own bytes.
LEMMA BytesOfAppend ==
  ASSUME NEW S, NEW q \in Seq(S), NEW e \in S
  PROVE  Bytes(Append(q, e)) = Bytes(q) + e.value.size
<1> DEFINE p == Append(q, e)
<1>1. /\ Len(q) \in Nat /\ Len(p) = Len(q) + 1 /\ p[Len(q) + 1] = e
      /\ \A i \in 1..Len(q) : p[i] = q[i]
  OBVIOUS
<1> HIDE DEF p
<1>2. PICK f : f = [m \in 0..Len(q) |-> BytesStep(q, f, m)] /\ Bytes(q) = f[Len(q)]
  BY <1>1, BytesSolved
<1>3. PICK g : g = [m \in 0..Len(p) |-> BytesStep(p, g, m)] /\ Bytes(p) = g[Len(p)]
  BY <1>1, BytesSolved
<1> DEFINE Same == {n \in Nat : n <= Len(q) => f[n] = g[n]}
<1>4. 0 \in Same
  <2>1. 0 \in 0..Len(q) /\ 0 \in 0..Len(p)
    BY <1>1
  <2>2. f[0] = BytesStep(q, f, 0)
    BY <1>2, <2>1
  <2>3. g[0] = BytesStep(p, g, 0)
    BY <1>3, <2>1
  <2>4. QED
    BY <2>2, <2>3 DEF BytesStep
<1>5. ASSUME NEW n \in Same
      PROVE  n + 1 \in Same
  <2>1. SUFFICES ASSUME n + 1 <= Len(q)
                 PROVE  f[n + 1] = g[n + 1]
    OBVIOUS
  <2>2. n \in Nat /\ f[n] = g[n] /\ (n + 1) - 1 = n /\ n + 1 # 0
    BY <1>1, <2>1
  <2>3. n + 1 \in 0..Len(q) /\ n + 1 \in 0..Len(p) /\ n + 1 \in 1..Len(q)
    BY <1>1, <2>1, <2>2
  <2>4. f[n + 1] = BytesStep(q, f, n + 1)
    BY <1>2, <2>3
  <2>5. g[n + 1] = BytesStep(p, g, n + 1)
    BY <1>3, <2>3
  <2>6. p[n + 1] = q[n + 1]
    BY <1>1, <2>3
  <2>7. QED
    BY <2>2, <2>4, <2>5, <2>6 DEF BytesStep
<1> HIDE DEF Same
<1>6. Len(q) \in Same
  BY <1>1, <1>4, <1>5, NatSetInduction
<1>7. f[Len(q)] = g[Len(q)]
  BY <1>1, <1>6 DEF Same
<1>8. g[Len(q) + 1] = BytesStep(p, g, Len(q) + 1)
  <2>1. Len(q) + 1 \in 0..Len(p)
    BY <1>1
  <2>2. QED
    BY <1>3, <2>1
<1>9. (Len(q) + 1) - 1 = Len(q) /\ Len(q) + 1 # 0
  BY <1>1
<1>10. QED
  BY <1>1, <1>2, <1>3, <1>7, <1>8, <1>9 DEF BytesStep, p

\* Frames of size one are counted by their number.
LEMMA BytesAreFrames ==
  ASSUME NEW S, \A e \in S : e.value.size = 1, NEW q \in Seq(S)
  PROVE  Bytes(q) = Len(q)
<1> DEFINE Done == {n \in Nat : \A p \in Seq(S) : Len(p) = n => Bytes(p) = n}
<1>1. 0 \in Done
  <2>1. ASSUME NEW p \in Seq(S), Len(p) = 0
        PROVE  Bytes(p) = 0
    <3>1. p = <<>>
      BY <2>1
    <3>2. QED
      BY <3>1, BytesOfNothing
  <2>2. QED
    BY <2>1
<1>2. ASSUME NEW n \in Done
      PROVE  n + 1 \in Done
  <2>1. ASSUME NEW p \in Seq(S), Len(p) = n + 1
        PROVE  Bytes(p) = n + 1
    <3>1. PICK r \in Seq(S), e \in S : p = Append(r, e) /\ Len(r) = n
      BY <2>1, LastApart
    <3>2. Bytes(r) = n
      BY <3>1
    <3>3. Bytes(Append(r, e)) = Bytes(r) + e.value.size
      BY BytesOfAppend
    <3>4. QED
      BY <3>1, <3>2, <3>3
  <2>2. QED
    BY <2>1
<1> HIDE DEF Done
<1>3. Len(q) \in Done
  BY <1>1, <1>2, NatSetInduction
<1>4. QED
  BY <1>3 DEF Done

-----------------------------------------------------------------------------
(* The operations of Lru. *)

\* Filtering out a key leaves the other entries, and no key twice.
LEMMA WithoutFacts ==
  ASSUME NEW S, NEW q \in Seq(S), NEW key
  PROVE  /\ Without(q, key) \in Seq(S)
         /\ \A i \in 1..Len(Without(q, key)) :
              /\ Without(q, key)[i].key # key
              /\ \E j \in 1..Len(q) : q[j] = Without(q, key)[i]
         /\ \A j \in 1..Len(q) : q[j].key # key =>
              \E i \in 1..Len(Without(q, key)) : Without(q, key)[i] = q[j]
         /\ Distinct(q) => Distinct(Without(q, key))
<1> DEFINE T == Others(q, key)
           k == Kept(q, T)
<1>1. /\ k \in Seq(S)
      /\ \A i \in 1..Len(k) : k[i] \in T /\ \E j \in 1..Len(q) : q[j] = k[i]
      /\ \A j \in 1..Len(q) : q[j] \in T => \E i \in 1..Len(k) : k[i] = q[j]
      /\ (\A i, j \in 1..Len(q) : q[i] = q[j] => i = j) =>
           \A i, j \in 1..Len(k) : k[i] = k[j] => i = j
  BY KeptEntries
<1> HIDE DEF k
<1>2. DOMAIN q = 1..Len(q)
  OBVIOUS
<1>3. \A e \in T : e.key # key
  BY DEF Others
<1>4. \A j \in 1..Len(q) : q[j].key # key => q[j] \in T
  BY <1>2 DEF Others
<1> HIDE DEF T
<1>5. ASSUME Distinct(q)
      PROVE  Distinct(k)
  <2>1. \A i, j \in 1..Len(q) : q[i] = q[j] => i = j
    BY <1>5 DEF Distinct
  <2>2. SUFFICES ASSUME NEW i \in 1..Len(k), NEW j \in 1..Len(k), k[i].key = k[j].key
                 PROVE  i = j
    BY DEF Distinct
  <2>3. PICK a \in 1..Len(q) : q[a] = k[i]
    BY <1>1
  <2>4. PICK b \in 1..Len(q) : q[b] = k[j]
    BY <1>1
  <2>5. a = b
    BY <1>5, <2>2, <2>3, <2>4 DEF Distinct
  <2>6. QED
    BY <1>1, <2>1, <2>3, <2>4, <2>5
<1>6. Without(q, key) = k
  BY DEF Without, k, T
<1>7. QED
  BY <1>1, <1>3, <1>4, <1>5, <1>6

\* An appended entry with a new key is the last one.
LEMMA AppendFacts ==
  ASSUME NEW S, NEW q \in Seq(S), NEW e \in S
  PROVE  /\ Append(q, e) \in Seq(S) /\ Len(Append(q, e)) = Len(q) + 1
         /\ \A i \in 1..Len(q) : Append(q, e)[i] = q[i]
         /\ Append(q, e)[Len(q) + 1] = e
         /\ Keys(Append(q, e)) = Keys(q) \cup {e.key}
         /\ Distinct(q) /\ e.key \notin Keys(q) => Distinct(Append(q, e))
<1> DEFINE p == Append(q, e)
<1>1. /\ p \in Seq(S) /\ Len(q) \in Nat /\ Len(p) = Len(q) + 1
      /\ \A i \in 1..Len(q) : p[i] = q[i]
      /\ p[Len(q) + 1] = e
  OBVIOUS
<1> HIDE DEF p
<1>2. DOMAIN q = 1..Len(q) /\ DOMAIN p = 1..Len(p)
  BY <1>1
<1>3. /\ \A i \in 1..Len(p) : i \in 1..Len(q) \/ i = Len(q) + 1
      /\ \A i \in 1..Len(q) : i \in 1..Len(p)
      /\ Len(q) + 1 \in 1..Len(p)
  BY <1>1
<1>4. Keys(p) = Keys(q) \cup {e.key}
  BY <1>1, <1>2, <1>3 DEF Keys
<1>5. ASSUME Distinct(q), e.key \notin Keys(q)
      PROVE  Distinct(p)
  <2>1. \A i \in 1..Len(q) : p[i].key # e.key /\ p[i].key = q[i].key
    BY <1>1, <1>2, <1>5 DEF Keys
  <2>2. QED
    BY <1>1, <1>3, <1>5, <2>1 DEF Distinct
<1>6. QED
  BY <1>1, <1>4, <1>5 DEF p

\* The keys that stay when one is filtered out.
LEMMA WithoutKeys ==
  ASSUME NEW S, NEW q \in Seq(S), NEW key
  PROVE  Keys(Without(q, key)) = Keys(q) \ {key}
<1> DEFINE w == Without(q, key)
<1>1. /\ w \in Seq(S)
      /\ \A i \in 1..Len(w) : w[i].key # key /\ \E j \in 1..Len(q) : q[j] = w[i]
      /\ \A j \in 1..Len(q) : q[j].key # key => \E i \in 1..Len(w) : w[i] = q[j]
  BY WithoutFacts
<1> HIDE DEF w
<1>2. DOMAIN w = 1..Len(w) /\ DOMAIN q = 1..Len(q)
  BY <1>1
<1>3. ASSUME NEW x \in Keys(w)
      PROVE  x \in Keys(q) \ {key}
  <2>1. PICK i \in 1..Len(w) : x = w[i].key
    BY <1>2 DEF Keys
  <2>2. PICK j \in 1..Len(q) : q[j] = w[i]
    BY <1>1
  <2>3. QED
    BY <1>1, <1>2, <2>1, <2>2 DEF Keys
<1>4. ASSUME NEW x \in Keys(q) \ {key}
      PROVE  x \in Keys(w)
  <2>1. PICK j \in 1..Len(q) : x = q[j].key
    BY <1>2 DEF Keys
  <2>2. PICK i \in 1..Len(w) : w[i] = q[j]
    BY <1>1, <2>1
  <2>3. QED
    BY <1>2, <2>1, <2>2 DEF Keys
<1>5. QED
  BY <1>3, <1>4 DEF w

\* A cache has as many entries as keys.
LEMMA DistinctLen ==
  ASSUME NEW S, NEW q \in Seq(S), Distinct(q)
  PROVE  IsFiniteSet(Keys(q)) /\ Cardinality(Keys(q)) = Len(q)
<1>1. Len(q) \in Nat /\ DOMAIN q = 1..Len(q)
  OBVIOUS
<1>2. IsFiniteSet(1..Len(q)) /\ Cardinality(1..Len(q)) = Len(q)
  BY <1>1, FS_Interval
<1> DEFINE f == [i \in 1..Len(q) |-> q[i].key]
<1>3. f \in [1..Len(q) -> Keys(q)]
  BY <1>1 DEF Keys
<1>4. \A x \in Keys(q) : \E i \in 1..Len(q) : f[i] = x
  BY <1>1 DEF Keys
<1>5. \A i, j \in 1..Len(q) : f[i] = f[j] => i = j
  BY DEF Distinct
<1>6. f \in Bijection(1..Len(q), Keys(q))
  BY <1>3, <1>4, <1>5 DEF Bijection, Injection, Surjection, IsInjective
<1>7. QED
  BY <1>2, <1>6, FS_Bijection DEF ExistsBijection

\* The first place from which on a sequence fits.
FitsFrom(q, n, size) ==
  /\ n \in 0..Len(q)
  /\ Bytes(SubSeq(q, n + 1, Len(q))) <= size
  /\ \A m \in 0..(n - 1) : Bytes(SubSeq(q, m + 1, Len(q))) > size

\* The entries of a rest, in terms of the sequence.
LEMMA RestFacts ==
  ASSUME NEW S, NEW q \in Seq(S), NEW n \in 0..Len(q)
  PROVE  /\ SubSeq(q, n + 1, Len(q)) \in Seq(S)
         /\ Len(SubSeq(q, n + 1, Len(q))) = Len(q) - n
         /\ \A i \in 1..(Len(q) - n) : SubSeq(q, n + 1, Len(q))[i] = q[i + n]
         /\ n = 0 => SubSeq(q, n + 1, Len(q)) = q
         /\ n = Len(q) => SubSeq(q, n + 1, Len(q)) = <<>>
<1>1. Len(q) \in Nat /\ n \in Nat /\ n <= Len(q)
  OBVIOUS
<1> DEFINE r == SubSeq(q, n + 1, Len(q))
<1>2. r \in Seq(S) /\ Len(r) = Len(q) - n /\ \A i \in 1..(Len(q) - n) : r[i] = q[i + n]
  BY <1>1
<1>3. ASSUME n = 0
      PROVE  r = q
  <2>1. \A i \in 1..Len(q) : r[i] = q[i]
    BY <1>1, <1>2, <1>3
  <2> HIDE DEF r
  <2>2. QED
    BY <1>1, <1>2, <1>3, <2>1, SeqEqual
<1>4. ASSUME n = Len(q)
      PROVE  r = <<>>
  <2>1. Len(r) = 0
    BY <1>1, <1>2, <1>4
  <2> HIDE DEF r
  <2>2. QED
    BY <1>2, <2>1
<1>5. QED
  BY <1>2, <1>3, <1>4

\* A number of bytes is a natural number.
LEMMA BytesNat ==
  ASSUME NEW S, \A e \in S : e.value.size \in Nat, NEW q \in Seq(S)
  PROVE  Bytes(q) \in Nat
<1> DEFINE Done == {n \in Nat : \A p \in Seq(S) : Len(p) = n => Bytes(p) \in Nat}
<1>1. 0 \in Done
  <2>1. ASSUME NEW p \in Seq(S), Len(p) = 0
        PROVE  Bytes(p) \in Nat
    <3>1. p = <<>>
      BY <2>1
    <3>2. QED
      BY <3>1, BytesOfNothing
  <2>2. QED
    BY <2>1
<1>2. ASSUME NEW n \in Done
      PROVE  n + 1 \in Done
  <2>1. ASSUME NEW p \in Seq(S), Len(p) = n + 1
        PROVE  Bytes(p) \in Nat
    <3>1. PICK r \in Seq(S), e \in S : p = Append(r, e) /\ Len(r) = n
      BY <2>1, LastApart
    <3>2. Bytes(r) \in Nat /\ e.value.size \in Nat
      BY <3>1
    <3>3. Bytes(Append(r, e)) = Bytes(r) + e.value.size
      BY BytesOfAppend
    <3>4. QED
      BY <3>1, <3>2, <3>3
  <2>2. QED
    BY <2>1
<1> HIDE DEF Done
<1>3. Len(q) \in Done
  BY <1>1, <1>2, NatSetInduction
<1>4. QED
  BY <1>3 DEF Done

\* There is one such place, as nothing fits everywhere.
LEMMA FitExists ==
  ASSUME NEW S, \A e \in S : e.value.size \in Nat, NEW q \in Seq(S), NEW size \in Nat
  PROVE  \E n : FitsFrom(q, n, size)
<1> DEFINE T == {n \in 0..Len(q) : Bytes(SubSeq(q, n + 1, Len(q))) <= size}
<1>1. Len(q) \in 0..Len(q) /\ SubSeq(q, Len(q) + 1, Len(q)) = <<>>
  <2>1. Len(q) \in 0..Len(q)
    OBVIOUS
  <2>2. QED
    BY <2>1, RestFacts
<1>2. Len(q) \in T
  <2>1. Bytes(SubSeq(q, Len(q) + 1, Len(q))) = 0
    BY <1>1, BytesOfNothing
  <2>2. QED
    BY <1>1, <2>1
<1>3. PICK n \in T : \A m \in T : n <= m
  <2>1. T \subseteq Nat /\ T # {}
    BY <1>2
  <2> HIDE DEF T
  <2>2. QED
    BY <2>1, LeastElement
<1>4. ASSUME NEW m \in 0..(n - 1)
      PROVE  Bytes(SubSeq(q, m + 1, Len(q))) > size
  <2>1. m \in 0..Len(q) /\ ~ (n <= m)
    OBVIOUS
  <2>2. m \notin T
    BY <1>3, <2>1
  <2>3. ~ (Bytes(SubSeq(q, m + 1, Len(q))) <= size)
    BY <2>1, <2>2
  <2>4. SubSeq(q, m + 1, Len(q)) \in Seq(S)
    BY <2>1, RestFacts
  <2>5. Bytes(SubSeq(q, m + 1, Len(q))) \in Nat
    BY <2>4, BytesNat
  <2>6. QED
    BY <2>3, <2>5
<1>5. QED
  BY <1>3, <1>4 DEF FitsFrom

\* What is kept of a sequence is its rest from the first place where it fits.
LEMMA NewestFacts ==
  ASSUME NEW S, \A e \in S : e.value.size \in Nat, NEW q \in Seq(S), Capacity \in Nat
  PROVE  \E n : FitsFrom(q, n, Capacity) /\ Newest(q) = SubSeq(q, n + 1, Len(q))
<1> DEFINE n == CHOOSE k \in 0..Len(q) :
                  /\ Bytes(SubSeq(q, k + 1, Len(q))) <= Capacity
                  /\ \A m \in 0..(k - 1) : Bytes(SubSeq(q, m + 1, Len(q))) > Capacity
<1>1. FitsFrom(q, n, Capacity)
  BY FitExists DEF FitsFrom
<1>2. Newest(q) = SubSeq(q, n + 1, Len(q))
  BY DEF Newest
<1> HIDE DEF n
<1>3. QED
  BY <1>1, <1>2

\* Of frames of size one, at most one too many, all stay or the oldest goes.
LEMMA NewestOfFrames ==
  ASSUME NEW S, \A e \in S : e.value.size = 1, NEW q \in Seq(S), Capacity \in Nat,
         Len(q) <= Capacity + 1
  PROVE  \/ Len(q) <= Capacity /\ Newest(q) = q
         \/ Len(q) = Capacity + 1 /\ Newest(q) = SubSeq(q, 2, Len(q))
<1>1. PICK n : FitsFrom(q, n, Capacity) /\ Newest(q) = SubSeq(q, n + 1, Len(q))
  BY NewestFacts
<1>2. n \in 0..Len(q) /\ Len(q) \in Nat
  BY <1>1 DEF FitsFrom
<1>3. ASSUME NEW m \in 0..Len(q)
      PROVE  Bytes(SubSeq(q, m + 1, Len(q))) = Len(q) - m
  <2>1. SubSeq(q, m + 1, Len(q)) \in Seq(S) /\ Len(SubSeq(q, m + 1, Len(q))) = Len(q) - m
    BY RestFacts
  <2>2. QED
    BY <2>1, BytesAreFrames
<1>4. Len(q) - n <= Capacity
  BY <1>1, <1>2, <1>3 DEF FitsFrom
<1>5. ASSUME n > 0
      PROVE  Len(q) - (n - 1) > Capacity
  <2>1. n - 1 \in 0..(n - 1) /\ n - 1 \in 0..Len(q)
    BY <1>2, <1>5
  <2>2. Bytes(SubSeq(q, (n - 1) + 1, Len(q))) > Capacity
    BY <1>1, <2>1 DEF FitsFrom
  <2>3. QED
    BY <1>3, <2>1, <2>2
<1>6. CASE n = 0
  <2>1. SubSeq(q, n + 1, Len(q)) = q
    BY <1>2, <1>6, RestFacts
  <2>2. Newest(q) = q
    BY <1>1, <2>1
  <2>3. Len(q) <= Capacity
    BY <1>2, <1>4, <1>6
  <2>4. QED
    BY <2>2, <2>3
<1>7. CASE n > 0
  <2>1. n = 1 /\ Len(q) = Capacity + 1
    BY <1>2, <1>4, <1>5, <1>7
  <2>2. QED
    BY <1>1, <2>1
<1>8. QED
  BY <1>2, <1>6, <1>7

\* What is found under a key is the value of its entry.
LEMMA FindFacts ==
  ASSUME NEW S, NEW q \in Seq(S), Distinct(q), NEW key \in Keys(q)
  PROVE  \E j \in 1..Len(q) : q[j].key = key /\ Find(q, key) = q[j].value
<1>1. PICK j \in 1..Len(q) : q[j].key = key
  BY DEF Keys
<1>2. \A i \in DOMAIN q : q[i].key = key => i = j
  BY <1>1 DEF Distinct
<1>3. j \in DOMAIN q
  BY <1>1
<1>4. (CHOOSE i \in DOMAIN q : q[i].key = key) = j
  BY <1>1, <1>2, <1>3
<1>5. QED
  BY <1>1, <1>4 DEF Find

OfEntries(E) == \A e \in E : e = Entry(e.key, e.value)

\* A hit moves its entry to the end.
LEMMA TouchFacts ==
  ASSUME NEW E, OfEntries(E),
         NEW q \in Seq(E), Distinct(q), NEW key
  PROVE  /\ Touch(q, key) \in Seq(E)
         /\ Distinct(Touch(q, key))
         /\ Len(Touch(q, key)) = Len(q)
         /\ Keys(Touch(q, key)) = Keys(q)
         /\ \A i \in 1..Len(Touch(q, key)) : \E j \in 1..Len(q) : q[j] = Touch(q, key)[i]
<1> DEFINE w == Without(q, key)
           t == Append(w, Entry(key, Find(q, key)))
<1>1. CASE key \notin Keys(q)
  <2>1. Touch(q, key) = q
    BY <1>1 DEF Touch
  <2>2. QED
    BY <1>1, <2>1
<1>2. CASE key \in Keys(q)
  <2>1. PICK j \in 1..Len(q) : q[j].key = key /\ Find(q, key) = q[j].value
    BY <1>2, FindFacts
  <2>2. Find(q, key) = q[j].value
    BY <2>1
  <2>3. Entry(key, Find(q, key)) = q[j] /\ q[j] \in E
    <3>1. q[j] \in E
      BY <2>1, ElementOfSeq
    <3>2. q[j] = Entry(q[j].key, q[j].value)
      BY <3>1 DEF OfEntries
    <3>3. QED
      BY <2>1, <2>2, <3>1, <3>2
  <2>4. /\ w \in Seq(E) /\ Distinct(w)
        /\ \A i \in 1..Len(w) : \E k \in 1..Len(q) : q[k] = w[i]
    BY WithoutFacts
  <2>5. Keys(w) = Keys(q) \ {key}
    BY WithoutKeys
  <2> HIDE DEF w
  <2>6. /\ t \in Seq(E) /\ Len(t) = Len(w) + 1
        /\ \A i \in 1..Len(w) : t[i] = w[i]
        /\ t[Len(w) + 1] = q[j]
        /\ Keys(t) = Keys(w) \cup {key}
        /\ Distinct(t)
    <3>1. q[j].key \notin Keys(w)
      BY <2>1, <2>5
    <3>2. t = Append(w, q[j])
      BY <2>3
    <3> HIDE DEF t
    <3>3. QED
      BY <2>1, <2>3, <2>4, <3>1, <3>2, AppendFacts
  <2> HIDE DEF t
  <2>7. Keys(t) = Keys(q)
    BY <1>2, <2>5, <2>6
  <2>8. Len(t) = Len(q)
    <3>1. Cardinality(Keys(t)) = Len(t)
      BY <2>6, DistinctLen
    <3>2. Cardinality(Keys(q)) = Len(q)
      BY DistinctLen
    <3>3. QED
      BY <2>7, <3>1, <3>2
  <2>9. \A i \in 1..Len(t) : \E k \in 1..Len(q) : q[k] = t[i]
    <3>1. TAKE i \in 1..Len(t)
    <3>2. Len(w) \in Nat
      BY <2>4
    <3>3. i \in 1..Len(w) \/ i = Len(w) + 1
      BY <2>6, <3>2
    <3>4. CASE i \in 1..Len(w)
      BY <2>4, <2>6, <3>4
    <3>5. CASE i = Len(w) + 1
      BY <2>1, <2>6, <3>5
    <3>6. QED
      BY <3>3, <3>4, <3>5
  <2>10. Touch(q, key) = t
    BY <1>2 DEF Touch, t, w
  <2>11. QED
    BY <2>6, <2>7, <2>8, <2>9, <2>10
<1>3. QED
  BY <1>1, <1>2

\* A frame that is put is in the cache, beside all others unless the oldest had to go.
LEMMA PutFacts ==
  ASSUME NEW E, \A e \in E : e.value.size = 1, Capacity \in Nat \ {0}, NEW q \in Seq(E),
         Distinct(q), Len(q) <= Capacity,
         NEW key, NEW value, Entry(key, value) \in E
  PROVE  /\ Put(q, key, value) \in Seq(E)
         /\ Distinct(Put(q, key, value))
         /\ Len(Put(q, key, value)) <= Capacity
         /\ key \in Keys(Put(q, key, value))
         /\ ~ Evicts(q, key) => Keys(Put(q, key, value)) = Keys(q) \cup {key}
         /\ \A i \in 1..Len(Put(q, key, value)) :
              \/ Put(q, key, value)[i] = Entry(key, value)
              \/ \E j \in 1..Len(q) : q[j] = Put(q, key, value)[i]
<1> DEFINE w == Without(q, key)
           t == Append(w, Entry(key, value))
           p == Newest(t)
<1>1. Entry(key, value) \in E /\ Entry(key, value).key = key
  BY DEF Entry
<1>2. /\ w \in Seq(E) /\ Distinct(w)
      /\ \A i \in 1..Len(w) : \E k \in 1..Len(q) : q[k] = w[i]
  BY WithoutFacts
<1>3. Keys(w) = Keys(q) \ {key}
  BY WithoutKeys
<1> HIDE DEF w
<1>4. /\ t \in Seq(E) /\ Len(t) = Len(w) + 1
      /\ \A i \in 1..Len(w) : t[i] = w[i]
      /\ t[Len(w) + 1] = Entry(key, value)
      /\ Keys(t) = Keys(w) \cup {key}
      /\ Distinct(t)
  <2>1. PICK e \in E : e = Entry(key, value)
    BY <1>1
  <2>2. e.key = key /\ e.key \notin Keys(w)
    BY <1>1, <1>3, <2>1
  <2>3. t = Append(w, e)
    BY <2>1
  <2> HIDE DEF t
  <2>4. QED
    BY <1>2, <2>1, <2>2, <2>3, AppendFacts
<1> HIDE DEF t
<1>5. Keys(t) = Keys(q) \cup {key}
  BY <1>3, <1>4
<1>6. /\ Len(q) \in Nat /\ Len(w) \in Nat /\ Len(t) \in Nat
      /\ IsFiniteSet(Keys(q)) /\ Cardinality(Keys(q)) = Len(q)
      /\ Cardinality(Keys(w)) = Len(w) /\ Cardinality(Keys(t)) = Len(t)
  <2>1. Len(q) \in Nat /\ Len(w) \in Nat /\ Len(t) \in Nat
    BY <1>2, <1>4
  <2>2. IsFiniteSet(Keys(q)) /\ Cardinality(Keys(q)) = Len(q)
    BY DistinctLen
  <2>3. Cardinality(Keys(w)) = Len(w)
    BY <1>2, DistinctLen
  <2>4. Cardinality(Keys(t)) = Len(t)
    BY <1>4, DistinctLen
  <2>5. QED
    BY <2>1, <2>2, <2>3, <2>4
<1>7. /\ key \in Keys(q) => Len(t) = Len(q)
      /\ key \notin Keys(q) => Len(t) = Len(q) + 1
  <2>1. CASE key \in Keys(q)
    BY <1>5, <1>6, <2>1
  <2>2. CASE key \notin Keys(q)
    BY <1>3, <1>4, <1>6, <2>2
  <2>3. QED
    BY <2>1, <2>2
<1>8. \A i \in 1..Len(t) : t[i] = Entry(key, value) \/ \E j \in 1..Len(q) : q[j] = t[i]
  <2>1. TAKE i \in 1..Len(t)
  <2>2. CASE i \in 1..Len(w)
    BY <1>2, <1>4, <2>2
  <2>3. CASE i = Len(w) + 1
    BY <1>4, <2>3
  <2>4. QED
    BY <1>4, <1>6, <2>2, <2>3
<1>9. \/ Len(t) <= Capacity /\ p = t
      \/ Len(t) = Capacity + 1 /\ p = SubSeq(t, 2, Len(t))
  <2>1. Len(t) <= Capacity + 1
    BY <1>6, <1>7
  <2>2. QED
    BY <1>4, <2>1, NewestOfFrames
<1>10. Put(q, key, value) = p
  <2>1. Fits(value)
    <3>1. Entry(key, value).value.size = 1
      BY <1>1
    <3>2. QED
      BY <3>1 DEF Fits, Entry
  <2>2. QED
    BY <2>1 DEF Put, p, t, w
<1>11. CASE Len(t) <= Capacity /\ p = t
  BY <1>4, <1>5, <1>8, <1>10, <1>11
<1>12. CASE Len(t) = Capacity + 1 /\ p = SubSeq(t, 2, Len(t))
  <2>1. Evicts(q, key)
    BY <1>6, <1>7, <1>12 DEF Evicts
  <2>2. /\ p \in Seq(E) /\ Len(p) = Len(t) - 1
        /\ \A i \in 1..Len(p) : p[i] = t[i + 1]
    <3>1. 1 \in 0..Len(t) /\ 1 + 1 = 2
      BY <1>6, <1>12
    <3>2. /\ SubSeq(t, 1 + 1, Len(t)) \in Seq(E)
          /\ Len(SubSeq(t, 1 + 1, Len(t))) = Len(t) - 1
          /\ \A i \in 1..(Len(t) - 1) : SubSeq(t, 1 + 1, Len(t))[i] = t[i + 1]
      BY <1>4, <3>1, RestFacts
    <3>3. p = SubSeq(t, 1 + 1, Len(t))
      BY <1>12, <3>1
    <3>4. QED
      BY <3>2, <3>3
  <2> HIDE DEF p
  <2>3. \A i \in 1..Len(p) : i + 1 \in 1..Len(t)
    BY <1>6, <2>2
  <2>4. Distinct(p)
    <3>1. ASSUME NEW i \in 1..Len(p), NEW j \in 1..Len(p), p[i].key = p[j].key
          PROVE  i = j
      <4>1. i + 1 = j + 1
        <5>1. t[i + 1].key = t[j + 1].key
          BY <2>2, <3>1
        <5>2. i + 1 \in 1..Len(t) /\ j + 1 \in 1..Len(t)
          BY <2>3
        <5>3. QED
          BY <1>4, <5>1, <5>2 DEF Distinct
      <4>2. QED
        BY <4>1
    <3>2. QED
      BY <3>1 DEF Distinct
  <2>5. key \in Keys(p)
    <3>1. Len(p) = Capacity /\ Len(w) = Capacity /\ Capacity \in 1..Len(p)
      BY <1>4, <1>6, <1>12, <2>2
    <3>2. p[Capacity] = Entry(key, value)
      BY <1>4, <2>2, <3>1
    <3>3. Capacity \in DOMAIN p
      BY <2>2, <3>1
    <3>4. QED
      BY <1>1, <3>2, <3>3 DEF Keys
  <2>6. \A i \in 1..Len(p) : p[i] = Entry(key, value) \/ \E j \in 1..Len(q) : q[j] = p[i]
    BY <1>8, <2>2, <2>3
  <2>7. Len(p) <= Capacity
    BY <1>12, <2>2
  <2>8. QED
    BY <1>10, <2>1, <2>2, <2>4, <2>5, <2>6, <2>7
<1>13. QED
  BY <1>9, <1>11, <1>12

\* What is filtered out with a key are the bytes of its one entry.
LEMMA BytesWithout ==
  ASSUME NEW S, \A e \in S : e.value.size \in Nat, NEW q \in Seq(S), Distinct(q), NEW key
  PROVE  /\ key \notin Keys(q) => Without(q, key) = q
         /\ \A i \in 1..Len(q) : q[i].key = key =>
              Bytes(q) = Bytes(Without(q, key)) + q[i].value.size
<1> DEFINE R == {q[i] : i \in DOMAIN q}
           T == Others(q, key)
<1>1. \A e \in R : (e \in T) <=> (e.key # key)
  BY DEF Others
<1>2. \A e \in R : e.value.size \in Nat
  OBVIOUS
<1>3. q \in Seq(R)
  <2>1. q = [i \in 1..Len(q) |-> q[i]] /\ Len(q) \in Nat /\ \A i \in 1..Len(q) : q[i] \in R
    OBVIOUS
  <2>2. QED
    BY <2>1, IsASeq
<1> HIDE DEF R, T
<1>4. ASSUME NEW p \in Seq(R), key \notin Keys(p)
      PROVE  Kept(p, T) = p
  <2>1. \A i \in 1..Len(p) : p[i] \in T
    <3>1. SUFFICES ASSUME NEW i \in 1..Len(p)
                   PROVE  p[i] \in T
      OBVIOUS
    <3>2. p[i] \in R /\ p[i].key \in Keys(p)
      BY DEF Keys
    <3>3. QED
      BY <1>1, <1>4, <3>2
  <2>2. p \in Seq(T)
    <3>1. p = [i \in 1..Len(p) |-> p[i]] /\ Len(p) \in Nat
      OBVIOUS
    <3>2. QED
      BY <2>1, <3>1, IsASeq
  <2>3. QED
    BY <2>2, KeptWhole
<1> DEFINE Right(p) == \A i \in 1..Len(p) : p[i].key = key =>
                         Bytes(p) = Bytes(Kept(p, T)) + p[i].value.size
           Done == {n \in Nat : \A p \in Seq(R) : Distinct(p) /\ Len(p) = n => Right(p)}
<1>5. 0 \in Done
  OBVIOUS
<1>6. ASSUME NEW n \in Done
      PROVE  n + 1 \in Done
  <2>1. ASSUME NEW p \in Seq(R), Distinct(p), Len(p) = n + 1
        PROVE  Right(p)
    <3>1. PICK r \in Seq(R), e \in R : p = Append(r, e) /\ Len(r) = n
      BY <2>1, LastApart
    <3>2. /\ n \in Nat /\ p[n + 1] = e /\ Len(p) = n + 1
          /\ \A i \in 1..n : p[i] = r[i]
      BY <3>1
    <3>3. Distinct(r)
      <4>1. \A i \in 1..Len(r) : i \in 1..Len(p) /\ p[i] = r[i]
        BY <3>1, <3>2
      <4>2. QED
        BY <2>1, <4>1 DEF Distinct
    <3>4. Bytes(p) = Bytes(r) + e.value.size
      BY <3>1, BytesOfAppend
    <3>5. Kept(p, T) = IF e \in T THEN Append(Kept(r, T), e) ELSE Kept(r, T)
      BY <3>1, KeptOfAppend
    <3>6. ASSUME NEW i \in 1..Len(p), p[i].key = key
          PROVE  Bytes(p) = Bytes(Kept(p, T)) + p[i].value.size
      <4>1. CASE i = n + 1
        <5>1. e \notin T /\ p[i] = e
          BY <1>1, <3>2, <3>6, <4>1
        <5>2. key \notin Keys(r)
          <6>1. SUFFICES ASSUME NEW j \in 1..Len(r), r[j].key = key
                         PROVE  FALSE
            <7>1. DOMAIN r = 1..Len(r)
              OBVIOUS
            <7>2. QED
              BY <7>1 DEF Keys
          <6>2. j \in 1..Len(p) /\ p[j].key = p[i].key /\ j # i
            BY <3>1, <3>2, <3>6, <4>1, <6>1
          <6>3. QED
            BY <2>1, <6>2 DEF Distinct
        <5>3. Kept(r, T) = r
          BY <1>4, <5>2
        <5>4. QED
          BY <3>4, <3>5, <5>1, <5>3
      <4>2. CASE i # n + 1
        <5>1. i \in 1..n /\ p[i] = r[i]
          BY <3>2, <3>6, <4>2
        <5>2. e \in T
          <6>1. n + 1 \in 1..Len(p)
            BY <3>2
          <6>2. e.key # key
            BY <2>1, <3>2, <3>6, <4>2, <6>1 DEF Distinct
          <6>3. (e \in T) <=> (e.key # key)
            BY <1>1
          <6>4. QED
            BY <6>2, <6>3
        <5>3. Bytes(r) = Bytes(Kept(r, T)) + r[i].value.size
          <6>1. Right(r)
            <7> HIDE DEF Right
            <7> QED BY <3>1, <3>3
          <6>2. QED
            BY <3>1, <3>6, <5>1, <6>1
        <5>4. Kept(r, T) \in Seq(R)
          BY KeptEntries
        <5>5. Bytes(Append(Kept(r, T), e)) = Bytes(Kept(r, T)) + e.value.size
          BY <5>4, BytesOfAppend
        <5>6. /\ Bytes(Kept(r, T)) \in Nat /\ Bytes(r) \in Nat
              /\ e.value.size \in Nat /\ r[i].value.size \in Nat
          <6>1. r[i] \in R
            BY <3>1, <5>1
          <6>2. QED
            BY <1>2, <5>4, <6>1, BytesNat
        <5>7. Bytes(Kept(p, T)) = Bytes(Kept(r, T)) + e.value.size
          BY <3>5, <5>2, <5>5
        <5>8. Bytes(p) = Bytes(Kept(r, T)) + e.value.size + p[i].value.size
          <6>1. Bytes(r) = Bytes(Kept(r, T)) + p[i].value.size
            BY <5>1, <5>3
          <6>2. p[i].value.size \in Nat
            BY <5>1, <5>6
          <6>3. QED
            BY <3>4, <5>6, <6>1, <6>2
        <5>9. QED
          BY <5>1, <5>6, <5>7, <5>8
      <4>3. QED
        BY <4>1, <4>2
    <3>7. QED
      BY <3>6
  <2> HIDE DEF Right
  <2>2. QED
    BY <2>1
<1> HIDE DEF Done
<1>7. Len(q) \in Done
  BY <1>5, <1>6, NatSetInduction
<1>8. Right(q)
  <2> HIDE DEF Right
  <2> QED BY <1>3, <1>7 DEF Done
<1>9. QED
  BY <1>3, <1>4, <1>8 DEF Without, T

\* The first entry and the rest.
LEMMA BytesOfRest ==
  ASSUME NEW S, \A e \in S : e.value.size \in Nat, NEW q \in Seq(S), Len(q) > 0
  PROVE  Bytes(q) = Bytes(SubSeq(q, 2, Len(q))) + q[1].value.size
<1> DEFINE Right(p) == Bytes(p) = Bytes(SubSeq(p, 2, Len(p))) + p[1].value.size
           Done == {n \in Nat : \A p \in Seq(S) : Len(p) = n + 1 => Right(p)}
<1>1. 0 \in Done
  <2>1. ASSUME NEW p \in Seq(S), Len(p) = 0 + 1
        PROVE  Right(p)
    <3>1. PICK r \in Seq(S), e \in S : p = Append(r, e) /\ Len(r) = 0
      BY <2>1, LastApart, ZenonT(60)
    <3>2. r = <<>> /\ p[1] = e /\ SubSeq(p, 2, Len(p)) = <<>>
      BY <2>1, <3>1
    <3>3. Bytes(p) = Bytes(r) + e.value.size
      BY <3>1, BytesOfAppend
    <3>4. QED
      BY <3>2, <3>3
  <2> HIDE DEF Right
  <2>2. QED
    BY <2>1
<1>2. ASSUME NEW n \in Done
      PROVE  n + 1 \in Done
  <2>1. ASSUME NEW p \in Seq(S), Len(p) = (n + 1) + 1
        PROVE  Right(p)
    <3>1. n \in Nat /\ n + 1 \in Nat
      OBVIOUS
    <3>2. PICK r \in Seq(S), e \in S : p = Append(r, e) /\ Len(r) = n + 1
      BY <2>1, <3>1, LastApart
    <3> DEFINE u == SubSeq(r, 2, Len(r))
    <3>3. Right(r)
      <4> HIDE DEF Right
      <4> QED BY <3>2
    <3>4. u \in Seq(S) /\ Len(u) = n /\ \A i \in 1..n : u[i] = r[i + 1]
      BY <3>1, <3>2
    <3>5. SubSeq(p, 2, Len(p)) = Append(u, e)
      <4>1. /\ p \in Seq(S) /\ Len(p) = n + 2 /\ p[n + 2] = e
            /\ \A i \in 1..(n + 1) : p[i] = r[i]
        BY <3>1, <3>2
      <4> DEFINE v == SubSeq(p, 2, Len(p))
      <4>2. v \in Seq(S) /\ Len(v) = n + 1 /\ \A i \in 1..(n + 1) : v[i] = p[i + 1]
        BY <3>1, <4>1
      <4> HIDE DEF u, v
      <4> DEFINE w == Append(u, e)
      <4>3. w \in Seq(S) /\ Len(w) = n + 1 /\ w[n + 1] = e /\ \A i \in 1..n : w[i] = u[i]
        BY <3>1, <3>4
      <4> HIDE DEF w
      <4>4. \A i \in 1..(n + 1) : v[i] = w[i]
        <5>1. SUFFICES ASSUME NEW i \in 1..(n + 1)
                       PROVE  v[i] = w[i]
          OBVIOUS
        <5>2. CASE i = n + 1
          <6>1. (n + 1) + 1 = n + 2 /\ n + 1 \in 1..(n + 1)
            BY <3>1
          <6>2. QED
            BY <4>1, <4>2, <4>3, <5>2, <6>1
        <5>3. CASE i # n + 1
          <6>1. i \in 1..n /\ i + 1 \in 1..(n + 1)
            BY <3>1, <5>3
          <6>2. QED
            BY <3>4, <4>1, <4>2, <4>3, <6>1
        <5>4. QED
          BY <5>2, <5>3
      <4>5. v = w
        <5>1. v = [i \in 1..(n + 1) |-> v[i]] /\ w = [i \in 1..(n + 1) |-> w[i]]
          BY <4>2, <4>3
        <5>2. QED
          BY <4>4, <5>1
      <4>6. QED
        BY <4>5 DEF v, w
    <3> HIDE DEF u
    <3>6. Bytes(Append(u, e)) = Bytes(u) + e.value.size
      BY <3>4, BytesOfAppend
    <3>7. Bytes(p) = Bytes(r) + e.value.size
      BY <3>2, BytesOfAppend
    <3>8. p[1] = r[1] /\ r[1] \in S
      BY <3>1, <3>2
    <3>9. Bytes(u) \in Nat /\ e.value.size \in Nat /\ r[1].value.size \in Nat
      BY <3>4, <3>8, BytesNat
    <3>10. Bytes(r) = Bytes(u) + r[1].value.size
      BY <3>3 DEF u
    <3>11. Bytes(SubSeq(p, 2, Len(p))) = Bytes(u) + e.value.size
      BY <3>5, <3>6
    <3>12. Bytes(p) = Bytes(u) + e.value.size + p[1].value.size
      BY <3>7, <3>8, <3>9, <3>10
    <3>13. QED
      BY <3>9, <3>11, <3>12
  <2> HIDE DEF Right
  <2>2. QED
    BY <2>1
<1> HIDE DEF Done
<1>3. PICK n \in Nat : Len(q) = n + 1
  <2>1. Len(q) - 1 \in Nat /\ Len(q) = (Len(q) - 1) + 1
    OBVIOUS
  <2>2. QED
    BY <2>1
<1>4. n \in Done
  BY <1>1, <1>2, NatSetInduction
<1>5. QED
  BY <1>3, <1>4 DEF Done

-----------------------------------------------------------------------------
(* The map of the frame cache and the sequence of its entries by age. *)

\* The operations as the abstract cache has them.
LEMMA SameOperations ==
  /\ \A q : LruView!Bytes(q) = Bytes(q)
  /\ \A q : LruView!Keys(q) = Keys(q)
  /\ \A q, key : LruView!Find(q, key) = Find(q, key)
  /\ \A q, key : LruView!Without(q, key) = Without(q, key)
  /\ \A key, value : LruView!Entry(key, value) = Entry(key, value)
<1>1. \A q : LruView!Bytes(q) = Bytes(q)
  BY DEF LruView!Bytes, Bytes
<1>2. \A q : LruView!Keys(q) = Keys(q)
  BY DEF LruView!Keys, Keys
<1>3. \A q, key : LruView!Find(q, key) = Find(q, key)
  BY DEF LruView!Find, Find
<1>4. \A q, key : LruView!Without(q, key) = Without(q, key)
  BY DEF LruView!Without, Without, LruView!Others, Others, LruView!Kept, Kept
<1>5. \A key, value : LruView!Entry(key, value) = Entry(key, value)
  BY DEF LruView!Entry, Entry
<1>6. QED
  BY <1>1, <1>2, <1>3, <1>4, <1>5

FrameEntry == [key : Key, value : Value]

\* The entries of the map are those of the sequence, in the order of their access.
Models(q, es) ==
  /\ q \in Seq(FrameEntry)
  /\ DOMAIN es = Keys(q)
  /\ \A i \in 1..Len(q) : /\ es[q[i].key] \in [value : Value, last : Nat]
                          /\ es[q[i].key].value = q[i].value
  /\ \A i, j \in 1..Len(q) : i < j => es[q[i].key].last < es[q[j].key].last

\* An entry of a cache of frames has a key, a value and a size.
LEMMA FrameEntries ==
  /\ \A e \in FrameEntry : e.key \in Key /\ e.value \in Value /\ e.value.size \in Nat
  /\ OfEntries(FrameEntry)
  /\ \A key \in Key, value \in Value : Entry(key, value) \in FrameEntry
BY FrameCacheConstants DEF FrameEntry, OfEntries, Entry

\* An entry was accessed once for the last time, so it is in the sequence once.
LEMMA ModelsApart ==
  ASSUME NEW q, NEW es, Models(q, es)
  PROVE  /\ Distinct(q) /\ Len(q) \in Nat /\ DOMAIN q = 1..Len(q)
         /\ \A i \in 1..Len(q) : q[i] \in FrameEntry /\ q[i].key \in DOMAIN es
         /\ \A key \in DOMAIN es : \E i \in 1..Len(q) : q[i].key = key
<1>1. q \in Seq(FrameEntry)
  BY DEF Models
<1>2. Len(q) \in Nat /\ DOMAIN q = 1..Len(q) /\ \A i \in 1..Len(q) : q[i] \in FrameEntry
  BY <1>1
<1>3. /\ \A i \in 1..Len(q) : q[i].key \in DOMAIN es
      /\ \A key \in DOMAIN es : \E i \in 1..Len(q) : q[i].key = key
  BY <1>2 DEF Models, Keys
<1>4. Distinct(q)
  <2>1. SUFFICES ASSUME NEW i \in 1..Len(q), NEW j \in 1..Len(q), q[i].key = q[j].key, i < j
                 PROVE  FALSE
    <3>1. \A i, j \in 1..Len(q) : i < j \/ j < i \/ i = j
      BY <1>2
    <3>2. QED
      BY <3>1 DEF Distinct
  <2>2. es[q[i].key].last < es[q[j].key].last /\ es[q[i].key].last \in Nat
    BY <2>1 DEF Models
  <2>3. QED
    BY <2>1, <2>2
<1>5. QED
  BY <1>2, <1>3, <1>4

\* The place of an entry in the sequence is its rank in the map.
LEMMA RankIsPlace ==
  ASSUME NEW q, NEW es, Models(q, es)
  PROVE  /\ IsFiniteSet(DOMAIN es) /\ Cardinality(DOMAIN es) = Len(q)
         /\ \A i \in 1..Len(q) : Rank(es, q[i].key) = i
<1>1. /\ Distinct(q) /\ Len(q) \in Nat /\ DOMAIN q = 1..Len(q)
      /\ \A i \in 1..Len(q) : q[i] \in FrameEntry /\ q[i].key \in DOMAIN es
      /\ \A key \in DOMAIN es : \E i \in 1..Len(q) : q[i].key = key
  BY ModelsApart
<1>2. IsFiniteSet(DOMAIN es) /\ Cardinality(DOMAIN es) = Len(q)
  <2>1. q \in Seq(FrameEntry) /\ DOMAIN es = Keys(q)
    BY DEF Models
  <2>2. QED
    BY <1>1, <2>1, DistinctLen
<1>3. ASSUME NEW i \in 1..Len(q)
      PROVE  Rank(es, q[i].key) = i
  <2> DEFINE older == {other \in DOMAIN es : es[other].last <= es[q[i].key].last}
             f == [j \in 1..i |-> q[j].key]
  <2>1. i \in Nat /\ \A j \in 1..i : j \in 1..Len(q)
    BY <1>1
  <2>2. \A j, k \in 1..Len(q) : (es[q[j].key].last <= es[q[k].key].last) <=> (j <= k)
    <3>1. SUFFICES ASSUME NEW j \in 1..Len(q), NEW k \in 1..Len(q)
                   PROVE  (es[q[j].key].last <= es[q[k].key].last) <=> (j <= k)
      OBVIOUS
    <3>2. es[q[j].key].last \in Nat /\ es[q[k].key].last \in Nat
      BY DEF Models
    <3>3. /\ j < k => es[q[j].key].last < es[q[k].key].last
          /\ k < j => es[q[k].key].last < es[q[j].key].last
      BY DEF Models
    <3>4. (j < k \/ k < j \/ j = k) /\ j \in Int /\ k \in Int
      BY <1>1
    <3>5. QED
      BY <3>2, <3>3, <3>4
  <2>3. \A j \in 1..i : q[j].key \in older
    <3>1. SUFFICES ASSUME NEW j \in 1..i
                   PROVE  q[j].key \in older
      OBVIOUS
    <3>2. j \in 1..Len(q) /\ j <= i
      BY <2>1
    <3>3. QED
      BY <1>1, <2>2, <3>2
  <2>4. \A key \in older : \E j \in 1..i : q[j].key = key
    <3>1. SUFFICES ASSUME NEW key \in older
                   PROVE  \E j \in 1..i : q[j].key = key
      OBVIOUS
    <3>2. PICK j \in 1..Len(q) : q[j].key = key
      BY <1>1
    <3>3. j <= i
      BY <2>2, <3>2
    <3>4. j \in 1..i
      BY <1>1, <3>3
    <3>5. QED
      BY <3>2, <3>4
  <2>5. \A j, k \in 1..i : q[j].key = q[k].key => j = k
    BY <1>1, <2>1 DEF Distinct
  <2> HIDE DEF older
  <2>6. f \in Bijection(1..i, older)
    <3>1. f \in [1..i -> older]
      BY <2>3
    <3>2. \A x \in older : \E j \in 1..i : f[j] = x
      BY <2>4
    <3>3. \A j, k \in 1..i : f[j] = f[k] => j = k
      BY <2>5
    <3>4. QED
      BY <3>1, <3>2, <3>3 DEF Bijection, Injection, Surjection, IsInjective
  <2>7. IsFiniteSet(1..i) /\ Cardinality(1..i) = i
    BY <2>1, FS_Interval
  <2>8. Cardinality(older) = i
    BY <2>6, <2>7, FS_Bijection DEF ExistsBijection
  <2>9. QED
    BY <2>8 DEF Rank, older
<1>4. QED
  BY <1>2, <1>3

\* The sequence is what the map says.
LEMMA ModelsByAge ==
  ASSUME NEW q, NEW es, Models(q, es)
  PROVE  ByAge(es) = q
<1>1. /\ Distinct(q) /\ Len(q) \in Nat /\ DOMAIN q = 1..Len(q)
      /\ \A i \in 1..Len(q) : q[i] \in FrameEntry /\ q[i].key \in DOMAIN es
      /\ \A key \in DOMAIN es : \E i \in 1..Len(q) : q[i].key = key
  BY ModelsApart
<1>2. Cardinality(DOMAIN es) = Len(q) /\ \A i \in 1..Len(q) : Rank(es, q[i].key) = i
  BY RankIsPlace
<1> DEFINE at(i) == CHOOSE key \in DOMAIN es : Rank(es, key) = i
<1>3. \A i \in 1..Len(q) : at(i) = q[i].key
  <2>1. SUFFICES ASSUME NEW i \in 1..Len(q)
                 PROVE  at(i) = q[i].key
    OBVIOUS
  <2>2. \A key \in DOMAIN es : Rank(es, key) = i => key = q[i].key
    BY <1>1, <1>2
  <2>3. q[i].key \in DOMAIN es /\ Rank(es, q[i].key) = i
    BY <1>1, <1>2
  <2>4. QED
    BY <2>2, <2>3
<1>4. \A i \in 1..Len(q) : [key |-> q[i].key, value |-> es[q[i].key].value] = q[i]
  <2>1. SUFFICES ASSUME NEW i \in 1..Len(q)
                 PROVE  [key |-> q[i].key, value |-> es[q[i].key].value] = q[i]
    OBVIOUS
  <2>2. q[i] = [key |-> q[i].key, value |-> q[i].value]
    BY <1>1 DEF FrameEntry
  <2>3. es[q[i].key].value = q[i].value
    BY DEF Models
  <2>4. QED
    BY <2>2, <2>3
<1>5. ByAge(es) = [i \in 1..Len(q) |-> [key |-> at(i), value |-> es[at(i)].value]]
  BY <1>2 DEF ByAge
<1> HIDE DEF at
<1>6. ByAge(es) = [i \in 1..Len(q) |-> q[i]]
  BY <1>3, <1>4, <1>5
<1>7. q = [i \in 1..Len(q) |-> q[i]]
  BY <1>1 DEF Models
<1>8. QED
  BY <1>6, <1>7

\* Renumbering keeps the order.
LEMMA RenumberKeeps ==
  ASSUME NEW q, NEW es, Models(q, es)
  PROVE  /\ Models(q, Renumber(es))
         /\ \A i \in 1..Len(q) : Renumber(es)[q[i].key].last = i
<1>1. /\ Len(q) \in Nat
      /\ \A i \in 1..Len(q) : q[i] \in FrameEntry /\ q[i].key \in DOMAIN es
  BY ModelsApart
<1>2. \A i \in 1..Len(q) : Rank(es, q[i].key) = i
  BY RankIsPlace
<1>3. DOMAIN Renumber(es) = DOMAIN es
  BY DEF Renumber
<1>4. ASSUME NEW i \in 1..Len(q)
      PROVE  /\ Renumber(es)[q[i].key] \in [value : Value, last : Nat]
             /\ Renumber(es)[q[i].key].last = i
             /\ Renumber(es)[q[i].key].value = q[i].value
  <2>1. Renumber(es)[q[i].key] = [es[q[i].key] EXCEPT !.last = i]
    BY <1>1, <1>2 DEF Renumber
  <2>2. es[q[i].key].value = q[i].value /\ es[q[i].key] \in [value : Value, last : Nat]
    BY DEF Models
  <2>3. /\ Renumber(es)[q[i].key] \in [value : Value, last : Nat]
        /\ Renumber(es)[q[i].key].last = i
        /\ Renumber(es)[q[i].key].value = q[i].value
    <3>1. i \in Nat
      OBVIOUS
    <3>2. QED
      BY <2>1, <2>2, <3>1
  <2>4. QED
    BY <2>3
<1>5. QED
  BY <1>1, <1>3, <1>4 DEF Models

\* Moreover the map is a function, and all its accesses are within n.
Stored(q, es, n) ==
  /\ Models(q, es)
  /\ es = [key \in DOMAIN es |-> es[key]]
  /\ \A i \in 1..Len(q) : es[q[i].key].last \in 1..n

\* A map without a key has the sequence without its entry.
LEMMA DropKeeps ==
  ASSUME NEW q, NEW es, NEW n, Stored(q, es, n), NEW key
  PROVE  /\ Stored(Without(q, key), Drop(es, key), n)
         /\ DOMAIN Drop(es, key) = DOMAIN es \ {key}
<1> DEFINE w == Without(q, key)
           d == Drop(es, key)
<1>1. /\ Distinct(q) /\ Len(q) \in Nat /\ DOMAIN q = 1..Len(q)
      /\ \A i \in 1..Len(q) : q[i] \in FrameEntry /\ q[i].key \in DOMAIN es
  BY ModelsApart DEF Stored
<1>2. q \in Seq(FrameEntry) /\ DOMAIN es = Keys(q)
  BY DEF Stored, Models
<1>3. /\ d = [x \in DOMAIN es \ {key} |-> es[x]]
      /\ DOMAIN d = DOMAIN es \ {key}
      /\ \A x \in DOMAIN d : d[x] = es[x]
  BY DEF Drop, Restrict
<1>4. /\ w \in Seq(FrameEntry)
      /\ \A i \in 1..Len(w) : w[i].key # key /\ \E j \in 1..Len(q) : q[j] = w[i]
  BY <1>2, WithoutFacts
<1>5. Keys(w) = Keys(q) \ {key}
  BY <1>2, WithoutKeys
<1>6. \A i, j \in 1..Len(w) : i < j =>
        \E a, b \in 1..Len(q) : a < b /\ q[a] = w[i] /\ q[b] = w[j]
  BY <1>2, KeptOrder DEF Without
<1> HIDE DEF w, d
<1>7. \A i \in 1..Len(w) : \E a \in 1..Len(q) : q[a] = w[i] /\ d[w[i].key] = es[q[a].key]
  <2>1. SUFFICES ASSUME NEW i \in 1..Len(w)
                 PROVE  \E a \in 1..Len(q) : q[a] = w[i] /\ d[w[i].key] = es[q[a].key]
    OBVIOUS
  <2>2. PICK a \in 1..Len(q) : q[a] = w[i]
    BY <1>4
  <2>3. w[i].key \in DOMAIN d
    BY <1>1, <1>3, <1>4, <2>2
  <2>4. QED
    BY <1>3, <2>2, <2>3
<1>8. \A i \in 1..Len(w) : /\ d[w[i].key] \in [value : Value, last : Nat]
                           /\ d[w[i].key].value = w[i].value
                           /\ d[w[i].key].last \in 1..n
  <2>1. SUFFICES ASSUME NEW i \in 1..Len(w)
                 PROVE  /\ d[w[i].key] \in [value : Value, last : Nat]
                        /\ d[w[i].key].value = w[i].value
                        /\ d[w[i].key].last \in 1..n
    OBVIOUS
  <2>2. PICK a \in 1..Len(q) : q[a] = w[i] /\ d[w[i].key] = es[q[a].key]
    BY <1>7
  <2>3. QED
    BY <2>2 DEF Stored, Models
<1>9. ASSUME NEW i \in 1..Len(w), NEW j \in 1..Len(w), i < j
      PROVE  d[w[i].key].last < d[w[j].key].last
  <2>1. PICK a \in 1..Len(q), b \in 1..Len(q) : a < b /\ q[a] = w[i] /\ q[b] = w[j]
    BY <1>6, <1>9
  <2>2. es[q[a].key].last < es[q[b].key].last
    BY <2>1 DEF Stored, Models
  <2>3. d[w[i].key] = es[q[a].key] /\ d[w[j].key] = es[q[b].key]
    <3>1. w[i].key \in DOMAIN d /\ w[j].key \in DOMAIN d
      BY <1>1, <1>3, <1>4, <2>1
    <3>2. QED
      BY <1>3, <2>1, <3>1
  <2>4. QED
    BY <2>2, <2>3
<1>10. Models(w, d)
  BY <1>2, <1>3, <1>4, <1>5, <1>8, <1>9 DEF Models
<1>11. d = [x \in DOMAIN d |-> d[x]]
  BY <1>3
<1>12. Stored(w, d, n)
  BY <1>8, <1>10, <1>11 DEF Stored
<1>13. QED
  BY <1>3, <1>12 DEF w, d

\* An entry with a later access than all others is the newest.
LEMMA AddKeeps ==
  ASSUME NEW q, NEW es, NEW n, Stored(q, es, n), NEW g \in Nat \ {0}, n <= g,
         \A i \in 1..Len(q) : es[q[i].key].last < g,
         NEW key \in Key \ DOMAIN es, NEW value \in Value,
         NEW fs, fs = [k \in DOMAIN es \cup {key} |-> fs[k]],
         fs[key] = [value |-> value, last |-> g],
         \A k \in DOMAIN es : fs[k] = es[k]
  PROVE  Stored(Append(q, Entry(key, value)), fs, g)
<1> DEFINE e == Entry(key, value)
           p == Append(q, e)
<1>1. /\ Distinct(q) /\ Len(q) \in Nat /\ DOMAIN q = 1..Len(q)
      /\ \A i \in 1..Len(q) : q[i] \in FrameEntry /\ q[i].key \in DOMAIN es
  BY ModelsApart DEF Stored
<1>2. q \in Seq(FrameEntry) /\ DOMAIN es = Keys(q)
  BY DEF Stored, Models
<1>3. e \in FrameEntry /\ e.key = key /\ e.value = value
  BY FrameEntries DEF Entry
<1> HIDE DEF e
<1>4. /\ p \in Seq(FrameEntry) /\ Len(p) = Len(q) + 1
      /\ \A i \in 1..Len(q) : p[i] = q[i]
      /\ p[Len(q) + 1] = e
      /\ Keys(p) = Keys(q) \cup {key}
  BY <1>2, <1>3, AppendFacts
<1> HIDE DEF p
<1>5. DOMAIN fs = DOMAIN es \cup {key}
  OBVIOUS
<1>6. \A i \in 1..Len(p) : i \in 1..Len(q) \/ i = Len(q) + 1
  BY <1>1, <1>4
<1>7. \A i \in 1..Len(q) : p[i] = q[i] /\ fs[p[i].key] = es[q[i].key]
  BY <1>1, <1>4
<1>8. fs[p[Len(q) + 1].key] = [value |-> value, last |-> g]
  BY <1>3, <1>4
<1>9. \A i \in 1..Len(q) : /\ es[q[i].key] \in [value : Value, last : Nat]
                           /\ es[q[i].key].value = q[i].value
                           /\ es[q[i].key].last \in 1..g
  <2>1. SUFFICES ASSUME NEW i \in 1..Len(q)
                 PROVE  /\ es[q[i].key] \in [value : Value, last : Nat]
                        /\ es[q[i].key].value = q[i].value
                        /\ es[q[i].key].last \in 1..g
    OBVIOUS
  <2>2. /\ es[q[i].key] \in [value : Value, last : Nat]
        /\ es[q[i].key].value = q[i].value
        /\ es[q[i].key].last \in 1..n
    BY DEF Stored, Models
  <2>3. es[q[i].key].last < g
    OBVIOUS
  <2>4. es[q[i].key].last \in 1..g
    BY <2>2, <2>3
  <2>5. QED
    BY <2>2, <2>4
<1>10. \A i \in 1..Len(p) : /\ fs[p[i].key] \in [value : Value, last : Nat]
                            /\ fs[p[i].key].value = p[i].value
                            /\ fs[p[i].key].last \in 1..g
  <2>1. SUFFICES ASSUME NEW i \in 1..Len(p)
                 PROVE  /\ fs[p[i].key] \in [value : Value, last : Nat]
                        /\ fs[p[i].key].value = p[i].value
                        /\ fs[p[i].key].last \in 1..g
    OBVIOUS
  <2>2. CASE i \in 1..Len(q)
    BY <1>7, <1>9, <2>2
  <2>3. CASE i = Len(q) + 1
    <3>1. g \in 1..g
      OBVIOUS
    <3>2. QED
      BY <1>3, <1>4, <1>8, <2>3, <3>1
  <2>4. QED
    BY <1>6, <2>2, <2>3
<1>11. ASSUME NEW i \in 1..Len(p), NEW j \in 1..Len(p), i < j
       PROVE  fs[p[i].key].last < fs[p[j].key].last
  <2>1. i \in 1..Len(q)
    BY <1>1, <1>4, <1>11
  <2>2. CASE j \in 1..Len(q)
    <3>1. es[q[i].key].last < es[q[j].key].last
      BY <1>11, <2>1, <2>2 DEF Stored, Models
    <3>2. QED
      BY <1>7, <2>1, <2>2, <3>1
  <2>3. CASE j = Len(q) + 1
    <3>1. es[q[i].key].last < g
      BY <2>1
    <3>2. fs[p[j].key].last = g
      BY <1>8, <2>3
    <3>3. fs[p[i].key] = es[q[i].key]
      BY <1>7, <2>1
    <3>4. QED
      BY <3>1, <3>2, <3>3
  <2>4. QED
    BY <1>6, <2>2, <2>3
<1>12. Models(p, fs)
  BY <1>2, <1>4, <1>5, <1>10, <1>11 DEF Models
<1>13. fs = [k \in DOMAIN fs |-> fs[k]]
  BY <1>5
<1>14. Stored(p, fs, g)
  BY <1>10, <1>12, <1>13 DEF Stored
<1>15. QED
  BY <1>14 DEF p, e

\* The oldest entry is the first, and what stays without it is the rest.
LEMMA OldestGoes ==
  ASSUME NEW q, NEW es, NEW n, Stored(q, es, n), Len(q) > 0
  PROVE  /\ Oldest(es) = q[1].key
         /\ Stored(SubSeq(q, 2, Len(q)), Drop(es, Oldest(es)), n)
         /\ es[Oldest(es)].value = q[1].value
<1> DEFINE r == SubSeq(q, 2, Len(q))
           first == q[1].key
           d == Drop(es, first)
<1>1. /\ Distinct(q) /\ Len(q) \in Nat /\ DOMAIN q = 1..Len(q)
      /\ \A i \in 1..Len(q) : q[i] \in FrameEntry /\ q[i].key \in DOMAIN es
      /\ \A key \in DOMAIN es : \E i \in 1..Len(q) : q[i].key = key
  BY ModelsApart DEF Stored
<1>2. q \in Seq(FrameEntry) /\ DOMAIN es = Keys(q) /\ 1 \in 1..Len(q)
  BY <1>1 DEF Stored, Models
<1>3. \A i \in 1..Len(q) : i # 1 => /\ es[first].last < es[q[i].key].last
                                    /\ es[first].last \in Nat
                                    /\ es[q[i].key].last \in Nat
  <2>1. SUFFICES ASSUME NEW i \in 1..Len(q), i # 1
                 PROVE  /\ es[first].last < es[q[i].key].last
                        /\ es[first].last \in Nat
                        /\ es[q[i].key].last \in Nat
    OBVIOUS
  <2>2. 1 < i
    BY <2>1
  <2>3. /\ es[first] \in [value : Value, last : Nat]
        /\ es[q[i].key] \in [value : Value, last : Nat]
    BY <1>2 DEF Stored, Models
  <2>4. es[first].last < es[q[i].key].last
    BY <1>2, <2>2 DEF Stored, Models
  <2>5. QED
    BY <2>3, <2>4
<1>4. Oldest(es) = first
  <2>1. first \in DOMAIN es /\ es[first].last \in Nat
    <3>1. es[first] \in [value : Value, last : Nat]
      BY <1>2 DEF Stored, Models
    <3>2. QED
      BY <1>1, <1>2, <3>1
  <2>2. \A other \in DOMAIN es : es[first].last <= es[other].last
    <3>1. SUFFICES ASSUME NEW other \in DOMAIN es
                   PROVE  es[first].last <= es[other].last
      OBVIOUS
    <3>2. PICK i \in 1..Len(q) : q[i].key = other
      BY <1>1
    <3>3. QED
      BY <1>3, <2>1, <3>2
  <2>3. ASSUME NEW key \in DOMAIN es, \A other \in DOMAIN es : es[key].last <= es[other].last
        PROVE  key = first
    <3>1. PICK i \in 1..Len(q) : q[i].key = key
      BY <1>1
    <3>2. es[key].last <= es[first].last
      BY <2>1, <2>3
    <3>3. QED
      BY <1>3, <3>1, <3>2
  <2> HIDE DEF first
  <2>4. QED
    BY <2>1, <2>2, <2>3 DEF Oldest
<1>5. /\ r \in Seq(FrameEntry) /\ Len(r) = Len(q) - 1
      /\ \A i \in 1..(Len(q) - 1) : r[i] = q[i + 1]
  <2>1. PICK n1 \in 0..Len(q) : n1 = 1
    BY <1>1
  <2>2. /\ SubSeq(q, n1 + 1, Len(q)) \in Seq(FrameEntry)
        /\ Len(SubSeq(q, n1 + 1, Len(q))) = Len(q) - n1
        /\ \A i \in 1..(Len(q) - n1) : SubSeq(q, n1 + 1, Len(q))[i] = q[i + n1]
    BY <1>2, RestFacts
  <2>3. n1 + 1 = 2
    BY <2>1
  <2>4. QED
    BY <2>1, <2>2, <2>3
<1>6. /\ d = [x \in DOMAIN es \ {first} |-> es[x]]
      /\ DOMAIN d = DOMAIN es \ {first}
      /\ \A x \in DOMAIN d : d[x] = es[x]
  BY DEF Drop, Restrict
<1>7. \A i \in 1..Len(r) : i + 1 \in 1..Len(q) /\ i + 1 # 1 /\ r[i] = q[i + 1] /\ i \in Nat
  BY <1>1, <1>5
<1>8. \A i \in 1..Len(q) : i # 1 => q[i].key # first
  BY <1>1, <1>2 DEF Distinct
<1>9. Keys(r) = DOMAIN d
  <2>1. DOMAIN r = 1..Len(r)
    BY <1>5
  <2>2. ASSUME NEW x \in Keys(r)
        PROVE  x \in DOMAIN d
    <3>1. PICK i \in 1..Len(r) : x = r[i].key
      BY <2>1 DEF Keys
    <3>2. QED
      BY <1>1, <1>6, <1>7, <1>8, <3>1
  <2>3. ASSUME NEW x \in DOMAIN d
        PROVE  x \in Keys(r)
    <3>1. PICK i \in 1..Len(q) : q[i].key = x
      BY <1>1, <1>6
    <3>2. i # 1
      BY <1>6, <3>1
    <3>3. i - 1 \in 1..Len(r) /\ i - 1 \in 1..(Len(q) - 1) /\ (i - 1) + 1 = i
      BY <1>1, <1>5, <3>2
    <3>4. r[i - 1].key = x
      BY <1>5, <3>1, <3>3
    <3>5. QED
      BY <2>1, <3>3, <3>4 DEF Keys
  <2>4. QED
    BY <2>2, <2>3
<1> HIDE DEF r, d, first
<1>10. \A i \in 1..Len(r) : d[r[i].key] = es[q[i + 1].key]
  BY <1>1, <1>6, <1>7, <1>8
<1>11. ASSUME NEW i \in 1..Len(r)
       PROVE  /\ d[r[i].key] \in [value : Value, last : Nat]
              /\ d[r[i].key].value = r[i].value
              /\ d[r[i].key].last \in 1..n
  <2>1. PICK j \in 1..Len(q) : j = i + 1
    BY <1>7
  <2>2. d[r[i].key] = es[q[j].key] /\ r[i] = q[j]
    BY <1>7, <1>10, <2>1
  <2>3. QED
    BY <2>2 DEF Stored, Models
<1>12. ASSUME NEW i \in 1..Len(r), NEW j \in 1..Len(r), i < j
       PROVE  d[r[i].key].last < d[r[j].key].last
  <2>1. PICK a \in 1..Len(q), b \in 1..Len(q) : a = i + 1 /\ b = j + 1
    BY <1>7
  <2>2. a < b
    BY <1>7, <1>12, <2>1
  <2>3. es[q[a].key].last < es[q[b].key].last
    BY <2>2 DEF Stored, Models
  <2>4. QED
    BY <1>10, <2>1, <2>3
<1>13. Models(r, d)
  BY <1>5, <1>9, <1>11, <1>12 DEF Models
<1>14. d = [x \in DOMAIN d |-> d[x]]
  BY <1>6
<1>15. Stored(r, d, n)
  BY <1>11, <1>13, <1>14 DEF Stored
<1>16. es[first].value = q[1].value
  BY <1>2 DEF Stored, Models, first
<1>17. QED
  BY <1>4, <1>15, <1>16 DEF r, d, first

\* A generation is free, also where the entries are renumbered for it.
LEMMA GenerationFacts ==
  ASSUME NEW q, NEW es, Stored(q, es, next), next \in 0..MaxAccess
  PROVE  /\ Generation(es) \in 1..MaxAccess
         /\ DOMAIN Renumbered(es) = DOMAIN es
         /\ Stored(q, Renumbered(es), Generation(es))
         /\ \A i \in 1..Len(q) : Renumbered(es)[q[i].key].last < Generation(es)
<1>1. /\ Len(q) \in Nat
      /\ \A i \in 1..Len(q) : q[i] \in FrameEntry /\ q[i].key \in DOMAIN es
      /\ \A key \in DOMAIN es : \E i \in 1..Len(q) : q[i].key = key
  BY ModelsApart DEF Stored
<1>2. MaxAccess \in Nat
  BY FrameCacheConstants
<1>3. CASE next = MaxAccess
  <2> DEFINE fs == Renumber(es)
  <2>1. Generation(es) = Len(q) + 1
    <3>1. Cardinality(DOMAIN es) = Len(q)
      BY RankIsPlace DEF Stored
    <3>2. QED
      BY <1>3, <3>1 DEF Generation
  <2>2. Len(q) < MaxAccess
    <3>1. DOMAIN es \subseteq Key
      BY <1>1, FrameEntries
    <3>2. /\ IsFiniteSet(Key) /\ Cardinality(Key) < MaxAccess
          /\ Cardinality(Key) \in Nat
      BY FrameCacheConstants, FS_CardinalityType
    <3>3. Cardinality(DOMAIN es) <= Cardinality(Key)
      BY <3>1, <3>2, FS_Subset
    <3>4. Cardinality(DOMAIN es) = Len(q)
      BY RankIsPlace DEF Stored
    <3>5. QED
      BY <1>1, <1>2, <3>2, <3>3, <3>4
  <2>3. Renumbered(es) = fs
    BY <1>3 DEF Renumbered
  <2>4. Models(q, fs) /\ \A i \in 1..Len(q) : fs[q[i].key].last = i
    BY RenumberKeeps DEF Stored
  <2>5. DOMAIN fs = DOMAIN es /\ fs = [key \in DOMAIN fs |-> fs[key]]
    BY DEF Renumber
  <2> HIDE DEF fs
  <2>6. \A i \in 1..Len(q) : i \in 1..(Len(q) + 1) /\ i < Len(q) + 1
    BY <1>1
  <2>7. Stored(q, fs, Len(q) + 1)
    BY <2>4, <2>5, <2>6 DEF Stored
  <2>8. Len(q) + 1 \in 1..MaxAccess
    BY <1>1, <1>2, <2>2
  <2>9. QED
    BY <2>1, <2>3, <2>4, <2>5, <2>6, <2>7, <2>8
<1>4. CASE next # MaxAccess
  <2>1. Generation(es) = next + 1 /\ Renumbered(es) = es
    BY <1>4 DEF Generation, Renumbered
  <2>2. next + 1 \in 1..MaxAccess
    BY <1>2, <1>4
  <2>3. \A i \in 1..Len(q) : /\ es[q[i].key].last \in 1..(next + 1)
                             /\ es[q[i].key].last < next + 1
    <3>1. SUFFICES ASSUME NEW i \in 1..Len(q)
                   PROVE  /\ es[q[i].key].last \in 1..(next + 1)
                          /\ es[q[i].key].last < next + 1
      OBVIOUS
    <3>2. es[q[i].key].last \in 1..next
      BY DEF Stored
    <3>3. QED
      BY <1>2, <3>2
  <2>4. Stored(q, es, next + 1)
    BY <2>3 DEF Stored
  <2>5. QED
    BY <2>1, <2>2, <2>3, <2>4
<1>5. QED
  BY <1>3, <1>4

\* The recursion of Evicted, as an equation for the function it defines.
EvictStep(es, bytes, f, m) ==
  IF m = 0 THEN [entries |-> es, used |-> bytes] ELSE EvictOldest(f[m - 1])

\* The recursion defines a function, up to any number of evictions.
LEMMA EvictExists ==
  ASSUME NEW es, NEW bytes, NEW k \in Nat
  PROVE  \E f : f = [m \in 0..k |-> EvictStep(es, bytes, f, m)]
<1> DEFINE Solved == {n \in Nat : \E f : f = [m \in 0..n |-> EvictStep(es, bytes, f, m)]}
           c == [entries |-> es, used |-> bytes]
<1>1. 0 \in Solved
  <2>1. [m \in 0..0 |-> c] = [m \in 0..0 |-> EvictStep(es, bytes, [i \in 0..0 |-> c], m)]
    BY DEF EvictStep
  <2>2. QED
    BY <2>1
<1>2. ASSUME NEW n \in Solved
      PROVE  n + 1 \in Solved
  <2>1. n \in Nat
    OBVIOUS
  <2>2. PICK f : f = [m \in 0..n |-> EvictStep(es, bytes, f, m)]
    OBVIOUS
  <2> DEFINE g == [m \in 0..(n + 1) |-> EvictStep(es, bytes, f, m)]
  <2>3. \A m \in 0..n : g[m] = f[m]
    BY <2>1, <2>2
  <2>4. g = [m \in 0..(n + 1) |-> EvictStep(es, bytes, f, m)]
    OBVIOUS
  <2> HIDE DEF g
  <2>5. ASSUME NEW m \in 0..(n + 1)
        PROVE  EvictStep(es, bytes, f, m) = EvictStep(es, bytes, g, m)
    <3>1. CASE m = 0
      BY <3>1 DEF EvictStep
    <3>2. CASE m # 0
      <4>1. m - 1 \in 0..n
        BY <2>1, <3>2
      <4>2. f[m - 1] = g[m - 1]
        BY <2>3, <4>1
      <4>3. QED
        BY <3>2, <4>2 DEF EvictStep
    <3>3. QED
      BY <3>1, <3>2
  <2>6. g = [m \in 0..(n + 1) |-> EvictStep(es, bytes, g, m)]
    BY <2>4, <2>5
  <2>7. QED
    BY <2>1, <2>6
<1> HIDE DEF Solved
<1>3. Nat \subseteq Solved
  BY <1>1, <1>2, NatSetInduction
<1>4. QED
  BY <1>3 DEF Solved

\* What is left after as many looks as there are entries.
LEMMA EvictSolved ==
  ASSUME NEW es, NEW bytes, NEW k \in Nat, Cardinality(DOMAIN es) = k
  PROVE  \E f : /\ f = [m \in 0..k |-> EvictStep(es, bytes, f, m)]
                /\ Evicted(es, bytes) = f[k]
<1> DEFINE f == CHOOSE g : g = [m \in 0..k |-> EvictStep(es, bytes, g, m)]
<1>1. f = [m \in 0..k |-> EvictStep(es, bytes, f, m)]
  BY EvictExists
<1>2. Evicted(es, bytes) = f[k]
  BY DEF Evicted, EvictStep
<1> HIDE DEF f
<1>3. QED
  BY <1>1, <1>2

\* The rest of a rest starts one entry later.
LEMMA RestOfRest ==
  ASSUME NEW S, NEW t \in Seq(S), NEW j \in Nat, j < Len(t), NEW r,
         r = SubSeq(t, j + 1, Len(t))
  PROVE  SubSeq(r, 2, Len(r)) = SubSeq(t, j + 2, Len(t))
<1>1. Len(t) \in Nat
  OBVIOUS
<1>2. r \in Seq(S) /\ Len(r) = Len(t) - j /\ \A i \in 1..(Len(t) - j) : r[i] = t[i + j]
  <2>1. j \in 0..Len(t)
    BY <1>1
  <2>2. QED
    BY <2>1, RestFacts
<1> DEFINE u == SubSeq(r, 2, Len(r))
           v == SubSeq(t, j + 2, Len(t))
           n == Len(t) - j - 1
<1>3. n \in Nat
  BY <1>1
<1>4. u \in Seq(S) /\ Len(u) = n /\ \A i \in 1..n : u[i] = r[i + 1]
  <2>1. PICK one \in 0..Len(r) : one = 1
    BY <1>1, <1>2
  <2>2. /\ SubSeq(r, one + 1, Len(r)) \in Seq(S)
        /\ Len(SubSeq(r, one + 1, Len(r))) = Len(r) - one
        /\ \A i \in 1..(Len(r) - one) : SubSeq(r, one + 1, Len(r))[i] = r[i + one]
    BY <1>2, RestFacts
  <2>3. one + 1 = 2 /\ Len(r) - one = n
    BY <1>1, <1>2, <2>1
  <2>4. QED
    BY <2>1, <2>2, <2>3
<1>5. v \in Seq(S) /\ Len(v) = n /\ \A i \in 1..n : v[i] = t[i + (j + 1)]
  <2>1. PICK k \in 0..Len(t) : k = j + 1
    BY <1>1
  <2>2. /\ SubSeq(t, k + 1, Len(t)) \in Seq(S)
        /\ Len(SubSeq(t, k + 1, Len(t))) = Len(t) - k
        /\ \A i \in 1..(Len(t) - k) : SubSeq(t, k + 1, Len(t))[i] = t[i + k]
    BY RestFacts
  <2>3. k + 1 = j + 2 /\ Len(t) - k = n
    BY <1>1, <2>1
  <2>4. QED
    BY <2>1, <2>2, <2>3
<1> HIDE DEF u, v
<1>6. \A i \in 1..n : u[i] = v[i]
  <2>1. SUFFICES ASSUME NEW i \in 1..n
                 PROVE  u[i] = v[i]
    OBVIOUS
  <2>2. i + 1 \in 1..(Len(t) - j) /\ (i + 1) + j = i + (j + 1)
    BY <1>1, <1>3
  <2>3. QED
    BY <1>2, <1>4, <1>5, <2>2
<1> HIDE DEF n
<1>7. u = [i \in 1..n |-> u[i]] /\ v = [i \in 1..n |-> v[i]]
  BY <1>4, <1>5
<1>8. u = v
  BY <1>6, <1>7
<1>9. QED
  BY <1>8 DEF u, v

\* The entries that are left when n are gone.
RestFrom(t, n) == SubSeq(t, n + 1, Len(t))
Left(t, n, g, cache) == /\ Stored(RestFrom(t, n), cache.entries, g)
                        /\ cache.used = Bytes(RestFrom(t, n))

\* One look at the budget: the oldest goes, or the cache fits.
LEMMA EvictOldestFacts ==
  ASSUME NEW t \in Seq(FrameEntry), NEW m, FitsFrom(t, m, ByteBudget), NEW g,
         NEW j \in 0..m, NEW cache, Left(t, j, g, cache)
  PROVE  \E k \in 0..m : (k = j + 1 \/ k = m) /\ Left(t, k, g, EvictOldest(cache))
<1> DEFINE r == RestFrom(t, j)
<1>1. /\ Len(t) \in Nat /\ m \in Nat /\ m <= Len(t) /\ j \in Nat /\ j <= m
      /\ j \in 0..Len(t) /\ ByteBudget \in Nat
  BY FrameCacheConstants DEF FitsFrom
<1>2. r \in Seq(FrameEntry) /\ Len(r) = Len(t) - j
  BY <1>1, RestFacts DEF RestFrom
<1>3. Stored(r, cache.entries, g) /\ cache.used = Bytes(r) /\ Bytes(r) \in Nat
  <2>1. Bytes(r) \in Nat
    BY <1>2, FrameEntries, BytesNat
  <2>2. QED
    BY <2>1 DEF Left
<1>4. CASE j = m
  <2>1. cache.used <= ByteBudget
    BY <1>3, <1>4 DEF FitsFrom, RestFrom
  <2>2. ~ (cache.used > ByteBudget)
    BY <1>1, <1>3, <2>1
  <2>3. EvictOldest(cache) = cache
    BY <2>2 DEF EvictOldest
  <2>4. QED
    BY <1>4, <2>3
<1>5. CASE j # m
  <2>1. j < Len(t) /\ j + 1 \in 0..m /\ Len(r) > 0 /\ j \in 0..(m - 1)
    BY <1>1, <1>2, <1>5
  <2>2. cache.used > ByteBudget
    BY <1>3, <2>1 DEF FitsFrom, RestFrom
  <2> DEFINE u == SubSeq(r, 2, Len(r))
  <2>3. u = RestFrom(t, j + 1)
    <3>1. u = SubSeq(t, j + 2, Len(t))
      BY <1>1, <2>1, RestOfRest DEF RestFrom
    <3>2. (j + 1) + 1 = j + 2
      BY <1>1
    <3>3. QED
      BY <3>1, <3>2 DEF RestFrom
  <2>4. Bytes(r) = Bytes(u) + r[1].value.size
    BY <1>2, <2>1, FrameEntries, BytesOfRest
  <2>5. u \in Seq(FrameEntry) /\ r[1] \in FrameEntry
    BY <1>2, <2>1
  <2>6. Bytes(u) \in Nat /\ r[1].value.size \in Nat
    BY <2>5, FrameEntries, BytesNat
  <2> HIDE DEF r
  <2>7. /\ Stored(u, Drop(cache.entries, Oldest(cache.entries)), g)
        /\ cache.entries[Oldest(cache.entries)].value = r[1].value
    BY <1>3, <2>1, OldestGoes
  <2> HIDE DEF u
  <2>8. EvictOldest(cache) =
          [entries |-> Drop(cache.entries, Oldest(cache.entries)),
           used |-> cache.used - cache.entries[Oldest(cache.entries)].value.size]
    BY <2>2 DEF EvictOldest
  <2>9. cache.used - cache.entries[Oldest(cache.entries)].value.size = Bytes(u)
    BY <1>3, <2>4, <2>6, <2>7
  <2>10. /\ Stored(u, EvictOldest(cache).entries, g)
         /\ EvictOldest(cache).used = Bytes(u)
    BY <2>7, <2>8, <2>9
  <2>11. QED
    BY <2>1, <2>3, <2>10 DEF Left
<1>6. QED
  BY <1>4, <1>5

\* What evict_to_budget leaves are the newest entries that fit.
LEMMA EvictedFacts ==
  ASSUME NEW t, NEW es, NEW g, Stored(t, es, g), NEW m, FitsFrom(t, m, ByteBudget)
  PROVE  Left(t, m, g, Evicted(es, Bytes(t)))
<1>1. t \in Seq(FrameEntry) /\ Len(t) \in Nat
  BY DEF Stored, Models
<1>2. Cardinality(DOMAIN es) = Len(t)
  BY RankIsPlace DEF Stored
<1>3. PICK f : /\ f = [n \in 0..Len(t) |-> EvictStep(es, Bytes(t), f, n)]
               /\ Evicted(es, Bytes(t)) = f[Len(t)]
  <2>1. PICK k, b : k \in Nat /\ k = Len(t) /\ b = Bytes(t)
    BY <1>1
  <2>2. \E f : /\ f = [n \in 0..k |-> EvictStep(es, b, f, n)]
               /\ Evicted(es, b) = f[k]
    BY <1>2, <2>1, EvictSolved
  <2>3. QED
    BY <2>1, <2>2
<1>4. m \in Nat /\ m <= Len(t)
  BY <1>1 DEF FitsFrom
<1> DEFINE Done == {n \in Nat : n <= Len(t) =>
                       \E j \in 0..m : (j = n \/ j = m) /\ Left(t, j, g, f[n])}
<1>5. 0 \in Done
  <2>1. 0 \in 0..Len(t) /\ 0 \in 0..m
    BY <1>1, <1>4
  <2>2. f[0] = EvictStep(es, Bytes(t), f, 0)
    BY <1>3, <2>1
  <2>3. f[0].entries = es /\ f[0].used = Bytes(t)
    BY <2>2 DEF EvictStep
  <2>4. RestFrom(t, 0) = t
    BY <1>1, <2>1, RestFacts DEF RestFrom
  <2>5. Left(t, 0, g, f[0])
    BY <2>3, <2>4 DEF Left
  <2>6. QED
    BY <2>1, <2>5
<1>6. ASSUME NEW n \in Done
      PROVE  n + 1 \in Done
  <2>1. SUFFICES ASSUME n + 1 <= Len(t)
                 PROVE  \E j \in 0..m : (j = n + 1 \/ j = m) /\ Left(t, j, g, f[n + 1])
    OBVIOUS
  <2>2. n \in Nat /\ n + 1 \in 0..Len(t) /\ (n + 1) - 1 = n /\ n + 1 # 0
    BY <1>1, <2>1
  <2>3. PICK j \in 0..m : (j = n \/ j = m) /\ Left(t, j, g, f[n])
    BY <1>1, <2>1, <2>2
  <2>4. f[n + 1] = EvictStep(es, Bytes(t), f, n + 1)
    BY <1>3, <2>2
  <2>5. f[n + 1] = EvictOldest(f[n])
    BY <2>2, <2>4 DEF EvictStep
  <2>6. PICK k \in 0..m : (k = j + 1 \/ k = m) /\ Left(t, k, g, EvictOldest(f[n]))
    BY <1>1, <2>3, EvictOldestFacts
  <2>7. CASE j = n
    BY <2>5, <2>6, <2>7
  <2>8. CASE j = m
    <3>1. k = m
      BY <1>4, <2>6, <2>8
    <3>2. QED
      BY <2>5, <2>6, <3>1
  <2>9. QED
    BY <2>3, <2>7, <2>8
<1> HIDE DEF Done
<1>7. Len(t) \in Done
  BY <1>1, <1>5, <1>6, NatSetInduction
<1>8. PICK j \in 0..m : (j = Len(t) \/ j = m) /\ Left(t, j, g, f[Len(t)])
  BY <1>1, <1>7 DEF Done
<1>9. j = m
  BY <1>1, <1>4, <1>8
<1>10. QED
  BY <1>3, <1>8, <1>9

\* The map and its counters stand for a cache that fits.
FramesTrue(q) == /\ Stored(q, entries, next)
                 /\ used = Bytes(q) /\ used <= ByteBudget

FramesInv == next \in 0..MaxAccess /\ \E q : FramesTrue(q)

\* The answer of a look-up is what the sequence says.
LEMMA LookedUp ==
  ASSUME NEW q, Stored(q, entries, next), NEW key
  PROVE  /\ ByAge(entries) = q
         /\ Holds(key) <=> key \in Keys(q)
         /\ Held(key) = LruView!LookFor(key)
         /\ \A i \in 1..Len(q) : q[i].key = key =>
              /\ Held(key) = q[i].value /\ Find(q, key) = q[i].value
              /\ Freed(key) = q[i].value.size
<1>1. ByAge(entries) = q /\ DOMAIN entries = Keys(q) /\ q \in Seq(FrameEntry) /\ Distinct(q)
  BY ModelsByAge, ModelsApart DEF Stored, Models
<1>2. Holds(key) <=> key \in Keys(q)
  BY <1>1 DEF Holds
<1>3. ASSUME NEW i \in 1..Len(q), q[i].key = key
      PROVE  /\ Held(key) = q[i].value /\ Find(q, key) = q[i].value
             /\ Freed(key) = q[i].value.size /\ Holds(key)
  <2>1. entries[key].value = q[i].value
    BY <1>3 DEF Stored, Models
  <2>2. key \in Keys(q)
    <3>1. DOMAIN q = 1..Len(q)
      BY <1>1
    <3>2. QED
      BY <1>3, <3>1 DEF Keys
  <2>3. PICK j \in 1..Len(q) : q[j].key = key /\ Find(q, key) = q[j].value
    BY <1>1, <2>2, FindFacts
  <2>4. j = i
    BY <1>1, <1>3, <2>3 DEF Distinct
  <2>5. QED
    BY <1>2, <2>1, <2>2, <2>3, <2>4 DEF Held, Freed
<1>4. Held(key) = LruView!LookFor(key)
  <2>1. LruView!LookFor(key) = IF key \in Keys(q) THEN Find(q, key) ELSE Nothing
    BY <1>1, SameOperations DEF LruView!LookFor
  <2>2. CASE key \in Keys(q)
    <3>1. PICK i \in 1..Len(q) : q[i].key = key
      <4>1. DOMAIN q = 1..Len(q)
        BY <1>1
      <4>2. QED
        BY <2>2, <4>1 DEF Keys
    <3>2. QED
      BY <1>3, <2>1, <2>2, <3>1
  <2>3. CASE key \notin Keys(q)
    BY <1>2, <2>1, <2>3 DEF Held
  <2>4. QED
    BY <2>2, <2>3
<1>5. QED
  BY <1>1, <1>2, <1>3, <1>4

\* A hit moves its entry to the end and changes no bytes.
LEMMA GetKeeps ==
  ASSUME next \in 0..MaxAccess, NEW q, FramesTrue(q), NEW key \in Key, GetFrame(key)
  PROVE  /\ next' \in 0..MaxAccess
         /\ Stored(Touch(q, key), entries', next')
         /\ used' = Bytes(Touch(q, key)) /\ used' <= ByteBudget
         /\ answer' = LruView!LookFor(key)
<1> DEFINE g == Generation(entries)
           es == Renumbered(entries)
<1>1. Stored(q, entries, next) /\ used = Bytes(q) /\ used <= ByteBudget
  BY DEF FramesTrue
<1>2. q \in Seq(FrameEntry) /\ Distinct(q) /\ DOMAIN entries = Keys(q)
  BY <1>1, ModelsApart DEF Stored, Models
<1>3. /\ Holds(key) <=> key \in Keys(q)
      /\ Held(key) = LruView!LookFor(key)
      /\ \A i \in 1..Len(q) : q[i].key = key => Find(q, key) = q[i].value
  BY <1>1, LookedUp
<1>4. /\ g \in 1..MaxAccess /\ DOMAIN es = DOMAIN entries /\ Stored(q, es, g)
      /\ \A i \in 1..Len(q) : es[q[i].key].last < g
  BY <1>1, GenerationFacts
<1>5. /\ next' = g /\ answer' = Held(key) /\ used' = used
      /\ entries' = IF Holds(key) THEN [es EXCEPT ![key].last = g] ELSE es
  BY DEF GetFrame, Stamp
<1> HIDE DEF g, es
<1>6. g \in Nat \ {0} /\ next' \in 0..MaxAccess
  <2>1. MaxAccess \in Nat
    BY FrameCacheConstants
  <2>2. QED
    BY <1>4, <1>5, <2>1
<1>7. CASE ~ Holds(key)
  <2>1. Touch(q, key) = q
    BY <1>3, <1>7 DEF Touch
  <2>2. QED
    BY <1>1, <1>3, <1>4, <1>5, <1>6, <1>7, <2>1
<1>8. CASE Holds(key)
  <2> DEFINE w == Without(q, key)
             d == Drop(es, key)
  <2>1. PICK i \in 1..Len(q) : q[i].key = key
    <3>1. DOMAIN q = 1..Len(q)
      BY <1>2
    <3>2. QED
      BY <1>3, <1>8, <3>1 DEF Keys
  <2>2. q[i] \in FrameEntry /\ q[i].value \in Value /\ Find(q, key) = q[i].value
    BY <1>2, <1>3, <2>1, FrameEntries
  <2>3. Touch(q, key) = Append(w, Entry(key, q[i].value))
    BY <1>3, <1>8, <2>2 DEF Touch
  <2>4. /\ Stored(w, d, g) /\ DOMAIN d = DOMAIN es \ {key}
        /\ d = [x \in DOMAIN es \ {key} |-> es[x]]
    BY <1>4, DropKeeps DEF Drop, Restrict
  <2>5. w \in Seq(FrameEntry) /\ \A j \in 1..Len(w) : /\ w[j].key # key
                                                     /\ \E a \in 1..Len(q) : q[a] = w[j]
    BY <1>2, WithoutFacts
  <2>6. \A j \in 1..Len(w) : d[w[j].key].last < g
    <3>1. SUFFICES ASSUME NEW j \in 1..Len(w)
                   PROVE  d[w[j].key].last < g
      OBVIOUS
    <3>2. PICK a \in 1..Len(q) : q[a] = w[j]
      BY <2>5
    <3>3. w[j].key \in DOMAIN d
      BY <2>4, ModelsApart DEF Stored
    <3>4. d[w[j].key] = es[q[a].key]
      BY <2>4, <3>2, <3>3
    <3>5. QED
      BY <1>4, <3>4
  <2> HIDE DEF w, d
  <2>7. es[key] \in [value : Value, last : Nat] /\ es[key].value = q[i].value
    BY <1>4, <2>1 DEF Stored, Models
  <2> DEFINE fs == [es EXCEPT ![key].last = g]
  <2>8. key \in DOMAIN es /\ es = [x \in DOMAIN es |-> es[x]]
    BY <1>4, <1>8 DEF Holds, Stored
  <2>9. /\ DOMAIN fs = DOMAIN es /\ fs = [x \in DOMAIN es |-> fs[x]]
        /\ fs[key] = [es[key] EXCEPT !.last = g]
        /\ \A x \in DOMAIN es \ {key} : fs[x] = es[x]
    BY <2>8
  <2> HIDE DEF fs
  <2>10. fs[key] = [value |-> q[i].value, last |-> g]
    BY <2>7, <2>9
  <2>11. fs = [x \in DOMAIN d \cup {key} |-> fs[x]]
    <3>1. DOMAIN d \cup {key} = DOMAIN es
      BY <2>4, <2>8
    <3>2. QED
      BY <2>9, <3>1
  <2>12. \A x \in DOMAIN d : fs[x] = d[x]
    BY <2>4, <2>9
  <2>13. key \in Key \ DOMAIN d
    BY <2>4
  <2>14. Stored(Append(w, Entry(key, q[i].value)), fs, g)
    <3>1. g <= g
      BY <1>6
    <3>2. QED
      BY <1>6, <2>2, <2>4, <2>6, <2>10, <2>11, <2>12, <2>13, <3>1, AddKeeps, ZenonT(60)
  <2>15. Bytes(q) = Bytes(w) + q[i].value.size
    BY <1>2, <2>1, FrameEntries, BytesWithout DEF w
  <2>16. Bytes(Append(w, Entry(key, q[i].value))) = Bytes(w) + q[i].value.size
    <3>1. Entry(key, q[i].value) \in FrameEntry /\ Entry(key, q[i].value).value = q[i].value
      BY <2>2, FrameEntries DEF Entry
    <3>2. QED
      BY <2>5, <3>1, BytesOfAppend
  <2>17. entries' = fs
    BY <1>5, <1>8 DEF fs
  <2>18. QED
    BY <1>1, <1>3, <1>5, <1>6, <2>3, <2>14, <2>15, <2>16, <2>17
<1>9. QED
  BY <1>7, <1>8

\* Without an entry, the bytes are those of the others.
LEMMA BytesFreed ==
  ASSUME NEW q, FramesTrue(q), NEW key
  PROVE  /\ used - Freed(key) = Bytes(Without(q, key))
         /\ Bytes(Without(q, key)) \in Nat /\ Bytes(Without(q, key)) <= ByteBudget
<1>1. Stored(q, entries, next) /\ used = Bytes(q) /\ used <= ByteBudget
  BY DEF FramesTrue
<1>2. q \in Seq(FrameEntry) /\ Distinct(q)
  BY <1>1, ModelsApart DEF Stored, Models
<1>3. /\ Holds(key) <=> key \in Keys(q)
      /\ \A i \in 1..Len(q) : q[i].key = key => Freed(key) = q[i].value.size
  BY <1>1, LookedUp
<1>4. Without(q, key) \in Seq(FrameEntry)
  BY <1>2, WithoutFacts
<1>5. Bytes(q) \in Nat /\ Bytes(Without(q, key)) \in Nat /\ ByteBudget \in Nat
  BY <1>2, <1>4, FrameEntries, BytesNat, FrameCacheConstants
<1>6. CASE Holds(key)
  <2>1. PICK i \in 1..Len(q) : q[i].key = key
    <3>1. DOMAIN q = 1..Len(q)
      BY <1>2
    <3>2. QED
      BY <1>3, <1>6, <3>1 DEF Keys
  <2>2. Bytes(q) = Bytes(Without(q, key)) + q[i].value.size
    BY <1>2, <2>1, FrameEntries, BytesWithout
  <2>3. q[i].value.size \in Nat /\ Freed(key) = q[i].value.size
    BY <1>2, <1>3, <2>1, FrameEntries
  <2>4. QED
    BY <1>1, <1>5, <2>2, <2>3
<1>7. CASE ~ Holds(key)
  <2>1. Without(q, key) = q
    BY <1>2, <1>3, <1>7, FrameEntries, BytesWithout
  <2>2. Freed(key) = 0
    BY <1>7 DEF Freed
  <2>3. QED
    BY <1>1, <1>5, <2>1, <2>2
<1>8. QED
  BY <1>6, <1>7

\* A removed entry takes its bytes with it.
LEMMA RemoveKeeps ==
  ASSUME next \in 0..MaxAccess, NEW q, FramesTrue(q), NEW key \in Key, RemoveFrame(key)
  PROVE  /\ next' \in 0..MaxAccess
         /\ Stored(Without(q, key), entries', next')
         /\ used' = Bytes(Without(q, key)) /\ used' <= ByteBudget
         /\ answer' = LruView!LookFor(key)
<1>1. Stored(q, entries, next)
  BY DEF FramesTrue
<1>2. /\ entries' = Drop(entries, key) /\ used' = used - Freed(key)
      /\ answer' = Held(key) /\ next' = next
  BY DEF RemoveFrame
<1>3. Held(key) = LruView!LookFor(key)
  BY <1>1, LookedUp
<1>4. Stored(Without(q, key), Drop(entries, key), next)
  BY <1>1, DropKeeps
<1>5. used' = Bytes(Without(q, key)) /\ used' <= ByteBudget
  BY <1>2, BytesFreed
<1>6. QED
  BY <1>2, <1>3, <1>4, <1>5

\* What the abstract cache keeps of a sequence that may be too long.
LEMMA NewestIsRest ==
  ASSUME NEW t \in Seq(FrameEntry)
  PROVE  \E m : FitsFrom(t, m, ByteBudget) /\ LruView!Newest(t) = RestFrom(t, m)
<1> DEFINE F(n) == /\ n \in 0..Len(t)
                   /\ Bytes(SubSeq(t, n + 1, Len(t))) <= ByteBudget
                   /\ \A m \in 0..(n - 1) : Bytes(SubSeq(t, m + 1, Len(t))) > ByteBudget
           c == CHOOSE n \in 0..Len(t) : F(n)
<1>1. \E n : FitsFrom(t, n, ByteBudget)
  BY FitExists, FrameEntries, FrameCacheConstants
<1>2. \E n \in 0..Len(t) : F(n)
  BY <1>1 DEF FitsFrom
<1>3. c \in 0..Len(t) /\ F(c)
  BY <1>2
<1>4. LruView!Newest(t) = SubSeq(t, c + 1, Len(t))
  BY SameOperations DEF LruView!Newest
<1>5. QED
  BY <1>3, <1>4 DEF FitsFrom, RestFrom

\* An inserted frame is the newest, and the oldest go until all fit.
LEMMA InsertKeeps ==
  ASSUME next \in 0..MaxAccess, NEW q, FramesTrue(q), NEW key \in Key, NEW value \in Value,
         InsertFrame(key, value)
  PROVE  /\ next' \in 0..MaxAccess
         /\ Stored(LruView!Put(q, key, value), entries', next')
         /\ used' = Bytes(LruView!Put(q, key, value)) /\ used' <= ByteBudget
         /\ answer' = Nothing
<1> DEFINE others == Drop(entries, key)
           g == Generation(others)
           es == Renumbered(others)
           entry == [value |-> value, last |-> g]
           fs == [k \in DOMAIN others \cup {key} |-> IF k = key THEN entry ELSE es[k]]
           bytes == used - Freed(key) + value.size
           w == Without(q, key)
           e == Entry(key, value)
           t == Append(w, e)
<1>1. /\ value.size <= ByteBudget /\ next' = g /\ answer' = Nothing
      /\ entries' = Evicted(fs, bytes).entries /\ used' = Evicted(fs, bytes).used
  BY DEF InsertFrame
<1>2. Stored(q, entries, next) /\ q \in Seq(FrameEntry)
  BY DEF FramesTrue, Stored, Models
<1>3. Stored(w, others, next) /\ DOMAIN others = DOMAIN entries \ {key}
  BY <1>2, DropKeeps
<1>4. w \in Seq(FrameEntry)
  BY <1>3 DEF Stored, Models
<1>5. e \in FrameEntry /\ e.value = value /\ value.size \in Nat
  BY FrameEntries, FrameCacheConstants DEF Entry
<1>6. used - Freed(key) = Bytes(w) /\ Bytes(w) \in Nat
  BY BytesFreed
<1> HIDE DEF others, w
<1>7. /\ g \in 1..MaxAccess /\ DOMAIN es = DOMAIN others /\ Stored(w, es, g)
      /\ \A i \in 1..Len(w) : es[w[i].key].last < g
  BY <1>3, GenerationFacts
<1> HIDE DEF g, es
<1>8. g \in Nat \ {0} /\ g <= g /\ next' \in 0..MaxAccess
  <2>1. MaxAccess \in Nat
    BY FrameCacheConstants
  <2>2. QED
    BY <1>1, <1>7, <2>1
<1>9. /\ DOMAIN fs = DOMAIN es \cup {key} /\ fs = [k \in DOMAIN es \cup {key} |-> fs[k]]
      /\ fs[key] = [value |-> value, last |-> g]
      /\ \A k \in DOMAIN es : fs[k] = es[k]
  BY <1>3, <1>7
<1>10. key \in Key \ DOMAIN es
  BY <1>3, <1>7
<1> HIDE DEF fs
<1>11. Stored(t, fs, g)
  BY <1>7, <1>8, <1>9, <1>10, AddKeeps
<1>12. t \in Seq(FrameEntry)
  BY <1>4, <1>5
<1>13. bytes = Bytes(t)
  <2>1. Bytes(t) = Bytes(w) + value.size
    BY <1>4, <1>5, BytesOfAppend
  <2>2. QED
    BY <1>6, <2>1
<1> HIDE DEF bytes
<1>14. PICK m : FitsFrom(t, m, ByteBudget) /\ LruView!Newest(t) = RestFrom(t, m)
  BY <1>12, NewestIsRest
<1>15. LruView!Put(q, key, value) = RestFrom(t, m)
  BY <1>1, <1>14, SameOperations DEF LruView!Put, LruView!Fits, w
<1> HIDE DEF t
<1>16. Left(t, m, g, Evicted(fs, Bytes(t)))
  BY <1>11, <1>14, EvictedFacts
<1>17. Bytes(RestFrom(t, m)) <= ByteBudget
  BY <1>14 DEF FitsFrom, RestFrom
<1>18. QED
  BY <1>1, <1>8, <1>13, <1>15, <1>16, <1>17 DEF Left

\* An empty cache stands for the empty sequence.
LEMMA NothingStored ==
  ASSUME NEW n, NEW es, es = [key \in {} |-> Nothing]
  PROVE  Stored(<<>>, es, n) /\ Bytes(<<>>) = 0 /\ 0 <= ByteBudget
<1>1. <<>> \in Seq(FrameEntry) /\ Len(<<>>) = 0 /\ DOMAIN <<>> = {}
  OBVIOUS
<1>2. Keys(<<>>) = {}
  BY <1>1 DEF Keys
<1>3. DOMAIN es = {} /\ es = [key \in DOMAIN es |-> es[key]]
  OBVIOUS
<1>4. \A i \in 1..Len(<<>>) : FALSE
  BY <1>1
<1>5. Models(<<>>, es)
  BY <1>1, <1>2, <1>3, <1>4 DEF Models
<1>6. QED
  BY <1>3, <1>4, <1>5, BytesOfNothing, FrameCacheConstants DEF Stored

\* The cache begins empty, like the abstract one.
LEMMA InitFrames == FrameCacheInit => FramesInv /\ LruView!LruInit
<1> SUFFICES ASSUME FrameCacheInit
             PROVE  FramesInv /\ LruView!LruInit
  OBVIOUS
<1>1. Stored(<<>>, entries, next) /\ used = Bytes(<<>>) /\ used <= ByteBudget
  BY NothingStored DEF FrameCacheInit
<1>2. FramesTrue(<<>>) /\ next \in 0..MaxAccess
  BY <1>1, FrameCacheConstants DEF FramesTrue, FrameCacheInit
<1>3. ByAge(entries) = <<>>
  BY <1>1, ModelsByAge DEF Stored
<1>4. QED
  BY <1>2, <1>3 DEF FramesInv, LruView!LruInit, FrameCacheInit

\* A step of the cache is a step of the abstract one, or none.
LEMMA FrameStep ==
  FramesInv /\ [CacheNext]_cacheVars =>
    FramesInv' /\ [LruView!LruNext]_(LruView!lruVars)
<1> SUFFICES ASSUME FramesInv, [CacheNext]_cacheVars
             PROVE  FramesInv' /\ [LruView!LruNext]_(LruView!lruVars)
  OBVIOUS
<1>1. next \in 0..MaxAccess
  BY DEF FramesInv
<1>2. PICK q : FramesTrue(q)
  BY DEF FramesInv
<1>3. Stored(q, entries, next) /\ used = Bytes(q) /\ used <= ByteBudget
  BY <1>2 DEF FramesTrue
<1>4. ByAge(entries) = q
  BY <1>3, ModelsByAge DEF Stored
<1>5. ASSUME NEW p, next' \in 0..MaxAccess, Stored(p, entries', next'),
             used' = Bytes(p), used' <= ByteBudget
      PROVE  FramesInv' /\ ByAge(entries)' = p
  <2>1. ByAge(entries') = p
    BY <1>5, ModelsByAge DEF Stored
  <2>2. FramesTrue(p)'
    BY <1>5 DEF FramesTrue
  <2>3. QED
    BY <1>5, <2>1, <2>2 DEF FramesInv
<1>6. ASSUME NEW key \in Key, GetFrame(key)
      PROVE  FramesInv' /\ LruView!LruGet(key)
  <2>1. /\ next' \in 0..MaxAccess /\ Stored(Touch(q, key), entries', next')
        /\ used' = Bytes(Touch(q, key)) /\ used' <= ByteBudget
        /\ answer' = LruView!LookFor(key)
    BY <1>1, <1>2, <1>6, GetKeeps
  <2>2. FramesInv' /\ ByAge(entries)' = Touch(q, key)
    BY <1>5, <2>1
  <2>3. LruView!Touch(q, key) = Touch(q, key)
    BY SameOperations DEF LruView!Touch, Touch
  <2>4. QED
    BY <1>4, <2>1, <2>2, <2>3 DEF LruView!LruGet
<1>7. ASSUME NEW key \in Key, RemoveFrame(key)
      PROVE  FramesInv' /\ LruView!LruRemove(key)
  <2>1. /\ next' \in 0..MaxAccess /\ Stored(Without(q, key), entries', next')
        /\ used' = Bytes(Without(q, key)) /\ used' <= ByteBudget
        /\ answer' = LruView!LookFor(key)
    BY <1>1, <1>2, <1>7, RemoveKeeps
  <2>2. FramesInv' /\ ByAge(entries)' = Without(q, key)
    BY <1>5, <2>1
  <2>3. QED
    BY <1>4, <2>1, <2>2, SameOperations DEF LruView!LruRemove
<1>8. ASSUME NEW key \in Key, NEW value \in Value, InsertFrame(key, value)
      PROVE  FramesInv' /\ LruView!LruInsert(key, value)
  <2>1. /\ next' \in 0..MaxAccess
        /\ Stored(LruView!Put(q, key, value), entries', next')
        /\ used' = Bytes(LruView!Put(q, key, value)) /\ used' <= ByteBudget
        /\ answer' = Nothing
    BY <1>1, <1>2, <1>8, InsertKeeps
  <2>2. FramesInv' /\ ByAge(entries)' = LruView!Put(q, key, value)
    BY <1>5, <2>1
  <2>3. QED
    BY <1>4, <2>1, <2>2 DEF LruView!LruInsert
<1>9. ASSUME entries' = [key \in {} |-> Nothing], used' = 0, answer' = Nothing, next' = next
      PROVE  FramesInv' /\ LruView!LruClear
  <2>1. Stored(<<>>, entries', next') /\ Bytes(<<>>) = 0 /\ 0 <= ByteBudget
    BY <1>9, NothingStored
  <2>2. FramesInv' /\ ByAge(entries)' = <<>>
    BY <1>1, <1>5, <1>9, <2>1
  <2>3. QED
    BY <1>9, <2>2 DEF LruView!LruClear
<1>10. ASSUME UNCHANGED <<entries, used, next>>
       PROVE  FramesInv' /\ ByAge(entries)' = q
  BY <1>1, <1>3, <1>5, <1>10
<1>11. ASSUME NEW value \in Value, RefuseFrame(value)
       PROVE  FramesInv' /\ LruView!LruNext
  <2>1. FramesInv' /\ ByAge(entries)' = q /\ answer' = Nothing /\ UNCHANGED <<entries, used, next>>
    BY <1>10, <1>11 DEF RefuseFrame
  <2>2. CASE Key = {}
    <3>1. q \in Seq(FrameEntry) /\ FrameEntry = {}
      BY <1>3, <2>2 DEF Stored, Models, FrameEntry
    <3>2. q = <<>>
      BY <3>1
    <3>3. LruView!LruClear
      BY <2>1, <3>2 DEF LruView!LruClear
    <3>4. QED
      BY <2>1, <3>3 DEF LruView!LruNext
  <2>3. CASE Key # {}
    <3>1. PICK key \in Key : TRUE
      BY <2>3
    <3>2. value.size \in Nat /\ ByteBudget \in Nat /\ value.size > ByteBudget
      BY <1>11, FrameCacheConstants DEF RefuseFrame
    <3>3. LruView!Put(q, key, value) = q
      BY <3>2 DEF LruView!Put, LruView!Fits
    <3>4. LruView!LruInsert(key, value)
      BY <1>4, <2>1, <3>3 DEF LruView!LruInsert
    <3>5. QED
      BY <2>1, <3>4 DEF LruView!LruNext
  <2>4. QED
    BY <2>2, <2>3
<1>12. CASE UNCHANGED cacheVars
  <2>1. UNCHANGED <<entries, used, next>> /\ UNCHANGED answer
    BY <1>12 DEF cacheVars
  <2>2. FramesInv' /\ ByAge(entries)' = q
    BY <1>10, <2>1
  <2>3. QED
    BY <1>4, <2>1, <2>2 DEF LruView!lruVars
<1>13. CASE CacheNext
  <2>1. CASE \E key \in Key : GetFrame(key)
    BY <1>6, <2>1 DEF LruView!LruNext
  <2>2. CASE \E key \in Key : RemoveFrame(key)
    BY <1>7, <2>2 DEF LruView!LruNext
  <2>3. CASE \E key \in Key, value \in Value : InsertFrame(key, value)
    BY <1>8, <2>3 DEF LruView!LruNext
  <2>4. CASE \E value \in Value : RefuseFrame(value)
    BY <1>11, <2>4
  <2>5. CASE ClearFrames
    <3>1. entries' = [key \in {} |-> Nothing] /\ used' = 0 /\ answer' = Nothing /\ next' = next
      BY <2>5 DEF ClearFrames
    <3>2. QED
      BY <1>9, <3>1 DEF LruView!LruNext
  <2>6. QED
    BY <1>13, <2>1, <2>2, <2>3, <2>4, <2>5 DEF CacheNext
<1>14. QED
  BY <1>12, <1>13

\* The map of the frame cache stays in step with its counters: in every state some
\* sequence of its entries is ordered by their last access, and the bytes counted are
\* those of the sequence.
THEOREM FramesInvariant == CacheSpec => []FramesInv
<1>1. FrameCacheInit => FramesInv
  BY InitFrames
<1>2. FramesInv /\ [CacheNext]_cacheVars => FramesInv'
  BY FrameStep
<1>3. QED
  BY <1>1, <1>2, PTL DEF CacheSpec

\* What the invariant says in terms of the cache.
LEMMA FramesTyped == FramesInv => CacheTypeOK
<1> SUFFICES ASSUME FramesInv
             PROVE  CacheTypeOK
  OBVIOUS
<1>1. next \in 0..MaxAccess
  BY DEF FramesInv
<1>2. PICK q : FramesTrue(q)
  BY DEF FramesInv
<1>3. Stored(q, entries, next) /\ used = Bytes(q) /\ used <= ByteBudget
  BY <1>2 DEF FramesTrue
<1>4. used = LruView!Bytes(ByAge(entries))
  <2>1. ByAge(entries) = q
    BY <1>3, ModelsByAge DEF Stored
  <2>2. QED
    BY <1>3, <2>1, SameOperations
<1>5. ASSUME NEW key \in DOMAIN entries
      PROVE  key \in Key /\ entries[key].value \in Value /\ entries[key].last \in 1..next
  <2>1. PICK i \in 1..Len(q) : q[i].key = key /\ q[i] \in FrameEntry
    BY <1>3, ModelsApart DEF Stored
  <2>2. key \in Key
    BY <2>1, FrameEntries
  <2>3. entries[key] \in [value : Value, last : Nat] /\ entries[key].last \in 1..next
    BY <1>3, <2>1 DEF Stored, Models
  <2>4. QED
    BY <2>2, <2>3
<1>6. QED
  BY <1>1, <1>3, <1>4, <1>5 DEF CacheTypeOK

\* The bytes counted by the frame cache are those of its frames and within the budget,
\* and the access counter is ahead of every entry (insert, get, remove).
THEOREM CacheTypeCorrect == CacheSpec => []CacheTypeOK
<1>1. CacheSpec => []FramesInv
  BY FramesInvariant
<1>2. QED
  BY <1>1, FramesTyped, PTL

\* The map with its access counters, its renumbering and its evictions implements the
\* least-recently-used cache of LruCache.
THEOREM CacheImplementsLru == CacheSpec => ImplementsLru
<1>1. FrameCacheInit => FramesInv /\ LruView!LruInit
  BY InitFrames
<1>2. FramesInv /\ [CacheNext]_cacheVars =>
        FramesInv' /\ [LruView!LruNext]_(LruView!lruVars)
  BY FrameStep
<1>3. QED
  BY <1>1, <1>2, PTL DEF CacheSpec, ImplementsLru, LruView!LruSpec

-----------------------------------------------------------------------------
(* The monitor's cache. *)

Maps(A, B) == UNION {[D -> B] : D \in SUBSET A}

CacheKey == [stream : Streams, tick : Target]
Frame    == [size : {1}, tick : Frames, path : {r.path : r \in Request},
             quality : {r.quality : r \in Request}]
CacheEntry == [key : CacheKey, value : Frame]
State    == [at : {"idle"}] \cup
            [at : {"lookup", "scrub", "decode", "hit"}, request : Request, target : Tick,
             got : Frame \cup {None}]

\* An entry is the frame a decode of its tick ends with, made under the present policy.
MadeRight(e) ==
  /\ e.value.tick = FrameFor(e.key.tick)
  /\ e.key.stream[1] = epoch
  /\ e.value.quality = quality
  /\ e.key.stream[2] \in DOMAIN sources
  /\ e.value.path = sources[e.key.stream[2]]

\* The entries have different keys, are within the budget and made right.
Filled(q) ==
  /\ q \in Seq(CacheEntry)
  /\ Distinct(q)
  /\ Len(q) <= Capacity
  /\ \A i \in 1..Len(q) : MadeRight(q[i])

\* Whatever is in the index is in the order.
IndexTrue ==
  /\ index \in Maps(Streams, SUBSET Frames)
  /\ \A s \in DOMAIN index : index[s] # {}
  /\ order \in Seq(Streams \X Frames) /\ Len(order) <= MaxIndex
  /\ \A s \in DOMAIN index : \A t \in index[s] : \E i \in 1..Len(order) : order[i] = <<s, t>>

\* The latest key of a stream is one of its own.
StreamsTrue ==
  /\ latest \in Maps(Streams, [key : CacheKey, anchor : BOOLEAN])
  /\ DOMAIN anchors = DOMAIN latest
  /\ \A s \in DOMAIN latest : latest[s].key.stream = s

SourcesTrue ==
  IsFiniteSet(DOMAIN sources) /\ Cardinality(DOMAIN sources) <= MaxStreams

\* A thread looks at the index for a scrub only.
WorkersTrue ==
  /\ worker \in [Worker -> State]
  /\ \A w \in Worker : worker[w].at = "scrub" => worker[w].request.scrub

\* A hit is the frame of its target, or for a scrub one at most a frame's duration after it.
HitIsNear ==
  \A w \in Worker :
    worker[w].at = "hit" =>
      LET tick == worker[w].got.tick
          t    == worker[w].target
      IN \/ tick = FrameFor(t)
         \/ worker[w].request.scrub /\ tick >= t /\ tick <= t + Tolerance

\* What the policy and the threads have to do with it aside, the cache is in order.
KeptTrue == Filled(recent) /\ IndexTrue /\ StreamsTrue /\ evicted \in BOOLEAN /\ LatestIsKept

MonitorInv == KeptTrue /\ SourcesTrue /\ WorkersTrue /\ HitIsNear

\* An entry is a key with a frame, and a frame counts one.
LEMMA CacheEntryFacts ==
  /\ OfEntries(CacheEntry)
  /\ \A e \in CacheEntry : e.value.size = 1
  /\ \A key \in CacheKey, frame \in Frame : Entry(key, frame) \in CacheEntry
BY DEF CacheEntry, Entry, Frame, OfEntries

\* Every target has a frame, and a frame is its own.
LEMMA TargetFacts ==
  /\ Target \subseteq Tick /\ Frames \subseteq Target /\ Tick \subseteq Nat
  /\ \A t \in Target : FrameFor(t) \in Frames /\ FrameFor(t) >= t
  /\ \A f \in Frames : FrameFor(f) = f
<1>1. MaxTick \in Nat /\ Frames # {} /\ Frames \subseteq 0..MaxTick
  BY MonitorCacheConstants
<1>2. Max(Frames) \in Frames /\ \A f \in Frames : Max(Frames) >= f
  <2> DEFINE T == {MaxTick - f : f \in Frames}
  <2>1. T \subseteq Nat /\ T # {}
    <3>1. ASSUME NEW f \in Frames
          PROVE  MaxTick - f \in Nat
      <4>1. f \in 0..MaxTick
        BY <1>1
      <4>2. QED
        BY <1>1, <4>1
    <3>2. PICK f \in Frames : TRUE
      BY <1>1
    <3>3. QED
      BY <3>1, <3>2
  <2> HIDE DEF T
  <2>2. PICK d \in T : \A e \in T : d <= e
    BY <2>1, LeastElement
  <2>3. PICK x \in Frames : d = MaxTick - x
    BY <2>2 DEF T
  <2>4. ASSUME NEW f \in Frames
        PROVE  x >= f
    <3>1. MaxTick - f \in T
      BY DEF T
    <3>2. MaxTick - x <= MaxTick - f
      BY <2>2, <2>3, <3>1
    <3>3. QED
      BY <1>1, <3>2
  <2>5. QED
    BY <2>4 DEF Max
<1>3. Target \subseteq Tick /\ Frames \subseteq Target /\ Tick \subseteq Nat
  <2>1. PICK m \in Frames : m = Max(Frames) /\ \A f \in Frames : m >= f
    BY <1>2
  <2>2. m \in Nat /\ m <= MaxTick
    BY <1>1, <2>1
  <2>3. Target = 0..m
    BY <2>1 DEF Target
  <2>4. \A f \in Frames : f \in Nat /\ f <= m
    BY <1>1, <2>1, <2>2
  <2>5. QED
    BY <1>1, <2>2, <2>3, <2>4 DEF Tick
<1>4. ASSUME NEW t \in Target
      PROVE  FrameFor(t) \in Frames /\ FrameFor(t) >= t /\ (t \in Frames => FrameFor(t) = t)
  <2> DEFINE T == {f \in Frames : f >= t}
  <2>1. T # {} /\ T \subseteq Nat
    <3>1. PICK m \in Frames : m = Max(Frames)
      BY <1>2
    <3>2. m >= t
      <4>1. t \in 0..m
        BY <3>1 DEF Target
      <4>2. m \in Nat
        BY <1>1
      <4>3. QED
        BY <4>1, <4>2
    <3>3. T \subseteq Nat
      <4>1. T \subseteq Frames
        OBVIOUS
      <4>2. Frames \subseteq Nat
        BY <1>1
      <4> HIDE DEF T
      <4>3. QED
        BY <4>1, <4>2
    <3>4. QED
      BY <3>1, <3>2, <3>3
  <2>2. T \subseteq Frames /\ \A f \in T : f >= t
    OBVIOUS
  <2>3. t \in Frames => t \in T
    BY <1>1
  <2> HIDE DEF T
  <2>4. PICK x \in T : \A y \in T : x <= y
    BY <2>1, LeastElement
  <2>5. Min(T) \in T /\ \A y \in T : Min(T) <= y
    BY <2>4 DEF Min
  <2>6. FrameFor(t) = Min(T)
    BY DEF FrameFor, T
  <2>7. t \in Nat
    BY <1>3
  <2>8. PICK n \in Nat : n = FrameFor(t) /\ n \in T /\ \A y \in T : n <= y
    BY <2>1, <2>5, <2>6
  <2>9. n \in Frames /\ n >= t
    BY <2>2, <2>8
  <2>10. t \in Frames => n = t
    BY <2>3, <2>7, <2>8, <2>9
  <2>11. QED
    BY <2>8, <2>9, <2>10
<1>5. QED
  BY <1>3, <1>4

\* The key and the frame of a request.
LEMMA RequestFacts ==
  ASSUME NEW r \in Request, NEW t \in Target
  PROVE  /\ StreamOf(r) \in Streams
         /\ KeyAt(r, t) \in CacheKey
         /\ KeyAt(r, t).stream = StreamOf(r) /\ KeyAt(r, t).tick = t
         /\ FrameOf(r, FrameFor(t)) \in Frame
         /\ AcceptsRequest(r) => MadeRight(Entry(KeyAt(r, t), FrameOf(r, FrameFor(t))))
<1>1. StreamOf(r) \in Streams
  BY DEF Streams
<1>2. KeyAt(r, t) \in CacheKey
  BY <1>1 DEF KeyAt, CacheKey
<1>3. FrameOf(r, FrameFor(t)) \in Frame
  BY TargetFacts DEF FrameOf, Frame
<1>4. ASSUME AcceptsRequest(r)
      PROVE  MadeRight(Entry(KeyAt(r, t), FrameOf(r, FrameFor(t))))
  BY <1>4 DEF AcceptsRequest, MadeRight, Entry, KeyAt, FrameOf, StreamOf
<1>5. QED
  BY <1>1, <1>2, <1>3, <1>4 DEF KeyAt

\* A frame that is put under the present policy leaves the cache filled.
LEMMA PutFilled ==
  ASSUME NEW q, Filled(q), NEW r \in Request, NEW t \in Target, AcceptsRequest(r)
  PROVE  /\ Filled(Put(q, KeyAt(r, t), FrameOf(r, FrameFor(t))))
         /\ KeyAt(r, t) \in Keys(Put(q, KeyAt(r, t), FrameOf(r, FrameFor(t))))
         /\ ~ Evicts(q, KeyAt(r, t)) =>
              Keys(Put(q, KeyAt(r, t), FrameOf(r, FrameFor(t)))) = Keys(q) \cup {KeyAt(r, t)}
<1>1. PICK key \in CacheKey : key = KeyAt(r, t)
  BY RequestFacts
<1>2. PICK frame \in Frame : frame = FrameOf(r, FrameFor(t))
  BY RequestFacts
<1> DEFINE p == Put(q, key, frame)
<1>3. /\ q \in Seq(CacheEntry) /\ Distinct(q) /\ Len(q) <= Capacity
      /\ \A i \in 1..Len(q) : MadeRight(q[i])
  BY DEF Filled
<1>4. Entry(key, frame) \in CacheEntry
  BY CacheEntryFacts
<1>5. Capacity \in Nat \ {0}
  BY LruCapacity, MonitorCacheConstants
<1>6. /\ p \in Seq(CacheEntry) /\ Distinct(p) /\ Len(p) <= Capacity
      /\ key \in Keys(p)
      /\ ~ Evicts(q, key) => Keys(p) = Keys(q) \cup {key}
      /\ \A i \in 1..Len(p) : p[i] = Entry(key, frame) \/ \E j \in 1..Len(q) : q[j] = p[i]
  <2>1. \A e \in CacheEntry : e.value.size = 1
    BY CacheEntryFacts
  <2>2. QED
    BY <1>3, <1>4, <1>5, <2>1, PutFacts
<1> HIDE DEF p
<1>7. MadeRight(Entry(key, frame))
  BY <1>1, <1>2, RequestFacts
<1>8. \A i \in 1..Len(p) : MadeRight(p[i])
  BY <1>3, <1>6, <1>7
<1>9. Filled(p)
  BY <1>6, <1>8 DEF Filled
<1>10. p = Put(q, KeyAt(r, t), FrameOf(r, FrameFor(t)))
  BY <1>1, <1>2 DEF p
<1>11. QED
  BY <1>1, <1>6, <1>9, <1>10

\* So do a hit and a removal.
LEMMA TouchFilled ==
  ASSUME NEW q, Filled(q), NEW key
  PROVE  /\ Filled(Touch(q, key)) /\ Keys(Touch(q, key)) = Keys(q)
         /\ key \in Keys(q) =>
              \E e \in CacheEntry : MadeRight(e) /\ e.key = key /\ Find(q, key) = e.value
<1>1. /\ q \in Seq(CacheEntry) /\ Distinct(q) /\ Len(q) <= Capacity
      /\ \A i \in 1..Len(q) : MadeRight(q[i])
  BY DEF Filled
<1> DEFINE t == Touch(q, key)
<1>2. /\ t \in Seq(CacheEntry) /\ Distinct(t) /\ Len(t) = Len(q)
      /\ Keys(t) = Keys(q)
      /\ \A i \in 1..Len(t) : \E j \in 1..Len(q) : q[j] = t[i]
  <2>1. OfEntries(CacheEntry)
    BY CacheEntryFacts
  <2>2. QED
    BY <1>1, <2>1, TouchFacts
<1> HIDE DEF t
<1>3. Filled(t)
  BY <1>1, <1>2 DEF Filled
<1>4. ASSUME key \in Keys(q)
      PROVE  \E e \in CacheEntry : MadeRight(e) /\ e.key = key /\ Find(q, key) = e.value
  <2>1. PICK j \in 1..Len(q) : q[j].key = key /\ Find(q, key) = q[j].value
    BY <1>1, <1>4, FindFacts
  <2>2. q[j] \in CacheEntry
    BY <1>1, ElementOfSeq
  <2>3. QED
    BY <1>1, <2>1, <2>2
<1>5. QED
  BY <1>2, <1>3, <1>4 DEF t

\* Without an entry the cache is filled right.
LEMMA WithoutFilled ==
  ASSUME NEW q, Filled(q), NEW key
  PROVE  Filled(Without(q, key)) /\ Keys(Without(q, key)) = Keys(q) \ {key}
<1>1. /\ q \in Seq(CacheEntry) /\ Distinct(q) /\ Len(q) <= Capacity
      /\ \A i \in 1..Len(q) : MadeRight(q[i])
  BY DEF Filled
<1> DEFINE w == Without(q, key)
<1>3. /\ w \in Seq(CacheEntry) /\ Distinct(w)
      /\ \A i \in 1..Len(w) : \E j \in 1..Len(q) : q[j] = w[i]
  BY <1>1, WithoutFacts
<1>4. Keys(w) = Keys(q) \ {key}
  BY <1>1, WithoutKeys
<1> HIDE DEF w
<1>5. Len(w) <= Len(q) /\ Len(w) \in Nat /\ Len(q) \in Nat
  <2>1. Cardinality(Keys(w)) = Len(w)
    BY <1>3, DistinctLen
  <2>2. IsFiniteSet(Keys(q)) /\ Cardinality(Keys(q)) = Len(q)
    BY <1>1, DistinctLen
  <2>3. Cardinality(Keys(w)) <= Cardinality(Keys(q))
    BY <1>4, <2>2, FS_Subset
  <2>4. QED
    BY <1>1, <1>3, <2>1, <2>2, <2>3
<1>6. Len(w) <= Capacity
  BY <1>1, <1>5, LruCapacity
<1>7. Filled(w)
  BY <1>1, <1>3, <1>6 DEF Filled
<1>8. QED
  BY <1>4, <1>7 DEF w

\* What a map is after an assignment.
LEMMA SetFacts ==
  ASSUME NEW A, NEW B, NEW f \in Maps(A, B), NEW x \in A, NEW y \in B
  PROVE  /\ Set(f, x, y) \in Maps(A, B)
         /\ DOMAIN Set(f, x, y) = DOMAIN f \cup {x}
         /\ Set(f, x, y)[x] = y
         /\ \A z \in DOMAIN f : z # x => Set(f, x, y)[z] = f[z]
<1>1. DOMAIN f \in SUBSET A /\ f \in [DOMAIN f -> B]
  BY DEF Maps
<1>2. DOMAIN f \cup {x} \in SUBSET A
  BY <1>1
<1>3. Set(f, x, y) \in [DOMAIN f \cup {x} -> B]
  BY <1>1 DEF Set
<1>4. Set(f, x, y) \in Maps(A, B)
  BY <1>2, <1>3 DEF Maps
<1>5. QED
  BY <1>1, <1>4 DEF Set

\* What is taken from the index was one tick of one stream.
LEMMA UnindexFacts ==
  ASSUME NEW A, NEW F, NEW idx \in Maps(A, SUBSET F), \A s \in DOMAIN idx : idx[s] # {},
         NEW x, NEW t
  PROVE  /\ Unindex(idx, x, t) \in Maps(A, SUBSET F)
         /\ DOMAIN Unindex(idx, x, t) \subseteq DOMAIN idx
         /\ \A s \in DOMAIN Unindex(idx, x, t) :
              /\ Unindex(idx, x, t)[s] # {} /\ Unindex(idx, x, t)[s] \subseteq idx[s]
              /\ s = x => t \notin Unindex(idx, x, t)[s]
<1>1. DOMAIN idx \in SUBSET A /\ idx \in [DOMAIN idx -> SUBSET F]
  BY DEF Maps
<1>2. CASE x \notin DOMAIN idx
  BY <1>2 DEF Unindex
<1>3. CASE x \in DOMAIN idx /\ idx[x] = {t}
  <2>1. Unindex(idx, x, t) = [y \in DOMAIN idx \ {x} |-> idx[y]]
    BY <1>3 DEF Unindex, Unset
  <2>2. DOMAIN idx \ {x} \in SUBSET A
    BY <1>1
  <2>3. [y \in DOMAIN idx \ {x} |-> idx[y]] \in [DOMAIN idx \ {x} -> SUBSET F]
    BY <1>1
  <2>4. Unindex(idx, x, t) \in Maps(A, SUBSET F)
    BY <2>1, <2>2, <2>3 DEF Maps
  <2>5. QED
    BY <2>1, <2>4
<1>4. CASE x \in DOMAIN idx /\ idx[x] # {t}
  <2>1. Unindex(idx, x, t) = [idx EXCEPT ![x] = idx[x] \ {t}]
    BY <1>4 DEF Unindex
  <2>2. [idx EXCEPT ![x] = idx[x] \ {t}] \in [DOMAIN idx -> SUBSET F]
    BY <1>1, <1>4
  <2>3. Unindex(idx, x, t) \in Maps(A, SUBSET F)
    BY <1>1, <2>1, <2>2 DEF Maps
  <2>4. idx[x] \ {t} # {}
    BY <1>4
  <2>5. QED
    BY <1>1, <1>4, <2>1, <2>3, <2>4
<1>5. QED
  BY <1>2, <1>3, <1>4

\* An empty cache is in order.
Emptied == /\ recent = <<>> /\ anchors = Nowhere /\ latest = Nowhere
           /\ index = Nowhere /\ order = <<>> /\ evicted = FALSE

\* An emptied cache is in order.
LEMMA EmptyIsTrue == Emptied => KeptTrue
<1> SUFFICES ASSUME Emptied PROVE KeptTrue
  OBVIOUS
<1> USE DEF Emptied
<1>1. DOMAIN Nowhere = {} /\ \A A, B : Nowhere \in Maps(A, B)
  <2>1. DOMAIN Nowhere = {}
    BY DEF Nowhere
  <2>2. ASSUME NEW A, NEW B
        PROVE  Nowhere \in Maps(A, B)
    <3>1. Nowhere \in [{} -> B] /\ {} \in SUBSET A
      BY DEF Nowhere
    <3>2. QED
      BY <3>1 DEF Maps
  <2>3. QED
    BY <2>1, <2>2
<1>2. /\ <<>> \in Seq(CacheEntry) /\ <<>> \in Seq(Streams \X Frames) /\ Len(<<>>) = 0
      /\ 1..Len(<<>>) = {}
  OBVIOUS
<1>3. Filled(recent)
  BY <1>2, LruCapacity DEF Filled, Distinct
<1>4. IndexTrue
  <2>1. 0 <= MaxIndex
    BY MonitorCacheConstants
  <2>2. QED
    BY <1>1, <1>2, <2>1 DEF IndexTrue
<1>5. StreamsTrue
  BY <1>1 DEF StreamsTrue
<1>6. LatestIsKept
  BY <1>1 DEF LatestIsKept
<1>7. QED
  BY <1>3, <1>4, <1>5, <1>6 DEF KeptTrue

\* A decode's frame.
LEMMA InsertTargetKeeps ==
  ASSUME KeptTrue, NEW r \in Request, NEW t \in Target, AcceptsRequest(r),
         InsertTarget(r, t, FrameOf(r, FrameFor(t))), UNCHANGED policy
  PROVE  KeptTrue'
<1> DEFINE s == StreamOf(r)
           key == KeyAt(r, t)
           stored == Put(recent, key, FrameOf(r, FrameFor(t)))
<1>1. /\ Filled(recent) /\ IndexTrue /\ StreamsTrue /\ evicted \in BOOLEAN /\ LatestIsKept
  BY DEF KeptTrue
<1>2. /\ Filled(stored) /\ key \in Keys(stored)
      /\ ~ Evicts(recent, key) => Keys(stored) = Keys(recent) \cup {key}
  BY <1>1, PutFilled
<1>3. s \in Streams /\ key \in CacheKey /\ key.stream = s
  BY RequestFacts
<1>4. PICK isAnchor \in BOOLEAN :
        /\ isAnchor = ~(s \in DOMAIN anchors /\ anchors[s] = Bucket(t))
        /\ recent' = IF Passing(s, key) THEN Without(stored, latest[s].key) ELSE stored
        /\ anchors' = IF isAnchor THEN Set(anchors, s, Bucket(t)) ELSE anchors
        /\ latest' = Set(latest, s, [key |-> key, anchor |-> isAnchor])
        /\ evicted' = (evicted \/ Evicts(recent, key))
        /\ index' = index /\ order' = order
  BY DEF InsertTarget
<1>5. epoch' = epoch /\ quality' = quality /\ sources' = sources
  BY DEF policy
<1> HIDE DEF s, key, stored
<1>6. /\ Passing(s, key) =>
           Filled(Without(stored, latest[s].key))
           /\ Keys(Without(stored, latest[s].key)) = Keys(stored) \ {latest[s].key}
  BY <1>2, WithoutFilled
<1>7. Filled(recent')
  BY <1>2, <1>4, <1>6
<1>8. Filled(recent)'
  BY <1>5, <1>7 DEF Filled, MadeRight
<1>9. IndexTrue'
  BY <1>1, <1>4 DEF IndexTrue
<1>10. /\ latest' \in Maps(Streams, [key : CacheKey, anchor : BOOLEAN])
       /\ DOMAIN latest' = DOMAIN latest \cup {s}
       /\ latest'[s] = [key |-> key, anchor |-> isAnchor]
       /\ \A z \in DOMAIN latest : z # s => latest'[z] = latest[z]
  <2>1. [key |-> key, anchor |-> isAnchor] \in [key : CacheKey, anchor : BOOLEAN]
    BY <1>3
  <2>2. latest \in Maps(Streams, [key : CacheKey, anchor : BOOLEAN])
    BY <1>1 DEF StreamsTrue
  <2>3. PICK B : B = [key : CacheKey, anchor : BOOLEAN]
    OBVIOUS
  <2>4. PICK last \in B : last = [key |-> key, anchor |-> isAnchor]
    BY <2>1, <2>3
  <2>5. latest \in Maps(Streams, B) /\ latest' = Set(latest, s, last)
    BY <1>4, <2>2, <2>3, <2>4
  <2>6. /\ latest' \in Maps(Streams, B)
        /\ DOMAIN latest' = DOMAIN latest \cup {s}
        /\ latest'[s] = last
        /\ \A z \in DOMAIN latest : z # s => latest'[z] = latest[z]
    BY <1>3, <2>5, SetFacts
  <2>7. QED
    BY <2>3, <2>4, <2>6
<1>11. DOMAIN anchors' = DOMAIN anchors \cup {s}
  <2>1. CASE isAnchor
    BY <1>4, <2>1 DEF Set
  <2>2. CASE ~ isAnchor
    BY <1>4, <2>2
  <2>3. QED
    BY <2>1, <2>2
<1>12. StreamsTrue'
  <2>1. DOMAIN anchors = DOMAIN latest /\ \A z \in DOMAIN latest : latest[z].key.stream = z
    BY <1>1 DEF StreamsTrue
  <2>2. \A z \in DOMAIN latest' : latest'[z].key.stream = z
    BY <1>3, <1>10, <2>1
  <2>3. QED
    BY <1>10, <1>11, <2>1, <2>2 DEF StreamsTrue
<1>13. evicted' \in BOOLEAN
  BY <1>1, <1>4 DEF Evicts
<1>14. LatestIsKept'
  <2>1. SUFFICES ASSUME ~ evicted', NEW z \in DOMAIN latest'
                 PROVE  latest'[z].key \in Keys(recent')
    BY DEF LatestIsKept
  <2>2. ~ evicted /\ Keys(stored) = Keys(recent) \cup {key}
    BY <1>2, <1>4, <2>1
  <2>3. \A x \in Keys(stored) : (Passing(s, key) => x # latest[s].key) => x \in Keys(recent')
    BY <1>4, <1>6
  <2>4. CASE z = s
    <3>1. latest'[z].key = key
      BY <1>10, <2>4
    <3>2. Passing(s, key) => key # latest[s].key
      BY DEF Passing
    <3>3. QED
      BY <1>2, <2>3, <3>1, <3>2
  <2>5. CASE z # s
    <3>1. z \in DOMAIN latest /\ latest'[z].key = latest[z].key
      BY <1>10, <2>5
    <3>2. latest[z].key \in Keys(stored)
      BY <1>1, <2>2, <3>1 DEF LatestIsKept
    <3>3. Passing(s, key) => latest[z].key # latest[s].key
      BY <1>1, <2>5, <3>1 DEF Passing, StreamsTrue
    <3>4. QED
      BY <2>3, <3>1, <3>2, <3>3
  <2>6. QED
    BY <2>4, <2>5
<1>15. QED
  BY <1>8, <1>9, <1>12, <1>13, <1>14 DEF KeptTrue

\* A frame met on the way of a scrub.
LEMMA InsertTraversalKeeps ==
  ASSUME KeptTrue, NEW r \in Request, NEW t \in Frames, InsertTraversal(r, t), UNCHANGED policy
  PROVE  KeptTrue'
<1> DEFINE s == StreamOf(r)
           key == KeyAt(r, t)
           stored == Put(recent, key, FrameOf(r, t))
           added == Set(index, s, Indexed(s) \cup {t})
           queue == Append(order, <<s, t>>)
<1>1. /\ Filled(recent) /\ IndexTrue /\ StreamsTrue /\ evicted \in BOOLEAN /\ LatestIsKept
  BY DEF KeptTrue
<1>2. epoch' = epoch /\ quality' = quality /\ sources' = sources
  BY DEF policy
<1>3. CASE UNCHANGED kept
  BY <1>1, <1>2, <1>3
  DEF KeptTrue, Filled, MadeRight, IndexTrue, StreamsTrue, LatestIsKept, kept
<1>4. CASE /\ AcceptsRequest(r)
           /\ recent' = stored
           /\ IF Len(queue) > MaxIndex
                THEN order' = Tail(queue) /\ index' = Retire(added, queue[1])
                ELSE order' = queue /\ index' = added
           /\ evicted' = (evicted \/ Evicts(recent, key))
           /\ UNCHANGED <<anchors, latest>>
  <2>1. /\ Filled(stored) /\ key \in Keys(stored)
        /\ ~ Evicts(recent, key) => Keys(stored) = Keys(recent) \cup {key}
    <3>1. t \in Target /\ FrameFor(t) = t
      BY TargetFacts
    <3>2. QED
      BY <1>1, <1>4, <3>1, PutFilled
  <2>2. s \in Streams
    BY <2>1, TargetFacts, RequestFacts
  <2> HIDE DEF s, key, stored
  <2>3. Filled(recent)'
    <3>1. Filled(recent')
      BY <1>4, <2>1
    <3>2. QED
      BY <1>2, <3>1 DEF Filled, MadeRight
  <2>4. StreamsTrue' /\ evicted' \in BOOLEAN
    BY <1>1, <1>4 DEF StreamsTrue, Evicts
  <2>5. LatestIsKept'
    BY <1>1, <1>4, <2>1 DEF LatestIsKept
  <2>6. /\ index \in Maps(Streams, SUBSET Frames) /\ \A z \in DOMAIN index : index[z] # {}
        /\ order \in Seq(Streams \X Frames) /\ Len(order) <= MaxIndex /\ Len(order) \in Nat
        /\ \A z \in DOMAIN index : \A u \in index[z] : \E i \in 1..Len(order) : order[i] = <<z, u>>
        /\ MaxIndex \in Nat \ {0}
    <3>1. IndexTrue
      BY <1>1
    <3>2. order \in Seq(Streams \X Frames)
      BY <3>1 DEF IndexTrue
    <3>3. Len(order) \in Nat /\ MaxIndex \in Nat \ {0}
      BY <3>2, MonitorCacheConstants
    <3>4. QED
      BY <3>1, <3>3 DEF IndexTrue
  <2>7. Indexed(s) \cup {t} \in SUBSET Frames
    BY <2>6 DEF Indexed, Maps
  <2>8. /\ added \in Maps(Streams, SUBSET Frames)
        /\ DOMAIN added = DOMAIN index \cup {s}
        /\ added[s] = Indexed(s) \cup {t}
        /\ \A z \in DOMAIN index : z # s => added[z] = index[z]
    <3>1. PICK T : T = SUBSET Frames
      OBVIOUS
    <3>2. PICK ticks \in T : ticks = Indexed(s) \cup {t}
      BY <2>7, <3>1
    <3>3. index \in Maps(Streams, T)
      BY <2>6, <3>1
    <3>4. PICK new : new = Set(index, s, ticks)
      OBVIOUS
    <3>5. /\ new \in Maps(Streams, T)
          /\ DOMAIN new = DOMAIN index \cup {s}
          /\ new[s] = ticks
          /\ \A z \in DOMAIN index : z # s => new[z] = index[z]
      <4>1. new \in Maps(Streams, T)
        BY <2>2, <3>3, <3>4, SetFacts
      <4>2. QED
        BY <3>4, <4>1 DEF Set
    <3>6. added = new
      BY <3>2, <3>4
    <3> HIDE DEF added
    <3>7. QED
      BY <3>1, <3>2, <3>5, <3>6
  <2>9. /\ queue \in Seq(Streams \X Frames) /\ Len(queue) = Len(order) + 1
        /\ queue[Len(order) + 1] = <<s, t>>
        /\ \A i \in 1..Len(order) : queue[i] = order[i]
    BY <2>2, <2>6
  <2> HIDE DEF added, queue
  <2>10. \A z \in DOMAIN added : added[z] # {}
    BY <2>6, <2>8
  <2>11. ASSUME NEW z \in DOMAIN added, NEW u \in added[z]
         PROVE  \E i \in 1..Len(queue) : queue[i] = <<z, u>>
    <3>1. CASE z = s /\ u = t
      <4>1. Len(order) + 1 \in 1..Len(queue)
        BY <2>6, <2>9
      <4>2. QED
        BY <2>9, <3>1, <4>1
    <3>2. CASE ~ (z = s /\ u = t)
      <4>1. z \in DOMAIN index /\ u \in index[z]
        BY <2>8, <2>11, <3>2 DEF Indexed
      <4>2. PICK i \in 1..Len(order) : order[i] = <<z, u>>
        BY <2>6, <4>1
      <4>3. i \in 1..Len(queue)
        BY <2>6, <2>9
      <4>4. QED
        BY <2>9, <4>2, <4>3
    <3>3. QED
      BY <3>1, <3>2
  <2>12. IndexTrue'
    <3>1. CASE Len(queue) <= MaxIndex
      <4>1. order' = queue /\ index' = added
        BY <1>4, <2>6, <2>9, <3>1
      <4>2. QED
        BY <2>8, <2>9, <2>10, <2>11, <3>1, <4>1 DEF IndexTrue
    <3>2. CASE Len(queue) > MaxIndex
      <4>1. order' = Tail(queue) /\ index' = Retire(added, queue[1])
        BY <1>4, <3>2
      <4>2. /\ Tail(queue) \in Seq(Streams \X Frames) /\ Len(Tail(queue)) = Len(queue) - 1
            /\ \A i \in 1..Len(Tail(queue)) : Tail(queue)[i] = queue[i + 1]
        <5>1. Len(queue) \in Nat /\ Len(queue) # 0
          BY <2>6, <2>9
        <5>2. QED
          BY <2>9, <5>1
      <4>3. Len(order') <= MaxIndex
        BY <2>6, <2>9, <4>1, <4>2
      <4>4. /\ index' \in Maps(Streams, SUBSET Frames)
            /\ DOMAIN index' \subseteq DOMAIN added
            /\ \A z \in DOMAIN index' :
                 /\ index'[z] # {} /\ index'[z] \subseteq added[z]
                 /\ z = queue[1][1] => queue[1][2] \notin index'[z]
        <5>1. PICK x : x = queue[1][1]
          OBVIOUS
        <5>2. PICK u : u = queue[1][2]
          OBVIOUS
        <5>3. PICK new : new = Unindex(added, x, u)
          OBVIOUS
        <5>4. /\ new \in Maps(Streams, SUBSET Frames)
              /\ DOMAIN new \subseteq DOMAIN added
              /\ \A z \in DOMAIN new :
                   /\ new[z] # {} /\ new[z] \subseteq added[z]
                   /\ z = x => u \notin new[z]
          BY <2>8, <2>10, <5>3, UnindexFacts
        <5>5. index' = new
          BY <4>1, <5>1, <5>2, <5>3 DEF Retire
        <5>6. QED
          BY <5>1, <5>2, <5>4, <5>5
      <4>5. ASSUME NEW z \in DOMAIN index', NEW u \in index'[z]
            PROVE  \E i \in 1..Len(order') : order'[i] = <<z, u>>
        <5>1. z \in DOMAIN added /\ u \in added[z]
          BY <4>4
        <5>2. PICK i \in 1..Len(queue) : queue[i] = <<z, u>>
          BY <2>11, <5>1
        <5>3. i # 1
          <6>1. CASE i = 1
            <7>1. queue[1][1] = z /\ queue[1][2] = u
              BY <5>2, <6>1
            <7>2. QED
              BY <4>4, <7>1
          <6>2. QED
            BY <6>1
        <5>4. i - 1 \in 1..Len(Tail(queue)) /\ (i - 1) + 1 = i
          BY <2>6, <2>9, <4>2, <5>3
        <5>5. Tail(queue)[i - 1] = <<z, u>>
          BY <4>2, <5>2, <5>4
        <5>6. QED
          BY <4>1, <5>4, <5>5
      <4>6. order' \in Seq(Streams \X Frames)
        BY <4>1, <4>2
      <4>7. QED
        BY <4>3, <4>4, <4>5, <4>6 DEF IndexTrue
    <3>3. QED
      BY <2>6, <2>9, <3>1, <3>2
  <2>13. QED
    BY <2>3, <2>4, <2>5, <2>12 DEF KeptTrue
<1>5. QED
  BY <1>3, <1>4 DEF InsertTraversal

\* A frame that a thread got is near its target.
NearHit(x) ==
  \/ x.got.tick = FrameFor(x.target)
  \/ x.request.scrub /\ x.got.tick >= x.target /\ x.got.tick <= x.target + Tolerance

\* What a thread's state says, and where it may go next.
LEMMA StateFacts ==
  ASSUME NEW x \in State, x.at # "idle"
  PROVE  /\ x.request \in Request /\ x.target \in Tick
         /\ \A a \in {"scrub", "decode"} :
              /\ [x EXCEPT !.at = a] \in State
              /\ [x EXCEPT !.at = a].at = a
              /\ [x EXCEPT !.at = a].request = x.request
<1>1. x \in [at : {"lookup", "scrub", "decode", "hit"}, request : Request, target : Tick,
             got : Frame \cup {None}]
  BY DEF State
<1>2. \A a \in {"scrub", "decode"} : [x EXCEPT !.at = a] \in
        [at : {"lookup", "scrub", "decode", "hit"}, request : Request, target : Tick,
         got : Frame \cup {None}]
  BY <1>1
<1>3. \A a \in {"scrub", "decode"} : [x EXCEPT !.at = a] \in State
  BY <1>2 DEF State
<1>4. \A a \in {"scrub", "decode"} :
        [x EXCEPT !.at = a].at = a /\ [x EXCEPT !.at = a].request = x.request
  BY <1>1
<1>5. QED
  BY <1>1, <1>3, <1>4

Got(x, f) == [x EXCEPT !.at = "hit", !.got = f]

\* A thread that got a frame near enough has a near hit.
LEMMA HitFacts ==
  ASSUME NEW x \in State, x.at # "idle", NEW f \in Frame
  PROVE  /\ Got(x, f) \in State /\ Got(x, f).at = "hit" /\ Got(x, f).got = f
         /\ Got(x, f).request = x.request /\ Got(x, f).target = x.target
<1> DEFINE Busy == [at : {"lookup", "scrub", "decode", "hit"}, request : Request, target : Tick,
                    got : Frame \cup {None}]
<1>1. x \in Busy
  BY DEF State
<1>2. /\ Got(x, f) \in Busy /\ Got(x, f).at = "hit" /\ Got(x, f).got = f
      /\ Got(x, f).request = x.request /\ Got(x, f).target = x.target
  BY <1>1 DEF Got
<1>3. QED
  BY <1>2 DEF State

\* One thread moves.
LEMMA ThreadMoves ==
  ASSUME WorkersTrue, HitIsNear, NEW w \in Worker, NEW x \in State,
         worker' = [worker EXCEPT ![w] = x],
         x.at = "scrub" => x.request.scrub, x.at = "hit" => NearHit(x)
  PROVE  WorkersTrue' /\ HitIsNear'
<1>1. worker \in [Worker -> State] /\ worker' \in [Worker -> State]
  BY DEF WorkersTrue
<1>2. worker'[w] = x /\ \A v \in Worker : v # w => worker'[v] = worker[v]
  BY <1>1
<1>3. WorkersTrue'
  BY <1>1, <1>2 DEF WorkersTrue
<1>4. \A v \in Worker : worker[v].at = "hit" => NearHit(worker[v])
  BY DEF HitIsNear, NearHit
<1>5. \A v \in Worker : worker'[v].at = "hit" => NearHit(worker'[v])
  BY <1>2, <1>4
<1>6. HitIsNear'
  BY <1>5 DEF HitIsNear, NearHit
<1>7. QED
  BY <1>3, <1>6

\* A thread goes back to be idle, or another action than a thread's leaves them alone.
LEMMA IdleFacts ==
  /\ Idle \in State /\ Idle.at = "idle"
  /\ (WorkersTrue /\ HitIsNear /\ UNCHANGED worker) => WorkersTrue' /\ HitIsNear'
BY DEF Idle, State, WorkersTrue, HitIsNear

\* The cache is prepared for a request.
LEMMA PrepareKeeps ==
  ASSUME KeptTrue, SourcesTrue, NEW r \in Request, PrepareRequest(r)
  PROVE  KeptTrue' /\ SourcesTrue'
<1>1. DOMAIN Nowhere = {}
  BY DEF Nowhere
<1>2. CASE NeedsReset(r)
  <2>1. DropAll /\ sources' = Set(Nowhere, r.media, r.path)
    BY <1>2 DEF PrepareRequest
  <2>2. KeptTrue'
    <3>1. Emptied'
      BY <2>1 DEF DropAll, Emptied
    <3>2. Emptied' => KeptTrue'
      BY EmptyIsTrue, PTL
    <3>3. QED
      BY <3>1, <3>2
  <2>3. DOMAIN sources' = {r.media}
    BY <1>1, <2>1 DEF Set
  <2>4. IsFiniteSet({r.media}) /\ Cardinality({r.media}) = 1
    BY FS_Singleton
  <2>5. 1 <= MaxStreams
    BY MonitorCacheConstants
  <2>6. QED
    BY <2>2, <2>3, <2>4, <2>5 DEF SourcesTrue
<1>3. CASE ~ NeedsReset(r)
  <2>1. /\ UNCHANGED kept /\ epoch' = epoch /\ quality' = quality
        /\ sources' = Set(sources, r.media, r.path)
        /\ r.media \in DOMAIN sources => sources[r.media] = r.path
        /\ r.media \notin DOMAIN sources => ~ (Cardinality(DOMAIN sources) >= MaxStreams)
    BY <1>3 DEF PrepareRequest, NeedsReset, LimitReached
  <2>2. /\ DOMAIN sources' = DOMAIN sources \cup {r.media}
        /\ \A m \in DOMAIN sources : sources'[m] = sources[m]
    BY <2>1 DEF Set
  <2>3. \A e : MadeRight(e) => MadeRight(e)'
    BY <2>1, <2>2 DEF MadeRight
  <2>4. Filled(recent)'
    BY <2>1, <2>3 DEF KeptTrue, Filled, kept
  <2>5. KeptTrue'
    BY <2>1, <2>4 DEF KeptTrue, IndexTrue, StreamsTrue, LatestIsKept, kept
  <2>6. SourcesTrue'
    <3>1. IsFiniteSet(DOMAIN sources) /\ Cardinality(DOMAIN sources) <= MaxStreams
      BY DEF SourcesTrue
    <3>2. CASE r.media \in DOMAIN sources
      <4>1. DOMAIN sources' = DOMAIN sources
        BY <2>2, <3>2
      <4>2. QED
        BY <3>1, <4>1 DEF SourcesTrue
    <3>3. CASE r.media \notin DOMAIN sources
      <4>1. /\ IsFiniteSet(DOMAIN sources')
            /\ Cardinality(DOMAIN sources') = Cardinality(DOMAIN sources) + 1
        BY <2>2, <3>1, <3>3, FS_AddElement
      <4>2. Cardinality(DOMAIN sources) \in Nat /\ MaxStreams \in Nat
        BY <3>1, FS_CardinalityType, MonitorCacheConstants
      <4>3. Cardinality(DOMAIN sources') <= MaxStreams
        BY <2>1, <3>3, <4>1, <4>2
      <4>4. QED
        BY <4>1, <4>3 DEF SourcesTrue
    <3>4. QED
      BY <3>2, <3>3
  <2>7. QED
    BY <2>5, <2>6
<1>4. QED
  BY <1>2, <1>3

\* The cache begins in order.
LEMMA InitMonitor == CacheInit => MonitorInv
<1> SUFFICES ASSUME CacheInit PROVE MonitorInv
  OBVIOUS
<1>1. KeptTrue
  BY EmptyIsTrue DEF CacheInit, Emptied
<1>2. SourcesTrue
  <2>1. DOMAIN sources = {}
    BY DEF CacheInit, Nowhere
  <2>2. IsFiniteSet({}) /\ Cardinality({}) = 0 /\ 0 <= MaxStreams
    BY FS_EmptySet, MonitorCacheConstants
  <2>3. QED
    BY <2>1, <2>2 DEF SourcesTrue
<1>3. WorkersTrue /\ HitIsNear
  BY IdleFacts DEF CacheInit, WorkersTrue, HitIsNear
<1>4. QED
  BY <1>1, <1>2, <1>3 DEF MonitorInv

\* One disjunct for each step of a thread.
LEMMA WorkerKeeps ==
  ASSUME MonitorInv, NEW w \in Worker, WorkerNext(w)
  PROVE  MonitorInv'
<1>1. KeptTrue /\ SourcesTrue /\ WorkersTrue /\ HitIsNear
  BY DEF MonitorInv
<1>2. worker \in [Worker -> State] /\ worker[w] \in State
      /\ (worker[w].at = "scrub" => worker[w].request.scrub)
  BY <1>1 DEF WorkersTrue
<1>3. CASE Prepare(w)
  <2>1. PICK r \in Request, t \in Tick :
          /\ PrepareRequest(r)
          /\ worker' = [worker EXCEPT ![w] =
                          [at |-> "lookup", request |-> r, target |-> t, got |-> None]]
    BY <1>3 DEF Prepare
  <2>2. KeptTrue' /\ SourcesTrue'
    BY <1>1, <2>1, PrepareKeeps
  <2>3. PICK x \in State : x = [at |-> "lookup", request |-> r, target |-> t, got |-> None]
    BY DEF State
  <2>4. x.at = "lookup"
    BY <2>3
  <2>5. WorkersTrue' /\ HitIsNear'
    BY <1>1, <2>1, <2>3, <2>4, ThreadMoves
  <2>6. QED
    BY <2>2, <2>5 DEF MonitorInv
<1>4. CASE LookUp(w)
  <2> DEFINE r == worker[w].request
             key == KeyAt(r, worker[w].target)
  <2>1. /\ worker[w].at = "lookup"
        /\ recent' = Touch(recent, key)
        /\ worker' = [worker EXCEPT ![w] =
                        IF key \in Keys(recent)
                          THEN [worker[w] EXCEPT !.at = "hit", !.got = Find(recent, key)]
                          ELSE [worker[w] EXCEPT !.at = IF r.scrub THEN "scrub" ELSE "decode"]]
        /\ UNCHANGED <<anchors, latest, index, order, evicted, policy>>
    BY <1>4 DEF LookUp
  <2>2. r \in Request /\ worker[w].target \in Tick
    BY <1>2, <2>1, StateFacts
  <2>3. Filled(recent)
    BY <1>1 DEF KeptTrue
  <2>4. /\ Filled(recent') /\ Keys(recent') = Keys(recent)
        /\ key \in Keys(recent) =>
             \E e \in CacheEntry : MadeRight(e) /\ e.key = key /\ Find(recent, key) = e.value
    BY <2>1, <2>3, TouchFilled
  <2>5. KeptTrue' /\ SourcesTrue'
    BY <1>1, <2>1, <2>4
    DEF KeptTrue, Filled, MadeRight, IndexTrue, StreamsTrue, LatestIsKept, SourcesTrue, policy
  <2>6. CASE key \in Keys(recent)
    <3>1. PICK e \in CacheEntry : MadeRight(e) /\ e.key = key /\ Find(recent, key) = e.value
      BY <2>4, <2>6
    <3>2. e.value \in Frame /\ e.value.tick = FrameFor(worker[w].target)
      BY <3>1 DEF CacheEntry, MadeRight, KeyAt
    <3>3. PICK x \in State : /\ x = [worker[w] EXCEPT !.at = "hit", !.got = e.value]
                             /\ x.at = "hit" /\ x.got = e.value
                             /\ x.target = worker[w].target
      <4>1. PICK cur \in State : cur = worker[w] /\ cur.at # "idle"
        BY <1>2, <2>1
      <4>2. PICK f \in Frame : f = e.value
        BY <3>2
      <4>3. PICK x : x = Got(cur, f)
        OBVIOUS
      <4>4. x \in State /\ x.at = "hit" /\ x.got = f /\ x.target = cur.target
        BY <4>1, <4>3, HitFacts
      <4>5. QED
        BY <4>1, <4>2, <4>3, <4>4 DEF Got
    <3>4. NearHit(x)
      BY <3>2, <3>3 DEF NearHit
    <3>5. worker' = [worker EXCEPT ![w] = x]
      BY <2>1, <2>6, <3>1, <3>3
    <3>6. WorkersTrue' /\ HitIsNear'
      BY <1>1, <3>3, <3>4, <3>5, ThreadMoves
    <3>7. QED
      BY <2>5, <3>6 DEF MonitorInv
  <2>7. CASE key \notin Keys(recent)
    <3>1. PICK a \in {"scrub", "decode"} : a = (IF r.scrub THEN "scrub" ELSE "decode")
      OBVIOUS
    <3>2. PICK x \in State : /\ x = [worker[w] EXCEPT !.at = a]
                             /\ x.at = a /\ x.request = r
      <4>1. PICK cur \in State : cur = worker[w] /\ cur.at # "idle"
        BY <1>2, <2>1
      <4>2. PICK x : x = [cur EXCEPT !.at = a]
        OBVIOUS
      <4>3. x \in State /\ x.at = a /\ x.request = cur.request
        BY <4>1, <4>2, StateFacts
      <4>4. QED
        BY <4>1, <4>2, <4>3
    <3>3. worker' = [worker EXCEPT ![w] = x]
      BY <2>1, <2>7, <3>1, <3>2
    <3>4. x.at = "scrub" => x.request.scrub
      BY <2>2, <3>1, <3>2, MonitorCacheConstants
    <3>5. x.at # "hit"
      BY <3>2
    <3>6. WorkersTrue' /\ HitIsNear'
      BY <1>1, <3>3, <3>4, <3>5, ThreadMoves
    <3>7. QED
      BY <2>5, <3>6 DEF MonitorInv
  <2>8. QED
    BY <2>6, <2>7
<1>5. CASE LookNearby(w)
  <2> DEFINE r == worker[w].request
             t == worker[w].target
             u == Min(Nearby(r, t))
             key == KeyAt(r, u)
  <2>1. worker[w].at = "scrub" /\ UNCHANGED policy
    BY <1>5 DEF LookNearby
  <2>2. r \in Request /\ t \in Tick /\ r.scrub
    BY <1>2, <2>1, StateFacts
  <2>3. Filled(recent)
    BY <1>1 DEF KeptTrue
  <2>4. SourcesTrue'
    BY <1>1, <2>1 DEF SourcesTrue, policy
  <2>5. PICK d \in State : /\ d = [worker[w] EXCEPT !.at = "decode"]
                           /\ d.at = "decode"
    BY <1>2, <2>1, StateFacts
  <2>6. At(w, "decode") => WorkersTrue' /\ HitIsNear'
    <3>1. SUFFICES ASSUME At(w, "decode")
                   PROVE  WorkersTrue' /\ HitIsNear'
      OBVIOUS
    <3>2. worker' = [worker EXCEPT ![w] = d]
      BY <2>5, <3>1 DEF At
    <3>3. QED
      BY <1>1, <2>5, <3>2, ThreadMoves
  <2>7. CASE At(w, "decode") /\ UNCHANGED kept
    <3>1. KeptTrue'
      BY <1>1, <2>1, <2>7
      DEF KeptTrue, Filled, MadeRight, IndexTrue, StreamsTrue, LatestIsKept, kept, policy
    <3>2. QED
      BY <2>4, <2>6, <2>7, <3>1 DEF MonitorInv
  <2>8. CASE /\ Nearby(r, t) # {}
             /\ key \in Keys(recent) /\ Find(recent, key).tick >= t
             /\ worker' = [worker EXCEPT ![w].at = "hit", ![w].got = Find(recent, key)]
             /\ recent' = Touch(recent, key)
             /\ UNCHANGED <<anchors, latest, index, order, evicted>>
    <3>1. /\ Filled(recent') /\ Keys(recent') = Keys(recent)
          /\ \E e \in CacheEntry : MadeRight(e) /\ e.key = key /\ Find(recent, key) = e.value
      BY <2>3, <2>8, TouchFilled
    <3>2. KeptTrue'
      BY <1>1, <2>1, <2>8, <3>1, ZenonT(60)
      DEF KeptTrue, Filled, MadeRight, IndexTrue, StreamsTrue, LatestIsKept, policy
    <3>3. PICK e \in CacheEntry : MadeRight(e) /\ e.key = key /\ Find(recent, key) = e.value
      BY <3>1
    <3>4. u \in Nearby(r, t)
      <4>1. Nearby(r, t) \subseteq Nat
        <5>1. Nearby(r, t) \subseteq Frames
          BY <1>1 DEF Nearby, Indexed, KeptTrue, IndexTrue, Maps
        <5>2. QED
          BY <5>1, TargetFacts
      <4>2. PICK n \in Nearby(r, t) : \A m \in Nearby(r, t) : n <= m
        BY <2>8, <4>1, LeastElement
      <4>3. QED
        BY <4>2 DEF Min
    <3>5. u \in Frames /\ u <= t + Tolerance
      <4>1. Nearby(r, t) \subseteq Frames
        BY <1>1 DEF Nearby, Indexed, KeptTrue, IndexTrue, Maps
      <4>2. Nearby(r, t) \subseteq t..(t + Tolerance)
        BY DEF Nearby, Window
      <4>3. Tolerance \in Nat
        BY MonitorCacheConstants
      <4>4. t \in Nat
        BY <2>2, TargetFacts
      <4>5. u \in Frames /\ u \in t..(t + Tolerance)
        BY <3>4, <4>1, <4>2
      <4> HIDE DEF t, u
      <4>6. QED
        BY <4>3, <4>4, <4>5
    <3>6. e.value \in Frame /\ e.value.tick = u
      <4>1. e.value \in Frame
        BY DEF CacheEntry
      <4>2. e.key.tick = u
        BY <3>3 DEF KeyAt
      <4>3. e.value.tick = FrameFor(u)
        BY <3>3, <4>2 DEF MadeRight
      <4>4. QED
        BY <3>5, <4>1, <4>3, TargetFacts
    <3>7. PICK x \in State : /\ x = [worker[w] EXCEPT !.at = "hit", !.got = e.value]
                             /\ x.at = "hit" /\ x.got = e.value
                             /\ x.target = t /\ x.request = r
      <4>1. PICK cur \in State : cur = worker[w] /\ cur.at # "idle"
        BY <1>2, <2>1
      <4>2. PICK f \in Frame : f = e.value
        BY <3>6
      <4>3. PICK x : x = Got(cur, f)
        OBVIOUS
      <4>4. /\ x \in State /\ x.at = "hit" /\ x.got = f
            /\ x.target = cur.target /\ x.request = cur.request
        BY <4>1, <4>3, HitFacts
      <4>5. QED
        BY <4>1, <4>2, <4>3, <4>4 DEF Got
    <3>8. NearHit(x)
      BY <2>2, <2>8, <3>3, <3>5, <3>6, <3>7 DEF NearHit
    <3>9. worker' = [worker EXCEPT ![w] = x]
      BY <1>2, <2>8, <3>3, <3>7
    <3>10. WorkersTrue' /\ HitIsNear'
      BY <1>1, <3>7, <3>8, <3>9, ThreadMoves
    <3>11. QED
      BY <2>4, <3>2, <3>10 DEF MonitorInv
  <2>9. CASE /\ At(w, "decode")
             /\ recent' = Touch(recent, key)
             /\ index' = Unindex(index, StreamOf(r), key.tick)
             /\ UNCHANGED <<anchors, latest, order, evicted>>
    <3>1. Filled(recent') /\ Keys(recent') = Keys(recent)
      BY <2>3, <2>9, TouchFilled
    <3>2. IndexTrue'
      <4>1. PICK x : x = StreamOf(r)
        OBVIOUS
      <4>2. PICK tick : tick = key.tick
        OBVIOUS
      <4>3. index' = Unindex(index, x, tick)
        BY <2>9, <4>1, <4>2
      <4>4. index \in Maps(Streams, SUBSET Frames) /\ \A s \in DOMAIN index : index[s] # {}
        BY <1>1 DEF KeptTrue, IndexTrue
      <4>5. /\ index' \in Maps(Streams, SUBSET Frames)
            /\ DOMAIN index' \subseteq DOMAIN index
            /\ \A s \in DOMAIN index' : index'[s] # {} /\ index'[s] \subseteq index[s]
        BY <4>3, <4>4, UnindexFacts
      <4>6. QED
        BY <1>1, <2>9, <4>5 DEF KeptTrue, IndexTrue
    <3>3. KeptTrue'
      BY <1>1, <2>1, <2>9, <3>1, <3>2, ZenonT(60)
      DEF KeptTrue, Filled, MadeRight, StreamsTrue, LatestIsKept, policy
    <3>4. QED
      BY <2>4, <2>6, <2>9, <3>3 DEF MonitorInv
  <2>10. QED
    BY <1>5, <2>7, <2>8, <2>9 DEF LookNearby
<1>6. CASE Traverse(w)
  <2>1. /\ worker[w].at = "decode" /\ UNCHANGED <<policy, worker>>
        /\ \E t \in Frames : InsertTraversal(worker[w].request, t)
    BY <1>6 DEF Traverse
  <2>2. worker[w].request \in Request
    BY <1>2, <2>1, StateFacts
  <2>3. KeptTrue'
    BY <1>1, <2>1, <2>2, InsertTraversalKeeps
  <2>4. SourcesTrue' /\ WorkersTrue' /\ HitIsNear'
    BY <1>1, <2>1, IdleFacts DEF SourcesTrue, policy
  <2>5. QED
    BY <2>3, <2>4 DEF MonitorInv
<1>7. CASE Complete(w)
  <2> DEFINE r == worker[w].request
  <2>1. PICK t \in Target :
          /\ worker[w].at = "decode" /\ UNCHANGED policy
          /\ worker' = [worker EXCEPT ![w] = Idle]
          /\ IF AcceptsRequest(r) THEN InsertTarget(r, t, FrameOf(r, FrameFor(t)))
                                  ELSE UNCHANGED kept
    BY <1>7 DEF Complete
  <2>2. r \in Request
    BY <1>2, <2>1, StateFacts
  <2>3. KeptTrue'
    <3>1. CASE AcceptsRequest(r)
      BY <1>1, <2>1, <2>2, <3>1, InsertTargetKeeps
    <3>2. CASE UNCHANGED kept
      BY <1>1, <2>1, <3>2
      DEF KeptTrue, Filled, MadeRight, IndexTrue, StreamsTrue, LatestIsKept, kept, policy
    <3>3. QED
      BY <2>1, <3>1, <3>2
  <2>4. WorkersTrue' /\ HitIsNear'
    BY <1>1, <2>1, IdleFacts, ThreadMoves
  <2>5. SourcesTrue'
    BY <1>1, <2>1 DEF SourcesTrue, policy
  <2>6. QED
    BY <2>3, <2>4, <2>5 DEF MonitorInv
<1>8. CASE GiveUp(w) \/ Publish(w)
  <2>1. UNCHANGED <<kept, policy>> /\ worker' = [worker EXCEPT ![w] = Idle]
    BY <1>8 DEF GiveUp, Publish
  <2>2. KeptTrue' /\ SourcesTrue'
    BY <1>1, <2>1
    DEF KeptTrue, Filled, MadeRight, IndexTrue, StreamsTrue, LatestIsKept, SourcesTrue, kept, policy
  <2>3. WorkersTrue' /\ HitIsNear'
    BY <1>1, <2>1, IdleFacts, ThreadMoves
  <2>4. QED
    BY <2>2, <2>3 DEF MonitorInv
<1>9. QED
  BY <1>3, <1>4, <1>5, <1>6, <1>7, <1>8 DEF WorkerNext

\* The frames, the index with its order and the marks of the streams stay in step with
\* each other and with the policy, whatever the threads do between their two looks at
\* the cache (prepare_request, get_scrub_at_or_after, insert, insert_scrub_traversal).
THEOREM MonitorInvariant == MonitorSpec => []MonitorInv
<1>1. ASSUME MonitorInv, [MonitorNext]_vars
      PROVE  MonitorInv'
  <2>1. CASE \E w \in Worker : WorkerNext(w)
    BY <1>1, <2>1, WorkerKeeps
  <2>2. CASE Reset
    <3>1. Emptied'
      BY <2>2 DEF Reset, DropAll, Emptied
    <3>2. Emptied' => KeptTrue'
      BY EmptyIsTrue, PTL
    <3>3. WorkersTrue' /\ HitIsNear'
      BY <1>1, <2>2, IdleFacts DEF Reset, MonitorInv
    <3>4. SourcesTrue'
      <4>1. DOMAIN sources' = {}
        BY <2>2 DEF Reset, Nowhere
      <4>2. IsFiniteSet({}) /\ Cardinality({}) = 0 /\ 0 <= MaxStreams
        BY FS_EmptySet, MonitorCacheConstants
      <4>3. QED
        BY <4>1, <4>2 DEF SourcesTrue
    <3>5. QED
      BY <3>1, <3>2, <3>3, <3>4 DEF MonitorInv
  <2>3. CASE UNCHANGED vars
    <3>1. UNCHANGED <<kept, policy, worker>>
      BY <2>3 DEF vars, kept, policy
    <3>2. QED
      BY <1>1, <3>1, IdleFacts
      DEF MonitorInv, KeptTrue, Filled, MadeRight, IndexTrue, StreamsTrue, LatestIsKept, SourcesTrue,
          kept, policy
  <2>4. QED
    BY <1>1, <2>1, <2>2, <2>3 DEF MonitorNext
<1>2. QED
  BY <1>1, InitMonitor, PTL DEF MonitorSpec

\* The limits of the cache.
LEMMA LimitsHold == MonitorInv => MonitorTypeOK
<1> SUFFICES ASSUME MonitorInv PROVE MonitorTypeOK
  OBVIOUS
<1>1. Filled(recent) /\ IndexTrue /\ StreamsTrue /\ SourcesTrue /\ WorkersTrue
  BY DEF MonitorInv, KeptTrue
<1>2. recent \in Seq(CacheEntry) /\ Distinct(recent) /\ Len(recent) <= Capacity
  BY <1>1 DEF Filled
<1>3. Bytes(recent) <= Capacity
  BY <1>2, CacheEntryFacts, BytesAreFrames
<1>4. Cardinality(Keys(recent)) = Len(recent)
  BY <1>2, DistinctLen
<1>5. /\ DOMAIN index \subseteq Streams /\ {} \notin {index[s] : s \in DOMAIN index}
      /\ Len(order) <= MaxIndex /\ Len(order) \in Nat
  BY <1>1 DEF IndexTrue, Maps
<1>6. Cardinality(UNION {{s} \X index[s] : s \in DOMAIN index}) <= MaxIndex
  <2> DEFINE I == UNION {{s} \X index[s] : s \in DOMAIN index}
             O == {order[i] : i \in 1..Len(order)}
  <2>1. ASSUME NEW p \in I
        PROVE  p \in O
    <3>1. PICK s \in DOMAIN index : p \in {s} \X index[s]
      OBVIOUS
    <3>2. PICK t \in index[s] : p = <<s, t>>
      BY <3>1
    <3>3. PICK i \in 1..Len(order) : order[i] = <<s, t>>
      BY <1>1 DEF IndexTrue
    <3>4. QED
      BY <3>2, <3>3
  <2>2. IsFiniteSet(1..Len(order)) /\ Cardinality(1..Len(order)) = Len(order)
    <3>1. PICK n \in Nat : n = Len(order)
      BY <1>5
    <3>2. IsFiniteSet(1..n) /\ Cardinality(1..n) = n
      BY FS_Interval
    <3>3. QED
      BY <3>1, <3>2
  <2>3. [i \in 1..Len(order) |-> order[i]] \in Surjection(1..Len(order), O)
    BY DEF Surjection
  <2> HIDE DEF I, O
  <2>4. IsFiniteSet(O) /\ Cardinality(O) <= Len(order)
    BY <2>2, <2>3, FS_Surjection
  <2>5. IsFiniteSet(I) /\ Cardinality(I) <= Cardinality(O)
    BY <2>1, <2>4, FS_Subset
  <2>6. Cardinality(I) \in Nat /\ Cardinality(O) \in Nat /\ MaxIndex \in Nat
    BY <2>4, <2>5, FS_CardinalityType, MonitorCacheConstants
  <2>7. Cardinality(I) <= MaxIndex
    BY <1>5, <2>4, <2>5, <2>6
  <2>8. QED
    BY <2>7 DEF I
<1>7. \A w \in Worker : worker[w].at \in {"idle", "lookup", "scrub", "decode", "hit"}
  BY <1>1 DEF WorkersTrue, State
<1>8. Cardinality(DOMAIN sources) <= MaxStreams /\ DOMAIN anchors = DOMAIN latest
  BY <1>1 DEF SourcesTrue, StreamsTrue
<1>9. QED
  BY <1>3, <1>4, <1>5, <1>6, <1>7, <1>8 DEF MonitorTypeOK

\* The limits hold, and, also when a decode outlives a change of policy, every
\* frame in the cache is of the present policy (prepare_request, insert_if_current).
THEOREM CacheIsOfPolicy == MonitorSpec => []CacheMatchesPolicy
<1>1. MonitorInv => CacheMatchesPolicy
  <2> SUFFICES ASSUME MonitorInv PROVE CacheMatchesPolicy
    OBVIOUS
  <2>1. MonitorTypeOK
    BY LimitsHold
  <2>2. DOMAIN recent = 1..Len(recent) /\ \A i \in 1..Len(recent) : MadeRight(recent[i])
    BY DEF MonitorInv, KeptTrue, Filled
  <2>3. QED
    BY <2>1, <2>2 DEF CacheMatchesPolicy, MadeRight
<1>2. QED
  BY <1>1, MonitorInvariant, PTL

\* What a thread finds under its key was made under the present policy.
LEMMA FoundIsOfPolicy ==
  ASSUME NEW r \in Request, NEW t, NEW e \in CacheEntry, MadeRight(e), e.key = KeyAt(r, t),
         AcceptsRequest(r)
  PROVE  e.value = FrameOf(r, e.value.tick)
<1>1. e.value \in Frame
  BY DEF CacheEntry
<1>2. e.value.path = r.path /\ e.value.quality = r.quality
  BY DEF MadeRight, KeyAt, StreamOf, AcceptsRequest
<1>3. PICK f \in Frame : f = e.value
  BY <1>1
<1>4. f = [size |-> f.size, tick |-> f.tick, path |-> f.path, quality |-> f.quality]
      /\ f.size = 1
  BY DEF Frame
<1>5. QED
  BY <1>2, <1>3, <1>4 DEF FrameOf

\* A thread that comes to a hit looked up its own request, and others leave it alone.
LEMMA HitsComeFromLookUps ==
  ASSUME MonitorInv, MonitorNext, NEW w \in Worker,
         worker[w].at \in {"lookup", "scrub"}, worker'[w].at = "hit"
  PROVE  LookUp(w) \/ LookNearby(w)
<1>1. worker \in [Worker -> State]
  BY DEF MonitorInv, WorkersTrue
<1>2. worker'[w] # worker[w]
  OBVIOUS
<1>3. ~Reset
  BY <1>2 DEF Reset
<1>4. PICK v \in Worker : WorkerNext(v)
  BY <1>3 DEF MonitorNext
<1>5. v = w
  <2>1. \A x : worker' = [worker EXCEPT ![v] = x] => v = w
    BY <1>1, <1>2
  <2>2. \A a : worker' = [worker EXCEPT ![v].at = a] => v = w
    BY <1>1, <1>2
  <2>3. \A a, f : worker' = [worker EXCEPT ![v].at = a, ![v].got = f] => v = w
    BY <1>1, <1>2
  <2>4. worker' = worker => v = w
    BY <1>2
  <2>5. CASE Prepare(v)
    BY <2>1, <2>5 DEF Prepare
  <2>6. CASE LookUp(v)
    BY <2>1, <2>6 DEF LookUp
  <2>7. CASE LookNearby(v)
    BY <2>2, <2>3, <2>7 DEF LookNearby, At
  <2>8. CASE Traverse(v)
    BY <2>4, <2>8 DEF Traverse
  <2>9. CASE Complete(v) \/ GiveUp(v) \/ Publish(v)
    BY <2>1, <2>9 DEF Complete, GiveUp, Publish
  <2>10. QED
    BY <1>4, <2>5, <2>6, <2>7, <2>8, <2>9 DEF WorkerNext
<1>6. QED
  BY <1>2, <1>4, <1>5 DEF WorkerNext, Prepare, Traverse, Complete, GiveUp, Publish

\* The step that comes to a hit.
LEMMA HitFound ==
  ASSUME MonitorInv, NEW w \in Worker, worker'[w].at = "hit", LookUp(w) \/ LookNearby(w)
  PROVE  LET r == worker[w].request
         IN  /\ worker'[w].request = r /\ worker'[w].target = worker[w].target
             /\ worker'[w].got \in Frame
             /\ AcceptsRequest(r) => worker'[w].got = FrameOf(r, worker'[w].got.tick)
<1> DEFINE r == worker[w].request
<1>1. worker \in [Worker -> State] /\ worker[w] \in State /\ worker[w].at \in {"lookup", "scrub"}
  BY DEF MonitorInv, WorkersTrue, LookUp, LookNearby
<1>2. PICK cur \in State : cur = worker[w] /\ cur.at # "idle"
  BY <1>1
<1>3. r \in Request
  BY <1>2, StateFacts
<1>4. Filled(recent)
  BY DEF MonitorInv, KeptTrue
<1>5. PICK t : /\ KeyAt(r, t) \in Keys(recent)
               /\ worker'[w] = Got(cur, Find(recent, KeyAt(r, t)))
  <2>1. CASE LookUp(w)
    <3>1. PICK key : key = KeyAt(r, worker[w].target)
      OBVIOUS
    <3>2. worker' = [worker EXCEPT ![w] =
                       IF key \in Keys(recent)
                         THEN [worker[w] EXCEPT !.at = "hit", !.got = Find(recent, key)]
                         ELSE [worker[w] EXCEPT !.at = IF r.scrub THEN "scrub" ELSE "decode"]]
      BY <2>1, <3>1 DEF LookUp
    <3>3. key \in Keys(recent)
      <4>1. SUFFICES ASSUME key \notin Keys(recent)
                     PROVE  FALSE
        OBVIOUS
      <4>2. PICK a \in {"scrub", "decode"} : a = (IF r.scrub THEN "scrub" ELSE "decode")
        OBVIOUS
      <4>3. worker'[w] = [cur EXCEPT !.at = a]
        BY <1>1, <1>2, <3>2, <4>1, <4>2
      <4>4. [cur EXCEPT !.at = a].at = a
        BY <1>2, <4>2, StateFacts
      <4>5. QED
        BY <4>2, <4>3, <4>4
    <3>4. worker'[w] = Got(cur, Find(recent, key))
      BY <1>1, <1>2, <3>2, <3>3 DEF Got
    <3>5. QED
      BY <3>1, <3>3, <3>4
  <2>2. CASE LookNearby(w)
    <3>1. PICK t : t = Min(Nearby(r, worker[w].target))
      OBVIOUS
    <3>2. ~At(w, "decode")
      <4>1. [cur EXCEPT !.at = "decode"].at = "decode"
        BY <1>2, StateFacts
      <4>2. At(w, "decode") => worker'[w] = [cur EXCEPT !.at = "decode"]
        BY <1>1, <1>2 DEF At
      <4>3. QED
        BY <4>1, <4>2
    <3>3. /\ KeyAt(r, t) \in Keys(recent)
          /\ worker' = [worker EXCEPT ![w].at = "hit", ![w].got = Find(recent, KeyAt(r, t))]
      BY <2>2, <3>1, <3>2 DEF LookNearby
    <3>4. worker'[w] = Got(cur, Find(recent, KeyAt(r, t)))
      BY <1>1, <1>2, <3>3 DEF Got
    <3>5. QED
      BY <3>3, <3>4
  <2>3. QED
    BY <2>1, <2>2
<1>6. PICK e \in CacheEntry : /\ MadeRight(e) /\ e.key = KeyAt(r, t)
                              /\ Find(recent, KeyAt(r, t)) = e.value
  BY <1>4, <1>5, TouchFilled
<1>7. e.value \in Frame
  BY DEF CacheEntry
<1>8. PICK f \in Frame : f = e.value
  BY <1>7
<1>9. PICK x : x = Got(cur, f)
  OBVIOUS
<1>10. x.got = f /\ x.target = cur.target /\ x.request = cur.request
  BY <1>2, <1>9, HitFacts
<1>11. worker'[w] = x
  BY <1>5, <1>6, <1>8, <1>9
<1>12. AcceptsRequest(r) => e.value = FrameOf(r, e.value.tick)
  BY <1>3, <1>6, FoundIsOfPolicy
<1>13. QED
  BY <1>2, <1>8, <1>10, <1>11, <1>12

\* What a thread takes from the cache is the frame of its target, or for a scrub one at
\* most a frame's duration after it, of the request's own path and quality if no other
\* thread has set the cache to another policy in between (get_scrub_at_or_after,
\* decode_monitor_request).
THEOREM HitsAreRight == MonitorSpec => HitIsRight
<1>1. MonitorInv /\ MonitorInv' /\ [MonitorNext]_vars =>
        [\A w \in Worker :
           worker[w].at \in {"lookup", "scrub"} /\ worker'[w].at = "hit" =>
             LET r     == worker[w].request
                 t     == worker[w].target
                 frame == worker'[w].got
             IN /\ \/ frame.tick = FrameFor(t)
                   \/ r.scrub /\ frame.tick \in t..(t + Tolerance)
                /\ AcceptsRequest(r) => frame = FrameOf(r, frame.tick)]_vars
  <2> SUFFICES ASSUME MonitorInv, MonitorInv', MonitorNext, NEW w \in Worker,
                      worker[w].at \in {"lookup", "scrub"}, worker'[w].at = "hit"
               PROVE  LET r     == worker[w].request
                          t     == worker[w].target
                          frame == worker'[w].got
                      IN /\ \/ frame.tick = FrameFor(t)
                            \/ r.scrub /\ frame.tick \in t..(t + Tolerance)
                         /\ AcceptsRequest(r) => frame = FrameOf(r, frame.tick)
    OBVIOUS
  <2>1. LookUp(w) \/ LookNearby(w)
    BY HitsComeFromLookUps
  <2> DEFINE r     == worker[w].request
             t     == worker[w].target
             frame == worker'[w].got
  <2>2. /\ worker'[w].request = r /\ worker'[w].target = t /\ frame \in Frame
        /\ AcceptsRequest(r) => frame = FrameOf(r, frame.tick)
    BY <2>1, HitFound
  <2>3. \/ frame.tick = FrameFor(t)
        \/ r.scrub /\ frame.tick >= t /\ frame.tick <= t + Tolerance
    BY <2>2 DEF MonitorInv, HitIsNear
  <2>4. worker[w] \in State
    BY DEF MonitorInv, WorkersTrue
  <2>5. t \in Nat /\ frame.tick \in Nat /\ Tolerance \in Nat
    BY <2>2, <2>4, StateFacts, TargetFacts, MonitorCacheConstants DEF Frame
  <2>6. frame.tick >= t /\ frame.tick <= t + Tolerance => frame.tick \in t..(t + Tolerance)
    <3> HIDE DEF t, frame
    <3>1. QED
      BY <2>5
  <2>7. QED
    BY <2>2, <2>3, <2>6
<1>2. QED
  BY <1>1, MonitorInvariant, PTL DEF MonitorSpec, HitIsRight

\* Until something was evicted, the latest target of a stream is in the cache, whatever
\* the threads insert in between (insert, insert_scrub_traversal).
THEOREM LatestStays == MonitorSpec => []LatestIsKept
<1>1. MonitorInv => LatestIsKept
  BY DEF MonitorInv, KeptTrue
<1>2. QED
  BY <1>1, MonitorInvariant, PTL
=============================================================================
