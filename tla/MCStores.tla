------------------------------- MODULE MCStores -------------------------------
(***************************************************************************)
(* Three stores on small instances: the frames of nle-cache, the monitor's *)
(* frame cache, the files of a project.  They do not interact; one of them *)
(* moves in each behaviour.                                                *)
(***************************************************************************)
EXTENDS FrameCache, MonitorCache, ProjectStore, TLC

CONSTANTS Payload, MaxSize

VARIABLE part   \* the store that moves

frameVars   == <<entries, used, next, answer>>
monitorVars == <<kept, policy, worker>>
allVars     == <<part, frameVars, monitorVars, storeVars>>

\* The payload tells two frames of a key apart.
Sized == [size : 1..MaxSize, rgba : Payload]

\* A request, and the requests that differ from it in one respect.
Plain == [epoch |-> 1, media |-> "m1", path |-> "p", quality |-> "fine", scrub |-> FALSE]

Requests == {Plain,
             [Plain EXCEPT !.scrub = TRUE],
             [Plain EXCEPT !.quality = "fast"],
             [Plain EXCEPT !.path = "q"],
             [Plain EXCEPT !.epoch = 2],
             [Plain EXCEPT !.media = "m2"]}

Symmetric == Permutations(Worker)

StoresInit == /\ part \in {"frames", "monitor", "files"}
              /\ FrameCacheInit /\ CacheInit
              /\ StoreInit /\ (part # "files" => primary = Absent)

StoresNext == /\ part' = part
              /\ \/ part = "frames"  /\ CacheNext   /\ UNCHANGED <<monitorVars, storeVars>>
                 \/ part = "monitor" /\ MonitorNext /\ UNCHANGED <<frameVars, storeVars>>
                 \/ part = "files"   /\ StoreNext   /\ UNCHANGED <<frameVars, monitorVars>>

StoresSpec == StoresInit /\ [][StoresNext]_allVars
=============================================================================
