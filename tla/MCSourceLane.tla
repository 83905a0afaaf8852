---------------------------- MODULE MCSourceLane ----------------------------
(* Small instances of SourceLane for TLC. *)
EXTENDS SourceLane, TLC

CONSTANTS f1, f2, f3, b1, d1, d2, d3, k1, k2, a2

\* A decoder with one slot; decoders whose foreground slots may show the same source.
OneForeground == f1 :> d1
OneBackground == b1 :> d1
ThreeDecoders == (f1 :> d1) @@ (f2 :> d2) @@ (f3 :> d3)

\* Actor identities are interchangeable; sources are too.
LaneSymmetry == Permutations(Actor) \cup Permutations(Key)

-----------------------------------------------------------------------------
(* Two decoders share the actor of a source while a third, with a source of  *)
(* its own, holds the permit they need, and keeps it or gives it up.         *)

\* The third has been answered, and the session of its actor stays open.
PermitTaken ==
  /\ lease[f3].actor = a2 /\ a2 \in session /\ pc[a2] = "scan"
  /\ event[d3] = NoRequest

\* The third asks first, and the last request supersedes what it meets.
Asks(e, r) ==
  /\ r.scrubbing = (r.id = MaxRequest)
  /\ IF e = f3 THEN lastRequest = 0 /\ r.key = k2
     ELSE r.key = k1 /\ (lastRequest > 1 \/ PermitTaken)

\* One of the two may also cancel and give up its lease.
Shares(e) ==
  \/ \E r \in Request : Asks(e, r) /\ LaneRequest(e, r)
  \/ LaneAcquire(e)
  \/ e = f1 /\ lastRequest > 1 /\ LaneCancel(e)
  \/ e = f1 /\ lastRequest > 1 /\ LaneRelease(e)
  \/ e = f3 /\ PermitTaken /\ LaneRelease(e)

\* LaneNext without Progress, which touches neither queues nor slots.
SharedNext ==
  \/ \E e \in Endpoint : Shares(e)
  \/ \E d \in Decoder : Receive(d)
  \/ \E a \in Actor : Work(a) \/ Retarget(a)
  \/ LaneReap

\* The fairness of LaneSpec.
SharedSpec ==
  /\ LaneInit /\ [][SharedNext]_laneVars
  /\ WF_laneVars(LaneReap)
  /\ \A a \in Actor : WF_laneVars(Work(a))
  /\ \A e \in Endpoint : WF_laneVars(LaneAcquire(e))
=============================================================================
