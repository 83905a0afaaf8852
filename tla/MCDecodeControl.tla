---------------------------- MODULE MCDecodeControl ----------------------------
(***************************************************************************)
(* The control plane of the shared monitor sources on small instances: the *)
(* coordinator with its leases, and the client queue of one of its actors. *)
(* SourceLane joins them at the grain of a submit; here each moves alone,  *)
(* one of them in each behaviour.                                          *)
(***************************************************************************)
EXTENDS SourceCoordinator, ClientQueue

VARIABLE part   \* the one that moves

controlVars == <<part, coordinatorVars, queueVars>>

Coordinates == part = "coordinator" /\ UNCHANGED <<part, queueVars>>
Queues == part = "queue" /\ UNCHANGED <<part, coordinatorVars>>

ControlInit ==
  /\ part \in {"coordinator", "queue"}
  /\ CoordinatorInit /\ QueueInit

ControlNext ==
  \/ Coordinates /\ CoordinatorNext
  \/ Queues /\ QueueNext

\* With the fairness of CoordinatorSpec.
ControlSpec ==
  /\ ControlInit /\ [][ControlNext]_controlVars
  /\ WF_controlVars(Coordinates /\ Reap)
  /\ \A a \in Actor : WF_controlVars(Coordinates /\ ExitActor(a))
=============================================================================
