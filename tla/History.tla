------------------------------ MODULE History ------------------------------
(***************************************************************************)
(* What the editor promises of undo and redo: a line of views of the       *)
(* document with the present one in it.  An edit forgets what was undone,  *)
(* undo and redo walk along the line, and a fact learned late, the length  *)
(* of a media, revises every view of it as if it had been known.           *)
(***************************************************************************)
EXTENDS Naturals, SequencesExt

CONSTANTS Facts, Learned(_, _), Capacity

VARIABLES past, present, future

line == <<past, present, future>>

HistoryInit == future = <<>>

Do ==
    /\ past' = Append(IF Len(past) = Capacity THEN Tail(past) ELSE past, present)
    /\ future' = <<>>

Back ==
    /\ past # <<>>
    /\ present' = Last(past)
    /\ past' = Front(past)
    /\ future' = Append(future, present)

Forth ==
    /\ future # <<>>
    /\ present' = Last(future)
    /\ future' = Front(future)
    /\ past' = Append(past, present)

Revise ==
    \E f \in Facts :
        /\ present' = Learned(present, f)
        /\ past' = [i \in DOMAIN past |-> Learned(past[i], f)]
        /\ future' = [i \in DOMAIN future |-> Learned(future[i], f)]

HistoryNext == line' # line /\ (Do \/ Back \/ Forth \/ Revise)

Spec == HistoryInit /\ [][HistoryNext]_line
=============================================================================
