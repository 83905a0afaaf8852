--------------------------- MODULE MCProjectSession ---------------------------
(* Small instances of ProjectSession for TLC. *)
EXTENDS ProjectSession

CONSTANT ProjectCount

Projects == 1..ProjectCount
Contents == 1..MaxEdit
=============================================================================
