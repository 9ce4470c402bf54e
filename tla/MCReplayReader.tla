--------------------------- MODULE MCReplayReader ---------------------------
(***************************************************************************)
(* Instance of ReplayReader for TLC: two threads that read a replay of one *)
(* file with two packets of the same time.                                 *)
(***************************************************************************)
EXTENDS ReplayReader

CONSTANTS r1, r2

MCRecordings == {<< <<[time |-> 1], [time |-> 1]>> >>}
=============================================================================
