------------------------- MODULE MCEcsRewindHistory -------------------------
(***************************************************************************)
(* Instance of EcsRewindHistory for TLC.                                   *)
(***************************************************************************)
EXTENDS EcsRewindHistory

CONSTANTS u1, p1

MCKinds == {[class |-> "unit", uid |-> u1, pid |-> p1],
            [class |-> "unk", uid |-> u1, pid |-> Unset]}
=============================================================================
