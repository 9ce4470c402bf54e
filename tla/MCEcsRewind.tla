---------------------------- MODULE MCEcsRewind ----------------------------
(***************************************************************************)
(* Instance of EcsRewind for TLC.                                          *)
(***************************************************************************)
EXTENDS EcsRewind

CONSTANTS u1, u2, p1

UnitOf(u) == [class |-> "unit", uid |-> u, pid |-> p1]
Stray(u)  == [class |-> "unk", uid |-> u, pid |-> Unset]

\* units, and a uid entity without a unit whose uid is -1
MCKinds == {UnitOf(u1), UnitOf(u2), Stray(Unset)}

\* the smallest instance in which a unit dies and is rewound
MCUnitKinds == {UnitOf(u1)}

\* an entity whose uid is -1
MCUidlessKinds == {UnitOf(u1), Stray(Unset)}
=============================================================================
