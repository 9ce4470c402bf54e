---------------------------- MODULE MCParseReplay ----------------------------
(***************************************************************************)
(* Instance of ParseReplay for TLC: two parsers, two entities, recordings  *)
(* of up to three files.                                                   *)
(***************************************************************************)
EXTENDS ParseReplay

CONSTANTS p1, p2, e1, e2

Create(t, e, k) == [type |-> "create", time |-> t, entity |-> e, kind |-> k]
Destroy(t, e)   == [type |-> "destroy", time |-> t, entity |-> e]
Data(e, o, v)   == [entity |-> e, object |-> o, value |-> v]
Reflection(t, d) == [type |-> "reflect", time |-> t, data |-> d]
End(t)          == [type |-> "end", time |-> t]

\* A unit's data before, with and after its creation, in two files.
Early == <<
  <<Reflection(1, <<Data(e1, "ground", 1), Data(e2, "air", 2), Data(e1, "air", 3)>>),
    Create(1, e1, "ground"),
    Reflection(2, <<Data(e1, "weapons", 4), Data(e2, "weapons", 5)>>)>>,
  <<Create(2, e2, "air"),
    Reflection(2, <<Data(e2, "air", 6), Data(e1, "ground", 7)>>),
    End(3)>> >>

\* An entity destroyed and created again, first of no unit, created twice, and without a model.
Again == <<
  <<Reflection(1, <<Data(e1, "air", 1)>>), Create(1, e1, "other"),
    Reflection(2, <<Data(e1, "air", 2), Data(e2, "ground", 3)>>),
    Create(2, e1, "ground"), Destroy(2, e1)>>,
  <<Create(2, e1, "air"), Create(3, e2, "modelless"), Create(3, e1, "ground"),
    Destroy(3, e2), Reflection(4, <<Data(e2, "ground", 4), Data(e1, "air", 5)>>)>>,
  <<Create(4, e2, "ground"), Destroy(4, e1), Reflection(5, <<Data(e1, "weapons", 6)>>),
    Create(5, e1, "ground"), End(6), Destroy(6, e1)>> >>

\* Files without a packet.
Gaps == << << >>, <<Create(1, e1, "air")>>, << >>, <<End(2)>> >>

Truncated == << <<Create(1, e1, "air"), Reflection(1, <<Data(e1, "air", 1)>>)>> >>

MCRecordings == {Early, Again, Gaps, Truncated}
=============================================================================
