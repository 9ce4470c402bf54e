--------------------------- MODULE MCSharedState ---------------------------
(***************************************************************************)
(* Instance of SharedState for TLC.  Two long replays create entities of   *)
(* the same and of different templates, move an entity to another          *)
(* template, and free slots to take them again; three short ones need the  *)
(* same new template at once; one fills and frees several chunks.  For     *)
(* some of the entities messages wait.                                     *)
(***************************************************************************)
EXTENDS SharedState

CONSTANTS p1, p2, p3, e1, e2, e3, tank, plane, boat

Create(e, n)  == [op |-> "create", entity |-> e, name |-> n, queued |-> FALSE]
Awaited(e, n) == [op |-> "create", entity |-> e, name |-> n, queued |-> TRUE]
Destroy(e)    == [op |-> "destroy", entity |-> e, name |-> tank, queued |-> FALSE]

MCKnown == <<tank>>

Workload(r1, r2, r3) ==
  [p \in Parser |-> IF p = p1 THEN r1 ELSE IF p = p2 THEN r2 ELSE r3]

MCWorkloads ==
  {Workload(<<Create(e1, plane), Awaited(e2, plane), Destroy(e1), Create(e1, boat)>>,
            <<Create(e1, boat), Destroy(e2), Create(e2, plane), Create(e1, plane)>>,
            << >>),
   Workload(<<Create(e1, plane), Create(e2, boat), Destroy(e1)>>,
            <<Create(e1, tank), Create(e1, boat), Create(e2, boat)>>,
            << >>),
   Workload(<<Awaited(e1, plane), Create(e2, tank)>>, <<Create(e1, plane)>>,
            <<Create(e1, plane)>>),
   Workload(<<Create(e1, plane)>>, <<Create(e1, boat)>>, <<Create(e1, boat)>>),
   Workload(<<Create(e1, tank), Create(e2, tank), Create(e3, tank), Destroy(e1),
              Create(e1, tank), Destroy(e3), Destroy(e2), Create(e2, tank),
              Create(e3, tank)>>,
            <<Create(e1, plane)>>, << >>)}
=============================================================================
