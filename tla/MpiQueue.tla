------------------------------ MODULE MpiQueue ------------------------------
(***************************************************************************)
(* Reflection data of units: a reflection packet addresses an object by    *)
(* type and by the entity of its unit (ObjectDispatcher, UnitRef_Dispatch).*)
(* Data for an entity that is not there yet waits in the parser's          *)
(* MpiQueueObject until the unit appears (on_unit_appear_mpi_es).          *)
(*                                                                         *)
(* An entity is absent, a unit with a model for ground or air, a unit      *)
(* without one (unit__ref.unit is null), or no unit at all.  The data of   *)
(* an object is a value; what an object makes of it is not modelled here.  *)
(* applied keeps, for the unit an entity has now, what its objects were    *)
(* given, in order.                                                        *)
(***************************************************************************)
EXTENDS Integers, Sequences, SequencesExt

CONSTANTS
  Parser, \* ParserStates
  Entity, \* entity ids of the server
  Value   \* what the data of an object may be

VARIABLES
  kind,    \* kind of each parser's entities
  queued,  \* mpi_queue.dispatched_objects
  applied  \* deserialize calls of the objects of a unit

mpiVars == <<kind, queued, applied>>

Kind == {"absent", "ground", "air", "modelless", "other"}

Unit == {"ground", "air", "modelless"}

\* Data for an object of the unit an entity is.
Reflectable == [entity : Entity, object : {"ground", "air", "weapons"}, value : Value]

\* What of s is in S, in order.
Kept(s, S) == FlattenSeq([i \in DOMAIN s |-> IF s[i] \in S THEN <<s[i]>> ELSE << >>])

MpiInit ==
  /\ kind = [p \in Parser |-> [e \in Entity |-> "absent"]]
  /\ queued = [p \in Parser |-> [e \in Entity |-> << >>]]
  /\ applied = [p \in Parser |-> [e \in Entity |-> << >>]]

\* The object of the addressed type a unit of kind k has: its model, or its weapons.
Takes(k, object) ==
  k \in {"ground", "air"} /\ (object = "weapons" \/ object = k)

Taken(k) == {r \in Reflectable : Takes(k, r.object)}

\* UnitRef_Dispatch and deserialize for one reflectable: applied, queued or skipped.
Reflected(state, r) ==
  LET k == state.kind[r.entity]
  IN  IF k \notin Unit
      THEN [state EXCEPT !.queued[r.entity] = Append(@, r)]
      ELSE IF Takes(k, r.object)
      THEN [state EXCEPT !.applied[r.entity] = Append(@, r)]
      ELSE state

State(p) == [kind |-> kind[p], queued |-> queued[p], applied |-> applied[p]]

Become(p, state) ==
  /\ kind' = [kind EXCEPT ![p] = state.kind]
  /\ queued' = [queued EXCEPT ![p] = state.queued]
  /\ applied' = [applied EXCEPT ![p] = state.applied]

\* deserializeReflectables: the reflectables of a packet in order.
Reflect(p, reflectables) ==
  LET after[n \in 0 .. Len(reflectables)] ==
        IF n = 0 THEN State(p) ELSE Reflected(after[n - 1], reflectables[n])
  IN  Become(p, after[Len(reflectables)])

\* Mutant of Appeared: what was queued stays queued.
AppearedKept(state, e, k) ==
  [state EXCEPT !.kind[e] = k,
                !.applied[e] = IF k \in Unit THEN Kept(state.queued[e], Taken(k)) ELSE << >>]

\* An entity of kind k appears: on_unit_appear_mpi_es hands a unit what waits for it
\* and drops the queue, a unit without a model only drops it, and the entity of no
\* unit leaves it.
Appeared(state, e, k) ==
  [state EXCEPT !.kind[e] = k,
                !.applied[e] = IF k \in Unit THEN Kept(state.queued[e], Taken(k)) ELSE << >>,
                !.queued[e] = IF k \in Unit THEN << >> ELSE @]

\* readConstructionPacket: an entity that exists is left alone.
CreateEntity(p, e, k) ==
  IF kind[p][e] = "absent" THEN Become(p, Appeared(State(p), e, k))
  ELSE UNCHANGED mpiVars

\* readDestructionPacket
DestroyEntity(p, e) ==
  /\ kind' = [kind EXCEPT ![p][e] = "absent"]
  /\ applied' = [applied EXCEPT ![p][e] = << >>]
  /\ UNCHANGED queued
=============================================================================
