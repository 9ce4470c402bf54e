----------------------------- MODULE ParseReplay -----------------------------
(***************************************************************************)
(* LoadFromReader: a parser takes packets from a reader and parses each    *)
(* (ParserState::ParsePacket) until the reader has no more, the replay's   *)
(* end marker is parsed, or the reader throws.  Every parser has a thread, *)
(* a reader of its own of the same replay, and a state of its own.         *)
(*                                                                         *)
(* The packets modelled are the ones reflection data depends on: creation  *)
(* and destruction of entities, reflection, and the end marker.            *)
(***************************************************************************)
EXTENDS ReplayReader, MpiQueue

ASSUME ParserAssumption == Parser = Reader

\* The packets that are modelled.
Packet ==
  [type : {"create"}, time : Nat, entity : Entity, kind : Kind \ {"absent"}]
    \cup [type : {"destroy"}, time : Nat, entity : Entity]
    \cup [type : {"reflect"}, time : Nat, data : Seq(Reflectable)]
    \cup [type : {"end"}, time : Nat]

ASSUME PacketAssumption == Recordings \subseteq Seq(Seq(Packet))

VARIABLE parsed \* packets each parser has parsed, with the time given to each

vars == <<readerVars, mpiVars, parsed>>

Init ==
  /\ ReaderInit
  /\ MpiInit
  /\ parsed = [p \in Parser |-> << >>]

\* ParsePacket
Apply(p, packet) ==
  CASE packet.type = "create"  -> CreateEntity(p, packet.entity, packet.kind)
    [] packet.type = "destroy" -> DestroyEntity(p, packet.entity)
    [] packet.type = "reflect" -> Reflect(p, packet.data)
    [] packet.type = "end"     -> UNCHANGED mpiVars

\* getNextPacket has a packet and ParsePacket parses it.
ParseNext(p) ==
  LET packet == Segment(p)[at[p].next]
  IN  /\ HasPacket(p)
      /\ Deliver(p, packet.type # "end")
      /\ Apply(p, packet)
      /\ parsed' = [parsed EXCEPT ![p] = Append(@, [packet EXCEPT !.time = TimeOf(p)])]
      /\ UNCHANGED <<recording, streaming, counted, files>>

Step(p) ==
  \/ ParseNext(p)
  \/ FileStep(p) /\ UNCHANGED <<mpiVars, parsed>>

AllFinished == \A p \in Parser : Finished(p)

Next == (\E p \in Parser : Step(p)) \/ (AllFinished /\ UNCHANGED vars)

\* Every parser's thread runs.
Spec == Init /\ [][Next]_vars /\ \A p \in Parser : WF_vars(Step(p))

-----------------------------------------------------------------------------
(* Properties *)

\* What a reader that never throws gives its parser: the files one after the other,
\* up to an end marker or a file, other than the first, that has no packet.
IsEnd(packet) == packet.type = "end"

Given(segments) ==
  LET empty == {s \in 2 .. Len(segments) : segments[s] = << >>}
      last  == IF empty = {} THEN Len(segments)
               ELSE CHOOSE s \in empty : \A t \in empty : s <= t
      all   == FlattenSeq(SubSeq(segments, 1, last))
      ends  == {i \in DOMAIN all : IsEnd(all[i])}
  IN  IF ends = {} THEN all
      ELSE SubSeq(all, 1, CHOOSE i \in ends : \A j \in ends : i <= j)

\* A parser parses the packets of the files in order, each once and with its
\* recorded time, and all of them unless its reader threw.
ReadInOrder ==
  \A p \in Parser :
    /\ IsPrefix(parsed[p], Given(recording))
    /\ step[p] = "ended" => parsed[p] = Given(recording)

\* The reflection data in a sequence of packets for entity e, in order.
DataOf(packet) == IF packet.type = "reflect" THEN packet.data ELSE << >>

For(e) == {r \in Reflectable : r.entity = e}

DataFor(packets, e) ==
  Kept(FlattenSeq([i \in DOMAIN packets |-> DataOf(packets[i])]), For(e))

Creates(packet, e) == packet.type = "create" /\ packet.entity = e

Destroys(packet, e) == packet.type = "destroy" /\ packet.entity = e

\* Packet i of done creates e, which is not there, and makes it a unit.
MakesUnit(done, e, i) ==
  /\ Creates(done[i], e) /\ done[i].kind \in Unit
  /\ \A j \in 1 .. i - 1 : Creates(done[j], e) => \E k \in j + 1 .. i - 1 : Destroys(done[k], e)

\* Packet i of done destroys a unit e.
EndsUnit(done, e, i) ==
  /\ Destroys(done[i], e)
  /\ \E j \in 1 .. i - 1 :
       MakesUnit(done, e, j) /\ \A k \in j + 1 .. i - 1 : ~Destroys(done[k], e)

\* The last packet of done that destroyed a unit e, or the first packet.
Since(done, e) ==
  LET ends == {i \in DOMAIN done : EndsUnit(done, e, i)}
  IN  IF ends = {} THEN 1 ELSE CHOOSE i \in ends : \A j \in ends : j <= i

\* What a unit's objects are given is what was recorded for them since the entity
\* last stopped being a unit: data that came before the unit is neither lost nor
\* repeated nor overtaken, and an object is never given that of another type.
AppliedInOrder ==
  \A p \in Parser, e \in Entity :
    LET done  == parsed[p]
        given == DataFor(SubSeq(done, Since(done, e), Len(done)), e)
    IN  kind[p][e] \in Unit =>
          applied[p][e] = Kept(given, {r \in Reflectable :
                                         /\ kind[p][e] # "modelless"
                                         /\ r.object \in {"weapons", kind[p][e]}})

\* Every parser finishes, and then no data is kept for anyone but a reader that
\* threw (LoadFromReader over getNextPacket and load_replay).
ParsersFinish ==
  <>(AllFinished /\ \A s \in DOMAIN recording : failed[s] = 0 => zlibData[s] = "none")
=============================================================================
