------------------------------ MODULE EcsRewind ------------------------------
(***************************************************************************)
(* The entity store of one replay and its time machine: EntityManager      *)
(* (entity descriptors, creation and destruction, component replication),  *)
(* ECSRewindManager (the action history, RewindMgr::iterateToIndex), the   *)
(* uid and player handlers that run inside the events those operations     *)
(* send, and the parts of ParserState that drive them.                     *)
(*                                                                         *)
(* A replay is parsed once, front to back; every creation, destruction and *)
(* component update leaves an action in `history`.  After the end marker   *)
(* the state can be moved to any time: actions are undone or redone one by *)
(* one.  Nothing is ever freed while the replay lives: the chunk of        *)
(* components of a destroyed (or not yet created) entity is parked in a    *)
(* storage index above the server's range, and the descriptors of the two  *)
(* indices are swapped each time the entity appears or vanishes.           *)
(*                                                                         *)
(* Abstractions: an entity's chunk is named by the storage index allocated *)
(* with it; one component value stands for all replicated components; a    *)
(* handle is the pair <<index, generation>>; a G_ASSERT that fails throws, *)
(* which is the terminal `fault`.  Handlers that only write a component of *)
(* the entity they run for (rockets, bombs, payloads) are left out.        *)
(***************************************************************************)
EXTENDS Integers, Sequences

CONSTANTS
  Reserved,     \* RESERVED_EID_RANGE: the server's indices are 1..Reserved
  Generation,   \* generations a server handle may carry
  Uid,          \* unit ids
  Player,       \* indices of ParserState::players
  Value,        \* values of the replicated component
  Kind,         \* component sets an entity may be created with
  None,         \* no chunk / no unit / no timestamp
  Unset,        \* a uid or player component that holds -1
  MayCheckIndex, \* are builds whose vectors check their indices included?
  MaxTime,      \* bound: last packet timestamp
  MaxActions    \* bound: length of the action history

ASSUME BoundsAssumption ==
  /\ MayCheckIndex \in BOOLEAN
  /\ Reserved \in Nat \ {0}
  /\ MaxTime \in Nat
  /\ MaxActions \in Nat

\* globalGen of EntityDescs.h; storage handles always carry it.
GlobalGen == 1

ASSUME GenerationAssumption == Generation \subseteq Nat \ {0}

ASSUME KindAssumption ==
  Kind \subseteq [class : {"unit", "unk", "plain"},
                  uid : Uid \cup {Unset}, pid : Player \cup {Unset}]

Invalid     == <<0, 0>>                          \* INVALID_ENTITY_ID
EndOfTime   == MaxTime + 1                       \* 0xFFFFFFFF
ServerIndex == 1 .. Reserved
Chunk       == (Reserved + 1) .. (Reserved + MaxActions)
Index       == ServerIndex \cup Chunk
ServerEid   == ServerIndex \X Generation
Storage(c)  == <<c, GlobalGen>>
Eid         == ServerEid \cup {Storage(c) : c \in Chunk} \cup {Invalid}
NoKind      == [class |-> "plain", uid |-> Unset, pid |-> Unset]
EmptyDesc   == [chunk |-> None, gen |-> GlobalGen]

ASSUME SentinelAssumption ==
  /\ None \notin Chunk \cup (0 .. EndOfTime)
  /\ Unset \notin Uid \cup Player

VARIABLES
  world,          \* everything the events and swaps touch, see WorldType
  history,        \* ECSRewindManager::timeStates
  currIndex,      \* ECSRewindManager::curr_index, actions applied
  creationOf,     \* eidToEventCreationMap, 0 for a missing key
  basicDestroyed, \* EntityDescs::basic_destroyed
  nextIndex,      \* entDescs.size()
  destroyedAt,    \* unit::Unit::destroyed_at_ms
  deleted,        \* chunks whose unit was deleted
  tearIndex,      \* the loop variable of ~EntityManager
  phase,          \* where the owner of the ParserState is
  mode,           \* loop iterateToIndex is in
  currTime,       \* ParserState::curr_time_ms
  rewindTime,     \* ParserState::current_rewind_ms
  fault           \* the assertion that threw, or "none"

vars == <<world, history, currIndex, creationOf, basicDestroyed, nextIndex,
          destroyedAt, deleted, tearIndex, phase, mode, currTime, rewindTime, fault>>

-----------------------------------------------------------------------------
(* Descriptors *)

ChunkAt(w, e)    == w.desc[e[1]].chunk
EntityExists(w, e) == ChunkAt(w, e) # None /\ w.desc[e[1]].gen = e[2]

\* Mutant of SwapDesc: a move instead of a swap.
SwapDescOneWay(w, a, b) == [w EXCEPT !.desc[b[1]] = w.desc[a[1]]]

SwapDesc(w, a, b) ==
  [w EXCEPT !.desc = [@ EXCEPT ![a[1]] = w.desc[b[1]], ![b[1]] = w.desc[a[1]]]]

SetEidComponent(w, e, new) == [w EXCEPT !.eid[ChunkAt(w, e)] = new]

-----------------------------------------------------------------------------
(* Event handlers *)

HasUid(k)  == k.class \in {"unit", "unk"}
HasUnit(k) == k.class = "unit"

UnitEid(w, u) == IF u = Unset THEN Invalid ELSE w.uidEid[u]

SetUnitData(w, u, unit, e) ==
  IF u = Unset THEN w
  ELSE [w EXCEPT !.uidEid[u] = e, !.uidUnit[u] = unit]

SetCurrEid(w, c, e) ==
  IF HasUnit(w.kind[c]) THEN [w EXCEPT !.currEid[c] = e] ELSE w

\* uid_entity_es and mplayer_add_entity_es on EventEntityCreatedBasic
UidAppears(w, e) ==
  LET c == ChunkAt(w, e)
      k == w.kind[c]
  IN  IF HasUid(k) /\ k.uid # Unset
      THEN SetCurrEid(SetUnitData(w, k.uid, IF HasUnit(k) THEN c ELSE None, e), c, e)
      ELSE w

Owns(k) == HasUnit(k) /\ k.pid # Unset

\* mplayer_add_entity_es on EventEntityCreated, which is sent once in an entity's
\* life: allOwnedUnits only grows.
OnCreated(w, e) ==
  LET c == ChunkAt(w, e)
  IN  IF Owns(w.kind[c]) THEN [w EXCEPT !.allOwned[w.kind[c].pid] = Append(@, c)]
      ELSE w

\* Mutant of PlayerGains: the unit is listed again each time it appears.
PlayerGainsAgain(w, c) ==
  IF Owns(w.kind[c])
  THEN [w EXCEPT !.owned[w.kind[c].pid] = @ \cup {c},
                 !.allOwned[w.kind[c].pid] = Append(@, c)]
  ELSE w

PlayerGains(w, c) ==
  IF Owns(w.kind[c]) THEN [w EXCEPT !.owned[w.kind[c].pid] = @ \cup {c}] ELSE w

OnCreatedBasic(w, e) == PlayerGains(UidAppears(w, e), ChunkAt(w, e))

CreatedBasicAsserts(w, e) ==
  LET k == w.kind[ChunkAt(w, e)]
  IN  HasUid(k) /\ k.uid # Unset => UnitEid(w, k.uid) = Invalid

\* Mutant of UidVanishes: the lookups are not reset.
UidVanishesUnseen(w, e, new) == SetCurrEid(w, ChunkAt(w, e), new)

\* the same handlers on EventEntityDestroyedBasic{new, ...}
UidVanishes(w, e, new) ==
  LET c == ChunkAt(w, e)
      k == w.kind[c]
  IN  IF HasUid(k)
      THEN SetCurrEid(SetUnitData(w, k.uid, None, Invalid), c, new)
      ELSE w

\* Mutant of PlayerLoses: the unit stays with its player.
PlayerLosesNothing(w, c) == w

PlayerLoses(w, c) ==
  IF Owns(w.kind[c]) THEN [w EXCEPT !.owned[w.kind[c].pid] = @ \ {c}] ELSE w

OnDestroyedBasic(w, e, new) == PlayerLoses(UidVanishes(w, e, new), ChunkAt(w, e))

DestroyedBasicAsserts(w, e) ==
  LET k == w.kind[ChunkAt(w, e)]
  IN  HasUid(k) => UnitEid(w, k.uid) # Invalid

\* destroyed_at_ms is written when the event says the entity was destroyed
StampDestroyed(stamps, w, e, t) ==
  IF HasUnit(w.kind[ChunkAt(w, e)]) THEN [stamps EXCEPT ![ChunkAt(w, e)] = t]
  ELSE stamps

-----------------------------------------------------------------------------
(* Moving an entity in and out of the server's index *)

\* Mutant of Appear: the eid component is left alone.
AppearUnnamed(w, before, after) == OnCreatedBasic(SwapDesc(w, before, after), after)

Appear(w, before, after) ==
  LET swapped == SwapDesc(w, before, after)
  IN  OnCreatedBasic(SetEidComponent(swapped, after, after), after)

AppearFault(w, before, after) ==
  LET swapped == SwapDesc(w, before, after)
  IN  IF ~EntityExists(swapped, after) THEN "entity"
      ELSE IF ~CreatedBasicAsserts(swapped, after) THEN "uid"
      ELSE "none"

Vanish(w, before, after) ==
  SwapDesc(OnDestroyedBasic(SetEidComponent(w, after, before), after, before),
           before, after)

VanishFault(w, after) ==
  IF ~EntityExists(w, after) THEN "entity"
  ELSE IF ~DestroyedBasicAsserts(w, after) THEN "uid"
  ELSE "none"

SwapValue(w, e, v) == [w EXCEPT !.value[ChunkAt(w, e)] = v]

(* The action history *)

Action(t, op, before, after, held) ==
  [time |-> t, op |-> op, before |-> before, after |-> after, held |-> held,
   dir |-> "fastforward"]

\* Mutant of EmplaceNew: size() is read after the append.
EmplaceNewLate(a) ==
  /\ history' = Append(history, a)
  /\ currIndex' = Len(history') + 1

\* emplaceNew: curr_index is set to size() + 1 before the append
EmplaceNew(a) ==
  /\ currIndex' = Len(history) + 1
  /\ history' = Append(history, a)

RedoFault(w, a) ==
  IF a.dir # "rewind" THEN "direction"
  ELSE CASE a.op = "create"  -> AppearFault(w, a.before, a.after)
         [] a.op = "destroy" -> VanishFault(w, a.after)
         [] OTHER -> IF ChunkAt(w, a.after) = None THEN "entity" ELSE "none"

UndoFault(w, a) ==
  IF a.dir # "fastforward" THEN "direction"
  ELSE CASE a.op = "create"  -> VanishFault(w, a.after)
         [] a.op = "destroy" -> AppearFault(w, a.before, a.after)
         [] OTHER -> IF ChunkAt(w, a.after) = None THEN "entity" ELSE "none"

Redone(w, a) ==
  CASE a.op = "create"  -> Appear(w, a.before, a.after)
    [] a.op = "destroy" -> Vanish(w, a.before, a.after)
    [] OTHER -> SwapValue(w, a.after, a.held)

Undone(w, a) ==
  CASE a.op = "create"  -> Vanish(w, a.before, a.after)
    [] a.op = "destroy" -> Appear(w, a.before, a.after)
    [] OTHER -> SwapValue(w, a.after, a.held)

\* Mutants of Flipped: the direction is not recorded; the value is not swapped.
FlippedSilently(w, a, dir) ==
  [a EXCEPT !.held = IF a.op = "update" THEN w.value[ChunkAt(w, a.after)] ELSE @]

FlippedKeepingValue(w, a, dir) == [a EXCEPT !.dir = dir]

\* what the action object holds afterwards: an update swaps its copy with the
\* live component
Flipped(w, a, dir) ==
  [a EXCEPT !.dir = dir,
            !.held = IF a.op = "update" THEN w.value[ChunkAt(w, a.after)] ELSE @]

-----------------------------------------------------------------------------
(* Parsing: the packets the server recorded, in order *)

EmptyWorld ==
  [desc    |-> [i \in Index |-> EmptyDesc],
   kind    |-> [c \in Chunk |-> NoKind],
   eid     |-> [c \in Chunk |-> Invalid],
   value   |-> [c \in Chunk |-> None],
   currEid |-> [c \in Chunk |-> Invalid],
   uidEid  |-> [u \in Uid |-> Invalid],
   uidUnit |-> [u \in Uid |-> None],
   owned   |-> [p \in Player |-> {}],
   allOwned |-> [p \in Player |-> << >>]]

Init ==
  /\ world = EmptyWorld
  /\ history = << >>
  /\ currIndex = 0
  /\ creationOf = [e \in ServerEid |-> 0]
  /\ basicDestroyed = {}
  /\ nextIndex = Reserved + 1
  /\ destroyedAt = [c \in Chunk |-> None]
  /\ deleted = {}
  /\ tearIndex = 1
  /\ phase = "parsing"
  /\ mode = "idle"
  /\ currTime = 0
  /\ rewindTime = 0
  /\ fault = "none"

\* ParsePacket: the packet's timestamp becomes the current time.
PacketAt(t) ==
  /\ phase = "parsing"
  /\ fault = "none"
  /\ t >= currTime
  /\ currTime' = t
  /\ rewindTime' = t
  /\ UNCHANGED <<mode, deleted, tearIndex>>

HistoryHasRoom == Len(history) < MaxActions

\* The server gives a uid to one entity at a time (what the G_ASSERT of
\* uid_entity_es demands of the recorded stream).
ServerKeepsUidsUnique(k) ==
  HasUid(k) /\ k.uid # Unset => UnitEid(world, k.uid) = Invalid

\* The creation's index in the history, kept by server handle.  The mutant is one
\* too low.
RecordedEarly(e) == [creationOf EXCEPT ![e] = Len(history)]

Recorded(e) == [creationOf EXCEPT ![e] = Len(history) + 1]

\* createEntity: components are constructed at the server's index, a storage
\* index is allocated and paired with it, then the two events run.
Created(w, e, k, v, c) ==
  LET placed == [w EXCEPT !.desc[e[1]] = [chunk |-> c, gen |-> e[2]],
                          !.kind[c] = k, !.eid[c] = e, !.value[c] = v]
  IN  OnCreatedBasic(OnCreated(placed, e), e)

ParseCreate(t, e, k, v) ==
  /\ PacketAt(t)
  /\ HistoryHasRoom
  /\ ServerKeepsUidsUnique(k)
  /\ ChunkAt(world, e) = None   \* else "already existing network entity"
  /\ world' = Created(world, e, k, v, nextIndex)
  /\ EmplaceNew(Action(t, "create", Storage(nextIndex), e, None))
  /\ creationOf' = Recorded(e)
  /\ nextIndex' = nextIndex + 1
  /\ UNCHANGED <<basicDestroyed, destroyedAt, phase, fault>>

\* eidToEventCreationMap[eid].before; operator[] of a missing key yields the
\* first action
StorageOf(e) ==
  history[IF creationOf[e] = 0 THEN 1 ELSE creationOf[e]].before

DestroyFault(e) ==
  IF e[1] \in basicDestroyed THEN "basic_destroyed" ELSE VanishFault(world, e)

ParseDestroy(t, e) ==
  LET storage == StorageOf(e)
  IN  /\ PacketAt(t)
      /\ HistoryHasRoom
      /\ EntityExists(world, e)   \* else "already destroyed?"
      /\ DestroyFault(e) = "none"
      /\ creationOf' = [creationOf EXCEPT ![e] = 0]
      /\ world' = Vanish(world, storage, e)
      /\ destroyedAt' = StampDestroyed(destroyedAt, world, e, t)
      /\ basicDestroyed' = basicDestroyed \cup {storage[1]}
      /\ EmplaceNew(Action(t, "destroy", storage, e, None))
      /\ UNCHANGED <<nextIndex, phase, fault>>

\* deserializeComponentReplication: the new value goes live, the action keeps
\* the old one.
ParseUpdate(t, e, v) ==
  /\ PacketAt(t)
  /\ HistoryHasRoom
  /\ EntityExists(world, e)
  /\ world' = SwapValue(world, e, v)
  /\ EmplaceNew(Action(t, "update", Invalid, e, world.value[ChunkAt(world, e)]))
  /\ UNCHANGED <<creationOf, basicDestroyed, nextIndex, destroyedAt, phase, fault>>

\* Packets that leave the entities alone, and creations or destructions the
\* reader skips with a log line.
ParseOther(t) ==
  /\ PacketAt(t)
  /\ UNCHANGED <<world, history, currIndex, creationOf, basicDestroyed,
                 nextIndex, destroyedAt, phase, fault>>

\* EndMarker: replay_length_ms becomes known, rewinding becomes possible.
ParseEnd(t) ==
  /\ PacketAt(t)
  /\ phase' = "ready"
  /\ UNCHANGED <<world, history, currIndex, creationOf, basicDestroyed,
                 nextIndex, destroyedAt, fault>>

\* The assertion of a handler throws out of ParsePacket.
ParseDestroyThrows(t, e) ==
  /\ PacketAt(t)
  /\ EntityExists(world, e)
  /\ DestroyFault(e) # "none"
  /\ fault' = DestroyFault(e)
  /\ UNCHANGED <<world, history, currIndex, creationOf, basicDestroyed,
                 nextIndex, destroyedAt, phase>>

-----------------------------------------------------------------------------
(* Rewinding: iterateToIndex, one action per step *)

\* The head of rewindToMs and of iterateToIndex: clamp, assert, choose a loop.
BeginSeek(t) ==
  LET n == IF currIndex > Len(history) THEN Len(history) ELSE currIndex
  IN  /\ rewindTime' = t
      /\ IF history = << >>
         THEN fault' = "empty" /\ UNCHANGED <<currIndex, mode>>
         ELSE /\ currIndex' = n
              /\ mode' = IF n > 0 /\ history[n].time > t
                         THEN "backward" ELSE "forward"
              /\ UNCHANGED fault
      /\ UNCHANGED <<world, history, creationOf, basicDestroyed, nextIndex,
                     destroyedAt, deleted, tearIndex, currTime>>

RewindTo(t) ==
  /\ phase = "ready"
  /\ mode = "idle"
  /\ fault = "none"
  /\ t # rewindTime
  /\ BeginSeek(t)
  /\ UNCHANGED phase

\* Mutants of the loop conditions: an action at the time sought is undone, or not
\* redone.
MustUndoTies == currIndex > 0 /\ history[currIndex].time >= rewindTime
MustRedoEarlier == currIndex < Len(history) /\ history[currIndex + 1].time < rewindTime

MustUndo == currIndex > 0 /\ history[currIndex].time > rewindTime
MustRedo == currIndex < Len(history) /\ history[currIndex + 1].time <= rewindTime

StepBackward ==
  LET a == history[currIndex]
  IN  /\ mode = "backward"
      /\ fault = "none"
      /\ MustUndo
      /\ UndoFault(world, a) = "none"
      /\ currIndex' = currIndex - 1
      /\ world' = Undone(world, a)
      /\ history' = [history EXCEPT ![currIndex] = Flipped(world, a, "rewind")]
      /\ UNCHANGED <<creationOf, basicDestroyed, nextIndex, destroyedAt, deleted,
                     tearIndex, phase, mode, currTime, rewindTime, fault>>

\* curr_time_ms still holds the time the state is leaving when the handlers of
\* a redone destruction read it.
StepForward ==
  LET a == history[currIndex + 1]
  IN  /\ mode = "forward"
      /\ fault = "none"
      /\ MustRedo
      /\ RedoFault(world, a) = "none"
      /\ currIndex' = currIndex + 1
      /\ world' = Redone(world, a)
      /\ history' = [history EXCEPT ![currIndex + 1] = Flipped(world, a, "fastforward")]
      /\ destroyedAt' = IF a.op = "destroy"
                        THEN StampDestroyed(destroyedAt, world, a.after, currTime)
                        ELSE destroyedAt
      /\ UNCHANGED <<creationOf, basicDestroyed, nextIndex, deleted, tearIndex,
                     phase, mode, currTime, rewindTime, fault>>

StepFault ==
  IF mode = "backward" THEN UndoFault(world, history[currIndex])
  ELSE RedoFault(world, history[currIndex + 1])

StepThrows ==
  /\ fault = "none"
  /\ mode # "idle"
  /\ IF mode = "backward" THEN MustUndo ELSE MustRedo
  /\ StepFault # "none"
  /\ fault' = StepFault
  /\ UNCHANGED <<world, history, currIndex, creationOf, basicDestroyed, nextIndex,
                 destroyedAt, deleted, tearIndex, phase, mode, currTime, rewindTime>>

\* The loop condition fails.  The mutant runs forward to the end of the history.
SeekDoneAtEnd == IF mode = "backward" THEN ~MustUndo ELSE currIndex = Len(history)

SeekDone == IF mode = "backward" THEN ~MustUndo ELSE ~MustRedo

\* The forward loop returns timeStates[curr_index - 1] even if nothing is
\* applied: a reference nobody reads, unless operator[] checks its index
\* (EASTL_ASSERT_ENABLED) and throws.
SeekReturnThrows ==
  /\ MayCheckIndex
  /\ fault = "none"
  /\ mode = "forward"
  /\ SeekDone
  /\ currIndex = 0
  /\ fault' = "index"
  /\ UNCHANGED <<world, history, currIndex, creationOf, basicDestroyed, nextIndex,
                 destroyedAt, deleted, tearIndex, phase, mode, currTime, rewindTime>>

\* rewindToMs ends by publishing the time.
FinishSeek ==
  /\ fault = "none"
  /\ mode # "idle"
  /\ SeekDone
  /\ mode' = "idle"
  /\ currTime' = rewindTime
  /\ phase' = IF phase = "closing" THEN "tearing" ELSE phase
  /\ UNCHANGED <<world, history, currIndex, creationOf, basicDestroyed, nextIndex,
                 destroyedAt, deleted, tearIndex, rewindTime, fault>>

-----------------------------------------------------------------------------
(* Destruction of the ParserState *)

\* ~ParserState rewinds to the end of time; rewindToMs refuses before the end
\* marker and does nothing when it is already there.
BeginShutdown ==
  /\ phase \in {"parsing", "ready"}
  /\ mode = "idle"
  /\ fault = "none"
  /\ IF phase = "ready" /\ rewindTime # EndOfTime
     THEN phase' = "closing" /\ BeginSeek(EndOfTime)
     ELSE /\ phase' = "tearing"
          /\ UNCHANGED <<world, history, currIndex, creationOf, basicDestroyed,
                         nextIndex, destroyedAt, deleted, tearIndex, mode,
                         currTime, rewindTime, fault>>

\* Mutant of TearEvent: only EventEntityDestroyed is sent.
TearEventSkipped(i) == world

\* destroyEntity(eid, is_dtor) of ~EntityManager on the handle the descriptor
\* carries
TearEvent(i) ==
  IF i \in basicDestroyed THEN world
  ELSE OnDestroyedBasic(world, <<i, world.desc[i].gen>>, Invalid)

TearFault(i) ==
  IF i \notin basicDestroyed
     /\ ~DestroyedBasicAsserts(world, <<i, world.desc[i].gen>>)
  THEN "uid" ELSE "none"

\* Mutant of Occupied: entities parked in storage are passed over.
OccupiedByServer(i) == i \in ServerIndex /\ world.desc[i].chunk # None

\* doesEntityExistInternal
Occupied(i) == world.desc[i].chunk # None

\* The descriptor after its chunk is freed
FreedDesc(d) == [chunk |-> None, gen |-> d.gen + 1]

\* ~EntityManager visits every index from 1 to entDescs.size() - 1 once.
Visiting(i) ==
  /\ phase = "tearing"
  /\ fault = "none"
  /\ i = tearIndex
  /\ i < nextIndex
  /\ UNCHANGED <<history, currIndex, creationOf, basicDestroyed, nextIndex,
                 phase, mode, currTime, rewindTime>>

TearDown(i) ==
  LET c == world.desc[i].chunk
      w == TearEvent(i)
  IN  /\ Visiting(i)
      /\ Occupied(i)
      /\ fault' = TearFault(i)
      /\ IF fault' = "none"
         THEN /\ world' = [w EXCEPT !.eid[c] = Invalid,
                             !.desc[i] = FreedDesc(@)]
              /\ deleted' = IF HasUnit(world.kind[c]) THEN deleted \cup {c}
                            ELSE deleted
              /\ destroyedAt' =
                   IF i \in basicDestroyed THEN destroyedAt
                   ELSE StampDestroyed(destroyedAt, world, <<i, 0>>, currTime)
              /\ tearIndex' = i + 1
         ELSE UNCHANGED <<world, deleted, destroyedAt, tearIndex>>

PassEmpty(i) ==
  /\ Visiting(i)
  /\ ~Occupied(i)
  /\ tearIndex' = i + 1
  /\ UNCHANGED <<world, deleted, destroyedAt, fault>>

TornDown ==
  /\ phase = "tearing"
  /\ fault = "none"
  /\ tearIndex >= nextIndex
  /\ phase' = "closed"
  /\ UNCHANGED <<world, history, currIndex, creationOf, basicDestroyed, nextIndex,
                 destroyedAt, deleted, tearIndex, mode, currTime, rewindTime, fault>>

-----------------------------------------------------------------------------

Parse ==
  \E t \in 0 .. MaxTime :
    \/ \E e \in ServerEid :
         \/ \E k \in Kind, v \in Value : ParseCreate(t, e, k, v)
         \/ ParseDestroy(t, e)
         \/ \E v \in Value : ParseUpdate(t, e, v)
         \/ ParseDestroyThrows(t, e)
    \/ ParseOther(t)
    \/ ParseEnd(t)

Seek ==
  \/ StepBackward \/ StepForward \/ FinishSeek
  \/ StepThrows \/ SeekReturnThrows

Next ==
  \/ Parse
  \/ \E t \in 0 .. EndOfTime : RewindTo(t)
  \/ Seek
  \/ BeginShutdown
  \/ \E i \in Index : TearDown(i) \/ PassEmpty(i)
  \/ TornDown

\* rewindToMs is an ordinary call on one thread: once begun it runs to its end.
\* Nothing forces a caller to parse, to rewind or to close the replay.
Fairness == WF_vars(Seek)

Spec == Init /\ [][Next]_vars

FairSpec == Spec /\ Fairness
-----------------------------------------------------------------------------
(* Properties *)

Seconds == 0 .. EndOfTime

ActionType ==
  [time : 0 .. MaxTime, op : {"create", "destroy", "update"},
   before : Eid, after : ServerEid, held : Value \cup {None},
   dir : {"fastforward", "rewind"}]

WorldType ==
  [desc    : [Index -> [chunk : Chunk \cup {None}, gen : Nat]],
   kind    : [Chunk -> Kind \cup {NoKind}],
   eid     : [Chunk -> Eid],
   value   : [Chunk -> Value \cup {None}],
   currEid : [Chunk -> Eid],
   uidEid  : [Uid -> Eid],
   uidUnit : [Uid -> Chunk \cup {None}],
   owned   : [Player -> SUBSET Chunk],
   allOwned : [Player -> Seq(Chunk)]]

\* Every variable keeps its type; curr_index stays within the history, which
\* is what getState and the loops of iterateToIndex index with.
TypeOK ==
  /\ world \in WorldType
  /\ history \in Seq(ActionType)
  /\ currIndex \in 0 .. Len(history)
  /\ creationOf \in [ServerEid -> 0 .. Len(history)]
  /\ basicDestroyed \subseteq Chunk
  /\ nextIndex \in (Reserved + 1) .. (Reserved + MaxActions + 1)
  /\ destroyedAt \in [Chunk -> Seconds \cup {None}]
  /\ deleted \subseteq Chunk
  /\ tearIndex \in 1 .. nextIndex
  /\ phase \in {"parsing", "ready", "closing", "tearing", "closed"}
  /\ mode \in {"idle", "backward", "forward"}
  /\ currTime \in Seconds
  /\ rewindTime \in Seconds
  /\ fault \in {"none", "direction", "entity", "uid", "empty", "index",
                "basic_destroyed"}

\* The asserts of the rewind actions and of destroyEntity never fire: no action
\* runs twice in one direction, a handle an action names always resolves, and a
\* parked chunk is never parked again (EntityManager.cpp:17-84, 331).
RewindNeverAsserts == fault \notin {"direction", "entity", "basic_destroyed"}

\* Every action says which side of curr_index it is on: the ones before it are
\* applied, the ones after it undone (last_direction of rewind.h).
DirectionMatches ==
  \A i \in 1 .. Len(history) :
    history[i].dir = IF i <= currIndex THEN "fastforward" ELSE "rewind"

\* The history is ordered by time, as the early exits of iterateToIndex and the
\* binary searches of goToIndex need.
HistorySorted ==
  \A i, j \in 1 .. Len(history) : i <= j => history[i].time <= history[j].time

\* A finished rewind has applied exactly the actions up to its time, ties
\* included, from whichever side it came.
SeekIsExact ==
  phase = "ready" /\ mode = "idle" /\ fault = "none"
    => \A i \in 1 .. Len(history) : i <= currIndex <=> history[i].time <= rewindTime

Quiet == fault = "none" /\ phase \in {"parsing", "ready", "closing"}

Live(c) == \E i \in ServerIndex : world.desc[i].chunk = c

\* A unit id resolves exactly to the living entity that carries it, in both
\* lookups, at every point of a rewind (uid_lookup, uid_unit_lookup).
UidLookupExact ==
  Quiet => \A u \in Uid :
    /\ \A i \in ServerIndex :
         LET c == world.desc[i].chunk
         IN  c # None /\ HasUid(world.kind[c]) /\ world.kind[c].uid = u
             => /\ world.uidEid[u] = <<i, world.desc[i].gen>>
                /\ world.uidUnit[u] = IF HasUnit(world.kind[c]) THEN c ELSE None
    /\ world.uidEid[u] # Invalid
         => EntityExists(world, world.uidEid[u])
            /\ world.kind[ChunkAt(world, world.uidEid[u])].uid = u

\* A player's current units are the living units it owns, at every point of a
\* rewind (MPlayer::currentOwnedUnits).
OwnedExact ==
  Quiet => \A p \in Player :
    world.owned[p] = {c \in Chunk : Live(c) /\ Owns(world.kind[c]) /\ world.kind[c].pid = p}

\* Swapping descriptors never loses or doubles a chunk: every chunk ever
\* created is at exactly one index, and its eid component is the handle of it.
ChunkAtOneIndex ==
  Quiet => \A c \in (Reserved + 1) .. (nextIndex - 1) :
    \E i \in Index :
      /\ world.desc[i].chunk = c
      /\ world.eid[c][1] = i
      /\ \A j \in Index \ {i} : world.desc[j].chunk # c

\* While a replay is parsed, the map from living entities to their creation
\* actions names the action that created the chunk now at that index, so that
\* destroyEntity parks the chunk where it was first allocated.
CreationMapExact ==
  phase = "parsing" /\ fault = "none"
    => \A e \in ServerEid :
         IF EntityExists(world, e)
         THEN /\ creationOf[e] # 0
              /\ history[creationOf[e]].op = "create"
              /\ history[creationOf[e]].after = e
              /\ history[creationOf[e]].before[1] = ChunkAt(world, e)
         ELSE creationOf[e] = 0

\* Units a player owned in the whole replay: each once, in the order of creation,
\* however often a rewind makes it vanish and appear (MPlayer::allOwnedUnits, which
\* EventEntityCreated adds to and EventEntityCreatedBasic must not).
AllOwnedExact ==
  \A p \in Player :
    LET all == world.allOwned[p]
    IN  /\ \A i, j \in 1 .. Len(all) : i < j => all[i] < all[j]
        /\ {all[i] : i \in 1 .. Len(all)} =
             {c \in (Reserved + 1) .. (nextIndex - 1) :
                Owns(world.kind[c]) /\ world.kind[c].pid = p}

\* While the destructor deletes the units, each leaves the tables that handlers
\* erase from: currentOwnedUnits of its player and uid_unit_lookup never name a
\* deleted unit.  allOwnedUnits is not one of them: nothing erases it, and it
\* names deleted units until the players go too (ParserState.h:85-86).
DeletedUnitsDropped ==
  /\ \A p \in Player : world.owned[p] \cap deleted = {}
  /\ \A u \in Uid : world.uidUnit[u] \notin deleted

\* Closing the replay deletes the units of all entities ever created, the
\* destroyed ones included (on_unit_disappear_es).
UnitsAllFreed ==
  phase = "closed"
    => deleted = {c \in (Reserved + 1) .. (nextIndex - 1) : HasUnit(world.kind[c])}

\* A rewind ends: it publishes its time or throws.
SeekEnds == (mode # "idle") ~> (mode = "idle" \/ fault # "none")

-----------------------------------------------------------------------------
(* What comments and assertions of the sources say, and the code does not do *)

Deaths ==
  {i \in 1 .. Len(history) :
     history[i].op = "destroy" /\ HasUnit(world.kind[history[i].before[1]])}

\* Unit::destroyed_at_ms is the time the unit "was 'destroyed' in ecs"
\* (Unit.h:158).
UnitStampedAtDeath ==
  Quiet => \A i \in Deaths : destroyedAt[history[i].before[1]] = history[i].time

\* An entity whose destruction is announced has its uid registered (assertion
\* of BaseEntityES.cpp.inl:61).
DestroyedUidRegistered == fault # "uid"
=============================================================================
