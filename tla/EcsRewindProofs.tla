--------------------------- MODULE EcsRewindProofs ---------------------------
(***************************************************************************)
(* Proofs about EcsRewind, for every value of its constants.               *)
(***************************************************************************)
EXTENDS EcsRewind, TLAPS

-----------------------------------------------------------------------------
(* The inductive invariant *)

\* A creation or a destruction names a storage handle as `before`.
StorageNamed ==
  \A i \in 1 .. Len(history) :
    history[i].op # "update" => \E c \in Chunk : history[i].before = Storage(c)

\* Every creation took one storage index and left one action.
RoomLeft == nextIndex <= Reserved + 1 + Len(history)

\* While parsing, the chunk at a server index was allocated with the storage
\* index of its own name, that index is empty, and the creation map leads to it.
OwnsStorage(i) ==
  LET c == world.desc[i].chunk
      e == <<i, world.desc[i].gen>>
  IN  c # None =>
        /\ world.desc[i].gen \in Generation
        /\ c < nextIndex
        /\ world.desc[c].chunk = None
        /\ creationOf[e] # 0
        /\ history[creationOf[e]].op = "create"
        /\ history[creationOf[e]].after = e
        /\ history[creationOf[e]].before = Storage(c)

\* No chunk is at two server indices, storage ahead of the next one is unused,
\* and the map has no keys but living entities.
Ownership ==
  /\ \A i \in ServerIndex : OwnsStorage(i)
  /\ \A i, j \in ServerIndex :
       world.desc[i].chunk = world.desc[j].chunk /\ world.desc[i].chunk # None => i = j
  /\ \A c \in Chunk : c >= nextIndex => world.desc[c].chunk = None
  /\ \A e \in ServerEid : creationOf[e] # 0 => EntityExists(world, e)

ParseInv ==
  phase = "parsing" =>
    /\ Ownership
    /\ mode = "idle"
    /\ currIndex = Len(history)
    /\ rewindTime = currTime
    /\ \A i \in 1 .. Len(history) : history[i].time <= currTime

\* While a loop of iterateToIndex runs, it has not passed its target.
LoopInv ==
  /\ mode = "backward"
       => \A i \in 1 .. Len(history) : i > currIndex => history[i].time > rewindTime
  /\ mode = "forward"
       => \A i \in 1 .. Len(history) : i <= currIndex => history[i].time <= rewindTime

\* No action runs twice in one direction.
NeverTwice == fault # "direction"

IInv ==
  /\ TypeOK
  /\ StorageNamed
  /\ RoomLeft
  /\ ParseInv
  /\ DirectionMatches
  /\ HistorySorted
  /\ LoopInv
  /\ SeekIsExact
  /\ NeverTwice

-----------------------------------------------------------------------------
(* Handles and descriptors *)

LEMMA StorageIsEid ==
  ASSUME NEW c \in Chunk
  PROVE  /\ Storage(c) \in Eid
         /\ Storage(c)[1] = c
         /\ c \in Index
BY DEF Storage, Eid, Index

LEMMA ServerIsEid ==
  ASSUME NEW e \in ServerEid
  PROVE  /\ e \in Eid
         /\ e[1] \in ServerIndex
         /\ e[1] \in Index
         /\ e[2] \in Generation
         /\ e = <<e[1], e[2]>>
BY DEF ServerEid, Eid, Index

LEMMA InvalidIsEid == Invalid \in Eid
BY DEF Eid

LEMMA ServerIsNotChunk ==
  ASSUME NEW i \in ServerIndex
  PROVE  i \notin Chunk
BY BoundsAssumption DEF ServerIndex, Chunk

\* The descriptor of an index that is not empty names a chunk.
LEMMA ChunkIsTyped ==
  ASSUME NEW w \in WorldType, NEW e, e[1] \in Index
  PROVE  ChunkAt(w, e) \in Chunk \cup {None}
BY DEF WorldType, ChunkAt

LEMMA SwapDescType ==
  ASSUME NEW w \in WorldType, NEW a, NEW b, a[1] \in Index, b[1] \in Index
  PROVE  /\ SwapDesc(w, a, b) \in WorldType
         /\ SwapDesc(w, a, b).desc =
              [w.desc EXCEPT ![a[1]] = w.desc[b[1]], ![b[1]] = w.desc[a[1]]]
BY DEF SwapDesc, WorldType

LEMMA SetEidType ==
  ASSUME NEW w \in WorldType, NEW e, NEW new \in Eid, ChunkAt(w, e) \in Chunk
  PROVE  /\ SetEidComponent(w, e, new) \in WorldType
         /\ SetEidComponent(w, e, new).desc = w.desc
BY DEF SetEidComponent, WorldType

LEMMA SwapValueType ==
  ASSUME NEW w \in WorldType, NEW e, NEW v \in Value \cup {None}, ChunkAt(w, e) \in Chunk
  PROVE  /\ SwapValue(w, e, v) \in WorldType
         /\ SwapValue(w, e, v).desc = w.desc
BY DEF SwapValue, WorldType

-----------------------------------------------------------------------------
(* The handlers keep the tables typed and leave the descriptors alone *)

LEMMA KindType ==
  ASSUME NEW w \in WorldType, NEW c \in Chunk
  PROVE  /\ w.kind[c].uid \in Uid \cup {Unset}
         /\ w.kind[c].pid \in Player \cup {Unset}
BY KindAssumption DEF WorldType, NoKind

LEMMA SetUnitDataType ==
  ASSUME NEW w \in WorldType, NEW u \in Uid \cup {Unset},
         NEW unit \in Chunk \cup {None}, NEW e \in Eid
  PROVE  /\ SetUnitData(w, u, unit, e) \in WorldType
         /\ SetUnitData(w, u, unit, e).desc = w.desc
BY DEF SetUnitData, WorldType

LEMMA SetCurrEidType ==
  ASSUME NEW w \in WorldType, NEW c \in Chunk, NEW e \in Eid
  PROVE  /\ SetCurrEid(w, c, e) \in WorldType
         /\ SetCurrEid(w, c, e).desc = w.desc
BY DEF SetCurrEid, WorldType

LEMMA PlayerType ==
  ASSUME NEW w \in WorldType, NEW c \in Chunk
  PROVE  /\ PlayerGains(w, c) \in WorldType
         /\ PlayerGains(w, c).desc = w.desc
         /\ PlayerLoses(w, c) \in WorldType
         /\ PlayerLoses(w, c).desc = w.desc
<1>1. Owns(w.kind[c]) => w.kind[c].pid \in Player
  BY KindType DEF Owns
<1>2. /\ PlayerGains(w, c) \in WorldType
      /\ PlayerGains(w, c).desc = w.desc
  BY <1>1 DEF PlayerGains, WorldType
<1>3. /\ PlayerLoses(w, c) \in WorldType
      /\ PlayerLoses(w, c).desc = w.desc
  BY <1>1 DEF PlayerLoses, WorldType
<1> QED BY <1>2, <1>3

LEMMA CreatedType ==
  ASSUME NEW w \in WorldType, NEW e, ChunkAt(w, e) \in Chunk
  PROVE  /\ OnCreated(w, e) \in WorldType
         /\ OnCreated(w, e).desc = w.desc
<1> DEFINE c == ChunkAt(w, e)
<1>1. Owns(w.kind[c]) => w.kind[c].pid \in Player
  BY KindType DEF Owns
<1>2. \A p \in Player : Append(w.allOwned[p], c) \in Seq(Chunk)
  BY DEF WorldType
<1> HIDE DEF c
<1> QED BY <1>1, <1>2 DEF OnCreated, WorldType, c

LEMMA CreatedBasicType ==
  ASSUME NEW w \in WorldType, NEW e \in Eid, ChunkAt(w, e) \in Chunk
  PROVE  /\ OnCreatedBasic(w, e) \in WorldType
         /\ OnCreatedBasic(w, e).desc = w.desc
<1> DEFINE c == ChunkAt(w, e)
           k == w.kind[c]
           s == SetUnitData(w, k.uid, IF HasUnit(k) THEN c ELSE None, e)
<1>1. s \in WorldType /\ s.desc = w.desc
  BY KindType, SetUnitDataType
<1>2. /\ UidAppears(w, e) \in WorldType
      /\ UidAppears(w, e).desc = w.desc
  <2> HIDE DEF s
  <2> QED BY <1>1, SetCurrEidType DEF UidAppears, s
<1>3. QED
  BY <1>2, PlayerType DEF OnCreatedBasic

LEMMA DestroyedBasicType ==
  ASSUME NEW w \in WorldType, NEW e, NEW new \in Eid, ChunkAt(w, e) \in Chunk
  PROVE  /\ OnDestroyedBasic(w, e, new) \in WorldType
         /\ OnDestroyedBasic(w, e, new).desc = w.desc
<1> DEFINE c == ChunkAt(w, e)
           k == w.kind[c]
           s == SetUnitData(w, k.uid, None, Invalid)
<1>1. s \in WorldType /\ s.desc = w.desc
  BY KindType, SetUnitDataType, InvalidIsEid
<1>2. /\ UidVanishes(w, e, new) \in WorldType
      /\ UidVanishes(w, e, new).desc = w.desc
  <2> HIDE DEF s
  <2> QED BY <1>1, SetCurrEidType DEF UidVanishes, s
<1>3. QED
  BY <1>2, PlayerType DEF OnDestroyedBasic

-----------------------------------------------------------------------------
(* Appearing and vanishing *)

LEMMA AppearType ==
  ASSUME NEW w \in WorldType, NEW c \in Chunk, NEW e \in ServerEid,
         AppearFault(w, Storage(c), e) # "entity"
  PROVE  Appear(w, Storage(c), e) \in WorldType
<1> DEFINE s == SwapDesc(w, Storage(c), e)
           t == SetEidComponent(s, e, e)
<1>1. s \in WorldType
  BY StorageIsEid, ServerIsEid, SwapDescType
<1>2. ChunkAt(s, e) \in Chunk
  BY <1>1, ServerIsEid, ChunkIsTyped DEF AppearFault, EntityExists
<1>3. t \in WorldType /\ t.desc = s.desc
  <2> HIDE DEF s
  <2> QED BY <1>1, <1>2, ServerIsEid, SetEidType
<1>4. ChunkAt(t, e) \in Chunk
  BY <1>2, <1>3 DEF ChunkAt
<1> QED
  <2> HIDE DEF t
  <2>1. OnCreatedBasic(t, e) \in WorldType
    BY <1>3, <1>4, ServerIsEid, CreatedBasicType
  <2> QED BY <2>1 DEF Appear, t

LEMMA VanishType ==
  ASSUME NEW w \in WorldType, NEW c \in Chunk, NEW e \in ServerEid,
         ChunkAt(w, e) \in Chunk
  PROVE  /\ Vanish(w, Storage(c), e) \in WorldType
         /\ Vanish(w, Storage(c), e).desc =
              [w.desc EXCEPT ![c] = w.desc[e[1]], ![e[1]] = w.desc[c]]
<1> DEFINE t == SetEidComponent(w, e, Storage(c))
           d == OnDestroyedBasic(t, e, Storage(c))
<1>1. t \in WorldType /\ t.desc = w.desc
  BY StorageIsEid, SetEidType
<1>2. ChunkAt(t, e) \in Chunk
  BY <1>1 DEF ChunkAt
<1>3. d \in WorldType /\ d.desc = w.desc
  <2> HIDE DEF t
  <2> QED BY <1>1, <1>2, StorageIsEid, DestroyedBasicType
<1> QED
  <2> HIDE DEF d
  <2>1. /\ SwapDesc(d, Storage(c), e) \in WorldType
        /\ SwapDesc(d, Storage(c), e).desc =
             [d.desc EXCEPT ![Storage(c)[1]] = d.desc[e[1]],
                            ![e[1]] = d.desc[Storage(c)[1]]]
    BY <1>3, StorageIsEid, ServerIsEid, SwapDescType
  <2> QED BY <1>3, <2>1, StorageIsEid DEF Vanish, d

LEMMA VanishFaultResolves ==
  ASSUME NEW w \in WorldType, NEW e \in ServerEid, VanishFault(w, e) # "entity"
  PROVE  ChunkAt(w, e) \in Chunk
BY ServerIsEid, ChunkIsTyped DEF VanishFault, EntityExists

LEMMA FaultsNamed ==
  ASSUME NEW w, NEW b, NEW e
  PROVE  /\ VanishFault(w, e) \in {"none", "entity", "uid"}
         /\ AppearFault(w, b, e) \in {"none", "entity", "uid"}
BY DEF VanishFault, AppearFault

\* A step over an action leaves the tables and the action typed.
LEMMA StepType ==
  ASSUME NEW w \in WorldType, NEW a \in ActionType, NEW dir \in {"fastforward", "rewind"},
         a.op # "update" => \E c \in Chunk : a.before = Storage(c)
  PROVE  /\ UndoFault(w, a) = "none" => Undone(w, a) \in WorldType
         /\ RedoFault(w, a) = "none" => Redone(w, a) \in WorldType
         /\ UndoFault(w, a) = "none" \/ RedoFault(w, a) = "none"
              => Flipped(w, a, dir) \in ActionType
<1>0. /\ a.after \in ServerEid
      /\ a.held \in Value \cup {None}
      /\ a.op \in {"create", "destroy", "update"}
  BY DEF ActionType
<1>1. CASE a.op = "update"
  <2>1. (UndoFault(w, a) = "none" \/ RedoFault(w, a) = "none")
           => ChunkAt(w, a.after) \in Chunk
    BY <1>0, <1>1, ServerIsEid, ChunkIsTyped DEF UndoFault, RedoFault
  <2>2. ChunkAt(w, a.after) \in Chunk => SwapValue(w, a.after, a.held) \in WorldType
    BY <1>0, SwapValueType
  <2>3. ChunkAt(w, a.after) \in Chunk => w.value[ChunkAt(w, a.after)] \in Value \cup {None}
    BY DEF WorldType
  <2>4. ChunkAt(w, a.after) \in Chunk => Flipped(w, a, dir) \in ActionType
    BY <2>3, <1>1 DEF Flipped, ActionType
  <2> QED BY <1>1, <2>1, <2>2, <2>4 DEF Undone, Redone
<1>2. CASE a.op = "create"
  <2>1. PICK c \in Chunk : a.before = Storage(c)
    BY <1>2
  <2>2. UndoFault(w, a) = "none" => Undone(w, a) \in WorldType
    BY <1>0, <1>2, <2>1, VanishFaultResolves, VanishType DEF UndoFault, Undone
  <2>3. RedoFault(w, a) = "none" => Redone(w, a) \in WorldType
    BY <1>0, <1>2, <2>1, AppearType DEF RedoFault, Redone
  <2>4. Flipped(w, a, dir) \in ActionType
    BY <1>2 DEF Flipped, ActionType
  <2> QED BY <2>2, <2>3, <2>4
<1>3. CASE a.op = "destroy"
  <2>1. PICK c \in Chunk : a.before = Storage(c)
    BY <1>3
  <2>2. UndoFault(w, a) = "none" => Undone(w, a) \in WorldType
    BY <1>0, <1>3, <2>1, AppearType DEF UndoFault, Undone
  <2>3. RedoFault(w, a) = "none" => Redone(w, a) \in WorldType
    BY <1>0, <1>3, <2>1, VanishFaultResolves, VanishType DEF RedoFault, Redone
  <2>4. Flipped(w, a, dir) \in ActionType
    BY <1>3 DEF Flipped, ActionType
  <2> QED BY <2>2, <2>3, <2>4
<1> QED BY <1>0, <1>1, <1>2, <1>3

LEMMA StampType ==
  ASSUME NEW stamps \in [Chunk -> Seconds \cup {None}], NEW w \in WorldType, NEW e,
         NEW t \in Seconds, ChunkAt(w, e) \in Chunk
  PROVE  StampDestroyed(stamps, w, e, t) \in [Chunk -> Seconds \cup {None}]
BY DEF StampDestroyed

-----------------------------------------------------------------------------
(* The invariant is inductive: parsing *)

LEMMA InitInv == ASSUME Init PROVE IInv
<1> USE BoundsAssumption DEF Init
<1>1. EmptyWorld \in WorldType
  BY InvalidIsEid DEF EmptyWorld, WorldType, EmptyDesc, NoKind, GlobalGen
<1>2. TypeOK
  BY <1>1 DEF TypeOK, Seconds, EndOfTime
<1>3. ParseInv
  BY DEF ParseInv, Ownership, OwnsStorage, EmptyWorld, EmptyDesc, EntityExists, Index
<1> QED
  BY <1>2, <1>3 DEF IInv, StorageNamed, RoomLeft, DirectionMatches, HistorySorted,
                    LoopInv, SeekIsExact, NeverTwice

LEMMA SecondsType ==
  ASSUME NEW t \in 0 .. MaxTime
  PROVE  t \in Seconds
BY BoundsAssumption DEF Seconds, EndOfTime

LEMMA TimesAreIntegers ==
  ASSUME TypeOK
  PROVE  /\ currTime \in Int
         /\ rewindTime \in Int
         /\ \A i \in 1 .. Len(history) : history[i].time \in Int
<1>1. /\ history \in Seq(ActionType)
      /\ currTime \in 0 .. (MaxTime + 1)
      /\ rewindTime \in 0 .. (MaxTime + 1)
  BY DEF TypeOK, Seconds, EndOfTime
<1>2. \A b \in ActionType : b.time \in Int
  BY BoundsAssumption DEF ActionType
<1>3. \A i \in 1 .. Len(history) : history[i] \in ActionType
  BY <1>1
<1> QED BY <1>1, <1>2, <1>3, BoundsAssumption

LEMMA CountersAreIntegers ==
  ASSUME TypeOK
  PROVE  nextIndex \in Int /\ Reserved \in Int /\ Len(history) \in Nat
BY BoundsAssumption DEF TypeOK

\* What emplaceNew does to the history while a replay is parsed.
LEMMA Appended ==
  ASSUME IInv, phase = "parsing", NEW a \in ActionType,
         a.dir = "fastforward", a.time >= currTime,
         a.op # "update" => \E c \in Chunk : a.before = Storage(c),
         EmplaceNew(a)
  PROVE  /\ history' \in Seq(ActionType)
         /\ Len(history') = Len(history) + 1
         /\ currIndex' = Len(history')
         /\ \A i \in 1 .. Len(history) : history'[i] = history[i]
         /\ history'[Len(history) + 1] = a
         /\ \A i \in 1 .. Len(history') : history'[i].time <= a.time
         /\ StorageNamed'
         /\ DirectionMatches'
         /\ HistorySorted'
<1>1. /\ history \in Seq(ActionType)
      /\ currTime \in Int
      /\ \A i \in 1 .. Len(history) : history[i].time \in Int
      /\ a.time \in Int
  BY TimesAreIntegers, BoundsAssumption DEF IInv, TypeOK, ActionType
<1>2. \A i \in 1 .. Len(history) : history[i].time <= currTime
  BY DEF IInv, ParseInv
<1>3. /\ history' \in Seq(ActionType)
      /\ Len(history') = Len(history) + 1
      /\ currIndex' = Len(history')
      /\ \A i \in 1 .. Len(history) : history'[i] = history[i]
      /\ history'[Len(history) + 1] = a
  BY <1>1 DEF EmplaceNew
<1>4. \A i \in 1 .. Len(history') : i \in 1 .. Len(history) \/ i = Len(history) + 1
  BY <1>1, <1>3
<1>5. \A i \in 1 .. Len(history') : history'[i].time <= a.time
  BY <1>1, <1>2, <1>3, <1>4
<1>6. StorageNamed'
  BY <1>3, <1>4 DEF IInv, StorageNamed
<1>7. DirectionMatches'
  <2>1. currIndex = Len(history)
    BY DEF IInv, ParseInv
  <2>2. \A i \in 1 .. Len(history) : history[i].dir = "fastforward"
    BY <2>1 DEF IInv, DirectionMatches
  <2> QED BY <2>2, <1>3, <1>4 DEF DirectionMatches
<1>8. HistorySorted'
  BY <1>1, <1>2, <1>3, <1>4, <1>5 DEF IInv, HistorySorted
<1> QED BY <1>3, <1>5, <1>6, <1>7, <1>8

\* Steps that leave the history and curr_index alone keep what is said of them.
LEMMA HistoryKept ==
  ASSUME IInv, UNCHANGED <<history, currIndex>>
  PROVE  StorageNamed' /\ DirectionMatches' /\ HistorySorted'
BY DEF IInv, StorageNamed, DirectionMatches, HistorySorted

LEMMA OwnershipKept ==
  ASSUME IInv, phase = "parsing", world'.desc = world.desc,
         UNCHANGED <<creationOf, nextIndex>>,
         \A i \in 1 .. Len(history) : history'[i] = history[i]
  PROVE  Ownership'
<1>1. creationOf \in [ServerEid -> 0 .. Len(history)] /\ Len(history) \in Nat
  BY DEF IInv, TypeOK
<1>2. Ownership
  BY DEF IInv, ParseInv
<1>3. ASSUME NEW i \in ServerIndex PROVE OwnsStorage(i)'
  <2>1. OwnsStorage(i)
    BY <1>2 DEF Ownership
  <2>2. world.desc[i].chunk # None
          => creationOf[<<i, world.desc[i].gen>>] \in 1 .. Len(history)
    BY <1>1, <2>1 DEF OwnsStorage, ServerEid
  <2> QED BY <2>1, <2>2 DEF OwnsStorage
<1>4. \A e \in ServerEid : EntityExists(world, e) => EntityExists(world', e)
  BY DEF EntityExists, ChunkAt
<1> QED BY <1>2, <1>3, <1>4 DEF Ownership

LEMMA ParseOtherInv ==
  ASSUME IInv, NEW t \in 0 .. MaxTime, ParseOther(t)
  PROVE  IInv'
<1> USE DEF ParseOther, PacketAt
<1>1. TypeOK'
  BY SecondsType DEF IInv, TypeOK
<1>2. ParseInv'
  <2>1. currTime \in Int /\ \A i \in 1 .. Len(history) : history[i].time \in Int
    BY TimesAreIntegers DEF IInv
  <2> QED BY <2>1, OwnershipKept DEF IInv, ParseInv
<1>3. RoomLeft' /\ LoopInv' /\ SeekIsExact' /\ NeverTwice'
  BY DEF IInv, ParseInv, RoomLeft, LoopInv, SeekIsExact, NeverTwice
<1> QED BY <1>1, <1>2, <1>3, HistoryKept DEF IInv

LEMMA ParseEndInv ==
  ASSUME IInv, NEW t \in 0 .. MaxTime, ParseEnd(t)
  PROVE  IInv'
<1> USE DEF ParseEnd, PacketAt
<1>1. TypeOK'
  BY SecondsType DEF IInv, TypeOK
<1>2. SeekIsExact'
  <2>1. currTime \in Int /\ \A i \in 1 .. Len(history) : history[i].time \in Int
    BY TimesAreIntegers DEF IInv
  <2>2. \A i \in 1 .. Len(history) : i <= currIndex /\ history[i].time <= t
    BY <2>1 DEF IInv, ParseInv
  <2> QED BY <2>2 DEF SeekIsExact
<1>3. ParseInv' /\ RoomLeft' /\ LoopInv' /\ NeverTwice'
  BY DEF IInv, ParseInv, RoomLeft, LoopInv, NeverTwice
<1> QED BY <1>1, <1>2, <1>3, HistoryKept DEF IInv

LEMMA ParseDestroyThrowsInv ==
  ASSUME IInv, NEW t \in 0 .. MaxTime, NEW e \in ServerEid, ParseDestroyThrows(t, e)
  PROVE  IInv'
<1> USE DEF ParseDestroyThrows, PacketAt
<1>1. fault' \in {"basic_destroyed", "entity", "uid"}
  BY FaultsNamed DEF DestroyFault
<1>2. TypeOK'
  BY <1>1, SecondsType DEF IInv, TypeOK
<1>3. ParseInv'
  <2>1. currTime \in Int /\ \A i \in 1 .. Len(history) : history[i].time \in Int
    BY TimesAreIntegers DEF IInv
  <2> QED BY <2>1, OwnershipKept DEF IInv, ParseInv
<1>4. RoomLeft' /\ LoopInv' /\ SeekIsExact' /\ NeverTwice'
  BY <1>1 DEF IInv, ParseInv, RoomLeft, LoopInv, SeekIsExact, NeverTwice
<1> QED BY <1>2, <1>3, <1>4, HistoryKept DEF IInv

LEMMA ParseUpdateInv ==
  ASSUME IInv, NEW t \in 0 .. MaxTime, NEW e \in ServerEid, NEW v \in Value,
         ParseUpdate(t, e, v)
  PROVE  IInv'
<1> DEFINE a == Action(t, "update", Invalid, e, world.value[ChunkAt(world, e)])
<1>1. /\ PacketAt(t)
      /\ EntityExists(world, e)
      /\ world' = SwapValue(world, e, v)
      /\ EmplaceNew(a)
      /\ UNCHANGED <<creationOf, basicDestroyed, nextIndex, destroyedAt, phase, fault>>
  BY DEF ParseUpdate
<1>2. world \in WorldType
  BY DEF IInv, TypeOK
<1>3. ChunkAt(world, e) \in Chunk
  BY <1>1, <1>2, ServerIsEid, ChunkIsTyped DEF EntityExists
<1>4. world' \in WorldType /\ world'.desc = world.desc
  BY <1>1, <1>2, <1>3, SwapValueType
<1>5. world.value[ChunkAt(world, e)] \in Value \cup {None}
  BY <1>2, <1>3 DEF WorldType
<1>6. a \in ActionType /\ a.dir = "fastforward" /\ a.time = t /\ a.op = "update"
  BY <1>5, InvalidIsEid DEF Action, ActionType
<1> HIDE DEF a
<1>7. /\ history' \in Seq(ActionType)
      /\ Len(history') = Len(history) + 1
      /\ currIndex' = Len(history')
      /\ \A i \in 1 .. Len(history) : history'[i] = history[i]
      /\ \A i \in 1 .. Len(history') : history'[i].time <= t
      /\ StorageNamed' /\ DirectionMatches' /\ HistorySorted'
  BY <1>1, <1>6, Appended DEF PacketAt
<1>8. TypeOK'
  BY <1>1, <1>4, <1>7, SecondsType DEF IInv, TypeOK, PacketAt
<1>9. ParseInv'
  BY <1>1, <1>4, <1>7, OwnershipKept DEF IInv, ParseInv, PacketAt
<1>10. RoomLeft'
  BY <1>1, <1>7, CountersAreIntegers DEF IInv, RoomLeft
<1>11. LoopInv' /\ SeekIsExact' /\ NeverTwice'
  BY <1>1 DEF IInv, ParseInv, LoopInv, SeekIsExact, NeverTwice, PacketAt
<1> QED BY <1>7, <1>8, <1>9, <1>10, <1>11 DEF IInv

LEMMA ParseCreateInv ==
  ASSUME IInv, NEW t \in 0 .. MaxTime, NEW e \in ServerEid, NEW k \in Kind,
         NEW v \in Value, ParseCreate(t, e, k, v)
  PROVE  IInv'
<1> DEFINE c == nextIndex
           a == Action(t, "create", Storage(c), e, None)
           w == [world EXCEPT !.desc[e[1]] = [chunk |-> c, gen |-> e[2]],
                              !.kind[c] = k, !.eid[c] = e, !.value[c] = v]
<1>1. /\ PacketAt(t)
      /\ HistoryHasRoom
      /\ ChunkAt(world, e) = None
      /\ world' = OnCreatedBasic(OnCreated(w, e), e)
      /\ EmplaceNew(a)
      /\ creationOf' = [creationOf EXCEPT ![e] = Len(history) + 1]
      /\ nextIndex' = nextIndex + 1
      /\ UNCHANGED <<basicDestroyed, destroyedAt, phase, fault>>
  BY DEF ParseCreate, Created, Recorded
<1>2. world \in WorldType /\ Ownership
  BY <1>1 DEF IInv, TypeOK, ParseInv, PacketAt
<1>3. c \in Chunk /\ nextIndex' \in (Reserved + 1) .. (Reserved + MaxActions + 1)
  <2>1. Len(history) < MaxActions /\ nextIndex <= Reserved + 1 + Len(history)
    BY <1>1 DEF IInv, RoomLeft, HistoryHasRoom
  <2>2. nextIndex \in (Reserved + 1) .. (Reserved + MaxActions + 1)
    BY DEF IInv, TypeOK
  <2> QED BY <1>1, <2>1, <2>2, BoundsAssumption, CountersAreIntegers DEF IInv, Chunk
<1>4. e \in Eid /\ e[1] \in Index /\ e[1] \in ServerIndex /\ e[2] \in Generation /\ e[2] \in Nat
         /\ e = <<e[1], e[2]>>
  BY ServerIsEid, GenerationAssumption
<1>5. w \in WorldType /\ w.desc = [world.desc EXCEPT ![e[1]] = [chunk |-> c, gen |-> e[2]]]
  BY <1>2, <1>3, <1>4 DEF WorldType
<1>6. ChunkAt(w, e) = c
  BY <1>2, <1>4, <1>5 DEF ChunkAt, WorldType
<1>7. world' \in WorldType
      /\ world'.desc = [world.desc EXCEPT ![e[1]] = [chunk |-> c, gen |-> e[2]]]
  <2> HIDE DEF w
  <2>1. OnCreated(w, e) \in WorldType /\ OnCreated(w, e).desc = w.desc
    BY <1>3, <1>5, <1>6, CreatedType
  <2>2. ChunkAt(OnCreated(w, e), e) = c
    BY <1>6, <2>1 DEF ChunkAt
  <2> QED BY <1>1, <1>3, <1>4, <1>5, <2>1, <2>2, CreatedBasicType
<1>8. a \in ActionType /\ a.dir = "fastforward" /\ a.time = t /\ a.before = Storage(c)
         /\ a.op = "create" /\ a.after = e
  BY <1>3, StorageIsEid DEF Action, ActionType
<1> HIDE DEF a, w
<1>9. /\ history' \in Seq(ActionType)
      /\ Len(history') = Len(history) + 1
      /\ currIndex' = Len(history')
      /\ \A i \in 1 .. Len(history) : history'[i] = history[i]
      /\ history'[Len(history) + 1] = a
      /\ \A i \in 1 .. Len(history') : history'[i].time <= t
      /\ StorageNamed' /\ DirectionMatches' /\ HistorySorted'
  BY <1>1, <1>3, <1>8, Appended DEF PacketAt
<1>10. creationOf \in [ServerEid -> 0 .. Len(history)] /\ Len(history) \in Nat
  BY DEF IInv, TypeOK
<1>11. TypeOK'
  <2>1. creationOf' \in [ServerEid -> 0 .. Len(history')]
    BY <1>1, <1>9, <1>10
  <2>2. currIndex' \in 0 .. Len(history')
    BY <1>9, <1>10
  <2>3. tearIndex' \in 1 .. nextIndex'
    BY <1>1, CountersAreIntegers DEF IInv, TypeOK, PacketAt
  <2> QED BY <1>1, <1>3, <1>7, <1>9, <2>1, <2>2, <2>3, SecondsType
          DEF IInv, TypeOK, PacketAt
<1>12. /\ world'.desc[e[1]].chunk = c
       /\ world'.desc[e[1]].gen = e[2]
       /\ \A i \in Index : i # e[1] => world'.desc[i] = world.desc[i]
  BY <1>2, <1>4, <1>7 DEF WorldType
<1>13. nextIndex \in Int /\ \A i \in Chunk : i \in Int /\ i \in Index /\ i # e[1]
  BY <1>4, BoundsAssumption, ServerIsNotChunk, CountersAreIntegers DEF IInv, Chunk, Index
<1>14. \A i \in ServerIndex : world.desc[i].chunk # None => world.desc[i].chunk \in Chunk
  BY <1>2 DEF WorldType, Index
<1>15. ASSUME NEW i \in ServerIndex PROVE OwnsStorage(i)'
  <2>1. CASE i = e[1]
    <3>1. creationOf'[e] = Len(history) + 1
      BY <1>1, <1>10
    <3>2. world'.desc[c].chunk = None
      BY <1>2, <1>3, <1>12, <1>13 DEF Ownership
    <3>3. Len(history) + 1 # 0 /\ c < nextIndex'
      BY <1>1, <1>10, <1>13
    <3> QED BY <1>4, <1>8, <1>9, <1>12, <2>1, <3>1, <3>2, <3>3 DEF OwnsStorage
  <2>2. CASE i # e[1]
    <3>1. OwnsStorage(i) /\ world'.desc[i] = world.desc[i]
      BY <1>2, <1>12, <2>2 DEF Ownership, Index
    <3>2. SUFFICES ASSUME world.desc[i].chunk # None PROVE OwnsStorage(i)'
      BY <3>1 DEF OwnsStorage
    <3> DEFINE f == <<i, world.desc[i].gen>>
    <3>3. f \in ServerEid /\ f # e
      BY <3>1, <3>2, <2>2, <1>4 DEF OwnsStorage, ServerEid
    <3>4. creationOf'[f] = creationOf[f] /\ creationOf[f] \in 1 .. Len(history)
      BY <1>1, <1>10, <3>1, <3>2, <3>3 DEF OwnsStorage
    <3>5. world'.desc[world.desc[i].chunk] = world.desc[world.desc[i].chunk]
      BY <1>12, <1>13, <1>14, <3>2
    <3>6. world.desc[i].chunk < nextIndex'
      BY <1>1, <1>13, <1>14, <3>1, <3>2 DEF OwnsStorage
    <3> QED BY <1>9, <3>1, <3>2, <3>4, <3>5, <3>6 DEF OwnsStorage
  <2> QED BY <2>1, <2>2
<1>16. ASSUME NEW i \in ServerIndex, NEW j \in ServerIndex,
              world'.desc[i].chunk = world'.desc[j].chunk, world'.desc[i].chunk # None
       PROVE  i = j
  <2>1. \A l \in ServerIndex : world.desc[l].chunk # None => world.desc[l].chunk # c
    <3>1. ASSUME NEW l \in ServerIndex, world.desc[l].chunk # None
          PROVE  world.desc[l].chunk < nextIndex
      <4>1. OwnsStorage(l)
        BY <1>2 DEF Ownership
      <4> QED BY <3>1, <4>1 DEF OwnsStorage
    <3> QED BY <1>13, <3>1
  <2> QED BY <1>2, <1>12, <1>16, <2>1 DEF Ownership, Index
<1>17. ASSUME NEW d \in Chunk, d >= nextIndex' PROVE world'.desc[d].chunk = None
  BY <1>1, <1>2, <1>12, <1>13, <1>17 DEF Ownership
<1>18. ASSUME NEW f \in ServerEid, creationOf'[f] # 0 PROVE EntityExists(world', f)
  <2>1. CASE f = e
    BY <1>3, <1>12, <2>1, SentinelAssumption DEF EntityExists, ChunkAt
  <2>2. CASE f # e
    <3>1. EntityExists(world, f)
      BY <1>1, <1>2, <1>10, <1>18, <2>2 DEF Ownership
    <3>2. f[1] # e[1] /\ f[1] \in Index
      BY <1>1, <3>1, ServerIsEid DEF EntityExists, ChunkAt
    <3> QED BY <1>12, <3>1, <3>2 DEF EntityExists, ChunkAt
  <2> QED BY <2>1, <2>2
<1>19. ParseInv'
  BY <1>1, <1>9, <1>15, <1>16, <1>17, <1>18 DEF IInv, ParseInv, Ownership, PacketAt
<1>20. RoomLeft'
  BY <1>1, <1>9, CountersAreIntegers DEF IInv, RoomLeft
<1>21. LoopInv' /\ SeekIsExact' /\ NeverTwice'
  BY <1>1 DEF IInv, ParseInv, LoopInv, SeekIsExact, NeverTwice, PacketAt
<1> QED BY <1>9, <1>11, <1>19, <1>20, <1>21 DEF IInv

LEMMA ParseDestroyInv ==
  ASSUME IInv, NEW t \in 0 .. MaxTime, NEW e \in ServerEid, ParseDestroy(t, e)
  PROVE  IInv'
<1> DEFINE c == ChunkAt(world, e)
           a == Action(t, "destroy", Storage(c), e, None)
<1>1. /\ PacketAt(t)
      /\ EntityExists(world, e)
      /\ creationOf' = [creationOf EXCEPT ![e] = 0]
      /\ world' = Vanish(world, StorageOf(e), e)
      /\ destroyedAt' = StampDestroyed(destroyedAt, world, e, t)
      /\ basicDestroyed' = basicDestroyed \cup {StorageOf(e)[1]}
      /\ EmplaceNew(Action(t, "destroy", StorageOf(e), e, None))
      /\ UNCHANGED <<nextIndex, phase, fault>>
  BY DEF ParseDestroy
<1>2. world \in WorldType /\ Ownership
  BY <1>1 DEF IInv, TypeOK, ParseInv, PacketAt
<1>3. e \in Eid /\ e[1] \in Index /\ e[1] \in ServerIndex /\ e = <<e[1], e[2]>>
  BY ServerIsEid
<1>4. c \in Chunk /\ c # None /\ world.desc[e[1]].chunk = c /\ world.desc[e[1]].gen = e[2]
  BY <1>1, <1>2, <1>3, ChunkIsTyped DEF EntityExists, ChunkAt
<1> HIDE DEF c
<1>5. /\ creationOf[e] # 0
      /\ history[creationOf[e]].before = Storage(c)
      /\ world.desc[c].chunk = None
  <2>1. OwnsStorage(e[1])
    BY <1>2, <1>3 DEF Ownership
  <2> QED BY <1>3, <1>4, <2>1 DEF OwnsStorage
<1>6. StorageOf(e) = Storage(c)
  BY <1>5 DEF StorageOf
<1>7. /\ world' \in WorldType
      /\ world'.desc = [world.desc EXCEPT ![c] = world.desc[e[1]], ![e[1]] = world.desc[c]]
  BY <1>1, <1>2, <1>4, <1>6, VanishType DEF c
<1>8. a \in ActionType /\ a.dir = "fastforward" /\ a.time = t /\ a.before = Storage(c)
  BY <1>4, StorageIsEid DEF Action, ActionType
<1>9. EmplaceNew(a) /\ basicDestroyed' = basicDestroyed \cup {c}
  BY <1>1, <1>4, <1>6, StorageIsEid
<1> HIDE DEF a
<1>10. /\ history' \in Seq(ActionType)
       /\ Len(history') = Len(history) + 1
       /\ currIndex' = Len(history')
       /\ \A i \in 1 .. Len(history) : history'[i] = history[i]
       /\ \A i \in 1 .. Len(history') : history'[i].time <= t
       /\ StorageNamed' /\ DirectionMatches' /\ HistorySorted'
  BY <1>1, <1>4, <1>8, <1>9, Appended DEF PacketAt
<1>11. creationOf \in [ServerEid -> 0 .. Len(history)] /\ Len(history) \in Nat
  BY DEF IInv, TypeOK
<1>12. TypeOK'
  <2>1. creationOf' \in [ServerEid -> 0 .. Len(history')]
    BY <1>1, <1>10, <1>11
  <2>2. currIndex' \in 0 .. Len(history')
    BY <1>10, <1>11
  <2>3. destroyedAt' \in [Chunk -> Seconds \cup {None}]
    BY <1>1, <1>2, <1>4, StampType, SecondsType DEF IInv, TypeOK, c
  <2> QED BY <1>1, <1>4, <1>7, <1>9, <1>10, <2>1, <2>2, <2>3, SecondsType
          DEF IInv, TypeOK, PacketAt
<1>13. e[1] # c
  BY <1>3, <1>4, ServerIsNotChunk
<1>14. /\ world'.desc[e[1]].chunk = None
       /\ \A i \in Index : i # e[1] /\ i # c => world'.desc[i] = world.desc[i]
  BY <1>2, <1>3, <1>4, <1>5, <1>7, <1>13, StorageIsEid DEF WorldType
<1>15. \A i \in ServerIndex : i # c /\ i \in Index
  BY <1>4, ServerIsNotChunk DEF Index
<1>16. ASSUME NEW i \in ServerIndex PROVE OwnsStorage(i)'
  <2>1. CASE i = e[1]
    BY <1>14, <2>1 DEF OwnsStorage
  <2>2. CASE i # e[1]
    <3>1. OwnsStorage(i) /\ world'.desc[i] = world.desc[i]
      BY <1>2, <1>14, <1>15, <2>2 DEF Ownership
    <3>2. SUFFICES ASSUME world.desc[i].chunk # None PROVE OwnsStorage(i)'
      BY <3>1 DEF OwnsStorage
    <3> DEFINE f == <<i, world.desc[i].gen>>
    <3>3. f \in ServerEid /\ f # e
      BY <3>1, <3>2, <2>2, <1>3 DEF OwnsStorage, ServerEid
    <3>4. creationOf'[f] = creationOf[f] /\ creationOf[f] \in 1 .. Len(history)
      BY <1>1, <1>11, <3>1, <3>2, <3>3 DEF OwnsStorage
    <3>5. world.desc[i].chunk # c
      BY <1>2, <1>3, <1>4, <2>2 DEF Ownership
    <3>6. /\ world.desc[i].chunk \in Index
          /\ world.desc[i].chunk # e[1]
      BY <1>2, <1>3, <1>15, <3>2, ServerIsNotChunk DEF WorldType, Index
    <3>7. world'.desc[world.desc[i].chunk] = world.desc[world.desc[i].chunk]
      BY <1>14, <3>5, <3>6
    <3> QED BY <1>1, <1>10, <3>1, <3>2, <3>4, <3>7 DEF OwnsStorage
  <2> QED BY <2>1, <2>2
<1>17. ASSUME NEW i \in ServerIndex, NEW j \in ServerIndex,
              world'.desc[i].chunk = world'.desc[j].chunk, world'.desc[i].chunk # None
       PROVE  i = j
  BY <1>2, <1>14, <1>15, <1>17 DEF Ownership
<1>18. ASSUME NEW d \in Chunk, d >= nextIndex' PROVE world'.desc[d].chunk = None
  <2>1. c < nextIndex
    <3>1. OwnsStorage(e[1])
      BY <1>2, <1>3 DEF Ownership
    <3> QED BY <1>4, <3>1 DEF OwnsStorage
  <2>2. d # c /\ d \in Index /\ d # e[1]
    BY <1>1, <1>3, <1>4, <1>18, <2>1, CountersAreIntegers, ServerIsNotChunk
    DEF IInv, Index, Chunk
  <2> QED BY <1>1, <1>2, <1>14, <1>18, <2>2 DEF Ownership
<1>19. ASSUME NEW f \in ServerEid, creationOf'[f] # 0 PROVE EntityExists(world', f)
  <2>1. f # e /\ creationOf[f] # 0
    BY <1>1, <1>11, <1>19
  <2>2. EntityExists(world, f)
    BY <1>2, <2>1 DEF Ownership
  <2>3. f[1] \in ServerIndex /\ f = <<f[1], f[2]>>
    BY ServerIsEid
  <2>4. f[1] # e[1]
    BY <1>3, <1>4, <2>1, <2>2, <2>3 DEF EntityExists
  <2> QED BY <1>14, <1>15, <2>2, <2>3, <2>4 DEF EntityExists, ChunkAt
<1>20. ParseInv'
  BY <1>1, <1>10, <1>16, <1>17, <1>18, <1>19 DEF IInv, ParseInv, Ownership, PacketAt
<1>21. RoomLeft'
  BY <1>1, <1>10, CountersAreIntegers DEF IInv, RoomLeft
<1>22. LoopInv' /\ SeekIsExact' /\ NeverTwice'
  BY <1>1 DEF IInv, ParseInv, LoopInv, SeekIsExact, NeverTwice, PacketAt
<1> QED BY <1>10, <1>12, <1>20, <1>21, <1>22 DEF IInv

-----------------------------------------------------------------------------
(* The invariant is inductive: rewinding *)

LEMMA NotParsing ==
  ASSUME IInv, mode # "idle"
  PROVE  phase # "parsing"
BY DEF IInv, ParseInv

LEMMA BeginSeekInv ==
  ASSUME IInv, NEW t \in Seconds, mode = "idle", BeginSeek(t)
  PROVE  /\ currIndex' = currIndex
         /\ mode' \in {"idle", "backward", "forward"}
         /\ rewindTime' = t
         /\ UNCHANGED <<world, history, creationOf, basicDestroyed, nextIndex,
                        destroyedAt, deleted, tearIndex, currTime>>
         /\ fault' \in {fault, "empty"}
         /\ LoopInv'
         /\ mode' = "idle" => fault' = "empty"
<1>1. /\ currIndex \in 0 .. Len(history)
      /\ history \in Seq(ActionType)
      /\ Len(history) \in Nat
      /\ t \in Int
      /\ \A i \in 1 .. Len(history) : history[i].time \in Int
      /\ HistorySorted
  BY TimesAreIntegers, BoundsAssumption DEF IInv, TypeOK, Seconds, EndOfTime
<1>2. rewindTime' = t
      /\ UNCHANGED <<world, history, creationOf, basicDestroyed, nextIndex,
                     destroyedAt, deleted, tearIndex, currTime>>
  BY DEF BeginSeek
<1>3. CASE history = << >>
  <2>1. fault' = "empty" /\ mode' = "idle" /\ currIndex' = currIndex
    BY <1>3 DEF BeginSeek
  <2> QED BY <1>2, <2>1 DEF LoopInv
<1>4. CASE history # << >>
  <2>1. /\ currIndex' = currIndex
        /\ mode' = IF currIndex > 0 /\ history[currIndex].time > t
                   THEN "backward" ELSE "forward"
        /\ fault' = fault
    BY <1>1, <1>4 DEF BeginSeek
  <2>2. ASSUME currIndex > 0, history[currIndex].time > t,
               NEW i \in 1 .. Len(history), i > currIndex
        PROVE  history[i].time > t
    <3>1. currIndex \in 1 .. Len(history) /\ currIndex <= i
      BY <1>1, <2>2
    <3>2. history[currIndex].time <= history[i].time
      BY <1>1, <3>1 DEF HistorySorted
    <3> QED BY <1>1, <2>2, <3>1, <3>2
  <2>3. ASSUME ~(currIndex > 0 /\ history[currIndex].time > t),
               NEW i \in 1 .. Len(history), i <= currIndex
        PROVE  history[i].time <= t
    <3>1. currIndex \in 1 .. Len(history) /\ currIndex > 0
      BY <1>1, <2>3
    <3>2. history[i].time <= history[currIndex].time
      BY <1>1, <2>3, <3>1 DEF HistorySorted
    <3> QED BY <1>1, <2>3, <3>1, <3>2
  <2>4. LoopInv'
    BY <1>2, <2>1, <2>2, <2>3 DEF LoopInv
  <2> QED BY <1>2, <2>1, <2>4
<1> QED BY <1>3, <1>4

LEMMA RewindToInv ==
  ASSUME IInv, NEW t \in Seconds, RewindTo(t)
  PROVE  IInv'
<1>1. phase = "ready" /\ mode = "idle" /\ fault = "none" /\ BeginSeek(t) /\ phase' = phase
  BY DEF RewindTo
<1>2. /\ currIndex' = currIndex
      /\ mode' \in {"idle", "backward", "forward"}
      /\ rewindTime' = t
      /\ UNCHANGED <<world, history, creationOf, basicDestroyed, nextIndex,
                     destroyedAt, deleted, tearIndex, currTime>>
      /\ fault' \in {fault, "empty"}
      /\ LoopInv'
      /\ mode' = "idle" => fault' = "empty"
  BY <1>1, BeginSeekInv
<1>3. TypeOK'
  BY <1>1, <1>2 DEF IInv, TypeOK
<1>4. RoomLeft' /\ ParseInv' /\ SeekIsExact' /\ NeverTwice'
  BY <1>1, <1>2 DEF IInv, RoomLeft, ParseInv, SeekIsExact, NeverTwice
<1> QED BY <1>2, <1>3, <1>4, HistoryKept DEF IInv

\* A step over action n changes nothing of the history but its direction and
\* the value it holds.
LEMMA Stepped ==
  ASSUME IInv, NEW n \in 1 .. Len(history), NEW dir \in {"fastforward", "rewind"},
         UndoFault(world, history[n]) = "none" \/ RedoFault(world, history[n]) = "none",
         history' = [history EXCEPT ![n] = Flipped(world, history[n], dir)]
  PROVE  /\ history' \in Seq(ActionType)
         /\ Len(history') = Len(history)
         /\ \A i \in 1 .. Len(history) : history'[i].time = history[i].time
         /\ \A i \in 1 .. Len(history) : i # n => history'[i] = history[i]
         /\ history'[n].dir = dir
         /\ StorageNamed'
         /\ HistorySorted'
<1>1. /\ history \in Seq(ActionType)
      /\ world \in WorldType
      /\ history[n] \in ActionType
  BY DEF IInv, TypeOK
<1>2. history[n].op # "update" => \E c \in Chunk : history[n].before = Storage(c)
  BY DEF IInv, StorageNamed
<1>3. Flipped(world, history[n], dir) \in ActionType
  BY <1>1, <1>2, StepType
<1>4. /\ Flipped(world, history[n], dir).time = history[n].time
      /\ Flipped(world, history[n], dir).op = history[n].op
      /\ Flipped(world, history[n], dir).before = history[n].before
      /\ Flipped(world, history[n], dir).dir = dir
  BY <1>1 DEF Flipped, ActionType
<1>5. /\ history' \in Seq(ActionType)
      /\ Len(history') = Len(history)
      /\ \A i \in 1 .. Len(history) : i # n => history'[i] = history[i]
      /\ history'[n] = Flipped(world, history[n], dir)
  BY <1>1, <1>3
<1>6. \A i \in 1 .. Len(history) : history'[i].time = history[i].time
  BY <1>4, <1>5
<1>7. StorageNamed'
  BY <1>4, <1>5 DEF IInv, StorageNamed
<1>8. HistorySorted'
  BY <1>5, <1>6 DEF IInv, HistorySorted
<1> QED BY <1>4, <1>5, <1>6, <1>7, <1>8

LEMMA StepBackwardInv ==
  ASSUME IInv, StepBackward
  PROVE  IInv'
<1> DEFINE a == history[currIndex]
<1>1. /\ mode = "backward"
      /\ currIndex > 0 /\ a.time > rewindTime
      /\ UndoFault(world, a) = "none"
      /\ currIndex' = currIndex - 1
      /\ world' = Undone(world, a)
      /\ history' = [history EXCEPT ![currIndex] = Flipped(world, a, "rewind")]
      /\ UNCHANGED <<creationOf, basicDestroyed, nextIndex, destroyedAt, deleted, tearIndex,
                     phase, mode, currTime, rewindTime, fault>>
  BY DEF StepBackward, MustUndo
<1>2. /\ currIndex \in 1 .. Len(history)
      /\ Len(history) \in Nat
      /\ a \in ActionType
      /\ world \in WorldType
      /\ a.op # "update" => \E c \in Chunk : a.before = Storage(c)
  BY <1>1 DEF IInv, TypeOK, StorageNamed
<1>3. world' \in WorldType
  BY <1>1, <1>2, StepType
<1>4. /\ history' \in Seq(ActionType)
      /\ Len(history') = Len(history)
      /\ \A i \in 1 .. Len(history) : history'[i].time = history[i].time
      /\ \A i \in 1 .. Len(history) : i # currIndex => history'[i] = history[i]
      /\ history'[currIndex].dir = "rewind"
      /\ StorageNamed'
      /\ HistorySorted'
  BY <1>1, <1>2, Stepped
<1>5. TypeOK'
  BY <1>1, <1>2, <1>3, <1>4 DEF IInv, TypeOK
<1>6. DirectionMatches'
  BY <1>1, <1>2, <1>4 DEF IInv, DirectionMatches
<1>7. LoopInv'
  BY <1>1, <1>2, <1>4 DEF IInv, LoopInv
<1>8. RoomLeft' /\ ParseInv' /\ SeekIsExact' /\ NeverTwice'
  BY <1>1, <1>4, NotParsing DEF IInv, RoomLeft, ParseInv, SeekIsExact, NeverTwice
<1> QED BY <1>4, <1>5, <1>6, <1>7, <1>8 DEF IInv

LEMMA StepForwardInv ==
  ASSUME IInv, StepForward
  PROVE  IInv'
<1> DEFINE n == currIndex + 1
           a == history[n]
<1>1. /\ mode = "forward"
      /\ currIndex < Len(history) /\ a.time <= rewindTime
      /\ RedoFault(world, a) = "none"
      /\ currIndex' = currIndex + 1
      /\ world' = Redone(world, a)
      /\ history' = [history EXCEPT ![n] = Flipped(world, a, "fastforward")]
      /\ destroyedAt' = IF a.op = "destroy"
                        THEN StampDestroyed(destroyedAt, world, a.after, currTime)
                        ELSE destroyedAt
      /\ UNCHANGED <<creationOf, basicDestroyed, nextIndex, deleted, tearIndex,
                     phase, mode, currTime, rewindTime, fault>>
  BY DEF StepForward, MustRedo
<1>2. /\ n \in 1 .. Len(history)
      /\ currIndex \in 0 .. Len(history)
      /\ Len(history) \in Nat
      /\ a \in ActionType
      /\ world \in WorldType
      /\ a.op # "update" => \E c \in Chunk : a.before = Storage(c)
  BY <1>1 DEF IInv, TypeOK, StorageNamed
<1> HIDE DEF n
<1>3. world' \in WorldType
  BY <1>1, <1>2, StepType
<1>4. /\ history' \in Seq(ActionType)
      /\ Len(history') = Len(history)
      /\ \A i \in 1 .. Len(history) : history'[i].time = history[i].time
      /\ \A i \in 1 .. Len(history) : i # n => history'[i] = history[i]
      /\ history'[n].dir = "fastforward"
      /\ StorageNamed'
      /\ HistorySorted'
  BY <1>1, <1>2, Stepped
<1>5. destroyedAt' \in [Chunk -> Seconds \cup {None}]
  <2>1. destroyedAt \in [Chunk -> Seconds \cup {None}] /\ currTime \in Seconds
    BY DEF IInv, TypeOK
  <2>2. CASE a.op = "destroy"
    <3>1. a.after \in ServerEid /\ VanishFault(world, a.after) = "none"
      BY <1>1, <1>2, <2>2 DEF RedoFault, ActionType
    <3>2. ChunkAt(world, a.after) \in Chunk
      BY <1>2, <3>1, VanishFaultResolves
    <3> QED BY <1>1, <1>2, <2>1, <2>2, <3>2, StampType
  <2> QED BY <1>1, <2>1, <2>2
<1>6. TypeOK'
  <2>1. currIndex' \in 0 .. Len(history')
    BY <1>1, <1>2, <1>4
  <2> QED BY <1>1, <1>3, <1>4, <1>5, <2>1 DEF IInv, TypeOK
<1>7. DirectionMatches'
  BY <1>1, <1>2, <1>4 DEF IInv, DirectionMatches, n
<1>8. LoopInv'
  BY <1>1, <1>2, <1>4 DEF IInv, LoopInv, n
<1>9. RoomLeft' /\ ParseInv' /\ SeekIsExact' /\ NeverTwice'
  BY <1>1, <1>4, NotParsing DEF IInv, RoomLeft, ParseInv, SeekIsExact, NeverTwice
<1> QED BY <1>4, <1>6, <1>7, <1>8, <1>9 DEF IInv

LEMMA StepThrowsInv ==
  ASSUME IInv, StepThrows
  PROVE  IInv'
<1>1. /\ mode # "idle"
      /\ IF mode = "backward" THEN MustUndo ELSE MustRedo
      /\ fault' = StepFault
      /\ UNCHANGED <<world, history, currIndex, creationOf, basicDestroyed, nextIndex,
                     destroyedAt, deleted, tearIndex, phase, mode, currTime, rewindTime>>
      /\ fault = "none" /\ fault' # "none"
  BY DEF StepThrows
<1>2. /\ currIndex \in 0 .. Len(history)
      /\ Len(history) \in Nat
      /\ mode \in {"idle", "backward", "forward"}
      /\ DirectionMatches
  BY DEF IInv, TypeOK
<1>3. StepFault \in {"none", "entity", "uid"}
  <2>1. CASE mode = "backward"
    <3>1. history[currIndex].dir = "fastforward"
      BY <1>1, <1>2, <2>1 DEF MustUndo, DirectionMatches
    <3>2. UndoFault(world, history[currIndex]) \in {"none", "entity", "uid"}
      BY <3>1, FaultsNamed DEF UndoFault
    <3> QED BY <2>1, <3>2 DEF StepFault
  <2>2. CASE mode # "backward"
    <3>1. history[currIndex + 1].dir = "rewind"
      BY <1>1, <1>2, <2>2 DEF MustRedo, DirectionMatches
    <3>2. RedoFault(world, history[currIndex + 1]) \in {"none", "entity", "uid"}
      BY <3>1, FaultsNamed DEF RedoFault
    <3> QED BY <2>2, <3>2 DEF StepFault
  <2> QED BY <2>1, <2>2
<1>4. TypeOK'
  BY <1>1, <1>3 DEF IInv, TypeOK
<1>5. RoomLeft' /\ ParseInv' /\ LoopInv' /\ SeekIsExact' /\ NeverTwice'
  BY <1>1, <1>3, NotParsing DEF IInv, RoomLeft, ParseInv, LoopInv, SeekIsExact, NeverTwice
<1> QED BY <1>1, <1>4, <1>5, HistoryKept DEF IInv

LEMMA SeekReturnThrowsInv ==
  ASSUME IInv, SeekReturnThrows
  PROVE  IInv'
<1>1. /\ mode = "forward"
      /\ fault' = "index"
      /\ UNCHANGED <<world, history, currIndex, creationOf, basicDestroyed, nextIndex,
                     destroyedAt, deleted, tearIndex, phase, mode, currTime, rewindTime>>
  BY DEF SeekReturnThrows
<1>2. TypeOK'
  BY <1>1 DEF IInv, TypeOK
<1>3. RoomLeft' /\ ParseInv' /\ LoopInv' /\ SeekIsExact' /\ NeverTwice'
  BY <1>1, NotParsing DEF IInv, RoomLeft, ParseInv, LoopInv, SeekIsExact, NeverTwice
<1> QED BY <1>1, <1>2, <1>3, HistoryKept DEF IInv

LEMMA FinishSeekInv ==
  ASSUME IInv, FinishSeek
  PROVE  IInv'
<1>1. /\ mode # "idle"
      /\ IF mode = "backward" THEN ~MustUndo ELSE ~MustRedo
      /\ mode' = "idle"
      /\ currTime' = rewindTime
      /\ phase' = IF phase = "closing" THEN "tearing" ELSE phase
      /\ UNCHANGED <<world, history, currIndex, creationOf, basicDestroyed, nextIndex,
                     destroyedAt, deleted, tearIndex, rewindTime, fault>>
  BY DEF FinishSeek, SeekDone
<1>2. /\ currIndex \in 0 .. Len(history)
      /\ Len(history) \in Nat
      /\ mode \in {"idle", "backward", "forward"}
      /\ HistorySorted
      /\ rewindTime \in Int
      /\ \A i \in 1 .. Len(history) : history[i].time \in Int
  BY TimesAreIntegers DEF IInv, TypeOK
<1>3. \A i \in 1 .. Len(history) : i <= currIndex <=> history[i].time <= rewindTime
  <2>1. CASE mode = "backward"
    <3>1. \A i \in 1 .. Len(history) : i > currIndex => history[i].time > rewindTime
      BY <2>1 DEF IInv, LoopInv
    <3>2. ASSUME NEW i \in 1 .. Len(history), i <= currIndex
          PROVE  history[i].time <= rewindTime
      <4>1. currIndex \in 1 .. Len(history)
        BY <1>2, <3>2
      <4>2. history[i].time <= history[currIndex].time
        BY <1>2, <3>2, <4>1 DEF HistorySorted
      <4>3. history[currIndex].time <= rewindTime
        BY <1>1, <1>2, <2>1, <4>1 DEF MustUndo
      <4> QED BY <1>2, <4>1, <4>2, <4>3
    <3> QED BY <1>2, <3>1, <3>2
  <2>2. CASE mode = "forward"
    <3>1. \A i \in 1 .. Len(history) : i <= currIndex => history[i].time <= rewindTime
      BY <2>2 DEF IInv, LoopInv
    <3>2. ASSUME NEW i \in 1 .. Len(history), i > currIndex
          PROVE  history[i].time > rewindTime
      <4>1. currIndex + 1 \in 1 .. Len(history)
        BY <1>2, <3>2
      <4>2. history[currIndex + 1].time <= history[i].time
        BY <1>2, <3>2, <4>1 DEF HistorySorted
      <4>3. history[currIndex + 1].time > rewindTime
        BY <1>1, <1>2, <2>2, <4>1 DEF MustRedo
      <4> QED BY <1>2, <4>1, <4>2, <4>3
    <3> QED BY <1>2, <3>1, <3>2
  <2> QED BY <1>1, <1>2, <2>1, <2>2
<1>4. TypeOK'
  BY <1>1 DEF IInv, TypeOK
<1>5. SeekIsExact'
  BY <1>1, <1>3 DEF SeekIsExact
<1>6. RoomLeft' /\ ParseInv' /\ LoopInv' /\ NeverTwice'
  BY <1>1, NotParsing DEF IInv, RoomLeft, ParseInv, LoopInv, NeverTwice
<1> QED BY <1>1, <1>4, <1>5, <1>6, HistoryKept DEF IInv

-----------------------------------------------------------------------------
(* The invariant is inductive: closing *)

LEMMA BeginShutdownInv ==
  ASSUME IInv, BeginShutdown
  PROVE  IInv'
<1>1. phase \in {"parsing", "ready"} /\ mode = "idle" /\ fault = "none"
  BY DEF BeginShutdown
<1>2. EndOfTime \in Seconds
  BY BoundsAssumption DEF EndOfTime, Seconds
<1>3. CASE phase' = "closing" /\ BeginSeek(EndOfTime)
  <2>1. /\ currIndex' = currIndex
        /\ mode' \in {"idle", "backward", "forward"}
        /\ rewindTime' = EndOfTime
        /\ UNCHANGED <<world, history, creationOf, basicDestroyed, nextIndex,
                       destroyedAt, deleted, tearIndex, currTime>>
        /\ fault' \in {fault, "empty"}
        /\ LoopInv'
    BY <1>1, <1>2, <1>3, BeginSeekInv
  <2>2. TypeOK'
    BY <1>1, <1>2, <1>3, <2>1 DEF IInv, TypeOK
  <2>3. RoomLeft' /\ ParseInv' /\ SeekIsExact' /\ NeverTwice'
    BY <1>1, <1>3, <2>1 DEF IInv, RoomLeft, ParseInv, SeekIsExact, NeverTwice
  <2> QED BY <2>1, <2>2, <2>3, HistoryKept DEF IInv
<1>4. CASE phase' = "tearing"
           /\ UNCHANGED <<world, history, currIndex, creationOf, basicDestroyed,
                          nextIndex, destroyedAt, deleted, tearIndex, mode,
                          currTime, rewindTime, fault>>
  <2>1. TypeOK'
    BY <1>4 DEF IInv, TypeOK
  <2>2. RoomLeft' /\ ParseInv' /\ LoopInv' /\ SeekIsExact' /\ NeverTwice'
    BY <1>4 DEF IInv, RoomLeft, ParseInv, LoopInv, SeekIsExact, NeverTwice
  <2> QED BY <1>4, <2>1, <2>2, HistoryKept DEF IInv
<1> QED BY <1>3, <1>4 DEF BeginShutdown

LEMMA TearDownInv ==
  ASSUME IInv, NEW i \in Index, TearDown(i)
  PROVE  IInv'
<1> DEFINE c == world.desc[i].chunk
           w == TearEvent(i)
<1>1. /\ phase = "tearing" /\ i = tearIndex /\ i < nextIndex /\ Occupied(i)
      /\ fault' = TearFault(i)
      /\ IF fault' = "none"
         THEN /\ world' = [w EXCEPT !.eid[c] = Invalid,
                             !.desc[i] = [chunk |-> None, gen |-> @.gen + 1]]
              /\ deleted' = IF HasUnit(world.kind[c]) THEN deleted \cup {c}
                            ELSE deleted
              /\ destroyedAt' =
                   IF i \in basicDestroyed THEN destroyedAt
                   ELSE StampDestroyed(destroyedAt, world, <<i, 0>>, currTime)
              /\ tearIndex' = i + 1
         ELSE UNCHANGED <<world, deleted, destroyedAt, tearIndex>>
      /\ UNCHANGED <<history, currIndex, creationOf, basicDestroyed, nextIndex,
                     phase, mode, currTime, rewindTime>>
  BY DEF TearDown, Visiting, FreedDesc
<1>2. /\ world \in WorldType
      /\ destroyedAt \in [Chunk -> Seconds \cup {None}]
      /\ currTime \in Seconds
      /\ deleted \subseteq Chunk
  BY DEF IInv, TypeOK
<1>3. c \in Chunk
  BY <1>1, <1>2 DEF Occupied, WorldType
<1>4. w \in WorldType /\ w.desc = world.desc
  <2> DEFINE e == <<i, world.desc[i].gen>>
  <2>1. ChunkAt(world, e) \in Chunk
    BY <1>3 DEF ChunkAt
  <2> HIDE DEF e
  <2>2. OnDestroyedBasic(world, e, Invalid) \in WorldType
        /\ OnDestroyedBasic(world, e, Invalid).desc = world.desc
    BY <1>2, <2>1, InvalidIsEid, DestroyedBasicType
  <2> QED BY <1>2, <2>2 DEF TearEvent, e
<1> HIDE DEF w
<1>5. CASE fault' = "none"
  <2>1. world' \in WorldType
    <3>1. world' = [w EXCEPT !.eid[c] = Invalid,
                             !.desc[i] = [chunk |-> None, gen |-> w.desc[i].gen + 1]]
      BY <1>1, <1>5
    <3> DEFINE d == [chunk |-> None, gen |-> w.desc[i].gen + 1]
    <3>2. d \in [chunk : Chunk \cup {None}, gen : Nat]
      BY <1>4 DEF WorldType
    <3> HIDE DEF c, d
    <3>3. [w EXCEPT !.eid[c] = Invalid, !.desc[i] = d] \in WorldType
      BY <1>3, <1>4, <3>2, InvalidIsEid DEF WorldType
    <3> QED BY <3>1, <3>3 DEF d
  <2>2. destroyedAt' \in [Chunk -> Seconds \cup {None}]
    <3>1. ChunkAt(world, <<i, 0>>) \in Chunk
      BY <1>3 DEF ChunkAt
    <3>2. StampDestroyed(destroyedAt, world, <<i, 0>>, currTime)
            \in [Chunk -> Seconds \cup {None}]
      BY <1>2, <3>1, StampType
    <3> QED BY <1>1, <1>2, <1>3, <1>5, <3>2
  <2>3. deleted' \subseteq Chunk
    BY <1>1, <1>2, <1>3, <1>5
  <2> QED
    <3>0. tearIndex' \in 1 .. nextIndex'
      BY <1>1, <1>5, CountersAreIntegers DEF IInv, TypeOK
    <3>1. TypeOK'
      BY <1>1, <1>5, <2>1, <2>2, <2>3, <3>0 DEF IInv, TypeOK
    <3>2. RoomLeft' /\ ParseInv' /\ LoopInv' /\ SeekIsExact' /\ NeverTwice'
      BY <1>1, <1>5 DEF IInv, RoomLeft, ParseInv, LoopInv, SeekIsExact, NeverTwice
    <3> QED BY <1>1, <3>1, <3>2, HistoryKept DEF IInv
<1>6. CASE fault' # "none"
  <2>1. fault' = "uid" /\ UNCHANGED <<world, deleted, destroyedAt, tearIndex>>
    BY <1>1, <1>6 DEF TearFault
  <2>2. TypeOK'
    BY <1>1, <2>1 DEF IInv, TypeOK
  <2>3. RoomLeft' /\ ParseInv' /\ LoopInv' /\ SeekIsExact' /\ NeverTwice'
    BY <1>1, <2>1 DEF IInv, RoomLeft, ParseInv, LoopInv, SeekIsExact, NeverTwice
  <2> QED BY <1>1, <2>2, <2>3, HistoryKept DEF IInv
<1> QED BY <1>5, <1>6

LEMMA PassEmptyInv ==
  ASSUME IInv, NEW i \in Index, PassEmpty(i)
  PROVE  IInv'
<1> USE DEF PassEmpty, Visiting
<1>1. tearIndex' \in 1 .. nextIndex'
  BY CountersAreIntegers DEF IInv, TypeOK
<1>2. TypeOK'
  BY <1>1 DEF IInv, TypeOK
<1>3. RoomLeft' /\ ParseInv' /\ LoopInv' /\ SeekIsExact' /\ NeverTwice'
  BY DEF IInv, RoomLeft, ParseInv, LoopInv, SeekIsExact, NeverTwice
<1> QED BY <1>2, <1>3, HistoryKept DEF IInv

LEMMA TornDownInv ==
  ASSUME IInv, TornDown
  PROVE  IInv'
<1> USE DEF TornDown
<1>1. TypeOK'
  BY DEF IInv, TypeOK
<1>2. RoomLeft' /\ ParseInv' /\ LoopInv' /\ SeekIsExact' /\ NeverTwice'
  BY DEF IInv, RoomLeft, ParseInv, LoopInv, SeekIsExact, NeverTwice
<1> QED BY <1>1, <1>2, HistoryKept DEF IInv

LEMMA StutterInv ==
  ASSUME IInv, UNCHANGED vars
  PROVE  IInv'
<1> USE DEF vars
<1>1. TypeOK'
  BY DEF IInv, TypeOK
<1>2. ParseInv'
  BY OwnershipKept DEF IInv, ParseInv
<1>3. RoomLeft' /\ LoopInv' /\ SeekIsExact' /\ NeverTwice'
  BY DEF IInv, RoomLeft, LoopInv, SeekIsExact, NeverTwice
<1> QED BY <1>1, <1>2, <1>3, HistoryKept DEF IInv

-----------------------------------------------------------------------------
(* Theorems *)

\* The invariant holds in every state of every behaviour: the whole of what is
\* needed to rewind (typed tables, an ordered history, actions on their side of
\* curr_index) survives parsing, rewinding and closing.
THEOREM InductiveInvariant == Spec => []IInv
<1>1. Init => IInv
  BY InitInv
<1>2. IInv /\ [Next]_vars => IInv'
  <2> SUFFICES ASSUME IInv, [Next]_vars PROVE IInv'
    OBVIOUS
  <2>1. CASE Parse
    <3>1. PICK t \in 0 .. MaxTime :
            \/ \E e \in ServerEid :
                 \/ \E k \in Kind, v \in Value : ParseCreate(t, e, k, v)
                 \/ ParseDestroy(t, e)
                 \/ \E v \in Value : ParseUpdate(t, e, v)
                 \/ ParseDestroyThrows(t, e)
            \/ ParseOther(t)
            \/ ParseEnd(t)
      BY <2>1 DEF Parse
    <3> QED BY <3>1, ParseCreateInv, ParseDestroyInv, ParseUpdateInv,
               ParseDestroyThrowsInv, ParseOtherInv, ParseEndInv
  <2>2. CASE \E t \in 0 .. EndOfTime : RewindTo(t)
    BY <2>2, RewindToInv DEF Seconds
  <2>3. CASE Seek
    BY <2>3, StepBackwardInv, StepForwardInv, StepThrowsInv,
       SeekReturnThrowsInv, FinishSeekInv DEF Seek
  <2>4. CASE BeginShutdown
    BY <2>4, BeginShutdownInv
  <2>5. CASE \E i \in Index : TearDown(i) \/ PassEmpty(i)
    BY <2>5, TearDownInv, PassEmptyInv
  <2>6. CASE TornDown
    BY <2>6, TornDownInv
  <2>7. CASE UNCHANGED vars
    BY <2>7, StutterInv
  <2> QED BY <2>1, <2>2, <2>3, <2>4, <2>5, <2>6, <2>7 DEF Next
<1> QED BY <1>1, <1>2, PTL DEF Spec

\* Every variable keeps its type, and curr_index stays inside the history
\* (RewindMgr.h:65-83, EntityManager.cpp).
THEOREM TypeCorrect == Spec => []TypeOK
<1>1. IInv => TypeOK
  BY DEF IInv
<1> QED BY <1>1, InductiveInvariant, PTL

\* The actions before curr_index are applied and the ones after it undone, at
\* every step of every rewind (last_direction, EntityManager.cpp:15-87).
THEOREM DirectionsCorrect == Spec => []DirectionMatches
<1>1. IInv => DirectionMatches
  BY DEF IInv
<1> QED BY <1>1, InductiveInvariant, PTL

\* A rewind that ended has applied exactly the actions up to its time, whatever
\* was sought before (iterateToIndex, RewindMgr.h:65-83).
THEOREM SeekExact == Spec => []SeekIsExact
<1>1. IInv => SeekIsExact
  BY DEF IInv
<1> QED BY <1>1, InductiveInvariant, PTL

\* The direction asserts of the rewind actions never fire
\* (EntityManager.cpp:17, 28, 39, 50, 75, 83).
THEOREM NeverTwiceHolds == Spec => [](fault # "direction")
<1>1. IInv => fault # "direction"
  BY DEF IInv, NeverTwice
<1> QED BY <1>1, InductiveInvariant, PTL

\* While a replay is parsed, eidToEventCreationMap leads from every living
\* entity to the action that created its chunk, and has no other keys
\* (EntityManager.h:434-451).
THEOREM CreationMapCorrect == Spec => []CreationMapExact
<1>1. IInv => CreationMapExact
  <2> SUFFICES ASSUME IInv, phase = "parsing", NEW e \in ServerEid
               PROVE  IF EntityExists(world, e)
                      THEN /\ creationOf[e] # 0
                           /\ history[creationOf[e]].op = "create"
                           /\ history[creationOf[e]].after = e
                           /\ history[creationOf[e]].before[1] = ChunkAt(world, e)
                      ELSE creationOf[e] = 0
    BY DEF CreationMapExact
  <2>1. Ownership
    BY DEF IInv, ParseInv
  <2>2. OwnsStorage(e[1]) /\ e = <<e[1], e[2]>>
    BY <2>1, ServerIsEid DEF Ownership
  <2>3. CASE EntityExists(world, e)
    BY <2>2, <2>3 DEF OwnsStorage, EntityExists, ChunkAt, Storage
  <2>4. CASE ~EntityExists(world, e)
    BY <2>1, <2>4 DEF Ownership
  <2> QED BY <2>3, <2>4
<1> QED BY <1>1, InductiveInvariant, PTL

-----------------------------------------------------------------------------
(* The entity store: where the recorded actions put every chunk *)

Steps(h) == 1 .. Len(h)

\* Action k of history h creates chunk c; action d destroys it.
Creates(h, k, c)  == h[k].op = "create" /\ h[k].before = Storage(c)
Destroys(h, d, c) == h[d].op = "destroy" /\ h[d].before = Storage(c)

\* The chunks in the server's range once the first n actions are applied.
Living(h, n) ==
  {c \in Chunk : /\ \E k \in Steps(h) : k <= n /\ Creates(h, k, c)
                 /\ ~ \E d \in Steps(h) : d <= n /\ Destroys(h, d, c)}

Birth(h, c) == CHOOSE k \in Steps(h) : Creates(h, k, c)

\* The handle a chunk was created under.
Home(h) == [c \in Chunk |-> h[Birth(h, c)].after]

\* A chunk is created once and destroyed at most once, later and under the same
\* handle.
OneLife(h) ==
  \A c \in Chunk, k \in Steps(h) :
    /\ Creates(h, k, c) => \A l \in Steps(h) : Creates(h, l, c) => l = k
    /\ Destroys(h, k, c) => \A l \in Steps(h) : Destroys(h, l, c) => l = k
    /\ Destroys(h, k, c)
         => \E l \in Steps(h) : l < k /\ Creates(h, l, c) /\ h[l].after = h[k].after

\* Chunks created at one server index follow each other.
InTurn(h) ==
  \A b, c \in Chunk : \A k, l \in Steps(h) :
    Creates(h, k, b) /\ Creates(h, l, c) /\ k < l /\ h[k].after[1] = h[l].after[1]
      => \E d \in Steps(h) : k < d /\ d < l /\ Destroys(h, d, b)

\* An update is recorded while the entity it names lives.
UpdatesLiving(h) ==
  \A n \in Steps(h) : h[n].op = "update"
    => \E c \in Living(h, n), k \in Steps(h) : Creates(h, k, c) /\ h[k].after = h[n].after

Lives(h) == OneLife(h) /\ InTurn(h) /\ UpdatesLiving(h)

\* The chunks created are those below the next storage index; basic_destroyed
\* has those destroyed.
Born == {c \in Chunk : c < nextIndex}

AllBorn ==
  \A c \in Chunk :
    /\ c \in Born <=> \E k \in Steps(history) : Creates(history, k, c)
    /\ c \in basicDestroyed <=> \E d \in Steps(history) : Destroys(history, d, c)

AtServer(w, c, e) ==
  /\ w.desc[e[1]] = [chunk |-> c, gen |-> e[2]]
  /\ w.desc[c].chunk = None
  /\ w.eid[c] = e

Parked(w, c, e) ==
  /\ w.desc[c] = [chunk |-> c, gen |-> e[2]]
  /\ w.eid[c] = Storage(c)

\* Of the chunks in `born`, those in `alive` are at their home, the others are
\* parked, and no server index holds anything else.
PlacedIn(w, born, alive, home) ==
  /\ \A c \in born : IF c \in alive THEN AtServer(w, c, home[c]) ELSE Parked(w, c, home[c])
  /\ \A i \in ServerIndex :
       w.desc[i].chunk # None
         => w.desc[i].chunk \in alive /\ home[w.desc[i].chunk][1] = i
  /\ \A c \in Chunk \ born : w.desc[c].chunk = None

Placed == PlacedIn(world, Born, Living(history, currIndex), Home(history))

Stored == phase \in {"parsing", "ready", "closing"}

\* A seek is over before the store is torn down, and a replay is only ever closed
\* at its end.
AtTheEnd ==
  /\ mode # "idle" => Stored
  /\ phase = "closing" => rewindTime = EndOfTime /\ mode # "backward"
  /\ ~Stored => currIndex = Len(history)

LiveIn(w, c) == \E i \in ServerIndex : w.desc[i].chunk = c

OwnedBy(w) ==
  \A p \in Player :
    w.owned[p] = {c \in Chunk : LiveIn(w, c) /\ Owns(w.kind[c]) /\ w.kind[c].pid = p}

Resolves(w) ==
  \A u \in Uid :
    /\ \A i \in ServerIndex :
         LET c == w.desc[i].chunk
         IN  c # None /\ HasUid(w.kind[c]) /\ w.kind[c].uid = u
               => w.uidEid[u] = <<i, w.desc[i].gen>>
    /\ IF w.uidEid[u] = Invalid THEN w.uidUnit[u] = None
       ELSE /\ w.uidEid[u][1] \in ServerIndex
            /\ EntityExists(w, w.uidEid[u])
            /\ LET c == ChunkAt(w, w.uidEid[u])
               IN  /\ HasUid(w.kind[c]) /\ w.kind[c].uid = u
                   /\ w.uidUnit[u] = IF HasUnit(w.kind[c]) THEN c ELSE None

\* While the store is torn down, what is left is in the server's range or was
\* destroyed while parsing; a unit is left or deleted.
Left ==
  /\ \A i \in Index : world.desc[i].chunk # None =>
       /\ world.desc[i].chunk \in Born
       /\ world.desc[i].chunk \notin deleted
       /\ i \in ServerIndex \/ i \in basicDestroyed
       /\ i < nextIndex
       /\ \A j \in Index : world.desc[j].chunk = world.desc[i].chunk => i = j
  /\ \A c \in deleted : c \in Born /\ HasUnit(world.kind[c])
  /\ \A c \in Born : HasUnit(world.kind[c]) /\ c \notin deleted
       => \E i \in Index : world.desc[i].chunk = c

Teardown == IF Stored THEN deleted = {} ELSE Left

\* The destructor leaves nothing behind its loop variable.
Swept ==
  /\ Stored => tearIndex = 1
  /\ \A i \in Index : i < tearIndex => world.desc[i].chunk = None
  /\ phase = "closed" => tearIndex >= nextIndex

StoreInv ==
  /\ Lives(history)
  /\ AllBorn
  /\ Stored => Placed
  /\ AtTheEnd
  /\ OwnedBy(world)
  /\ Resolves(world)
  /\ Teardown
  /\ RewindNeverAsserts
-----------------------------------------------------------------------------
(* What the handlers do to the tables *)

Registered(k) == HasUid(k) /\ k.uid # Unset

\* The tables of v are those of w after chunk c came under handle e.
Gains(w, v, c, e) ==
  LET k == v.kind[c]
  IN  /\ v.owned = IF Owns(k) THEN [w.owned EXCEPT ![k.pid] = @ \cup {c}] ELSE w.owned
      /\ v.uidEid = IF Registered(k) THEN [w.uidEid EXCEPT ![k.uid] = e] ELSE w.uidEid
      /\ v.uidUnit = IF Registered(k)
                     THEN [w.uidUnit EXCEPT ![k.uid] = IF HasUnit(k) THEN c ELSE None]
                     ELSE w.uidUnit

\* The tables of v are those of w after chunk c went.
Loses(w, v, c) ==
  LET k == w.kind[c]
  IN  /\ v.owned = IF Owns(k) THEN [w.owned EXCEPT ![k.pid] = @ \ {c}] ELSE w.owned
      /\ v.uidEid = IF Registered(k) THEN [w.uidEid EXCEPT ![k.uid] = Invalid] ELSE w.uidEid
      /\ v.uidUnit = IF Registered(k) THEN [w.uidUnit EXCEPT ![k.uid] = None] ELSE w.uidUnit

LEMMA SetUnitDataFacts ==
  ASSUME NEW w \in WorldType, NEW u \in Uid \cup {Unset}, NEW unit, NEW e
  PROVE  LET s == SetUnitData(w, u, unit, e)
         IN  /\ s.desc = w.desc /\ s.kind = w.kind /\ s.eid = w.eid /\ s.owned = w.owned
             /\ s.uidEid = IF u # Unset THEN [w.uidEid EXCEPT ![u] = e] ELSE w.uidEid
             /\ s.uidUnit = IF u # Unset THEN [w.uidUnit EXCEPT ![u] = unit] ELSE w.uidUnit
BY DEF SetUnitData, WorldType

LEMMA SetCurrEidFacts ==
  ASSUME NEW w \in WorldType, NEW c, NEW e
  PROVE  LET s == SetCurrEid(w, c, e)
         IN  /\ s.desc = w.desc /\ s.kind = w.kind /\ s.eid = w.eid /\ s.owned = w.owned
             /\ s.uidEid = w.uidEid /\ s.uidUnit = w.uidUnit
BY DEF SetCurrEid, WorldType

LEMMA PlayerFacts ==
  ASSUME NEW w \in WorldType, NEW c \in Chunk
  PROVE  LET k == w.kind[c]
             g == PlayerGains(w, c)
             l == PlayerLoses(w, c)
         IN  /\ g.desc = w.desc /\ g.kind = w.kind /\ g.eid = w.eid
             /\ g.uidEid = w.uidEid /\ g.uidUnit = w.uidUnit
             /\ g.owned = IF Owns(k) THEN [w.owned EXCEPT ![k.pid] = @ \cup {c}] ELSE w.owned
             /\ l.desc = w.desc /\ l.kind = w.kind /\ l.eid = w.eid
             /\ l.uidEid = w.uidEid /\ l.uidUnit = w.uidUnit
             /\ l.owned = IF Owns(k) THEN [w.owned EXCEPT ![k.pid] = @ \ {c}] ELSE w.owned
BY DEF PlayerGains, PlayerLoses, WorldType

LEMMA CreatedFacts ==
  ASSUME NEW w \in WorldType, NEW e
  PROVE  LET o == OnCreated(w, e)
         IN  /\ o.desc = w.desc /\ o.kind = w.kind /\ o.eid = w.eid /\ o.owned = w.owned
             /\ o.uidEid = w.uidEid /\ o.uidUnit = w.uidUnit /\ o.value = w.value
             /\ o.currEid = w.currEid
BY DEF OnCreated, WorldType

LEMMA CreatedBasicFacts ==
  ASSUME NEW w \in WorldType, NEW e \in Eid, ChunkAt(w, e) \in Chunk
  PROVE  LET v == OnCreatedBasic(w, e)
         IN  /\ v.desc = w.desc /\ v.kind = w.kind /\ v.eid = w.eid
             /\ Gains(w, v, ChunkAt(w, e), e)
<1> DEFINE c == ChunkAt(w, e)
           k == w.kind[c]
           unit == IF HasUnit(k) THEN c ELSE None
           s == SetUnitData(w, k.uid, unit, e)
           t == SetCurrEid(s, c, e)
           a == UidAppears(w, e)
<1>1. /\ s \in WorldType
      /\ s.desc = w.desc /\ s.kind = w.kind /\ s.eid = w.eid /\ s.owned = w.owned
      /\ s.uidEid = IF k.uid # Unset THEN [w.uidEid EXCEPT ![k.uid] = e] ELSE w.uidEid
      /\ s.uidUnit = IF k.uid # Unset
                     THEN [w.uidUnit EXCEPT ![k.uid] = IF HasUnit(k) THEN c ELSE None]
                     ELSE w.uidUnit
  <2>1. k.uid \in Uid \cup {Unset} /\ unit \in Chunk \cup {None}
    BY KindType
  <2> HIDE DEF k, c, unit
  <2>2. s \in WorldType
    BY <2>1, SetUnitDataType
  <2>3. /\ s.desc = w.desc /\ s.kind = w.kind /\ s.eid = w.eid /\ s.owned = w.owned
        /\ s.uidEid = IF k.uid # Unset THEN [w.uidEid EXCEPT ![k.uid] = e] ELSE w.uidEid
        /\ s.uidUnit = IF k.uid # Unset THEN [w.uidUnit EXCEPT ![k.uid] = unit] ELSE w.uidUnit
    BY <2>1, SetUnitDataFacts
  <2> QED BY <2>2, <2>3 DEF unit
<1>2. a = IF Registered(k) THEN t ELSE w
  BY DEF UidAppears, Registered
<1> HIDE DEF c, k, s, a, unit
<1>3. /\ t \in WorldType
      /\ t.desc = s.desc /\ t.kind = s.kind /\ t.eid = s.eid /\ t.owned = s.owned
      /\ t.uidEid = s.uidEid /\ t.uidUnit = s.uidUnit
  BY <1>1, SetCurrEidType, SetCurrEidFacts DEF c
<1> HIDE DEF t
<1>4. /\ a \in WorldType
      /\ a.desc = w.desc /\ a.kind = w.kind /\ a.eid = w.eid /\ a.owned = w.owned
      /\ a.uidEid = IF Registered(k) THEN [w.uidEid EXCEPT ![k.uid] = e] ELSE w.uidEid
      /\ a.uidUnit = IF Registered(k)
                     THEN [w.uidUnit EXCEPT ![k.uid] = IF HasUnit(k) THEN c ELSE None]
                     ELSE w.uidUnit
  BY <1>1, <1>2, <1>3 DEF Registered
<1>5. c \in Chunk /\ OnCreatedBasic(w, e) = PlayerGains(a, c) /\ k = a.kind[c]
  BY <1>4 DEF OnCreatedBasic, c, a, k
<1>6. /\ OnCreatedBasic(w, e).desc = a.desc
      /\ OnCreatedBasic(w, e).kind = a.kind
      /\ OnCreatedBasic(w, e).eid = a.eid
      /\ OnCreatedBasic(w, e).uidEid = a.uidEid
      /\ OnCreatedBasic(w, e).uidUnit = a.uidUnit
      /\ OnCreatedBasic(w, e).owned =
           IF Owns(k) THEN [a.owned EXCEPT ![k.pid] = @ \cup {c}] ELSE a.owned
  <2> DEFINE b == PlayerGains(a, c)
  <2>1. /\ b.desc = a.desc /\ b.kind = a.kind /\ b.eid = a.eid
        /\ b.uidEid = a.uidEid /\ b.uidUnit = a.uidUnit
        /\ b.owned = IF Owns(a.kind[c])
                     THEN [a.owned EXCEPT ![a.kind[c].pid] = @ \cup {c}] ELSE a.owned
    BY <1>4, <1>5, PlayerFacts
  <2> HIDE DEF b
  <2>2. OnCreatedBasic(w, e) = b
    BY <1>5 DEF b
  <2> QED BY <1>5, <2>1, <2>2
<1>7. OnCreatedBasic(w, e).kind[c] = k
  BY <1>4, <1>5, <1>6
<1> QED BY <1>4, <1>6, <1>7 DEF Gains, c

LEMMA DestroyedBasicFacts ==
  ASSUME NEW w \in WorldType, NEW e, NEW new \in Eid, ChunkAt(w, e) \in Chunk
  PROVE  LET v == OnDestroyedBasic(w, e, new)
         IN  /\ v.desc = w.desc /\ v.kind = w.kind /\ v.eid = w.eid
             /\ Loses(w, v, ChunkAt(w, e))
<1> DEFINE c == ChunkAt(w, e)
           k == w.kind[c]
           s == SetUnitData(w, k.uid, None, Invalid)
           t == SetCurrEid(s, c, new)
           a == UidVanishes(w, e, new)
<1>1. /\ s \in WorldType
      /\ s.desc = w.desc /\ s.kind = w.kind /\ s.eid = w.eid /\ s.owned = w.owned
      /\ s.uidEid = IF k.uid # Unset THEN [w.uidEid EXCEPT ![k.uid] = Invalid] ELSE w.uidEid
      /\ s.uidUnit = IF k.uid # Unset THEN [w.uidUnit EXCEPT ![k.uid] = None] ELSE w.uidUnit
  <2>1. k.uid \in Uid \cup {Unset}
    BY KindType
  <2> HIDE DEF k, c
  <2>2. s \in WorldType
    BY <2>1, SetUnitDataType, InvalidIsEid
  <2> QED BY <2>1, <2>2, SetUnitDataFacts
<1>2. a = IF HasUid(k) THEN t ELSE w
  BY DEF UidVanishes
<1> HIDE DEF c, k, s, a
<1>3. /\ t \in WorldType
      /\ t.desc = s.desc /\ t.kind = s.kind /\ t.eid = s.eid /\ t.owned = s.owned
      /\ t.uidEid = s.uidEid /\ t.uidUnit = s.uidUnit
  BY <1>1, SetCurrEidType, SetCurrEidFacts DEF c
<1> HIDE DEF t
<1>4. /\ a \in WorldType
      /\ a.desc = w.desc /\ a.kind = w.kind /\ a.eid = w.eid /\ a.owned = w.owned
      /\ a.uidEid = IF Registered(k) THEN [w.uidEid EXCEPT ![k.uid] = Invalid] ELSE w.uidEid
      /\ a.uidUnit = IF Registered(k) THEN [w.uidUnit EXCEPT ![k.uid] = None] ELSE w.uidUnit
  BY <1>1, <1>2, <1>3 DEF Registered
<1>5. c \in Chunk /\ OnDestroyedBasic(w, e, new) = PlayerLoses(a, c) /\ k = a.kind[c]
  BY <1>4 DEF OnDestroyedBasic, c, a, k
<1>6. /\ OnDestroyedBasic(w, e, new).desc = a.desc
      /\ OnDestroyedBasic(w, e, new).kind = a.kind
      /\ OnDestroyedBasic(w, e, new).eid = a.eid
      /\ OnDestroyedBasic(w, e, new).uidEid = a.uidEid
      /\ OnDestroyedBasic(w, e, new).uidUnit = a.uidUnit
      /\ OnDestroyedBasic(w, e, new).owned =
           IF Owns(k) THEN [a.owned EXCEPT ![k.pid] = @ \ {c}] ELSE a.owned
  <2> DEFINE b == PlayerLoses(a, c)
  <2>1. /\ b.desc = a.desc /\ b.kind = a.kind /\ b.eid = a.eid
        /\ b.uidEid = a.uidEid /\ b.uidUnit = a.uidUnit
        /\ b.owned = IF Owns(a.kind[c])
                     THEN [a.owned EXCEPT ![a.kind[c].pid] = @ \ {c}] ELSE a.owned
    BY <1>4, <1>5, PlayerFacts
  <2> HIDE DEF b
  <2>2. OnDestroyedBasic(w, e, new) = b
    BY <1>5 DEF b
  <2> QED BY <1>5, <2>1, <2>2
<1> QED BY <1>4, <1>6 DEF Loses, c, k

\* An entity that comes under a free server index with a free uid keeps the
\* tables exact.
LEMMA Gaining ==
  ASSUME NEW w \in WorldType, NEW v \in WorldType, NEW c \in Chunk, NEW e \in ServerEid,
         OwnedBy(w), Resolves(w), Gains(w, v, c, e),
         w.desc[e[1]].chunk = None, ~LiveIn(w, c),
         v.desc[e[1]] = [chunk |-> c, gen |-> e[2]],
         \A i \in ServerIndex : i # e[1] => v.desc[i] = w.desc[i],
         \A x \in Chunk : x # c => v.kind[x] = w.kind[x],
         Registered(v.kind[c]) => w.uidEid[v.kind[c].uid] = Invalid
  PROVE  OwnedBy(v) /\ Resolves(v)
<1> DEFINE k == v.kind[c]
<1>1. /\ e[1] \in ServerIndex /\ e \in Eid /\ e = <<e[1], e[2]>> /\ e # Invalid
      /\ c # None
  BY ServerIsEid, SentinelAssumption, BoundsAssumption DEF Invalid, ServerIndex
<1>2. k.pid \in Player \cup {Unset} /\ k.uid \in Uid \cup {Unset}
  BY KindType
<1>3. \A x \in Chunk : LiveIn(v, x) <=> x = c \/ LiveIn(w, x)
  <2> SUFFICES ASSUME NEW x \in Chunk
               PROVE  (\E i \in ServerIndex : v.desc[i].chunk = x)
                        <=> x = c \/ \E i \in ServerIndex : w.desc[i].chunk = x
    BY DEF LiveIn
  <2>1. x # None /\ v.desc[e[1]].chunk = c
    BY SentinelAssumption
  <2>2. \A i \in ServerIndex : i # e[1] => v.desc[i].chunk = w.desc[i].chunk
    OBVIOUS
  <2> HIDE DEF k
  <2> QED BY <1>1, <2>1, <2>2
<1>4. \A i \in ServerIndex : i # e[1] => w.desc[i].chunk # c
  BY DEF LiveIn
<1>5. OwnedBy(v)
  <2> SUFFICES ASSUME NEW p \in Player
               PROVE  v.owned[p] = {x \in Chunk : LiveIn(v, x) /\ Owns(v.kind[x])
                                                    /\ v.kind[x].pid = p}
    BY DEF OwnedBy
  <2>1. w.owned[p] = {x \in Chunk : LiveIn(w, x) /\ Owns(w.kind[x]) /\ w.kind[x].pid = p}
    BY DEF OwnedBy
  <2>2. w.owned \in [Player -> SUBSET Chunk] /\ v.owned \in [Player -> SUBSET Chunk]
    BY DEF WorldType
  <2>3. \A x \in Chunk : x \in v.owned[p]
          <=> x \in w.owned[p] \/ (x = c /\ Owns(k) /\ k.pid = p)
    BY <1>2, <2>2 DEF Gains, Owns
  <2>4. v.owned[p] \subseteq Chunk
    BY <2>2
  <2> QED BY <1>3, <2>1, <2>3, <2>4
<1>6. Resolves(v)
  <2> SUFFICES ASSUME NEW u \in Uid
               PROVE  /\ \A i \in ServerIndex :
                           LET x == v.desc[i].chunk
                           IN  x # None /\ HasUid(v.kind[x]) /\ v.kind[x].uid = u
                                 => v.uidEid[u] = <<i, v.desc[i].gen>>
                      /\ IF v.uidEid[u] = Invalid THEN v.uidUnit[u] = None
                         ELSE /\ v.uidEid[u][1] \in ServerIndex
                              /\ EntityExists(v, v.uidEid[u])
                              /\ LET x == ChunkAt(v, v.uidEid[u])
                                 IN  /\ HasUid(v.kind[x]) /\ v.kind[x].uid = u
                                     /\ v.uidUnit[u] = IF HasUnit(v.kind[x]) THEN x
                                                       ELSE None
    BY DEF Resolves
  <2>1. w.uidEid \in [Uid -> Eid] /\ w.uidUnit \in [Uid -> Chunk \cup {None}]
    BY DEF WorldType
  <2>2. \A i \in ServerIndex : w.desc[i].chunk \in Chunk \cup {None}
    BY DEF WorldType, Index
  <2>3. u # Unset
    BY SentinelAssumption
  <2>4. CASE Registered(k) /\ k.uid = u
    <3>1. v.uidEid[u] = e /\ v.uidUnit[u] = (IF HasUnit(k) THEN c ELSE None)
      BY <2>1, <2>4 DEF Gains
    <3>2. \A i \in ServerIndex : i # e[1] =>
            LET x == w.desc[i].chunk
            IN  ~(x # None /\ HasUid(w.kind[x]) /\ w.kind[x].uid = u)
      <4> SUFFICES ASSUME NEW i \in ServerIndex, i # e[1], w.desc[i].chunk # None,
                          HasUid(w.kind[w.desc[i].chunk]), w.kind[w.desc[i].chunk].uid = u
                   PROVE  FALSE
        OBVIOUS
      <4>1. w.uidEid[u] = <<i, w.desc[i].gen>>
        BY DEF Resolves
      <4>2. <<i, w.desc[i].gen>> # <<0, 0>>
        BY BoundsAssumption DEF ServerIndex
      <4> QED BY <2>4, <4>1, <4>2 DEF Invalid
    <3>3. EntityExists(v, e) /\ ChunkAt(v, e) = c
      BY <1>1 DEF EntityExists, ChunkAt
    <3>4. \A i \in ServerIndex : i # e[1] =>
            /\ v.desc[i] = w.desc[i]
            /\ v.desc[i].chunk # None => v.kind[v.desc[i].chunk] = w.kind[v.desc[i].chunk]
      BY <1>4, <2>2
    <3> QED BY <1>1, <2>4, <3>1, <3>2, <3>3, <3>4 DEF Registered
  <2>5. CASE ~(Registered(k) /\ k.uid = u)
    <3>1. v.uidEid[u] = w.uidEid[u] /\ v.uidUnit[u] = w.uidUnit[u]
      BY <1>2, <2>1, <2>5 DEF Gains, Registered
    <3>2. \A i \in ServerIndex : i # e[1] =>
            /\ v.desc[i] = w.desc[i]
            /\ v.desc[i].chunk # None => v.kind[v.desc[i].chunk] = w.kind[v.desc[i].chunk]
      BY <1>4, <2>2
    <3>3. ASSUME NEW i \in ServerIndex, v.desc[i].chunk # None,
                 HasUid(v.kind[v.desc[i].chunk]), v.kind[v.desc[i].chunk].uid = u
          PROVE  v.uidEid[u] = <<i, v.desc[i].gen>>
      <4>1. i # e[1]
        BY <2>3, <2>5, <3>3 DEF Registered
      <4> QED BY <3>1, <3>2, <3>3, <4>1 DEF Resolves
    <3>4. ASSUME w.uidEid[u] # Invalid
          PROVE  /\ v.uidEid[u][1] \in ServerIndex
                 /\ EntityExists(v, v.uidEid[u])
                 /\ LET x == ChunkAt(v, v.uidEid[u])
                    IN  /\ HasUid(v.kind[x]) /\ v.kind[x].uid = u
                        /\ v.uidUnit[u] = IF HasUnit(v.kind[x]) THEN x ELSE None
      <4>1. /\ w.uidEid[u][1] \in ServerIndex
            /\ EntityExists(w, w.uidEid[u])
            /\ LET x == ChunkAt(w, w.uidEid[u])
               IN  /\ HasUid(w.kind[x]) /\ w.kind[x].uid = u
                   /\ w.uidUnit[u] = IF HasUnit(w.kind[x]) THEN x ELSE None
        BY <3>4 DEF Resolves
      <4>2. w.uidEid[u][1] # e[1]
        BY <4>1 DEF EntityExists, ChunkAt
      <4> QED BY <3>1, <3>2, <4>1, <4>2 DEF EntityExists, ChunkAt
    <3>5. w.uidEid[u] = Invalid => w.uidUnit[u] = None
      BY DEF Resolves
    <3> QED BY <3>1, <3>3, <3>4, <3>5
  <2> QED BY <2>4, <2>5
<1> QED BY <1>5, <1>6

\* Apart from server index i, the server's range is as it was, without chunk c.
Aside(w, v, i, c) ==
  \A j \in ServerIndex : j # i => w.desc[j].chunk # c /\ v.desc[j] = w.desc[j]

\* An entity that leaves its server index keeps them exact.
LEMMA Losing ==
  ASSUME NEW w \in WorldType, NEW v \in WorldType, NEW c \in Chunk, NEW i \in ServerIndex,
         OwnedBy(w), Resolves(w), Loses(w, v, c),
         w.desc[i].chunk = c, v.desc[i].chunk = None,
         Aside(w, v, i, c),
         v.kind = w.kind,
         HasUid(w.kind[c]) => w.kind[c].uid # Unset
  PROVE  OwnedBy(v) /\ Resolves(v)
<1> DEFINE k == w.kind[c]
<1>1. c # None
  BY SentinelAssumption
<1>2. k.pid \in Player \cup {Unset} /\ k.uid \in Uid \cup {Unset}
  BY KindType
<1>0. \A j \in ServerIndex : j # i => w.desc[j].chunk # c /\ v.desc[j] = w.desc[j]
  BY DEF Aside
<1>3. \A x \in Chunk : LiveIn(v, x) <=> x # c /\ LiveIn(w, x)
  BY <1>0, <1>1, SentinelAssumption DEF LiveIn
<1>4. OwnedBy(v)
  <2> SUFFICES ASSUME NEW p \in Player
               PROVE  v.owned[p] = {x \in Chunk : LiveIn(v, x) /\ Owns(v.kind[x])
                                                    /\ v.kind[x].pid = p}
    BY DEF OwnedBy
  <2>1. w.owned[p] = {x \in Chunk : LiveIn(w, x) /\ Owns(w.kind[x]) /\ w.kind[x].pid = p}
    BY DEF OwnedBy
  <2>2. w.owned \in [Player -> SUBSET Chunk] /\ v.owned \in [Player -> SUBSET Chunk]
    BY DEF WorldType
  <2>3. \A x \in Chunk : x \in v.owned[p]
          <=> x \in w.owned[p] /\ ~(x = c /\ Owns(k) /\ k.pid = p)
    BY <1>2, <2>2 DEF Loses, Owns
  <2>4. v.owned[p] \subseteq Chunk
    BY <2>2
  <2> QED BY <1>3, <2>1, <2>3, <2>4
<1>5. Resolves(v)
  <2> SUFFICES ASSUME NEW u \in Uid
               PROVE  /\ \A j \in ServerIndex :
                           LET x == v.desc[j].chunk
                           IN  x # None /\ HasUid(v.kind[x]) /\ v.kind[x].uid = u
                                 => v.uidEid[u] = <<j, v.desc[j].gen>>
                      /\ IF v.uidEid[u] = Invalid THEN v.uidUnit[u] = None
                         ELSE /\ v.uidEid[u][1] \in ServerIndex
                              /\ EntityExists(v, v.uidEid[u])
                              /\ LET x == ChunkAt(v, v.uidEid[u])
                                 IN  /\ HasUid(v.kind[x]) /\ v.kind[x].uid = u
                                     /\ v.uidUnit[u] = IF HasUnit(v.kind[x]) THEN x
                                                       ELSE None
    BY DEF Resolves
  <2>1. w.uidEid \in [Uid -> Eid] /\ w.uidUnit \in [Uid -> Chunk \cup {None}]
    BY DEF WorldType
  <2>2. u # Unset
    BY SentinelAssumption
  <2>3. Registered(k) /\ k.uid = u => w.uidEid[u] = <<i, w.desc[i].gen>>
    BY <1>1 DEF Resolves, Registered
  <2>4. CASE Registered(k) /\ k.uid = u
    <3>1. v.uidEid[u] = Invalid /\ v.uidUnit[u] = None
      BY <2>1, <2>4 DEF Loses
    <3>2. ASSUME NEW j \in ServerIndex, v.desc[j].chunk # None,
                 HasUid(v.kind[v.desc[j].chunk]), v.kind[v.desc[j].chunk].uid = u
          PROVE  FALSE
      <4>1. j # i /\ v.desc[j] = w.desc[j]
        BY <1>0, <3>2
      <4>2. w.uidEid[u] = <<j, w.desc[j].gen>>
        BY <3>2, <4>1 DEF Resolves
      <4> QED BY <2>3, <2>4, <4>1, <4>2
    <3> QED BY <3>1, <3>2
  <2>5. CASE ~(Registered(k) /\ k.uid = u)
    <3>1. v.uidEid[u] = w.uidEid[u] /\ v.uidUnit[u] = w.uidUnit[u]
      BY <1>2, <2>1, <2>5 DEF Loses, Registered
    <3>2. ASSUME NEW j \in ServerIndex, v.desc[j].chunk # None,
                 HasUid(v.kind[v.desc[j].chunk]), v.kind[v.desc[j].chunk].uid = u
          PROVE  v.uidEid[u] = <<j, v.desc[j].gen>>
      <4>1. j # i /\ v.desc[j] = w.desc[j]
        BY <1>0, <3>2
      <4> QED BY <3>1, <3>2, <4>1 DEF Resolves
    <3>3. ASSUME w.uidEid[u] # Invalid
          PROVE  /\ v.uidEid[u][1] \in ServerIndex
                 /\ EntityExists(v, v.uidEid[u])
                 /\ LET x == ChunkAt(v, v.uidEid[u])
                    IN  /\ HasUid(v.kind[x]) /\ v.kind[x].uid = u
                        /\ v.uidUnit[u] = IF HasUnit(v.kind[x]) THEN x ELSE None
      <4>1. /\ w.uidEid[u][1] \in ServerIndex
            /\ EntityExists(w, w.uidEid[u])
            /\ LET x == ChunkAt(w, w.uidEid[u])
               IN  /\ HasUid(w.kind[x]) /\ w.kind[x].uid = u
                   /\ w.uidUnit[u] = IF HasUnit(w.kind[x]) THEN x ELSE None
        BY <3>3 DEF Resolves
      <4>2. w.uidEid[u][1] # i
        BY <2>2, <2>5, <4>1 DEF ChunkAt, Registered
      <4> QED BY <1>0, <3>1, <4>1, <4>2 DEF EntityExists, ChunkAt
    <3>4. w.uidEid[u] = Invalid => w.uidUnit[u] = None
      BY DEF Resolves
    <3> QED BY <3>1, <3>2, <3>3, <3>4
  <2> QED BY <2>4, <2>5
<1> QED BY <1>4, <1>5

-----------------------------------------------------------------------------
(* The timeline *)

\* Histories of one length that name the same operations on the same handles.
SameRecord(h, g) ==
  /\ Len(g) = Len(h)
  /\ \A i \in Steps(h) :
       g[i].op = h[i].op /\ g[i].before = h[i].before /\ g[i].after = h[i].after

LEMMA StorageIsOne ==
  ASSUME NEW b, NEW c, Storage(b) = Storage(c)
  PROVE  b = c
BY DEF Storage

LEMMA HomeIs ==
  ASSUME NEW h, OneLife(h), NEW k \in Steps(h), NEW c \in Chunk, Creates(h, k, c)
  PROVE  Home(h)[c] = h[k].after
<1>1. Birth(h, c) \in Steps(h) /\ Creates(h, Birth(h, c), c)
  BY DEF Birth
<1>2. Birth(h, c) = k
  BY <1>1 DEF OneLife
<1> QED BY <1>2 DEF Home

LEMMA SameLiving ==
  ASSUME NEW h, NEW g, SameRecord(h, g), NEW n
  PROVE  Living(g, n) = Living(h, n)
BY DEF SameRecord, Living, Steps, Creates, Destroys

LEMMA SameLives ==
  ASSUME NEW h, NEW g, SameRecord(h, g), Lives(h)
  PROVE  Lives(g)
<1>1. /\ Steps(g) = Steps(h)
      /\ \A k \in Steps(h) : \A c : /\ Creates(g, k, c) <=> Creates(h, k, c)
                                    /\ Destroys(g, k, c) <=> Destroys(h, k, c)
      /\ \A k \in Steps(h) : g[k].after = h[k].after /\ g[k].op = h[k].op
  BY DEF SameRecord, Steps, Creates, Destroys
<1>2. OneLife(g)
  BY <1>1 DEF Lives, OneLife
<1>3. InTurn(g)
  BY <1>1 DEF Lives, InTurn
<1>4. UpdatesLiving(g)
  <2>1. \A n : Living(g, n) = Living(h, n)
    BY SameLiving
  <2> QED BY <1>1, <2>1 DEF Lives, UpdatesLiving
<1> QED BY <1>2, <1>3, <1>4 DEF Lives

LEMMA SameHome ==
  ASSUME NEW h, NEW g, SameRecord(h, g), Lives(h), NEW k \in Steps(h),
         NEW c \in Chunk, Creates(h, k, c)
  PROVE  Home(g)[c] = Home(h)[c]
<1>1. k \in Steps(g) /\ Creates(g, k, c) /\ g[k].after = h[k].after
  BY DEF SameRecord, Steps, Creates
<1>2. Lives(g)
  BY SameLives
<1> QED BY <1>1, <1>2, HomeIs DEF Lives

\* How the living change over one action.
LEMMA CreateLiving ==
  ASSUME NEW h, Len(h) \in Nat, Lives(h), NEW n \in Steps(h), NEW c \in Chunk,
         Creates(h, n, c)
  PROVE  /\ c \notin Living(h, n - 1)
         /\ Living(h, n) = Living(h, n - 1) \cup {c}
         /\ Living(h, n - 1) = Living(h, n) \ {c}
<1>1. Steps(h) \subseteq Int
  BY DEF Steps
<1>2. \A k \in Steps(h) : Creates(h, k, c) => k = n
  BY DEF Lives, OneLife
<1>3. \A d \in Steps(h) : Destroys(h, d, c) => n < d
  BY <1>1, <1>2 DEF Lives, OneLife
<1>4. \A k \in Steps(h) : k <= n <=> k <= n - 1 \/ k = n
  BY <1>1
<1>5. \A b \in Chunk : Creates(h, n, b) => b = c
  BY StorageIsOne DEF Creates
<1>6. \A b : ~Destroys(h, n, b)
  BY DEF Creates, Destroys
<1>7. c \notin Living(h, n - 1) /\ c \in Living(h, n)
  BY <1>1, <1>2, <1>3 DEF Living
<1>8. \A b \in Chunk : b # c => (b \in Living(h, n) <=> b \in Living(h, n - 1))
  BY <1>4, <1>5, <1>6 DEF Living
<1>9. Living(h, n) \subseteq Chunk /\ Living(h, n - 1) \subseteq Chunk
  BY DEF Living
<1> QED BY <1>7, <1>8, <1>9

LEMMA DestroyLiving ==
  ASSUME NEW h, Len(h) \in Nat, Lives(h), NEW n \in Steps(h), NEW c \in Chunk,
         Destroys(h, n, c)
  PROVE  /\ c \in Living(h, n - 1)
         /\ Living(h, n) = Living(h, n - 1) \ {c}
         /\ Living(h, n - 1) = Living(h, n) \cup {c}
         /\ Home(h)[c] = h[n].after
<1>1. Steps(h) \subseteq Int
  BY DEF Steps
<1>2. PICK k \in Steps(h) : k < n /\ Creates(h, k, c) /\ h[k].after = h[n].after
  BY DEF Lives, OneLife
<1>3. \A d \in Steps(h) : Destroys(h, d, c) => d = n
  BY DEF Lives, OneLife
<1>4. \A l \in Steps(h) : l <= n <=> l <= n - 1 \/ l = n
  BY <1>1
<1>5. \A b \in Chunk : Destroys(h, n, b) => b = c
  BY StorageIsOne DEF Destroys
<1>6. \A b : ~Creates(h, n, b)
  BY DEF Creates, Destroys
<1>7. c \in Living(h, n - 1) /\ c \notin Living(h, n)
  BY <1>1, <1>2, <1>3 DEF Living
<1>8. \A b \in Chunk : b # c => (b \in Living(h, n) <=> b \in Living(h, n - 1))
  BY <1>4, <1>5, <1>6 DEF Living
<1>9. Living(h, n) \subseteq Chunk /\ Living(h, n - 1) \subseteq Chunk
  BY DEF Living
<1>10. Home(h)[c] = h[n].after
  BY <1>2, HomeIs DEF Lives
<1> QED BY <1>7, <1>8, <1>9, <1>10

LEMMA UpdateLiving ==
  ASSUME NEW h, Len(h) \in Nat, NEW n \in Steps(h), h[n].op = "update"
  PROVE  Living(h, n) = Living(h, n - 1)
<1>1. \A l \in Steps(h) : l <= n <=> l <= n - 1 \/ l = n
  BY DEF Steps
<1>2. \A b : ~Creates(h, n, b) /\ ~Destroys(h, n, b)
  BY DEF Creates, Destroys
<1> QED BY <1>1, <1>2 DEF Living

\* Where a creation is about to be redone, or a destruction undone, nobody sits.
LEMMA SeatFree ==
  ASSUME NEW h, Len(h) \in Nat, Lives(h), NEW n \in Steps(h), NEW c \in Chunk,
         NEW m \in Int, NEW w, NEW born,
         \/ Creates(h, n, c) /\ m = n - 1
         \/ Destroys(h, n, c) /\ m = n,
         h[n].after[1] \in ServerIndex,
         PlacedIn(w, born, Living(h, m), Home(h))
  PROVE  w.desc[h[n].after[1]].chunk = None
<1> DEFINE i == h[n].after[1]
           x == w.desc[i].chunk
<1> SUFFICES ASSUME x # None PROVE FALSE
  OBVIOUS
<1>1. x \in Living(h, m) /\ Home(h)[x][1] = i
  BY DEF PlacedIn
<1> HIDE DEF x
<1>2. Steps(h) \subseteq Int
  BY DEF Steps
<1>3. PICK l \in Steps(h) : l <= m /\ Creates(h, l, x)
  BY <1>1 DEF Living
<1>4. x \in Chunk /\ \A d \in Steps(h) : Destroys(h, d, x) => ~(d <= m)
  BY <1>1 DEF Living
<1>5. h[l].after[1] = i
  BY <1>1, <1>3, <1>4, HomeIs DEF Lives
<1>6. CASE Creates(h, n, c) /\ m = n - 1
  <2>0. l < n /\ h[l].after[1] = h[n].after[1]
    BY <1>2, <1>3, <1>5, <1>6
  <2>1. PICK d \in Steps(h) : d < n /\ Destroys(h, d, x)
    BY <1>3, <1>4, <1>6, <2>0 DEF Lives, InTurn
  <2> QED BY <1>2, <1>4, <1>6, <2>1
<1>7. CASE Destroys(h, n, c) /\ m = n
  <2>1. PICK k \in Steps(h) : k < n /\ Creates(h, k, c) /\ h[k].after = h[n].after
    BY <1>7 DEF Lives, OneLife
  <2>2. x # c
    BY <1>2, <1>4, <1>7
  <2>3. k # l
    BY <1>3, <2>1, <2>2, StorageIsOne DEF Creates
  <2>4. CASE k < l
    <3>1. PICK d \in Steps(h) : d < l /\ Destroys(h, d, c)
      BY <1>3, <1>4, <1>5, <2>1, <2>4 DEF Lives, InTurn
    <3>2. d = n
      BY <1>7, <3>1 DEF Lives, OneLife
    <3> QED BY <1>2, <1>3, <1>7, <3>1, <3>2
  <2>5. CASE l < k
    <3>1. PICK d \in Steps(h) : d < k /\ Destroys(h, d, x)
      BY <1>3, <1>4, <1>5, <2>1, <2>5 DEF Lives, InTurn
    <3> QED BY <1>2, <1>4, <1>7, <2>1, <3>1
  <2> QED BY <1>2, <2>3, <2>4, <2>5
<1> QED BY <1>6, <1>7

-----------------------------------------------------------------------------
(* Moving a chunk *)

LEMMA Entering ==
  ASSUME NEW w \in WorldType, NEW v \in WorldType, NEW c \in Chunk, NEW e \in ServerEid,
         NEW born \in SUBSET Chunk, NEW alive \in SUBSET born, NEW h, NEW g,
         PlacedIn(w, born, alive, h), c \notin alive,
         w.desc[e[1]].chunk = None,
         v.desc[e[1]] = [chunk |-> c, gen |-> e[2]],
         v.desc[c].chunk = None,
         \A i \in Index : i # e[1] /\ i # c => v.desc[i] = w.desc[i],
         v.eid = [w.eid EXCEPT ![c] = e],
         g[c] = e,
         \A x \in born : h[x] \in ServerEid /\ (x # c => g[x] = h[x])
  PROVE  PlacedIn(v, born \cup {c}, alive \cup {c}, g)
<1>1. e[1] \in ServerIndex /\ e[1] \in Index /\ e[1] \notin Chunk /\ Chunk \subseteq Index
  BY ServerIsEid, ServerIsNotChunk DEF Index
<1>2. \A x \in Chunk : x # None /\ (x # c => v.desc[x] = w.desc[x] /\ v.eid[x] = w.eid[x])
  BY <1>1, SentinelAssumption DEF WorldType
<1>3. v.eid[c] = e
  BY DEF WorldType
<1>4. AtServer(v, c, g[c])
  BY <1>3 DEF AtServer
<1>5. ASSUME NEW x \in born, x # c
      PROVE  IF x \in alive THEN AtServer(v, x, g[x]) ELSE Parked(v, x, g[x])
  <2>1. g[x] = h[x] /\ h[x][1] \in ServerIndex /\ h[x][1] \in Index /\ h[x][1] # c
    BY <1>5, ServerIsEid, ServerIsNotChunk
  <2>2. CASE x \in alive
    <3>1. AtServer(w, x, h[x])
      BY <2>2 DEF PlacedIn
    <3>2. h[x][1] # e[1]
      BY <1>2, <3>1 DEF AtServer
    <3> QED BY <1>2, <1>5, <2>1, <2>2, <3>1, <3>2 DEF AtServer
  <2>3. CASE x \notin alive
    <3>1. Parked(w, x, h[x])
      BY <2>3 DEF PlacedIn
    <3> QED BY <1>2, <1>5, <2>1, <2>3, <3>1 DEF Parked
  <2> QED BY <2>2, <2>3
<1>6. ASSUME NEW i \in ServerIndex, v.desc[i].chunk # None
      PROVE  v.desc[i].chunk \in alive \cup {c} /\ g[v.desc[i].chunk][1] = i
  <2>1. CASE i = e[1]
    BY <2>1
  <2>2. CASE i # e[1]
    <3>1. v.desc[i] = w.desc[i]
      BY <2>2, ServerIsNotChunk DEF Index
    <3>2. w.desc[i].chunk \in alive /\ h[w.desc[i].chunk][1] = i
      BY <1>6, <3>1 DEF PlacedIn
    <3> QED BY <3>1, <3>2
  <2> QED BY <2>1, <2>2
<1>7. ASSUME NEW x \in Chunk \ (born \cup {c}) PROVE v.desc[x].chunk = None
  BY <1>2 DEF PlacedIn
<1> QED BY <1>4, <1>5, <1>6, <1>7 DEF PlacedIn

LEMMA Leaving ==
  ASSUME NEW w \in WorldType, NEW v \in WorldType, NEW c \in Chunk, NEW e \in ServerEid,
         NEW born \in SUBSET Chunk, NEW alive \in SUBSET born, NEW h,
         PlacedIn(w, born, alive, h), c \in alive, h[c] = e,
         v.desc[c] = [chunk |-> c, gen |-> e[2]],
         v.desc[e[1]].chunk = None,
         \A i \in Index : i # e[1] /\ i # c => v.desc[i] = w.desc[i],
         v.eid = [w.eid EXCEPT ![c] = Storage(c)],
         \A x \in born : h[x] \in ServerEid
  PROVE  PlacedIn(v, born, alive \ {c}, h)
<1>1. e[1] \in ServerIndex /\ e[1] \in Index /\ e[1] \notin Chunk /\ Chunk \subseteq Index
  BY ServerIsEid, ServerIsNotChunk DEF Index
<1>2. \A x \in Chunk : x # None /\ (x # c => v.desc[x] = w.desc[x] /\ v.eid[x] = w.eid[x])
  BY <1>1, SentinelAssumption DEF WorldType
<1>3. v.eid[c] = Storage(c)
  BY DEF WorldType
<1>4. Parked(v, c, h[c])
  BY <1>3 DEF Parked
<1>5. AtServer(w, c, e)
  BY DEF PlacedIn
<1>6. ASSUME NEW x \in born, x # c
      PROVE  IF x \in alive THEN AtServer(v, x, h[x]) ELSE Parked(v, x, h[x])
  <2>1. h[x][1] \in ServerIndex /\ h[x][1] \in Index /\ h[x][1] # c
    BY ServerIsEid, ServerIsNotChunk
  <2>2. CASE x \in alive
    <3>1. AtServer(w, x, h[x])
      BY <2>2 DEF PlacedIn
    <3>2. h[x][1] # e[1]
      BY <1>5, <1>6, <3>1 DEF AtServer
    <3> QED BY <1>2, <1>6, <2>1, <2>2, <3>1, <3>2 DEF AtServer
  <2>3. CASE x \notin alive
    <3>1. Parked(w, x, h[x])
      BY <2>3 DEF PlacedIn
    <3> QED BY <1>2, <1>6, <2>1, <2>3, <3>1 DEF Parked
  <2> QED BY <2>2, <2>3
<1>7. ASSUME NEW i \in ServerIndex, v.desc[i].chunk # None
      PROVE  v.desc[i].chunk \in alive \ {c} /\ h[v.desc[i].chunk][1] = i
  <2>1. i # e[1] /\ v.desc[i] = w.desc[i]
    BY <1>7, ServerIsNotChunk DEF Index
  <2>2. w.desc[i].chunk \in alive /\ h[w.desc[i].chunk][1] = i
    BY <1>7, <2>1 DEF PlacedIn
  <2> QED BY <2>1, <2>2
<1>8. ASSUME NEW x \in Chunk \ born PROVE v.desc[x].chunk = None
  BY <1>2 DEF PlacedIn
<1> QED BY <1>4, <1>6, <1>7, <1>8 DEF PlacedIn

Homed(born, alive, h) ==
  /\ alive \subseteq born
  /\ \A x \in born : h[x] \in ServerEid

\* A chunk is in the server's range exactly if it is alive, and then at its home.
LEMMA LiveAtHome ==
  ASSUME NEW w, NEW born, NEW alive, NEW h, NEW c \in Chunk,
         PlacedIn(w, born, alive, h), Homed(born, alive, h)
  PROVE  /\ \A j \in ServerIndex : w.desc[j].chunk = c <=> c \in alive /\ j = h[c][1]
         /\ LiveIn(w, c) <=> c \in alive
<1>1. c # None
  BY SentinelAssumption
<1>2. \A j \in ServerIndex : w.desc[j].chunk = c => c \in alive /\ j = h[c][1]
  BY <1>1 DEF PlacedIn
<1>3. ASSUME c \in alive
      PROVE  h[c][1] \in ServerIndex /\ w.desc[h[c][1]].chunk = c
  <2>1. h[c] \in ServerEid /\ AtServer(w, c, h[c])
    BY <1>3 DEF PlacedIn, Homed
  <2> QED BY <2>1, ServerIsEid DEF AtServer
<1> QED BY <1>2, <1>3 DEF LiveIn

LEMMA AppearFacts ==
  ASSUME NEW w \in WorldType, NEW c \in Chunk, NEW e \in ServerEid,
         w.desc[c] = [chunk |-> c, gen |-> e[2]],
         w.desc[e[1]].chunk = None
  PROVE  LET v == Appear(w, Storage(c), e)
         IN  /\ AppearFault(w, Storage(c), e) # "entity"
             /\ AppearFault(w, Storage(c), e) = "none" /\ Registered(w.kind[c])
                  => w.uidEid[w.kind[c].uid] = Invalid
             /\ v \in WorldType
             /\ v.desc[e[1]] = [chunk |-> c, gen |-> e[2]]
             /\ v.desc[c].chunk = None
             /\ \A i \in Index : i # e[1] /\ i # c => v.desc[i] = w.desc[i]
             /\ v.kind = w.kind
             /\ v.eid = [w.eid EXCEPT ![c] = e]
             /\ Gains(w, v, c, e)
<1> DEFINE s == SwapDesc(w, Storage(c), e)
           t == SetEidComponent(s, e, e)
           v == Appear(w, Storage(c), e)
<1>1. /\ e[1] \in ServerIndex /\ e[1] \in Index /\ e[1] \notin Chunk /\ e \in Eid
      /\ c \in Index /\ Storage(c)[1] = c /\ c # None
  BY ServerIsEid, ServerIsNotChunk, StorageIsEid, SentinelAssumption
<1>2. /\ s \in WorldType
      /\ s.desc = [w.desc EXCEPT ![c] = w.desc[e[1]], ![e[1]] = w.desc[c]]
      /\ s.kind = w.kind /\ s.eid = w.eid /\ s.owned = w.owned
      /\ s.uidEid = w.uidEid /\ s.uidUnit = w.uidUnit
  <2>1. s \in WorldType /\ s.desc = [w.desc EXCEPT ![c] = w.desc[e[1]], ![e[1]] = w.desc[c]]
    BY <1>1, SwapDescType
  <2> QED BY <2>1 DEF SwapDesc, WorldType
<1> HIDE DEF s
<1>3. /\ s.desc[e[1]] = [chunk |-> c, gen |-> e[2]]
      /\ s.desc[c].chunk = None
      /\ \A i \in Index : i # e[1] /\ i # c => s.desc[i] = w.desc[i]
  BY <1>1, <1>2 DEF WorldType
<1>4. ChunkAt(s, e) = c /\ EntityExists(s, e)
  BY <1>1, <1>3 DEF ChunkAt, EntityExists
<1>5. AppearFault(w, Storage(c), e) = IF ~CreatedBasicAsserts(s, e) THEN "uid" ELSE "none"
  BY <1>4 DEF AppearFault, s
<1>6. CreatedBasicAsserts(s, e) /\ Registered(w.kind[c]) => w.uidEid[w.kind[c].uid] = Invalid
  BY <1>2, <1>4 DEF CreatedBasicAsserts, Registered, UnitEid
<1>7. /\ t \in WorldType
      /\ t.desc = s.desc /\ t.kind = s.kind /\ t.owned = s.owned
      /\ t.uidEid = s.uidEid /\ t.uidUnit = s.uidUnit
      /\ t.eid = [s.eid EXCEPT ![c] = e]
  <2>1. t \in WorldType
    BY <1>1, <1>2, <1>4, SetEidType
  <2> QED BY <1>2, <1>4, <2>1 DEF SetEidComponent, WorldType
<1>8. ChunkAt(t, e) = c
  BY <1>4, <1>7 DEF ChunkAt
<1>9. v = OnCreatedBasic(t, e)
  BY DEF Appear, t, s
<1> HIDE DEF t, v
<1>10. /\ v.desc = t.desc /\ v.kind = t.kind /\ v.eid = t.eid
       /\ Gains(t, v, c, e)
       /\ v \in WorldType
  BY <1>1, <1>7, <1>8, <1>9, CreatedBasicFacts, CreatedBasicType
<1>11. Gains(w, v, c, e)
  BY <1>2, <1>7, <1>10 DEF Gains
<1> QED BY <1>2, <1>3, <1>5, <1>6, <1>7, <1>10, <1>11 DEF v

LEMMA VanishFacts ==
  ASSUME NEW w \in WorldType, NEW c \in Chunk, NEW e \in ServerEid,
         w.desc[e[1]] = [chunk |-> c, gen |-> e[2]],
         w.desc[c].chunk = None
  PROVE  LET v == Vanish(w, Storage(c), e)
         IN  /\ VanishFault(w, e) # "entity"
             /\ VanishFault(w, e) = "none" /\ HasUid(w.kind[c]) => w.kind[c].uid # Unset
             /\ v \in WorldType
             /\ v.desc[c] = [chunk |-> c, gen |-> e[2]]
             /\ v.desc[e[1]].chunk = None
             /\ \A i \in Index : i # e[1] /\ i # c => v.desc[i] = w.desc[i]
             /\ v.kind = w.kind
             /\ v.eid = [w.eid EXCEPT ![c] = Storage(c)]
             /\ Loses(w, v, c)
<1> DEFINE t == SetEidComponent(w, e, Storage(c))
           d == OnDestroyedBasic(t, e, Storage(c))
           v == Vanish(w, Storage(c), e)
<1>1. /\ e[1] \in ServerIndex /\ e[1] \in Index /\ e[1] \notin Chunk
      /\ c \in Index /\ Storage(c)[1] = c /\ Storage(c) \in Eid /\ c # None
  BY ServerIsEid, ServerIsNotChunk, StorageIsEid, SentinelAssumption
<1>2. ChunkAt(w, e) = c /\ EntityExists(w, e)
  BY <1>1 DEF ChunkAt, EntityExists
<1>3. VanishFault(w, e) = IF ~DestroyedBasicAsserts(w, e) THEN "uid" ELSE "none"
  BY <1>2 DEF VanishFault
<1>4. DestroyedBasicAsserts(w, e) /\ HasUid(w.kind[c]) => w.kind[c].uid # Unset
  BY <1>2 DEF DestroyedBasicAsserts, UnitEid
<1>5. /\ t \in WorldType
      /\ t.desc = w.desc /\ t.kind = w.kind /\ t.owned = w.owned
      /\ t.uidEid = w.uidEid /\ t.uidUnit = w.uidUnit
      /\ t.eid = [w.eid EXCEPT ![c] = Storage(c)]
  <2>1. t \in WorldType
    BY <1>1, <1>2, SetEidType
  <2> QED BY <1>2, <2>1 DEF SetEidComponent, WorldType
<1>6. ChunkAt(t, e) = c
  BY <1>2, <1>5 DEF ChunkAt
<1> HIDE DEF t
<1>7. /\ d.desc = t.desc /\ d.kind = t.kind /\ d.eid = t.eid
      /\ Loses(t, d, c)
      /\ d \in WorldType
  BY <1>1, <1>5, <1>6, DestroyedBasicFacts, DestroyedBasicType
<1>8. v = SwapDesc(d, Storage(c), e)
  BY DEF Vanish, t
<1> HIDE DEF d, v
<1>9. /\ v \in WorldType
      /\ v.desc = [d.desc EXCEPT ![c] = d.desc[e[1]], ![e[1]] = d.desc[c]]
      /\ v.kind = d.kind /\ v.eid = d.eid /\ v.owned = d.owned
      /\ v.uidEid = d.uidEid /\ v.uidUnit = d.uidUnit
  <2>1. v \in WorldType /\ v.desc = [d.desc EXCEPT ![c] = d.desc[e[1]], ![e[1]] = d.desc[c]]
    BY <1>1, <1>7, <1>8, SwapDescType
  <2> QED BY <1>7, <1>8, <2>1 DEF SwapDesc, WorldType
<1>10. /\ v.desc[c] = [chunk |-> c, gen |-> e[2]]
       /\ v.desc[e[1]].chunk = None
       /\ \A i \in Index : i # e[1] /\ i # c => v.desc[i] = w.desc[i]
  BY <1>1, <1>5, <1>7, <1>9 DEF WorldType
<1>11. Loses(w, v, c)
  BY <1>5, <1>7, <1>9 DEF Loses
<1> QED BY <1>3, <1>4, <1>5, <1>7, <1>9, <1>10, <1>11 DEF v

-----------------------------------------------------------------------------
(* One step of a rewind *)

LEMMA StoreContext ==
  ASSUME IInv, StoreInv
  PROVE  /\ world \in WorldType
         /\ history \in Seq(ActionType)
         /\ Len(history) \in Nat
         /\ currIndex \in 0 .. Len(history)
         /\ Born \in SUBSET Chunk
         /\ \A n : Living(history, n) \in SUBSET Born
         /\ \A c \in Born : Home(history)[c] \in ServerEid
         /\ \A n \in Steps(history) :
              /\ history[n] \in ActionType
              /\ history[n].after \in ServerEid
              /\ history[n].after[1] \in ServerIndex
              /\ history[n].op \in {"create", "destroy", "update"}
              /\ history[n].op # "update" => \E c \in Chunk : history[n].before = Storage(c)
         /\ Lives(history)
<1>1. /\ world \in WorldType
      /\ history \in Seq(ActionType)
      /\ Len(history) \in Nat
      /\ currIndex \in 0 .. Len(history)
  BY DEF IInv, TypeOK
<1>2. \A n \in Steps(history) :
        /\ history[n] \in ActionType
        /\ history[n].after \in ServerEid
        /\ history[n].op \in {"create", "destroy", "update"}
  <2>1. \A n \in Steps(history) : history[n] \in ActionType
    BY <1>1 DEF Steps
  <2> QED BY <2>1 DEF ActionType
<1>3. \A n \in Steps(history) : history[n].after[1] \in ServerIndex
  BY <1>2, ServerIsEid
<1>4. \A n \in Steps(history) :
        history[n].op # "update" => \E c \in Chunk : history[n].before = Storage(c)
  BY DEF IInv, StorageNamed, Steps
<1>5. Lives(history) /\ AllBorn
  BY DEF StoreInv
<1>6. Born \in SUBSET Chunk
  BY DEF Born
<1>7. ASSUME NEW n PROVE Living(history, n) \in SUBSET Born
  BY <1>5, <1>6 DEF Living, AllBorn
<1>8. ASSUME NEW c \in Born PROVE Home(history)[c] \in ServerEid
  <2>1. PICK k \in Steps(history) : Creates(history, k, c)
    BY <1>5, <1>6 DEF AllBorn
  <2>2. Home(history)[c] = history[k].after
    BY <1>5, <1>6, <2>1, HomeIs DEF Lives
  <2> QED BY <1>2, <2>2
<1> QED BY <1>1, <1>2, <1>3, <1>4, <1>5, <1>6, <1>7, <1>8

\* A parked chunk can come back under its handle while nobody else is there.
LEMMA AppearStep ==
  ASSUME IInv, StoreInv, Placed, NEW c \in Born, NEW e \in ServerEid,
         c \notin Living(history, currIndex), e = Home(history)[c],
         world.desc[e[1]].chunk = None
  PROVE  LET v == Appear(world, Storage(c), e)
         IN  /\ AppearFault(world, Storage(c), e) # "entity"
             /\ AppearFault(world, Storage(c), e) = "none"
                  => /\ PlacedIn(v, Born, Living(history, currIndex) \cup {c}, Home(history))
                     /\ OwnedBy(v) /\ Resolves(v)
                     /\ v.kind = world.kind
<1> DEFINE v == Appear(world, Storage(c), e)
           alive == Living(history, currIndex)
           home == Home(history)
<1>1. /\ world \in WorldType /\ Born \in SUBSET Chunk /\ alive \in SUBSET Born
      /\ c \in Chunk /\ c \in Index /\ c # e[1]
      /\ Homed(Born, alive, home)
      /\ \A x \in Born : home[x] \in ServerEid
  BY StoreContext, StorageIsEid, ServerIsEid, ServerIsNotChunk DEF Homed
<1> HIDE DEF alive, home
<1>2. PlacedIn(world, Born, alive, home)
  BY DEF Placed, alive, home
<1>3. c \notin alive /\ e = home[c]
  BY DEF alive, home
<1>4. world.desc[c] = [chunk |-> c, gen |-> e[2]]
  BY <1>2, <1>3 DEF PlacedIn, Parked
<1>5. /\ AppearFault(world, Storage(c), e) # "entity"
      /\ AppearFault(world, Storage(c), e) = "none" /\ Registered(world.kind[c])
           => world.uidEid[world.kind[c].uid] = Invalid
      /\ v \in WorldType
      /\ v.desc[e[1]] = [chunk |-> c, gen |-> e[2]]
      /\ v.desc[c].chunk = None
      /\ \A i \in Index : i # e[1] /\ i # c => v.desc[i] = world.desc[i]
      /\ v.kind = world.kind
      /\ v.eid = [world.eid EXCEPT ![c] = e]
      /\ Gains(world, v, c, e)
  BY <1>1, <1>4, AppearFacts
<1> HIDE DEF v
<1>6. PlacedIn(v, Born \cup {c}, alive \cup {c}, home)
  BY <1>1, <1>2, <1>3, <1>5, Entering
<1>7. Born \cup {c} = Born
  OBVIOUS
<1>8. ~LiveIn(world, c)
  <2>1. LiveIn(world, c) <=> c \in alive
    BY <1>1, <1>2, LiveAtHome
  <2> QED BY <1>3, <2>1
<1>9. AppearFault(world, Storage(c), e) = "none" => OwnedBy(v) /\ Resolves(v)
  <2>1. OwnedBy(world) /\ Resolves(world)
    BY DEF StoreInv
  <2>2. \A i \in ServerIndex : i # e[1] => v.desc[i] = world.desc[i]
    BY <1>1, <1>5, ServerIsNotChunk DEF Index
  <2> QED BY <1>1, <1>5, <1>8, <2>1, <2>2, Gaining
<1> QED BY <1>5, <1>6, <1>7, <1>9 DEF v, alive, home

\* A living chunk can be parked at its storage index.
LEMMA VanishStep ==
  ASSUME IInv, StoreInv, Placed, NEW c \in Living(history, currIndex), NEW e \in ServerEid,
         e = Home(history)[c]
  PROVE  LET v == Vanish(world, Storage(c), e)
         IN  /\ VanishFault(world, e) # "entity"
             /\ VanishFault(world, e) = "none"
                  => /\ PlacedIn(v, Born, Living(history, currIndex) \ {c}, Home(history))
                     /\ OwnedBy(v) /\ Resolves(v)
                     /\ v.kind = world.kind
<1> DEFINE v == Vanish(world, Storage(c), e)
           alive == Living(history, currIndex)
           home == Home(history)
<1>1. /\ world \in WorldType /\ Born \in SUBSET Chunk /\ alive \in SUBSET Born
      /\ c \in Born /\ c \in Chunk /\ c \in Index /\ e[1] \in ServerIndex /\ c # e[1]
      /\ Homed(Born, alive, home)
      /\ \A x \in Born : home[x] \in ServerEid
  BY StoreContext, StorageIsEid, ServerIsEid, ServerIsNotChunk DEF Homed
<1> HIDE DEF alive, home
<1>2. PlacedIn(world, Born, alive, home)
  BY DEF Placed, alive, home
<1>3. c \in alive /\ e = home[c]
  BY DEF alive, home
<1>4. world.desc[e[1]] = [chunk |-> c, gen |-> e[2]] /\ world.desc[c].chunk = None
  BY <1>1, <1>2, <1>3 DEF PlacedIn, AtServer
<1>5. /\ VanishFault(world, e) # "entity"
      /\ VanishFault(world, e) = "none" /\ HasUid(world.kind[c])
           => world.kind[c].uid # Unset
      /\ v \in WorldType
      /\ v.desc[c] = [chunk |-> c, gen |-> e[2]]
      /\ v.desc[e[1]].chunk = None
      /\ \A i \in Index : i # e[1] /\ i # c => v.desc[i] = world.desc[i]
      /\ v.kind = world.kind
      /\ v.eid = [world.eid EXCEPT ![c] = Storage(c)]
      /\ Loses(world, v, c)
  BY <1>1, <1>4, VanishFacts
<1> HIDE DEF v
<1>6. PlacedIn(v, Born, alive \ {c}, home)
  BY <1>1, <1>2, <1>3, <1>5, Leaving
<1>7. VanishFault(world, e) = "none" => OwnedBy(v) /\ Resolves(v)
  <2>1. OwnedBy(world) /\ Resolves(world)
    BY DEF StoreInv
  <2>2. Aside(world, v, e[1], c)
    <3>1. \A j \in ServerIndex : world.desc[j].chunk = c <=> c \in alive /\ j = home[c][1]
      BY <1>1, <1>2, LiveAtHome
    <3> QED BY <1>1, <1>3, <1>5, <3>1, ServerIsNotChunk DEF Index, Aside
  <2>3. world.desc[e[1]].chunk = c
    BY <1>4
  <2> QED BY <1>1, <1>5, <2>1, <2>2, <2>3, Losing
<1> QED BY <1>5, <1>6, <1>7 DEF v, alive, home

\* A replicated value moves nothing.
LEMMA SwapValueFacts ==
  ASSUME NEW w \in WorldType, NEW e, NEW x, NEW born, NEW alive, NEW h
  PROVE  LET v == SwapValue(w, e, x)
         IN  /\ v.desc = w.desc /\ v.kind = w.kind /\ v.eid = w.eid
             /\ PlacedIn(w, born, alive, h) => PlacedIn(v, born, alive, h)
             /\ OwnedBy(w) => OwnedBy(v)
             /\ Resolves(w) => Resolves(v)
<1> DEFINE v == SwapValue(w, e, x)
<1>1. /\ v.desc = w.desc /\ v.kind = w.kind /\ v.eid = w.eid
      /\ v.owned = w.owned /\ v.uidEid = w.uidEid /\ v.uidUnit = w.uidUnit
  BY DEF SwapValue, WorldType
<1> HIDE DEF v
<1>2. PlacedIn(w, born, alive, h) => PlacedIn(v, born, alive, h)
  BY <1>1 DEF PlacedIn, AtServer, Parked
<1>3. OwnedBy(w) => OwnedBy(v)
  BY <1>1 DEF OwnedBy, LiveIn
<1>4. Resolves(w) => Resolves(v)
  <2>1. \A f : ChunkAt(v, f) = ChunkAt(w, f) /\ (EntityExists(v, f) <=> EntityExists(w, f))
    BY <1>1 DEF EntityExists, ChunkAt
  <2> QED BY <1>1, <2>1 DEF Resolves
<1> QED BY <1>1, <1>2, <1>3, <1>4 DEF v

\* The entity an update names is there when the update is undone or redone.
LEMMA UpdateResolves ==
  ASSUME IInv, StoreInv, Placed, NEW n \in Steps(history), history[n].op = "update",
         currIndex \in {n - 1, n}
  PROVE  /\ ChunkAt(world, history[n].after) \in Chunk
         /\ ChunkAt(world, history[n].after) # None
         /\ Living(history, n) = Living(history, n - 1)
<1>1. Living(history, n) = Living(history, n - 1)
  BY StoreContext, UpdateLiving
<1>2. PICK c \in Living(history, n), k \in Steps(history) :
        Creates(history, k, c) /\ history[k].after = history[n].after
  BY DEF StoreInv, Lives, UpdatesLiving
<1>3. c \in Living(history, currIndex) /\ c \in Born /\ c \in Chunk
  BY <1>1, <1>2, StoreContext
<1>4. Home(history)[c] = history[n].after
  BY <1>2, <1>3, HomeIs DEF StoreInv, Lives
<1>5. AtServer(world, c, history[n].after)
  BY <1>3, <1>4 DEF Placed, PlacedIn
<1> QED BY <1>1, <1>3, <1>5, SentinelAssumption DEF AtServer, ChunkAt

\* Undoing the last action applied, or redoing the next one, never fails to
\* resolve a handle and leads to where the other actions put everything.
LEMMA UndoSound ==
  ASSUME IInv, StoreInv, Placed, NEW n \in Steps(history), currIndex = n
  PROVE  LET a == history[n]
             v == Undone(world, a)
         IN  /\ UndoFault(world, a) # "entity"
             /\ UndoFault(world, a) = "none"
                  => /\ PlacedIn(v, Born, Living(history, n - 1), Home(history))
                     /\ OwnedBy(v) /\ Resolves(v)
                     /\ v.kind = world.kind
<1> DEFINE a == history[n]
           v == Undone(world, a)
<1>1. /\ world \in WorldType /\ Len(history) \in Nat /\ n \in Int
      /\ a.after \in ServerEid /\ a.after[1] \in ServerIndex
      /\ a.op \in {"create", "destroy", "update"}
      /\ a.op # "update" => \E c \in Chunk : a.before = Storage(c)
      /\ Lives(history) /\ Born \in SUBSET Chunk
      /\ Living(history, n) \in SUBSET Born /\ Living(history, n - 1) \in SUBSET Born
  BY StoreContext DEF Steps
<1>2. CASE a.op = "create"
  <2>1. PICK c \in Chunk : a.before = Storage(c)
    BY <1>1, <1>2
  <2>2. Creates(history, n, c)
    BY <1>2, <2>1 DEF Creates
  <2>3. /\ Living(history, n) = Living(history, n - 1) \cup {c}
        /\ Living(history, n - 1) = Living(history, n) \ {c}
    BY <1>1, <2>2, CreateLiving
  <2>4. Home(history)[c] = a.after
    BY <1>1, <2>2, HomeIs DEF Lives
  <2>5. c \in Living(history, currIndex)
    BY <2>3
  <2>6. UndoFault(world, a) \in {"direction", VanishFault(world, a.after)}
        /\ (UndoFault(world, a) = "none" => VanishFault(world, a.after) = "none")
        /\ v = Vanish(world, Storage(c), a.after)
    BY <1>2, <2>1 DEF UndoFault, Undone
  <2> HIDE DEF v, a
  <2> QED BY <1>1, <2>3, <2>4, <2>5, <2>6, VanishStep DEF a, v
<1>3. CASE a.op = "destroy"
  <2>1. PICK c \in Chunk : a.before = Storage(c)
    BY <1>1, <1>3
  <2>2. Destroys(history, n, c)
    BY <1>3, <2>1 DEF Destroys
  <2>3. /\ c \in Living(history, n - 1)
        /\ Living(history, n) = Living(history, n - 1) \ {c}
        /\ Living(history, n - 1) = Living(history, n) \cup {c}
        /\ Home(history)[c] = a.after
    BY <1>1, <2>2, DestroyLiving
  <2>4. c \in Born /\ c \notin Living(history, currIndex)
    BY <1>1, <2>3
  <2>5. world.desc[a.after[1]].chunk = None
    BY <1>1, <2>2, SeatFree DEF Placed
  <2>6. UndoFault(world, a) \in {"direction", AppearFault(world, Storage(c), a.after)}
        /\ (UndoFault(world, a) = "none" => AppearFault(world, Storage(c), a.after) = "none")
        /\ v = Appear(world, Storage(c), a.after)
    BY <1>3, <2>1 DEF UndoFault, Undone
  <2> HIDE DEF v, a
  <2>7. /\ AppearFault(world, Storage(c), a.after) # "entity"
        /\ AppearFault(world, Storage(c), a.after) = "none"
             => /\ PlacedIn(v, Born, Living(history, currIndex) \cup {c}, Home(history))
                /\ OwnedBy(v) /\ Resolves(v)
                /\ v.kind = world.kind
    BY <1>1, <2>3, <2>4, <2>5, <2>6, AppearStep
  <2> QED BY <2>3, <2>6, <2>7 DEF a, v
<1>4. CASE a.op = "update"
  <2>1. /\ ChunkAt(world, a.after) # None
        /\ Living(history, n) = Living(history, n - 1)
    BY <1>4, UpdateResolves
  <2>2. UndoFault(world, a) # "entity" /\ v = SwapValue(world, a.after, a.held)
    BY <1>4, <2>1 DEF UndoFault, Undone
  <2>3. PlacedIn(world, Born, Living(history, n), Home(history))
    BY DEF Placed
  <2>4. OwnedBy(world) /\ Resolves(world)
    BY DEF StoreInv
  <2> HIDE DEF v, a
  <2> QED BY <1>1, <2>1, <2>2, <2>3, <2>4, SwapValueFacts DEF a, v
<1> QED BY <1>1, <1>2, <1>3, <1>4

LEMMA RedoSound ==
  ASSUME IInv, StoreInv, Placed, NEW n \in Steps(history), currIndex = n - 1
  PROVE  LET a == history[n]
             v == Redone(world, a)
         IN  /\ RedoFault(world, a) # "entity"
             /\ RedoFault(world, a) = "none"
                  => /\ PlacedIn(v, Born, Living(history, n), Home(history))
                     /\ OwnedBy(v) /\ Resolves(v)
                     /\ v.kind = world.kind
<1> DEFINE a == history[n]
           v == Redone(world, a)
<1>1. /\ world \in WorldType /\ Len(history) \in Nat /\ n \in Int /\ n - 1 \in Int
      /\ a.after \in ServerEid /\ a.after[1] \in ServerIndex
      /\ a.op \in {"create", "destroy", "update"}
      /\ a.op # "update" => \E c \in Chunk : a.before = Storage(c)
      /\ Lives(history) /\ AllBorn /\ Born \in SUBSET Chunk
      /\ Living(history, n) \in SUBSET Born /\ Living(history, n - 1) \in SUBSET Born
  BY StoreContext DEF Steps, StoreInv
<1>2. CASE a.op = "create"
  <2>1. PICK c \in Chunk : a.before = Storage(c)
    BY <1>1, <1>2
  <2>2. Creates(history, n, c)
    BY <1>2, <2>1 DEF Creates
  <2>3. /\ c \notin Living(history, n - 1)
        /\ Living(history, n) = Living(history, n - 1) \cup {c}
    BY <1>1, <2>2, CreateLiving
  <2>4. Home(history)[c] = a.after
    BY <1>1, <2>2, HomeIs DEF Lives
  <2>5. c \in Born /\ c \notin Living(history, currIndex)
    BY <1>1, <2>3
  <2>6. world.desc[a.after[1]].chunk = None
    BY <1>1, <2>2, SeatFree DEF Placed
  <2>7. RedoFault(world, a) \in {"direction", AppearFault(world, Storage(c), a.after)}
        /\ (RedoFault(world, a) = "none" => AppearFault(world, Storage(c), a.after) = "none")
        /\ v = Appear(world, Storage(c), a.after)
    BY <1>2, <2>1 DEF RedoFault, Redone
  <2> HIDE DEF v, a
  <2> QED BY <1>1, <2>3, <2>4, <2>5, <2>6, <2>7, AppearStep DEF a, v
<1>3. CASE a.op = "destroy"
  <2>1. PICK c \in Chunk : a.before = Storage(c)
    BY <1>1, <1>3
  <2>2. Destroys(history, n, c)
    BY <1>3, <2>1 DEF Destroys
  <2>3. /\ c \in Living(history, n - 1)
        /\ Living(history, n) = Living(history, n - 1) \ {c}
        /\ Home(history)[c] = a.after
    BY <1>1, <2>2, DestroyLiving
  <2>4. c \in Living(history, currIndex)
    BY <2>3
  <2>5. RedoFault(world, a) \in {"direction", VanishFault(world, a.after)}
        /\ (RedoFault(world, a) = "none" => VanishFault(world, a.after) = "none")
        /\ v = Vanish(world, Storage(c), a.after)
    BY <1>3, <2>1 DEF RedoFault, Redone
  <2> HIDE DEF v, a
  <2> QED BY <1>1, <2>3, <2>4, <2>5, VanishStep DEF a, v
<1>4. CASE a.op = "update"
  <2>1. /\ ChunkAt(world, a.after) # None
        /\ Living(history, n) = Living(history, n - 1)
    BY <1>4, UpdateResolves
  <2>2. RedoFault(world, a) # "entity" /\ v = SwapValue(world, a.after, a.held)
    BY <1>4, <2>1 DEF RedoFault, Redone
  <2>3. PlacedIn(world, Born, Living(history, n - 1), Home(history))
    BY DEF Placed
  <2>4. OwnedBy(world) /\ Resolves(world)
    BY DEF StoreInv
  <2> HIDE DEF v, a
  <2> QED BY <1>1, <2>1, <2>2, <2>3, <2>4, SwapValueFacts DEF a, v
<1> QED BY <1>1, <1>2, <1>3, <1>4

-----------------------------------------------------------------------------
(* The store is inductive: rewinding and closing *)

LEMMA PlacedSame ==
  ASSUME NEW w, NEW born, NEW alive \in SUBSET born, NEW h, NEW g,
         PlacedIn(w, born, alive, h), \A c \in born : g[c] = h[c]
  PROVE  PlacedIn(w, born, alive, g)
<1>1. \A c \in born : IF c \in alive THEN AtServer(w, c, g[c]) ELSE Parked(w, c, g[c])
  BY DEF PlacedIn
<1>2. \A i \in ServerIndex :
        w.desc[i].chunk # None
          => w.desc[i].chunk \in alive /\ g[w.desc[i].chunk][1] = i
  BY DEF PlacedIn
<1> QED BY <1>1, <1>2 DEF PlacedIn

\* A step over an action leaves the recorded operations alone.
LEMMA FlippedRecord ==
  ASSUME IInv, NEW n \in Steps(history), NEW dir,
         history' = [history EXCEPT ![n] = Flipped(world, history[n], dir)]
  PROVE  SameRecord(history, history')
<1>1. history \in Seq(ActionType) /\ history[n] \in ActionType
  BY DEF IInv, TypeOK, Steps
<1>2. /\ Flipped(world, history[n], dir).op = history[n].op
      /\ Flipped(world, history[n], dir).before = history[n].before
      /\ Flipped(world, history[n], dir).after = history[n].after
  BY <1>1 DEF Flipped, ActionType
<1>3. Len(history') = Len(history)
      /\ \A i \in Steps(history) :
           history'[i] = IF i = n THEN Flipped(world, history[n], dir) ELSE history[i]
  BY <1>1 DEF Steps
<1> QED BY <1>2, <1>3 DEF SameRecord

\* What a step of a loop of iterateToIndex leaves of the invariant.
LEMMA Replayed ==
  ASSUME IInv, StoreInv, Stored, IInv',
         SameRecord(history, history'),
         PlacedIn(world', Born, Living(history, currIndex'), Home(history)),
         OwnedBy(world'), Resolves(world'),
         UNCHANGED <<nextIndex, basicDestroyed, deleted, phase, mode, rewindTime, fault>>
  PROVE  StoreInv'
<1>1. Lives(history')
  BY SameLives DEF StoreInv
<1>2. Steps(history') = Steps(history) /\ Born' = Born
  BY DEF SameRecord, Steps, Born
<1>3. AllBorn'
  <2>1. \A k \in Steps(history) : \A c : /\ Creates(history', k, c) <=> Creates(history, k, c)
                                         /\ Destroys(history', k, c) <=> Destroys(history, k, c)
    BY DEF SameRecord, Creates, Destroys
  <2> QED BY <1>2, <2>1 DEF StoreInv, AllBorn
<1>4. Placed'
  <2>1. Living(history', currIndex') = Living(history, currIndex')
    BY SameLiving
  <2>2. \A c \in Born : Home(history')[c] = Home(history)[c]
    <3> SUFFICES ASSUME NEW c \in Born PROVE Home(history')[c] = Home(history)[c]
      OBVIOUS
    <3>1. c \in Chunk /\ \E k \in Steps(history) : Creates(history, k, c)
      BY DEF StoreInv, AllBorn, Born
    <3> QED BY <3>1, SameHome DEF StoreInv
  <2>3. Living(history, currIndex') \in SUBSET Born
    BY StoreContext
  <2>4. PlacedIn(world', Born, Living(history, currIndex'), Home(history'))
    BY <2>2, <2>3, PlacedSame
  <2> QED BY <1>2, <2>1, <2>4 DEF Placed
<1>5. Stored' /\ AtTheEnd'
  BY DEF StoreInv, AtTheEnd, Stored
<1>6. Teardown' /\ RewindNeverAsserts'
  BY <1>5 DEF StoreInv, Teardown, Stored, RewindNeverAsserts
<1> QED BY <1>1, <1>3, <1>4, <1>5, <1>6 DEF StoreInv

LEMMA StepBackwardStore ==
  ASSUME IInv, StoreInv, IInv', StepBackward
  PROVE  StoreInv'
<1>1. /\ currIndex > 0
      /\ UndoFault(world, history[currIndex]) = "none"
      /\ currIndex' = currIndex - 1
      /\ world' = Undone(world, history[currIndex])
      /\ history' = [history EXCEPT ![currIndex] =
                       Flipped(world, history[currIndex], "rewind")]
      /\ UNCHANGED <<nextIndex, basicDestroyed, deleted, phase, mode, rewindTime, fault>>
  BY DEF StepBackward, MustUndo
<1>2. currIndex \in Steps(history)
  BY <1>1, StoreContext DEF Steps
<1>3. Stored /\ Placed
  BY DEF StepBackward, StoreInv, AtTheEnd
<1>4. /\ PlacedIn(world', Born, Living(history, currIndex'), Home(history))
      /\ OwnedBy(world') /\ Resolves(world')
  BY <1>1, <1>2, <1>3, UndoSound
<1>5. SameRecord(history, history')
  BY <1>1, <1>2, FlippedRecord
<1> QED BY <1>1, <1>3, <1>4, <1>5, Replayed

LEMMA StepForwardStore ==
  ASSUME IInv, StoreInv, IInv', StepForward
  PROVE  StoreInv'
<1> DEFINE n == currIndex + 1
<1>1. /\ currIndex < Len(history)
      /\ RedoFault(world, history[n]) = "none"
      /\ currIndex' = n
      /\ world' = Redone(world, history[n])
      /\ history' = [history EXCEPT ![n] = Flipped(world, history[n], "fastforward")]
      /\ UNCHANGED <<nextIndex, basicDestroyed, deleted, phase, mode, rewindTime, fault>>
  BY DEF StepForward, MustRedo
<1>2. n \in Steps(history) /\ currIndex = n - 1
  BY <1>1, StoreContext DEF Steps
<1>3. Stored /\ Placed
  BY DEF StepForward, StoreInv, AtTheEnd
<1> HIDE DEF n
<1>4. /\ PlacedIn(world', Born, Living(history, currIndex'), Home(history))
      /\ OwnedBy(world') /\ Resolves(world')
  BY <1>1, <1>2, <1>3, RedoSound
<1>5. SameRecord(history, history')
  BY <1>1, <1>2, FlippedRecord
<1> QED BY <1>1, <1>3, <1>4, <1>5, Replayed

\* Steps that leave the store alone.
LEMMA StoreKept ==
  ASSUME StoreInv,
         UNCHANGED <<world, history, currIndex, nextIndex, basicDestroyed, deleted>>,
         Stored, Stored', AtTheEnd', RewindNeverAsserts'
  PROVE  StoreInv'
BY DEF StoreInv, AllBorn, Born, Placed, Teardown, Stored

LEMMA StepThrowsStore ==
  ASSUME IInv, StoreInv, IInv', StepThrows
  PROVE  StoreInv'
<1>1. /\ fault = "none" /\ mode # "idle"
      /\ IF mode = "backward" THEN MustUndo ELSE MustRedo
      /\ fault' = StepFault
      /\ UNCHANGED <<world, history, currIndex, creationOf, basicDestroyed, nextIndex,
                     destroyedAt, deleted, phase, mode, currTime, rewindTime>>
  BY DEF StepThrows
<1>2. Stored /\ Placed
  BY <1>1 DEF StoreInv, AtTheEnd
<1>3. CASE mode = "backward"
  <2>1. currIndex \in Steps(history)
    BY <1>1, <1>3, StoreContext DEF Steps, MustUndo
  <2>2. UndoFault(world, history[currIndex]) # "entity"
    BY <1>2, <2>1, UndoSound
  <2>3. UndoFault(world, history[currIndex]) # "basic_destroyed"
    BY FaultsNamed DEF UndoFault
  <2> QED
    <3>1. fault' \notin {"entity", "basic_destroyed"}
      BY <1>1, <1>3, <2>2, <2>3 DEF StepFault
    <3>2. RewindNeverAsserts'
      BY <3>1 DEF RewindNeverAsserts, IInv, NeverTwice
    <3>3. Stored' /\ AtTheEnd'
      BY <1>1, <1>2 DEF StoreInv, AtTheEnd, Stored
    <3> QED BY <1>1, <1>2, <3>2, <3>3, StoreKept
<1>4. CASE mode # "backward"
  <2> DEFINE n == currIndex + 1
  <2>1. n \in Steps(history) /\ currIndex = n - 1
    BY <1>1, <1>4, StoreContext DEF Steps, MustRedo
  <2>2. RedoFault(world, history[n]) # "entity"
    <3> HIDE DEF n
    <3> QED BY <1>2, <2>1, RedoSound
  <2>3. RedoFault(world, history[n]) # "basic_destroyed"
    BY FaultsNamed DEF RedoFault
  <2> QED
    <3>1. fault' \notin {"entity", "basic_destroyed"}
      BY <1>1, <1>4, <2>2, <2>3 DEF StepFault
    <3>2. RewindNeverAsserts'
      BY <3>1 DEF RewindNeverAsserts, IInv, NeverTwice
    <3>3. Stored' /\ AtTheEnd'
      BY <1>1, <1>2 DEF StoreInv, AtTheEnd, Stored
    <3> QED BY <1>1, <1>2, <3>2, <3>3, StoreKept
<1> QED BY <1>3, <1>4

LEMMA SeekReturnThrowsStore ==
  ASSUME StoreInv, SeekReturnThrows
  PROVE  StoreInv'
<1>1. /\ mode = "forward" /\ fault' = "index"
      /\ UNCHANGED <<world, history, currIndex, nextIndex, basicDestroyed, deleted,
                     phase, mode, rewindTime>>
  BY DEF SeekReturnThrows
<1>2. Stored
  BY <1>1 DEF StoreInv, AtTheEnd
<1>3. Stored' /\ AtTheEnd' /\ RewindNeverAsserts'
  BY <1>1, <1>2 DEF StoreInv, AtTheEnd, Stored, RewindNeverAsserts
<1> QED BY <1>1, <1>2, <1>3, StoreKept

\* What a replay that is at its end leaves for the destructor.
LEMMA LeftAtTheEnd ==
  ASSUME IInv, StoreInv, Stored, currIndex = Len(history)
  PROVE  Left
<1> DEFINE alive == Living(history, currIndex)
           home == Home(history)
<1>1. /\ world \in WorldType /\ Born \in SUBSET Chunk /\ alive \in SUBSET Born
      /\ Homed(Born, alive, home)
      /\ Len(history) \in Nat
  BY StoreContext DEF Homed
<1>2. PlacedIn(world, Born, alive, home) /\ AllBorn /\ deleted = {}
  BY DEF StoreInv, Placed, Teardown
<1>3. \A c \in Born : c \notin alive => c \in basicDestroyed
  <2>1. \A d \in Steps(history) : d <= currIndex
    BY <1>1 DEF Steps
  <2> QED BY <1>1, <1>2, <2>1 DEF Living, AllBorn
<1> HIDE DEF alive, home
<1>4. ASSUME NEW i \in Index, world.desc[i].chunk # None
      PROVE  /\ world.desc[i].chunk \in Born
             /\ i \in ServerIndex => world.desc[i].chunk \in alive
             /\ i \in ServerIndex => home[world.desc[i].chunk][1] = i
             /\ i \notin ServerIndex => world.desc[i].chunk = i /\ i \notin alive
             /\ i < nextIndex
  <2>1. CASE i \in ServerIndex
    <3>1. i < nextIndex
      BY <2>1, BoundsAssumption DEF ServerIndex, IInv, TypeOK
    <3> QED BY <1>1, <1>2, <1>4, <2>1, <3>1 DEF PlacedIn
  <2>2. CASE i \notin ServerIndex
    <3>1. i \in Chunk
      BY <2>2 DEF Index
    <3>2. i \in Born
      BY <1>2, <1>4, <3>1 DEF PlacedIn
    <3>3. i \notin alive
      BY <1>2, <1>4, <3>2 DEF PlacedIn, AtServer
    <3>4. Parked(world, i, home[i])
      BY <1>2, <3>2, <3>3 DEF PlacedIn
    <3>5. world.desc[i].chunk = i
      BY <3>4 DEF Parked
    <3> QED BY <2>2, <3>2, <3>3, <3>5 DEF Born
  <2> QED BY <2>1, <2>2
<1>5. ASSUME NEW c \in Born PROVE \E i \in Index : world.desc[i].chunk = c
  <2>1. CASE c \in alive
    <3>1. home[c] \in ServerEid /\ AtServer(world, c, home[c])
      BY <1>1, <1>2, <2>1 DEF PlacedIn, Homed
    <3> QED BY <3>1, ServerIsEid DEF AtServer
  <2>2. CASE c \notin alive
    <3>1. Parked(world, c, home[c]) /\ c \in Index
      BY <1>1, <1>2, <2>2 DEF PlacedIn, Index
    <3> QED BY <3>1 DEF Parked
  <2> QED BY <2>1, <2>2
<1>6. ASSUME NEW i \in Index, NEW j \in Index, world.desc[i].chunk # None,
             world.desc[j].chunk = world.desc[i].chunk
      PROVE  i = j
  BY <1>4, <1>6
<1> QED BY <1>2, <1>3, <1>4, <1>5, <1>6 DEF Left

LEMMA EnterTeardown ==
  ASSUME IInv, StoreInv, Stored, currIndex = Len(history),
         phase' = "tearing", mode' = "idle",
         UNCHANGED <<world, history, currIndex, nextIndex, basicDestroyed, deleted, fault>>
  PROVE  StoreInv'
<1>1. Left'
  BY LeftAtTheEnd DEF Left, Born
<1>2. AtTheEnd' /\ ~Stored'
  BY DEF AtTheEnd, Stored
<1> QED BY <1>1, <1>2 DEF StoreInv, AllBorn, Born, Teardown, RewindNeverAsserts

LEMMA FinishSeekStore ==
  ASSUME IInv, StoreInv, FinishSeek
  PROVE  StoreInv'
<1>1. /\ mode # "idle" /\ SeekDone /\ mode' = "idle" /\ fault = "none"
      /\ phase' = IF phase = "closing" THEN "tearing" ELSE phase
      /\ UNCHANGED <<world, history, currIndex, nextIndex, basicDestroyed, deleted,
                     rewindTime, fault>>
  BY DEF FinishSeek
<1>2. Stored
  BY <1>1 DEF StoreInv, AtTheEnd
<1>3. CASE phase # "closing"
  <2>1. Stored' /\ AtTheEnd' /\ RewindNeverAsserts'
    BY <1>1, <1>2, <1>3 DEF StoreInv, AtTheEnd, Stored, RewindNeverAsserts
  <2> QED BY <1>1, <1>2, <2>1, StoreKept
<1>4. CASE phase = "closing"
  <2>1. rewindTime = EndOfTime /\ mode # "backward"
    BY <1>4 DEF StoreInv, AtTheEnd
  <2>2. ~MustRedo
    BY <1>1, <2>1 DEF SeekDone
  <2>3. currIndex = Len(history)
    <3> SUFFICES ASSUME currIndex < Len(history) PROVE FALSE
      BY StoreContext
    <3>1. history[currIndex + 1] \in ActionType
      BY StoreContext DEF Steps
    <3> QED BY <2>1, <2>2, <3>1, BoundsAssumption DEF MustRedo, ActionType, EndOfTime
  <2> QED BY <1>1, <1>2, <1>4, <2>3, EnterTeardown
<1> QED BY <1>3, <1>4

LEMMA RewindToStore ==
  ASSUME IInv, StoreInv, NEW t \in Seconds, RewindTo(t)
  PROVE  StoreInv'
<1>1. /\ phase = "ready" /\ phase' = "ready" /\ fault = "none" /\ mode = "idle"
      /\ BeginSeek(t)
  BY DEF RewindTo
<1>2. /\ UNCHANGED <<world, history, currIndex, nextIndex, basicDestroyed, deleted>>
      /\ fault' \in {fault, "empty"}
  BY <1>1, BeginSeekInv DEF Seconds
<1>3. Stored /\ Stored' /\ AtTheEnd' /\ RewindNeverAsserts'
  BY <1>1, <1>2 DEF StoreInv, AtTheEnd, Stored, RewindNeverAsserts
<1> QED BY <1>2, <1>3, StoreKept

LEMMA BeginShutdownStore ==
  ASSUME IInv, StoreInv, BeginShutdown
  PROVE  StoreInv'
<1>1. phase \in {"parsing", "ready"} /\ mode = "idle" /\ fault = "none" /\ Stored
  BY DEF BeginShutdown, Stored
<1>2. CASE phase = "ready" /\ rewindTime # EndOfTime
  <2>1. phase' = "closing" /\ BeginSeek(EndOfTime) /\ EndOfTime \in Seconds
    BY <1>2, BoundsAssumption DEF BeginShutdown, EndOfTime, Seconds
  <2>2. /\ UNCHANGED <<world, history, currIndex, nextIndex, basicDestroyed, deleted>>
        /\ fault' \in {fault, "empty"}
        /\ rewindTime' = EndOfTime
    BY <1>1, <2>1, BeginSeekInv
  <2>3. mode' # "backward"
    <3>1. \A i \in Steps(history) : history[i].time <= EndOfTime
      <4>1. \A i \in Steps(history) : history[i] \in ActionType
        BY StoreContext
      <4> QED BY <4>1, BoundsAssumption DEF ActionType, EndOfTime
    <3>2. ~(currIndex > 0 /\ history[currIndex].time > EndOfTime)
      <4> SUFFICES ASSUME currIndex > 0, history[currIndex].time > EndOfTime PROVE FALSE
        OBVIOUS
      <4>1. currIndex \in Steps(history)
        BY StoreContext DEF Steps
      <4>2. history[currIndex] \in ActionType
        BY <4>1, StoreContext
      <4> QED BY <3>1, <4>1, <4>2, BoundsAssumption DEF ActionType, EndOfTime
    <3>3. ~(currIndex > Len(history))
      BY StoreContext
    <3> QED BY <1>1, <2>1, <3>2, <3>3 DEF BeginSeek
  <2>4. Stored' /\ AtTheEnd' /\ RewindNeverAsserts'
    BY <1>1, <2>1, <2>2, <2>3 DEF StoreInv, AtTheEnd, Stored, RewindNeverAsserts
  <2> QED BY <1>1, <2>2, <2>4, StoreKept
<1>3. CASE ~(phase = "ready" /\ rewindTime # EndOfTime)
  <2>1. /\ phase' = "tearing"
        /\ UNCHANGED <<world, history, currIndex, nextIndex, basicDestroyed, deleted,
                       mode, fault>>
    BY <1>3 DEF BeginShutdown
  <2>2. currIndex = Len(history)
    <3>1. CASE phase = "parsing"
      BY <3>1 DEF IInv, ParseInv
    <3>2. CASE phase = "ready"
      <4>1. \A i \in Steps(history) : history[i].time <= EndOfTime
        <5>1. \A i \in Steps(history) : history[i] \in ActionType
          BY StoreContext
        <5> QED BY <5>1, BoundsAssumption DEF ActionType, EndOfTime
      <4>2. \A i \in Steps(history) : i <= currIndex
        BY <1>1, <1>3, <3>2, <4>1 DEF IInv, SeekIsExact, Steps
      <4>3. Len(history) = 0 \/ Len(history) \in Steps(history)
        BY StoreContext DEF Steps
      <4> QED BY <4>2, <4>3, StoreContext
    <3> QED BY <1>1, <3>1, <3>2
  <2> QED BY <1>1, <2>1, <2>2, EnterTeardown
<1> QED BY <1>2, <1>3

\* The tables depend on the server's range alone.
LEMMA TablesSame ==
  ASSUME NEW w, NEW v, OwnedBy(w), Resolves(w),
         \A i \in ServerIndex : v.desc[i] = w.desc[i],
         v.kind = w.kind, v.owned = w.owned, v.uidEid = w.uidEid, v.uidUnit = w.uidUnit
  PROVE  OwnedBy(v) /\ Resolves(v)
<1>1. OwnedBy(v)
  BY DEF OwnedBy, LiveIn
<1>2. \A f : f[1] \in ServerIndex =>
        ChunkAt(v, f) = ChunkAt(w, f) /\ (EntityExists(v, f) <=> EntityExists(w, f))
  BY DEF EntityExists, ChunkAt
<1>3. Resolves(v)
  BY <1>2 DEF Resolves
<1> QED BY <1>1, <1>3

LEMMA TearDownStore ==
  ASSUME IInv, StoreInv, NEW i \in Index, TearDown(i)
  PROVE  StoreInv'
<1> DEFINE c == world.desc[i].chunk
           e == <<i, world.desc[i].gen>>
           w == TearEvent(i)
<1>1. /\ phase = "tearing" /\ fault = "none" /\ Occupied(i)
      /\ fault' = TearFault(i)
      /\ IF fault' = "none"
         THEN /\ world' = [w EXCEPT !.eid[c] = Invalid, !.desc[i] = FreedDesc(@)]
              /\ deleted' = IF HasUnit(world.kind[c]) THEN deleted \cup {c}
                            ELSE deleted
         ELSE UNCHANGED <<world, deleted>>
      /\ UNCHANGED <<history, currIndex, basicDestroyed, nextIndex, phase, mode, rewindTime>>
  BY DEF TearDown, Visiting
<1>2. /\ world \in WorldType /\ c \in Chunk /\ c # None
      /\ basicDestroyed \subseteq Chunk
  BY <1>1, SentinelAssumption DEF IInv, TypeOK, Occupied, WorldType
<1>3. /\ ~Stored /\ ~Stored' /\ Left
      /\ Born' = Born /\ AtTheEnd' /\ AllBorn' /\ Lives(history') /\ RewindNeverAsserts'
  BY <1>1 DEF StoreInv, Teardown, Stored, AtTheEnd, Born, AllBorn, RewindNeverAsserts,
              TearFault
<1>4. OwnedBy(world) /\ Resolves(world)
  BY DEF StoreInv
<1>5. CASE fault' # "none"
  BY <1>1, <1>3, <1>4, <1>5 DEF StoreInv, Teardown, Left
<1>6. CASE fault' = "none"
  <2>1. /\ w \in WorldType /\ w.desc = world.desc /\ w.kind = world.kind
        /\ IF i \in basicDestroyed THEN w = world ELSE Loses(world, w, c)
    <3>1. CASE i \in basicDestroyed
      BY <1>2, <3>1 DEF TearEvent
    <3>2. CASE i \notin basicDestroyed
      <4>1. ChunkAt(world, e) = c
        BY DEF ChunkAt
      <4>2. w = OnDestroyedBasic(world, e, Invalid)
        BY <3>2 DEF TearEvent
      <4> HIDE DEF e, c, w
      <4> QED BY <1>2, <3>2, <4>1, <4>2, InvalidIsEid, DestroyedBasicFacts, DestroyedBasicType
    <3> QED BY <3>1, <3>2
  <2>2. i \notin basicDestroyed /\ HasUid(world.kind[c]) => world.kind[c].uid # Unset
    BY <1>1, <1>6 DEF TearFault, DestroyedBasicAsserts, UnitEid, ChunkAt
  <2>3. world' = [w EXCEPT !.eid[c] = Invalid, !.desc[i] = FreedDesc(world.desc[i])]
    BY <1>1, <1>6, <2>1
  <2> HIDE DEF w, c
  <2>4. /\ world'.desc = [world.desc EXCEPT ![i] = FreedDesc(world.desc[i])]
        /\ world'.kind = world.kind
        /\ world'.owned = w.owned /\ world'.uidEid = w.uidEid /\ world'.uidUnit = w.uidUnit
    BY <2>1, <2>3 DEF WorldType
  <2>5. world' \in WorldType
    BY <1>1, TearDownInv DEF IInv, TypeOK
  <2>6. /\ world'.desc[i].chunk = None
        /\ \A j \in Index : j # i => world'.desc[j] = world.desc[j]
    BY <1>2, <2>4 DEF WorldType, FreedDesc
  <2>7. world.desc[i].chunk = c
    BY DEF c
  <2>8. \A j \in Index : j # i => world.desc[j].chunk # c
    BY <1>2, <1>3, <2>7 DEF Left
  <2>9. OwnedBy(world') /\ Resolves(world')
    <3>1. CASE i \in ServerIndex
      <4>1. i \notin basicDestroyed
        BY <1>2, <3>1, ServerIsNotChunk
      <4>2. Loses(world, world', c)
        BY <2>1, <2>4, <4>1 DEF Loses
      <4>3. Aside(world, world', i, c)
        BY <2>6, <2>8 DEF Index, Aside
      <4>4. HasUid(world.kind[c]) => world.kind[c].uid # Unset
        BY <2>2, <4>1
      <4>5. c \in Chunk
        BY <1>2 DEF c
      <4> QED BY <1>2, <1>4, <2>4, <2>5, <2>6, <2>7, <3>1, <4>2, <4>3, <4>4, <4>5, Losing
    <3>2. CASE i \notin ServerIndex
      <4>1. i \in basicDestroyed
        BY <1>2, <1>3, <2>7, <3>2 DEF Left
      <4>2. w = world
        BY <2>1, <4>1
      <4>3. \A j \in ServerIndex : world'.desc[j] = world.desc[j]
        BY <2>6, <3>2 DEF Index
      <4> QED BY <1>4, <2>4, <4>2, <4>3, TablesSame
    <3> QED BY <3>1, <3>2
  <2>10. deleted' = IF HasUnit(world.kind[c]) THEN deleted \cup {c} ELSE deleted
    BY <1>1, <1>6 DEF c
  <2>11. c \in Born
    BY <1>2, <1>3, <2>7 DEF Left
  <2>12. Left'
    <3>1. ASSUME NEW j \in Index, world'.desc[j].chunk # None
          PROVE  /\ world'.desc[j].chunk \in Born
                 /\ world'.desc[j].chunk \notin deleted'
                 /\ j \in ServerIndex \/ j \in basicDestroyed
                 /\ j < nextIndex
                 /\ \A l \in Index : world'.desc[l].chunk = world'.desc[j].chunk => j = l
      <4>1. j # i /\ world'.desc[j] = world.desc[j] /\ world.desc[j].chunk # c
        BY <2>6, <2>8, <3>1
      <4>2. /\ world.desc[j].chunk \in Born
            /\ world.desc[j].chunk \notin deleted
            /\ j \in ServerIndex \/ j \in basicDestroyed
            /\ j < nextIndex
            /\ \A l \in Index : world.desc[l].chunk = world.desc[j].chunk => j = l
        BY <1>3, <3>1, <4>1 DEF Left
      <4>3. \A l \in Index : world'.desc[l].chunk = world'.desc[j].chunk => j = l
        BY <2>6, <3>1, <4>1, <4>2
      <4> QED BY <2>10, <4>1, <4>2, <4>3
    <3>2. ASSUME NEW d \in deleted' PROVE d \in Born /\ HasUnit(world'.kind[d])
      BY <1>3, <2>4, <2>10, <2>11 DEF Left
    <3>3. ASSUME NEW d \in Born, HasUnit(world'.kind[d]), d \notin deleted'
          PROVE  \E j \in Index : world'.desc[j].chunk = d
      <4>1. PICK j \in Index : world.desc[j].chunk = d
        BY <1>3, <2>4, <2>10, <3>3 DEF Left
      <4>2. j # i
        BY <2>4, <2>7, <2>10, <3>3, <4>1
      <4> QED BY <2>6, <4>1, <4>2
    <3> QED BY <1>1, <1>3, <3>1, <3>2, <3>3 DEF Left
  <2>13. phase' = phase /\ phase = "tearing"
    BY <1>1
  <2> QED BY <1>3, <2>9, <2>12, <2>13 DEF StoreInv, Teardown
<1> QED BY <1>5, <1>6

LEMMA TearRestStore ==
  ASSUME StoreInv, TornDown \/ \E i \in Index : PassEmpty(i)
  PROVE  StoreInv'
<1>1. /\ phase = "tearing" /\ phase' \in {"tearing", "closed"}
      /\ UNCHANGED <<world, history, currIndex, basicDestroyed, nextIndex, deleted,
                     mode, rewindTime, fault>>
  BY DEF TornDown, PassEmpty, Visiting
<1> QED BY <1>1 DEF StoreInv, AllBorn, Born, Stored, AtTheEnd, Teardown, Left,
                    RewindNeverAsserts

-----------------------------------------------------------------------------
(* The store is inductive: parsing *)

\* History g is history h with action a at its end.
Extends(h, g, a) ==
  /\ Len(g) = Len(h) + 1
  /\ \A i \in Steps(h) : g[i] = h[i]
  /\ g[Len(h) + 1] = a

LEMMA GrownSteps ==
  ASSUME NEW h, NEW g, NEW a, Len(h) \in Nat, Extends(h, g, a)
  PROVE  /\ Len(g) \in Nat /\ Len(g) \in Steps(g) /\ g[Len(g)] = a /\ Len(g) - 1 = Len(h)
         /\ Len(g) \notin Steps(h)
         /\ \A k : k \in Steps(g) <=> k \in Steps(h) \/ k = Len(g)
         /\ \A k \in Steps(h) : k \in Int /\ k < Len(g) /\ g[k] = h[k]
         /\ \A k \in Steps(h) : \A c : /\ Creates(g, k, c) <=> Creates(h, k, c)
                                       /\ Destroys(g, k, c) <=> Destroys(h, k, c)
<1>1. /\ Len(g) \in Nat /\ Len(g) \in Steps(g) /\ g[Len(g)] = a /\ Len(g) - 1 = Len(h)
      /\ Len(g) \notin Steps(h)
      /\ \A k : k \in Steps(g) <=> k \in Steps(h) \/ k = Len(g)
      /\ \A k \in Steps(h) : k \in Int /\ k < Len(g) /\ g[k] = h[k]
  BY DEF Extends, Steps
<1> QED BY <1>1 DEF Creates, Destroys

LEMMA GrownLiving ==
  ASSUME NEW h, NEW g, NEW a, Len(h) \in Nat, Extends(h, g, a),
         NEW n \in Int, n <= Len(h)
  PROVE  Living(g, n) = Living(h, n)
<1>1. /\ \A k : k \in Steps(g) <=> k \in Steps(h) \/ k = Len(g)
      /\ ~(Len(g) <= n)
      /\ \A k \in Steps(h) : \A c : /\ Creates(g, k, c) <=> Creates(h, k, c)
                                    /\ Destroys(g, k, c) <=> Destroys(h, k, c)
  BY GrownSteps DEF Extends
<1> QED BY <1>1 DEF Living

LEMMA GrownHome ==
  ASSUME NEW h, NEW g, NEW a, Len(h) \in Nat, Extends(h, g, a), Lives(h), Lives(g),
         NEW k \in Steps(h), NEW c \in Chunk, Creates(h, k, c)
  PROVE  Home(g)[c] = Home(h)[c]
<1>1. k \in Steps(g) /\ Creates(g, k, c) /\ g[k] = h[k]
  BY GrownSteps
<1> QED BY <1>1, HomeIs DEF Lives

\* What is said of updates survives a new action that is none.
LEMMA GrownUpdates ==
  ASSUME NEW h, NEW g, NEW a, Len(h) \in Nat, Extends(h, g, a), Lives(h), a.op # "update"
  PROVE  UpdatesLiving(g)
<1> SUFFICES ASSUME NEW n \in Steps(g), g[n].op = "update"
             PROVE  \E c \in Living(g, n), k \in Steps(g) :
                      Creates(g, k, c) /\ g[k].after = g[n].after
  BY DEF UpdatesLiving
<1>1. n \in Steps(h) /\ g[n] = h[n]
  BY GrownSteps
<1>2. PICK c \in Living(h, n), k \in Steps(h) :
        Creates(h, k, c) /\ h[k].after = h[n].after
  BY <1>1 DEF Lives, UpdatesLiving
<1>3. Living(g, n) = Living(h, n)
  BY <1>1, GrownLiving DEF Steps
<1> QED BY <1>1, <1>2, <1>3, GrownSteps

\* A creation under a new name at an index nobody is at.
LEMMA CreateLives ==
  ASSUME NEW h, NEW g, NEW a, Len(h) \in Nat, Extends(h, g, a), Lives(h),
         NEW c \in Chunk, a.op = "create", a.before = Storage(c),
         \A k \in Steps(h) : ~Creates(h, k, c),
         \A b \in Living(h, Len(h)) : Home(h)[b][1] # a.after[1]
  PROVE  Lives(g)
<1> DEFINE n == Len(g)
<1>1. /\ n \in Nat /\ n \in Steps(g) /\ g[n] = a /\ n \notin Steps(h)
      /\ \A k : k \in Steps(g) <=> k \in Steps(h) \/ k = n
      /\ \A k \in Steps(h) : k \in Int /\ k < n /\ g[k] = h[k]
      /\ \A k \in Steps(h) : \A x : /\ Creates(g, k, x) <=> Creates(h, k, x)
                                    /\ Destroys(g, k, x) <=> Destroys(h, k, x)
  BY GrownSteps
<1> HIDE DEF n
<1>2. /\ \A x \in Chunk : Creates(g, n, x) => x = c
      /\ \A x : ~Destroys(g, n, x)
  BY <1>1, StorageIsOne DEF Creates, Destroys
<1>3. OneLife(g)
  <2> SUFFICES ASSUME NEW x \in Chunk, NEW k \in Steps(g)
               PROVE  /\ Creates(g, k, x) => \A l \in Steps(g) : Creates(g, l, x) => l = k
                      /\ Destroys(g, k, x) => \A l \in Steps(g) : Destroys(g, l, x) => l = k
                      /\ Destroys(g, k, x)
                           => \E l \in Steps(g) : l < k /\ Creates(g, l, x)
                                                    /\ g[l].after = g[k].after
    BY DEF OneLife
  <2>1. Creates(g, k, x) => \A l \in Steps(g) : Creates(g, l, x) => l = k
    BY <1>1, <1>2 DEF Lives, OneLife
  <2>2. Destroys(g, k, x) => \A l \in Steps(g) : Destroys(g, l, x) => l = k
    BY <1>1, <1>2 DEF Lives, OneLife
  <2>3. ASSUME Destroys(g, k, x)
        PROVE  \E l \in Steps(g) : l < k /\ Creates(g, l, x) /\ g[l].after = g[k].after
    <3>1. k \in Steps(h) /\ Destroys(h, k, x)
      BY <1>1, <1>2, <2>3
    <3>2. PICK l \in Steps(h) : l < k /\ Creates(h, l, x) /\ h[l].after = h[k].after
      BY <3>1 DEF Lives, OneLife
    <3> QED BY <1>1, <3>1, <3>2
  <2> QED BY <2>1, <2>2, <2>3
<1>4. InTurn(g)
  <2> SUFFICES ASSUME NEW b \in Chunk, NEW x \in Chunk, NEW k \in Steps(g), NEW l \in Steps(g),
                      Creates(g, k, b), Creates(g, l, x), k < l,
                      g[k].after[1] = g[l].after[1]
               PROVE  \E d \in Steps(g) : k < d /\ d < l /\ Destroys(g, d, b)
    BY DEF InTurn
  <2>1. k \in Steps(h) /\ Creates(h, k, b) /\ g[k] = h[k]
    BY <1>1
  <2>2. CASE l \in Steps(h)
    <3>1. PICK d \in Steps(h) : k < d /\ d < l /\ Destroys(h, d, b)
      BY <1>1, <2>1, <2>2 DEF Lives, InTurn
    <3> QED BY <1>1, <3>1
  <2>3. CASE l = n
    <3>1. Home(h)[b] = h[k].after
      BY <2>1, HomeIs DEF Lives
    <3>2. b \notin Living(h, Len(h))
      BY <1>1, <2>1, <2>3, <3>1
    <3>3. k <= Len(h)
      BY <2>1 DEF Steps
    <3>4. PICK d \in Steps(h) : Destroys(h, d, b)
      BY <2>1, <3>2, <3>3 DEF Living
    <3>5. PICK m \in Steps(h) : m < d /\ Creates(h, m, b)
      BY <3>4 DEF Lives, OneLife
    <3>6. m = k
      BY <2>1, <3>5 DEF Lives, OneLife
    <3> QED BY <1>1, <2>3, <3>4, <3>5, <3>6
  <2> QED BY <1>1, <2>2, <2>3
<1>5. UpdatesLiving(g)
  BY GrownUpdates
<1> QED BY <1>3, <1>4, <1>5 DEF Lives

\* A destruction of a living chunk under its handle.
LEMMA DestroyLives ==
  ASSUME NEW h, NEW g, NEW a, Len(h) \in Nat, Extends(h, g, a), Lives(h),
         NEW c \in Living(h, Len(h)), a.op = "destroy", a.before = Storage(c),
         Home(h)[c] = a.after
  PROVE  Lives(g)
<1> DEFINE n == Len(g)
<1>1. /\ n \in Nat /\ n \in Steps(g) /\ g[n] = a /\ n \notin Steps(h)
      /\ \A k : k \in Steps(g) <=> k \in Steps(h) \/ k = n
      /\ \A k \in Steps(h) : k \in Int /\ k < n /\ g[k] = h[k]
      /\ \A k \in Steps(h) : \A x : /\ Creates(g, k, x) <=> Creates(h, k, x)
                                    /\ Destroys(g, k, x) <=> Destroys(h, k, x)
  BY GrownSteps
<1> HIDE DEF n
<1>2. /\ \A x \in Chunk : Destroys(g, n, x) => x = c
      /\ \A x : ~Creates(g, n, x)
  BY <1>1, StorageIsOne DEF Creates, Destroys, Living
<1>3. c \in Chunk /\ \A d \in Steps(h) : ~Destroys(h, d, c)
  BY DEF Living, Steps
<1>4. PICK q \in Steps(h) : Creates(h, q, c)
  BY DEF Living
<1>5. h[q].after = a.after
  BY <1>3, <1>4, HomeIs DEF Lives
<1>6. OneLife(g)
  <2> SUFFICES ASSUME NEW x \in Chunk, NEW k \in Steps(g)
               PROVE  /\ Creates(g, k, x) => \A l \in Steps(g) : Creates(g, l, x) => l = k
                      /\ Destroys(g, k, x) => \A l \in Steps(g) : Destroys(g, l, x) => l = k
                      /\ Destroys(g, k, x)
                           => \E l \in Steps(g) : l < k /\ Creates(g, l, x)
                                                    /\ g[l].after = g[k].after
    BY DEF OneLife
  <2>1. Creates(g, k, x) => \A l \in Steps(g) : Creates(g, l, x) => l = k
    BY <1>1, <1>2 DEF Lives, OneLife
  <2>2. ASSUME Destroys(g, k, x), NEW l \in Steps(g), Destroys(g, l, x)
        PROVE  l = k
    <3>1. CASE k = n \/ l = n
      <4>1. x = c
        BY <1>2, <2>2, <3>1
      <4>2. k \notin Steps(h) /\ l \notin Steps(h)
        BY <1>1, <1>3, <2>2, <4>1
      <4> QED BY <1>1, <4>2
    <3>2. CASE k \in Steps(h) /\ l \in Steps(h)
      BY <1>1, <2>2, <3>2 DEF Lives, OneLife
    <3> QED BY <1>1, <3>1, <3>2
  <2>3. ASSUME Destroys(g, k, x)
        PROVE  \E l \in Steps(g) : l < k /\ Creates(g, l, x) /\ g[l].after = g[k].after
    <3>1. CASE k = n
      BY <1>1, <1>2, <1>4, <1>5, <2>3, <3>1
    <3>2. CASE k \in Steps(h)
      <4>1. PICK l \in Steps(h) : l < k /\ Creates(h, l, x) /\ h[l].after = h[k].after
        BY <1>1, <2>3, <3>2 DEF Lives, OneLife
      <4> QED BY <1>1, <3>2, <4>1
    <3> QED BY <1>1, <3>1, <3>2
  <2> QED BY <2>1, <2>2, <2>3
<1>7. InTurn(g)
  <2> SUFFICES ASSUME NEW b \in Chunk, NEW x \in Chunk, NEW k \in Steps(g), NEW l \in Steps(g),
                      Creates(g, k, b), Creates(g, l, x), k < l,
                      g[k].after[1] = g[l].after[1]
               PROVE  \E d \in Steps(g) : k < d /\ d < l /\ Destroys(g, d, b)
    BY DEF InTurn
  <2>1. k \in Steps(h) /\ l \in Steps(h) /\ g[k] = h[k] /\ g[l] = h[l]
    BY <1>1, <1>2
  <2>2. PICK d \in Steps(h) : k < d /\ d < l /\ Destroys(h, d, b)
    BY <1>1, <2>1 DEF Lives, InTurn
  <2> QED BY <1>1, <2>2
<1>8. UpdatesLiving(g)
  BY GrownUpdates
<1> QED BY <1>6, <1>7, <1>8 DEF Lives

\* An update of a living chunk under its handle.
LEMMA UpdateLives ==
  ASSUME NEW h, NEW g, NEW a, Len(h) \in Nat, Extends(h, g, a), Lives(h),
         NEW c \in Living(h, Len(h)), a.op = "update", Home(h)[c] = a.after
  PROVE  Lives(g)
<1> DEFINE n == Len(g)
<1>1. /\ n \in Nat /\ n \in Steps(g) /\ g[n] = a /\ n \notin Steps(h) /\ n - 1 = Len(h)
      /\ \A k : k \in Steps(g) <=> k \in Steps(h) \/ k = n
      /\ \A k \in Steps(h) : k \in Int /\ k < n /\ g[k] = h[k]
      /\ \A k \in Steps(h) : \A x : /\ Creates(g, k, x) <=> Creates(h, k, x)
                                    /\ Destroys(g, k, x) <=> Destroys(h, k, x)
  BY GrownSteps
<1>2. Living(g, n) = Living(h, Len(h))
  <2>1. Living(g, n - 1) = Living(h, Len(h))
    BY <1>1, GrownLiving
  <2> QED BY <1>1, <2>1, UpdateLiving
<1> HIDE DEF n
<1>3. \A x : ~Creates(g, n, x) /\ ~Destroys(g, n, x)
  BY <1>1 DEF Creates, Destroys
<1>4. OneLife(g)
  <2> SUFFICES ASSUME NEW x \in Chunk, NEW k \in Steps(g)
               PROVE  /\ Creates(g, k, x) => \A l \in Steps(g) : Creates(g, l, x) => l = k
                      /\ Destroys(g, k, x) => \A l \in Steps(g) : Destroys(g, l, x) => l = k
                      /\ Destroys(g, k, x)
                           => \E l \in Steps(g) : l < k /\ Creates(g, l, x)
                                                    /\ g[l].after = g[k].after
    BY DEF OneLife
  <2>1. Creates(g, k, x) => \A l \in Steps(g) : Creates(g, l, x) => l = k
    BY <1>1, <1>3 DEF Lives, OneLife
  <2>2. Destroys(g, k, x) => \A l \in Steps(g) : Destroys(g, l, x) => l = k
    BY <1>1, <1>3 DEF Lives, OneLife
  <2>3. ASSUME Destroys(g, k, x)
        PROVE  \E l \in Steps(g) : l < k /\ Creates(g, l, x) /\ g[l].after = g[k].after
    <3>1. k \in Steps(h) /\ Destroys(h, k, x)
      BY <1>1, <1>3, <2>3
    <3>2. PICK l \in Steps(h) : l < k /\ Creates(h, l, x) /\ h[l].after = h[k].after
      BY <3>1 DEF Lives, OneLife
    <3> QED BY <1>1, <3>1, <3>2
  <2> QED BY <2>1, <2>2, <2>3
<1>5. InTurn(g)
  <2> SUFFICES ASSUME NEW b \in Chunk, NEW x \in Chunk, NEW k \in Steps(g), NEW l \in Steps(g),
                      Creates(g, k, b), Creates(g, l, x), k < l,
                      g[k].after[1] = g[l].after[1]
               PROVE  \E d \in Steps(g) : k < d /\ d < l /\ Destroys(g, d, b)
    BY DEF InTurn
  <2>1. k \in Steps(h) /\ l \in Steps(h) /\ g[k] = h[k] /\ g[l] = h[l]
    BY <1>1, <1>3
  <2>2. PICK d \in Steps(h) : k < d /\ d < l /\ Destroys(h, d, b)
    BY <1>1, <2>1 DEF Lives, InTurn
  <2> QED BY <1>1, <2>2
<1>6. UpdatesLiving(g)
  <2> SUFFICES ASSUME NEW m \in Steps(g), g[m].op = "update"
               PROVE  \E x \in Living(g, m), k \in Steps(g) :
                        Creates(g, k, x) /\ g[k].after = g[m].after
    BY DEF UpdatesLiving
  <2>1. CASE m \in Steps(h)
    <3>1. PICK x \in Living(h, m), k \in Steps(h) :
            Creates(h, k, x) /\ h[k].after = h[m].after
      BY <1>1, <2>1 DEF Lives, UpdatesLiving
    <3>2. Living(g, m) = Living(h, m)
      BY <2>1, GrownLiving DEF Steps
    <3> QED BY <1>1, <2>1, <3>1, <3>2
  <2>2. CASE m = n
    <3>1. PICK k \in Steps(h) : Creates(h, k, c)
      BY DEF Living
    <3>2. c \in Chunk
      BY DEF Living
    <3>3. h[k].after = a.after
      BY <3>1, <3>2, HomeIs DEF Lives
    <3> QED BY <1>1, <1>2, <2>2, <3>1, <3>3
  <2> QED BY <1>1, <2>1, <2>2
<1> QED BY <1>4, <1>5, <1>6 DEF Lives

\* An entity that exists is the chunk that is at home there.
LEMMA ExistsAtHome ==
  ASSUME IInv, StoreInv, Placed, NEW e \in ServerEid, EntityExists(world, e)
  PROVE  /\ ChunkAt(world, e) \in Living(history, currIndex)
         /\ Home(history)[ChunkAt(world, e)] = e
<1> DEFINE c == ChunkAt(world, e)
           home == Home(history)
<1>1. e[1] \in ServerIndex /\ e = <<e[1], e[2]>>
  BY ServerIsEid
<1>2. c = world.desc[e[1]].chunk /\ c # None /\ world.desc[e[1]].gen = e[2]
  BY DEF EntityExists, ChunkAt
<1> HIDE DEF c, home
<1>3. c \in Living(history, currIndex) /\ home[c][1] = e[1]
  BY <1>1, <1>2 DEF Placed, PlacedIn, home
<1>4. c \in Born /\ home[c] \in ServerEid
  BY <1>3, StoreContext DEF home
<1>5. AtServer(world, c, home[c])
  BY <1>3, <1>4 DEF Placed, PlacedIn, home
<1>6. home[c][2] = e[2]
  BY <1>2, <1>3, <1>5 DEF AtServer
<1>7. home[c] = <<home[c][1], home[c][2]>>
  BY <1>4, ServerIsEid
<1> QED BY <1>1, <1>3, <1>6, <1>7 DEF c, home

\* emplaceNew extends the history.
LEMMA EmplacedExtends ==
  ASSUME IInv, NEW a \in ActionType, EmplaceNew(a)
  PROVE  Extends(history, history', a) /\ currIndex' = Len(history')
BY DEF EmplaceNew, Extends, Steps, IInv, TypeOK

\* What a recorded destruction or update leaves of the invariant.
LEMMA Recording ==
  ASSUME IInv, StoreInv, phase = "parsing", phase' = "parsing",
         NEW a, Extends(history, history', a), a.op # "create", Lives(history'),
         currIndex' = Len(history'),
         IF a.op = "destroy"
         THEN \E c \in Chunk : /\ a.before = Storage(c)
                               /\ basicDestroyed' = basicDestroyed \cup {c}
         ELSE basicDestroyed' = basicDestroyed,
         PlacedIn(world', Born, Living(history', currIndex'), Home(history)),
         OwnedBy(world'), Resolves(world'),
         UNCHANGED <<nextIndex, deleted, mode, fault>>
  PROVE  StoreInv'
<1>1. Len(history) \in Nat /\ Born \in SUBSET Chunk
  BY StoreContext
<1>2. /\ \A k : k \in Steps(history') <=> k \in Steps(history) \/ k = Len(history')
      /\ history'[Len(history')] = a
      /\ \A k \in Steps(history) : \A c :
           /\ Creates(history', k, c) <=> Creates(history, k, c)
           /\ Destroys(history', k, c) <=> Destroys(history, k, c)
  BY <1>1, GrownSteps
<1>3. Born' = Born
  BY DEF Born
<1>4. \A c : ~Creates(history', Len(history'), c)
  BY <1>2 DEF Creates
<1>5. ASSUME NEW c \in Chunk PROVE c \in Born <=> \E k \in Steps(history') : Creates(history', k, c)
  BY <1>2, <1>4 DEF StoreInv, AllBorn
<1>6. ASSUME NEW c \in Chunk
      PROVE  c \in basicDestroyed' <=> \E k \in Steps(history') : Destroys(history', k, c)
  <2>1. c \in basicDestroyed <=> \E k \in Steps(history) : Destroys(history, k, c)
    BY DEF StoreInv, AllBorn
  <2>2. CASE a.op = "destroy"
    <3>1. PICK b \in Chunk : /\ a.before = Storage(b)
                             /\ basicDestroyed' = basicDestroyed \cup {b}
      BY <2>2
    <3>2. Destroys(history', Len(history'), c) <=> c = b
      BY <1>2, <2>2, <3>1, StorageIsOne DEF Destroys
    <3> QED BY <1>2, <2>1, <3>1, <3>2
  <2>3. CASE a.op # "destroy"
    <3>1. ~Destroys(history', Len(history'), c)
      BY <1>2, <2>3 DEF Destroys
    <3> QED BY <1>2, <2>1, <2>3, <3>1
  <2> QED BY <2>2, <2>3
<1>7. AllBorn'
  BY <1>3, <1>5, <1>6 DEF AllBorn
<1>8. Placed'
  <2>1. \A c \in Born : Home(history')[c] = Home(history)[c]
    <3> SUFFICES ASSUME NEW c \in Born PROVE Home(history')[c] = Home(history)[c]
      OBVIOUS
    <3>1. c \in Chunk /\ \E k \in Steps(history) : Creates(history, k, c)
      BY <1>1 DEF StoreInv, AllBorn
    <3> QED BY <1>1, <3>1, GrownHome DEF StoreInv
  <2>2. Living(history', currIndex') \in SUBSET Born
    BY <1>1, <1>5 DEF Living
  <2> QED BY <1>3, <2>1, <2>2, PlacedSame DEF Placed
<1>9. /\ Stored /\ Stored' /\ AtTheEnd' /\ Teardown' /\ RewindNeverAsserts'
  BY DEF StoreInv, Stored, AtTheEnd, Teardown, RewindNeverAsserts
<1> QED BY <1>7, <1>8, <1>9 DEF StoreInv

LEMMA ParsingStore ==
  ASSUME IInv, StoreInv, phase = "parsing"
  PROVE  Stored /\ Placed /\ currIndex = Len(history) /\ deleted = {}
BY DEF IInv, ParseInv, StoreInv, Stored, Teardown

LEMMA ParseUpdateStore ==
  ASSUME IInv, StoreInv, NEW t \in 0 .. MaxTime, NEW e \in ServerEid, NEW v \in Value,
         ParseUpdate(t, e, v)
  PROVE  StoreInv'
<1> DEFINE c == ChunkAt(world, e)
           a == Action(t, "update", Invalid, e, world.value[c])
<1>1. /\ phase = "parsing" /\ EntityExists(world, e)
      /\ world' = SwapValue(world, e, v)
      /\ EmplaceNew(a)
      /\ UNCHANGED <<basicDestroyed, nextIndex, phase, fault, mode, deleted>>
  BY DEF ParseUpdate, PacketAt
<1>2. /\ Placed /\ currIndex = Len(history)
      /\ world \in WorldType /\ Len(history) \in Nat /\ Lives(history)
  BY <1>1, ParsingStore, StoreContext
<1>3. c \in Living(history, Len(history)) /\ Home(history)[c] = e
  BY <1>1, <1>2, ExistsAtHome
<1>4. c \in Chunk
  BY <1>3 DEF Living
<1>5. a \in ActionType /\ a.op = "update" /\ a.after = e
  <2>1. world.value[c] \in Value \cup {None}
    BY <1>2, <1>4 DEF WorldType
  <2> QED BY <2>1, InvalidIsEid DEF Action, ActionType
<1> HIDE DEF a, c
<1>6. Extends(history, history', a) /\ currIndex' = Len(history')
  BY <1>1, <1>5, EmplacedExtends
<1>7. Lives(history')
  BY <1>2, <1>3, <1>5, <1>6, UpdateLives
<1>8. Living(history', currIndex') = Living(history, Len(history))
  <2> DEFINE n == Len(history')
  <2>1. n \in Nat /\ n \in Steps(history') /\ history'[n] = a /\ n - 1 = Len(history)
    BY <1>2, <1>6, GrownSteps
  <2>2. Living(history', n) = Living(history', n - 1)
    BY <1>5, <2>1, UpdateLiving
  <2>3. Living(history', n - 1) = Living(history, Len(history))
    BY <1>2, <1>6, <2>1, GrownLiving
  <2> QED BY <1>6, <2>2, <2>3
<1>9. /\ PlacedIn(world', Born, Living(history', currIndex'), Home(history))
      /\ OwnedBy(world') /\ Resolves(world')
  <2>1. PlacedIn(world, Born, Living(history, Len(history)), Home(history))
    BY <1>2 DEF Placed
  <2>2. OwnedBy(world) /\ Resolves(world)
    BY DEF StoreInv
  <2> QED BY <1>1, <1>2, <1>8, <2>1, <2>2, SwapValueFacts
<1> QED BY <1>1, <1>5, <1>6, <1>7, <1>9, Recording

LEMMA ParseDestroyStore ==
  ASSUME IInv, StoreInv, NEW t \in 0 .. MaxTime, NEW e \in ServerEid, ParseDestroy(t, e)
  PROVE  StoreInv'
<1> DEFINE c == ChunkAt(world, e)
           a == Action(t, "destroy", Storage(c), e, None)
<1>1. /\ phase = "parsing" /\ EntityExists(world, e)
      /\ DestroyFault(e) = "none"
      /\ world' = Vanish(world, StorageOf(e), e)
      /\ basicDestroyed' = basicDestroyed \cup {StorageOf(e)[1]}
      /\ EmplaceNew(Action(t, "destroy", StorageOf(e), e, None))
      /\ UNCHANGED <<nextIndex, phase, fault, mode, deleted>>
  BY DEF ParseDestroy, PacketAt
<1>2. /\ Placed /\ currIndex = Len(history)
      /\ world \in WorldType /\ Len(history) \in Nat /\ Lives(history)
  BY <1>1, ParsingStore, StoreContext
<1>3. c \in Living(history, Len(history)) /\ Home(history)[c] = e
  BY <1>1, <1>2, ExistsAtHome
<1>4. c \in Chunk
  BY <1>3 DEF Living
<1>5. StorageOf(e) = Storage(c)
  <2>1. e[1] \in ServerIndex /\ e = <<e[1], e[2]>>
    BY ServerIsEid
  <2>2. OwnsStorage(e[1])
    BY <1>1, <2>1 DEF IInv, ParseInv, Ownership
  <2>3. creationOf[e] # 0 /\ history[creationOf[e]].before = Storage(c)
    BY <1>1, <2>1, <2>2 DEF OwnsStorage, EntityExists, ChunkAt
  <2> QED BY <2>3 DEF StorageOf
<1>6. a \in ActionType /\ a.op = "destroy" /\ a.after = e /\ a.before = Storage(c)
  BY <1>4, StorageIsEid DEF Action, ActionType
<1>7. /\ EmplaceNew(a)
      /\ world' = Vanish(world, Storage(c), e)
      /\ basicDestroyed' = basicDestroyed \cup {c}
  BY <1>1, <1>4, <1>5, StorageIsEid
<1>8. VanishFault(world, e) = "none"
  BY <1>1 DEF DestroyFault
<1> HIDE DEF a, c
<1>9. Extends(history, history', a) /\ currIndex' = Len(history')
  BY <1>6, <1>7, EmplacedExtends
<1>10. Lives(history')
  BY <1>2, <1>3, <1>6, <1>9, DestroyLives
<1>11. Living(history', currIndex') = Living(history, Len(history)) \ {c}
  <2> DEFINE n == Len(history')
  <2>1. n \in Nat /\ n \in Steps(history') /\ history'[n] = a /\ n - 1 = Len(history)
    BY <1>2, <1>9, GrownSteps
  <2>2. Destroys(history', n, c)
    BY <1>6, <2>1 DEF Destroys
  <2>3. Living(history', n) = Living(history', n - 1) \ {c}
    BY <1>4, <1>10, <2>1, <2>2, DestroyLiving
  <2>4. Living(history', n - 1) = Living(history, Len(history))
    BY <1>2, <1>9, <2>1, GrownLiving
  <2> QED BY <1>9, <2>3, <2>4
<1>12. /\ PlacedIn(world', Born, Living(history', currIndex'), Home(history))
       /\ OwnedBy(world') /\ Resolves(world')
  BY <1>2, <1>3, <1>7, <1>8, <1>11, VanishStep
<1> QED BY <1>1, <1>4, <1>6, <1>7, <1>9, <1>10, <1>12, Recording

LEMMA ParseDestroyThrowsStore ==
  ASSUME IInv, StoreInv, NEW t \in 0 .. MaxTime, NEW e \in ServerEid,
         ParseDestroyThrows(t, e)
  PROVE  StoreInv'
<1>1. /\ phase = "parsing" /\ EntityExists(world, e) /\ fault' = DestroyFault(e)
      /\ UNCHANGED <<world, history, currIndex, basicDestroyed, nextIndex, deleted,
                     phase, mode>>
  BY DEF ParseDestroyThrows, PacketAt
<1>2. e[1] \notin basicDestroyed
  BY ServerIsEid, ServerIsNotChunk DEF IInv, TypeOK
<1>3. RewindNeverAsserts'
  BY <1>1, <1>2 DEF DestroyFault, VanishFault, RewindNeverAsserts
<1>4. Stored /\ Stored' /\ AtTheEnd'
  BY <1>1 DEF StoreInv, AtTheEnd, Stored
<1> QED BY <1>1, <1>3, <1>4, StoreKept

LEMMA ParseRestStore ==
  ASSUME IInv, StoreInv, NEW t \in 0 .. MaxTime, ParseOther(t) \/ ParseEnd(t)
  PROVE  StoreInv'
<1>1. /\ phase = "parsing" /\ phase' \in {"parsing", "ready"}
      /\ UNCHANGED <<world, history, currIndex, basicDestroyed, nextIndex, deleted,
                     mode, fault>>
  BY DEF ParseOther, ParseEnd, PacketAt
<1>2. Stored /\ Stored' /\ AtTheEnd' /\ RewindNeverAsserts'
  BY <1>1 DEF StoreInv, AtTheEnd, Stored, RewindNeverAsserts
<1> QED BY <1>1, <1>2, StoreKept

LEMMA ParseCreateStore ==
  ASSUME IInv, StoreInv, IInv', NEW t \in 0 .. MaxTime, NEW e \in ServerEid, NEW k \in Kind,
         NEW v \in Value, ParseCreate(t, e, k, v)
  PROVE  StoreInv'
<1> DEFINE c == nextIndex
           a == Action(t, "create", Storage(c), e, None)
           w == [world EXCEPT !.desc[e[1]] = [chunk |-> c, gen |-> e[2]],
                              !.kind[c] = k, !.eid[c] = e, !.value[c] = v]
           alive == Living(history, Len(history))
<1>1. /\ phase = "parsing" /\ HistoryHasRoom /\ ServerKeepsUidsUnique(k)
      /\ ChunkAt(world, e) = None
      /\ world' = OnCreatedBasic(OnCreated(w, e), e)
      /\ EmplaceNew(a)
      /\ nextIndex' = nextIndex + 1
      /\ UNCHANGED <<basicDestroyed, phase, fault, mode, deleted>>
  BY DEF ParseCreate, Created, PacketAt
<1>2. /\ Placed /\ currIndex = Len(history) /\ deleted = {}
      /\ world \in WorldType /\ Len(history) \in Nat /\ Lives(history)
      /\ Born \in SUBSET Chunk /\ alive \in SUBSET Born
      /\ \A x \in Born : Home(history)[x] \in ServerEid
      /\ world' \in WorldType
  BY <1>1, ParsingStore, StoreContext DEF IInv, TypeOK
<1>3. c \in Chunk /\ Chunk \subseteq Int /\ c \in Int
  <2>1. Len(history) < MaxActions /\ nextIndex <= Reserved + 1 + Len(history)
    BY <1>1 DEF IInv, RoomLeft, HistoryHasRoom
  <2>2. nextIndex \in (Reserved + 1) .. (Reserved + MaxActions + 1)
    BY DEF IInv, TypeOK
  <2> QED BY <1>2, <2>1, <2>2, BoundsAssumption, CountersAreIntegers DEF IInv, Chunk
<1>4. c \notin Born /\ Born' = Born \cup {c}
  BY <1>1, <1>3 DEF Born
<1>5. /\ e \in Eid /\ e[1] \in ServerIndex /\ e[1] \in Index /\ e[2] \in Nat /\ e[1] # c
      /\ e = <<e[1], e[2]>>
  BY <1>3, ServerIsEid, ServerIsNotChunk, GenerationAssumption
<1>6. /\ w \in WorldType
      /\ w.desc = [world.desc EXCEPT ![e[1]] = [chunk |-> c, gen |-> e[2]]]
      /\ w.kind = [world.kind EXCEPT ![c] = k]
      /\ w.eid = [world.eid EXCEPT ![c] = e]
      /\ w.owned = world.owned /\ w.uidEid = world.uidEid /\ w.uidUnit = world.uidUnit
  BY <1>2, <1>3, <1>5 DEF WorldType
<1> HIDE DEF w
<1>7. ChunkAt(w, e) = c
  BY <1>2, <1>5, <1>6 DEF ChunkAt, WorldType
<1>8. /\ world'.desc = w.desc /\ world'.kind = w.kind /\ world'.eid = w.eid
      /\ Gains(w, world', c, e)
  <2> DEFINE o == OnCreated(w, e)
  <2>1. /\ o \in WorldType
        /\ o.desc = w.desc /\ o.kind = w.kind /\ o.eid = w.eid /\ o.owned = w.owned
        /\ o.uidEid = w.uidEid /\ o.uidUnit = w.uidUnit
    BY <1>3, <1>6, <1>7, CreatedType, CreatedFacts
  <2> HIDE DEF o
  <2>2. ChunkAt(o, e) = c
    BY <1>7, <2>1 DEF ChunkAt
  <2>3. /\ world'.desc = o.desc /\ world'.kind = o.kind /\ world'.eid = o.eid
        /\ Gains(o, world', c, e)
    BY <1>1, <1>3, <1>5, <2>1, <2>2, CreatedBasicFacts DEF o
  <2> QED BY <2>1, <2>3 DEF Gains
<1>9. /\ Gains(world, world', c, e)
      /\ world'.desc[e[1]] = [chunk |-> c, gen |-> e[2]]
      /\ \A i \in Index : i # e[1] => world'.desc[i] = world.desc[i]
      /\ world'.eid = [world.eid EXCEPT ![c] = e]
      /\ world'.kind[c] = k
      /\ \A x \in Chunk : x # c => world'.kind[x] = world.kind[x]
  <2>1. Gains(world, world', c, e)
    BY <1>6, <1>8 DEF Gains
  <2> QED BY <1>2, <1>3, <1>5, <1>6, <1>8, <2>1 DEF WorldType
<1>10. a \in ActionType /\ a.op = "create" /\ a.after = e /\ a.before = Storage(c)
  BY <1>3, StorageIsEid DEF Action, ActionType
<1> HIDE DEF a, c
<1>11. Extends(history, history', a) /\ currIndex' = Len(history')
  BY <1>1, <1>10, EmplacedExtends
<1>12. \A n \in Steps(history) : ~Creates(history, n, c)
  BY <1>3, <1>4 DEF StoreInv, AllBorn
<1>13. PlacedIn(world, Born, alive, Home(history))
  BY <1>2 DEF Placed
<1>14. world.desc[e[1]].chunk = None
  BY <1>1 DEF ChunkAt
<1>15. \A b \in alive : Home(history)[b][1] # e[1]
  <2> SUFFICES ASSUME NEW b \in alive, Home(history)[b][1] = e[1] PROVE FALSE
    OBVIOUS
  <2>1. AtServer(world, b, Home(history)[b]) /\ b \in Chunk
    BY <1>2, <1>13 DEF PlacedIn
  <2> QED BY <1>14, <2>1, SentinelAssumption DEF AtServer
<1>16. Lives(history')
  BY <1>2, <1>3, <1>10, <1>11, <1>12, <1>15, CreateLives
<1> DEFINE n == Len(history')
<1>17. /\ n \in Nat /\ n \in Steps(history') /\ history'[n] = a /\ n - 1 = Len(history)
       /\ \A l : l \in Steps(history') <=> l \in Steps(history) \/ l = n
       /\ \A l \in Steps(history) : \A x :
            /\ Creates(history', l, x) <=> Creates(history, l, x)
            /\ Destroys(history', l, x) <=> Destroys(history, l, x)
  BY <1>2, <1>11, GrownSteps
<1>18. Creates(history', n, c)
  BY <1>10, <1>17 DEF Creates
<1>19. Living(history', n) = alive \cup {c}
  <2>1. Living(history', n) = Living(history', n - 1) \cup {c}
    BY <1>3, <1>16, <1>17, <1>18, CreateLiving
  <2>2. Living(history', n - 1) = alive
    BY <1>2, <1>11, <1>17, GrownLiving
  <2> QED BY <2>1, <2>2
<1> HIDE DEF n, alive
<1>20. Home(history')[c] = e
  BY <1>3, <1>10, <1>16, <1>17, <1>18, HomeIs DEF Lives
<1>21. \A x \in Born : Home(history')[x] = Home(history)[x]
  <2> SUFFICES ASSUME NEW x \in Born PROVE Home(history')[x] = Home(history)[x]
    OBVIOUS
  <2>1. x \in Chunk /\ \E l \in Steps(history) : Creates(history, l, x)
    BY <1>2 DEF StoreInv, AllBorn
  <2> QED BY <1>2, <1>11, <1>16, <2>1, GrownHome
<1>22. c \notin alive
  BY <1>2, <1>4 DEF alive
<1>23. Placed'
  <2>1. world'.desc[c].chunk = None
    <3>1. world.desc[c].chunk = None
      BY <1>3, <1>4, <1>13 DEF PlacedIn
    <3> QED BY <1>3, <1>5, <1>9, <3>1 DEF Index
  <2>2. PlacedIn(world', Born \cup {c}, alive \cup {c}, Home(history'))
    BY <1>2, <1>3, <1>9, <1>13, <1>14, <1>20, <1>21, <1>22, <2>1, Entering
  <2> QED BY <1>4, <1>11, <1>19, <2>2 DEF Placed, n
<1>24. OwnedBy(world') /\ Resolves(world')
  <2>1. ~LiveIn(world, c)
    <3>1. Homed(Born, alive, Home(history))
      BY <1>2 DEF Homed, alive
    <3> QED BY <1>3, <1>13, <1>22, <3>1, LiveAtHome
  <2>2. Registered(k) => world.uidEid[k.uid] = Invalid
    BY <1>1 DEF ServerKeepsUidsUnique, Registered, UnitEid
  <2>3. \A i \in ServerIndex : i # e[1] => world'.desc[i] = world.desc[i]
    BY <1>9 DEF Index
  <2>4. OwnedBy(world) /\ Resolves(world)
    BY DEF StoreInv
  <2> QED BY <1>2, <1>3, <1>9, <1>14, <2>1, <2>2, <2>3, <2>4, Gaining
<1>25. AllBorn'
  <2>1. a.op # "destroy"
    BY <1>10
  <2>2. \A x : ~Destroys(history', n, x)
    BY <1>17, <2>1 DEF Destroys
  <2>3. \A x \in Chunk : Creates(history', n, x) => x = c
    BY <1>10, <1>17, StorageIsOne DEF Creates
  <2>4. ASSUME NEW x \in Chunk
        PROVE  /\ x \in Born' <=> \E l \in Steps(history') : Creates(history', l, x)
               /\ x \in basicDestroyed' <=> \E l \in Steps(history') : Destroys(history', l, x)
    <3>1. /\ x \in Born <=> \E l \in Steps(history) : Creates(history, l, x)
          /\ x \in basicDestroyed <=> \E l \in Steps(history) : Destroys(history, l, x)
      BY DEF StoreInv, AllBorn
    <3> QED BY <1>1, <1>4, <1>17, <1>18, <2>2, <2>3, <3>1
  <2> QED BY <2>4 DEF AllBorn
<1>26. AtTheEnd' /\ Teardown' /\ RewindNeverAsserts'
  BY <1>1, <1>2 DEF StoreInv, Stored, AtTheEnd, Teardown, RewindNeverAsserts
<1> QED BY <1>16, <1>23, <1>24, <1>25, <1>26 DEF StoreInv

LEMMA InitStore == ASSUME Init PROVE StoreInv
<1>1. /\ history = << >> /\ Len(history) = 0 /\ world = EmptyWorld /\ Steps(history) = {}
      /\ basicDestroyed = {} /\ deleted = {} /\ phase = "parsing" /\ mode = "idle"
      /\ fault = "none"
  BY DEF Init, Steps
<1>2. Lives(history)
  BY <1>1 DEF Lives, OneLife, InTurn, UpdatesLiving
<1>3. Born = {}
  BY BoundsAssumption DEF Init, Born, Chunk
<1>4. AllBorn
  BY <1>1, <1>3 DEF AllBorn
<1>5. \A i \in Index : world.desc[i].chunk = None
  BY <1>1 DEF EmptyWorld, EmptyDesc
<1>6. Placed
  BY <1>3, <1>5 DEF Placed, PlacedIn, Index
<1>7. OwnedBy(world)
  <2>1. \A c \in Chunk : ~LiveIn(world, c)
    BY <1>5, SentinelAssumption DEF LiveIn, Index
  <2>2. \A p \in Player : world.owned[p] = {}
    BY <1>1 DEF EmptyWorld
  <2> QED BY <2>1, <2>2 DEF OwnedBy
<1>8. Resolves(world)
  <2>1. \A u \in Uid : world.uidEid[u] = Invalid /\ world.uidUnit[u] = None
    BY <1>1 DEF EmptyWorld
  <2> QED BY <1>5, <2>1 DEF Resolves, Index
<1> QED BY <1>1, <1>2, <1>4, <1>6, <1>7, <1>8
        DEF StoreInv, AtTheEnd, Stored, Teardown, RewindNeverAsserts

LEMMA StutterStore ==
  ASSUME StoreInv, UNCHANGED vars
  PROVE  StoreInv'
BY DEF vars, StoreInv, AllBorn, Born, Placed, Stored, AtTheEnd, Teardown, Left,
       RewindNeverAsserts

\* Every chunk ever created is where the recorded actions put it, and the lookups
\* of units and players agree with it, through parsing, any sequence of seeks and
\* closing.
THEOREM StoreInvariant == Spec => []StoreInv
<1>1. Init => StoreInv
  BY InitStore
<1>2. IInv /\ IInv' /\ StoreInv /\ [Next]_vars => StoreInv'
  <2> SUFFICES ASSUME IInv, IInv', StoreInv, [Next]_vars PROVE StoreInv'
    OBVIOUS
  <2>1. CASE Parse
    <3>1. PICK t \in 0 .. MaxTime :
            \/ \E e \in ServerEid :
                 \/ \E k \in Kind, v \in Value : ParseCreate(t, e, k, v)
                 \/ ParseDestroy(t, e)
                 \/ \E v \in Value : ParseUpdate(t, e, v)
                 \/ ParseDestroyThrows(t, e)
            \/ ParseOther(t)
            \/ ParseEnd(t)
      BY <2>1 DEF Parse
    <3> QED BY <3>1, ParseCreateStore, ParseDestroyStore, ParseUpdateStore,
               ParseDestroyThrowsStore, ParseRestStore
  <2>2. CASE \E t \in 0 .. EndOfTime : RewindTo(t)
    BY <2>2, RewindToStore DEF Seconds
  <2>3. CASE Seek
    BY <2>3, StepBackwardStore, StepForwardStore, StepThrowsStore,
       SeekReturnThrowsStore, FinishSeekStore DEF Seek
  <2>4. CASE BeginShutdown
    BY <2>4, BeginShutdownStore
  <2>5. CASE \E i \in Index : TearDown(i)
    BY <2>5, TearDownStore
  <2>6. CASE TornDown \/ \E i \in Index : PassEmpty(i)
    BY <2>6, TearRestStore
  <2>7. CASE UNCHANGED vars
    BY <2>7, StutterStore
  <2> QED BY <2>1, <2>2, <2>3, <2>4, <2>5, <2>6, <2>7 DEF Next
<1> QED BY <1>1, <1>2, InductiveInvariant, PTL DEF Spec

\* A handle an action names always resolves when the action is undone or redone,
\* and no parked chunk is parked again (EntityManager.cpp:17-84, 331).
THEOREM RewindSound == Spec => []RewindNeverAsserts
<1>1. StoreInv => RewindNeverAsserts
  BY DEF StoreInv
<1> QED BY <1>1, StoreInvariant, PTL

\* Every chunk ever created is at exactly one index, and its eid component is the
\* handle of it (the swaps of EntityManager.cpp:15-87).
THEOREM ChunksPlaced == Spec => []ChunkAtOneIndex
<1>1. ASSUME IInv, StoreInv PROVE ChunkAtOneIndex
  <2> SUFFICES ASSUME Quiet, NEW c \in (Reserved + 1) .. (nextIndex - 1)
               PROVE  \E i \in Index :
                        /\ world.desc[i].chunk = c
                        /\ world.eid[c][1] = i
                        /\ \A j \in Index \ {i} : world.desc[j].chunk # c
    BY DEF ChunkAtOneIndex
  <2> DEFINE alive == Living(history, currIndex)
             home == Home(history)
  <2>1. /\ Born \in SUBSET Chunk /\ PlacedIn(world, Born, alive, home)
        /\ Homed(Born, alive, home)
    <3>1. Placed
      BY <1>1 DEF StoreInv, Quiet, Stored
    <3> QED BY <1>1, <3>1, StoreContext DEF Placed, Homed
  <2>2. c \in Born /\ c \in Chunk /\ c # None /\ c \in Index
    <3>1. nextIndex \in (Reserved + 1) .. (Reserved + MaxActions + 1)
      BY <1>1 DEF IInv, TypeOK
    <3>2. c \in Chunk /\ c < nextIndex
      BY <3>1, BoundsAssumption DEF Chunk
    <3> QED BY <3>2, SentinelAssumption DEF Born, Index
  <2> HIDE DEF alive, home
  <2>3. ASSUME NEW j \in Chunk, world.desc[j].chunk = c PROVE j = c /\ c \notin alive
    <3>1. j \in Born
      BY <2>1, <2>2, <2>3 DEF PlacedIn
    <3>2. j \notin alive
      BY <2>1, <2>2, <2>3, <3>1 DEF PlacedIn, AtServer
    <3>3. Parked(world, j, home[j])
      BY <2>1, <3>1, <3>2 DEF PlacedIn
    <3> QED BY <2>3, <3>2, <3>3 DEF Parked
  <2>4. \A j \in ServerIndex : world.desc[j].chunk = c <=> c \in alive /\ j = home[c][1]
    BY <2>1, <2>2, LiveAtHome
  <2>5. CASE c \in alive
    <3>1. home[c] \in ServerEid /\ home[c][1] \in ServerIndex /\ home[c][1] \in Index
      BY <2>1, <2>2, ServerIsEid DEF Homed
    <3>2. world.desc[home[c][1]].chunk = c
      BY <2>4, <2>5, <3>1
    <3>3. world.eid[c][1] = home[c][1]
      BY <2>1, <2>2, <2>5 DEF PlacedIn, AtServer
    <3>4. \A j \in Index \ {home[c][1]} : world.desc[j].chunk # c
      BY <2>3, <2>4, <2>5 DEF Index
    <3> QED BY <3>1, <3>2, <3>3, <3>4
  <2>6. CASE c \notin alive
    <3>1. Parked(world, c, home[c])
      BY <2>1, <2>2, <2>6 DEF PlacedIn
    <3>2. world.desc[c].chunk = c /\ world.eid[c][1] = c
      BY <2>2, <3>1, StorageIsEid DEF Parked
    <3>3. \A j \in Index \ {c} : world.desc[j].chunk # c
      BY <2>3, <2>4, <2>6 DEF Index
    <3> QED BY <2>2, <3>2, <3>3
  <2> QED BY <2>5, <2>6
<1> QED BY <1>1, InductiveInvariant, StoreInvariant, PTL

\* A player's current units are the living units it owns, at every point of a
\* rewind (UpdateMPlayerES.cpp.inl, MPlayer::currentOwnedUnits).
THEOREM OwnedAlwaysExact == Spec => []OwnedExact
<1>1. StoreInv => OwnedExact
  BY DEF StoreInv, OwnedExact, OwnedBy, LiveIn, Live
<1> QED BY <1>1, StoreInvariant, PTL

\* A unit id resolves exactly to the living entity that carries it, in both
\* lookups (BaseEntityES.cpp.inl, ParserState::getUnitEid).
THEOREM LookupsExact == Spec => []UidLookupExact
<1>1. ASSUME StoreInv PROVE UidLookupExact
  <2>1. Resolves(world)
    BY <1>1 DEF StoreInv
  <2>2. ASSUME NEW u \in Uid, NEW i \in ServerIndex, world.desc[i].chunk # None,
               HasUid(world.kind[world.desc[i].chunk]),
               world.kind[world.desc[i].chunk].uid = u
        PROVE  /\ world.uidEid[u] = <<i, world.desc[i].gen>>
               /\ world.uidUnit[u] = IF HasUnit(world.kind[world.desc[i].chunk])
                                     THEN world.desc[i].chunk ELSE None
    <3> DEFINE f == <<i, world.desc[i].gen>>
    <3>1. world.uidEid[u] = f
      BY <2>1, <2>2 DEF Resolves
    <3>2. f # <<0, 0>>
      BY BoundsAssumption DEF ServerIndex
    <3>3. ChunkAt(world, f) = world.desc[i].chunk
      BY DEF ChunkAt
    <3> HIDE DEF f
    <3> QED BY <2>1, <3>1, <3>2, <3>3 DEF Resolves, Invalid, f
  <2>3. \A u \in Uid : world.uidEid[u] # Invalid
          => EntityExists(world, world.uidEid[u])
             /\ world.kind[ChunkAt(world, world.uidEid[u])].uid = u
    BY <2>1 DEF Resolves
  <2> QED BY <2>2, <2>3 DEF UidLookupExact
<1> QED BY <1>1, StoreInvariant, PTL

\* A unit that the destructor deletes has left the tables handlers erase from:
\* currentOwnedUnits and uid_unit_lookup never name a deleted unit
\* (UpdateMPlayerES.cpp.inl:36-49, BaseEntityES.cpp.inl:56-69).
THEOREM DeletedDropped == Spec => []DeletedUnitsDropped
<1>1. ASSUME IInv, StoreInv PROVE DeletedUnitsDropped
  <2>1. deleted \subseteq Chunk /\ None \notin deleted
    BY <1>1, SentinelAssumption DEF IInv, TypeOK
  <2>2. OwnedBy(world) /\ Resolves(world)
    BY <1>1 DEF StoreInv
  <2>3. ASSUME NEW c \in deleted PROVE ~LiveIn(world, c)
    <3>1. Left
      BY <1>1, <2>3 DEF StoreInv, Teardown
    <3> QED BY <2>1, <2>3, <3>1 DEF Left, LiveIn, Index
  <2>4. ASSUME NEW p \in Player PROVE world.owned[p] \cap deleted = {}
    BY <2>2, <2>3 DEF OwnedBy
  <2>5. ASSUME NEW u \in Uid PROVE world.uidUnit[u] \notin deleted
    <3> SUFFICES ASSUME world.uidUnit[u] \in deleted PROVE FALSE
      OBVIOUS
    <3>1. /\ world.uidEid[u] # Invalid /\ world.uidEid[u][1] \in ServerIndex
          /\ world.uidUnit[u] = ChunkAt(world, world.uidEid[u])
      BY <2>1, <2>2 DEF Resolves
    <3>2. LiveIn(world, world.uidUnit[u])
      BY <3>1 DEF LiveIn, ChunkAt
    <3> QED BY <2>3, <3>2
  <2> QED BY <2>4, <2>5 DEF DeletedUnitsDropped
<1> QED BY <1>1, InductiveInvariant, StoreInvariant, PTL

\* The destructor's loop is exact about what it has passed.
LEMMA SweptStep ==
  ASSUME IInv, StoreInv, Swept, [Next]_vars
  PROVE  Swept'
<1>1. tearIndex \in Int /\ nextIndex \in Int /\ \A i \in Index : i \in Int /\ i >= 1
  BY BoundsAssumption DEF IInv, TypeOK, Index, ServerIndex, Chunk
<1>2. CASE Stored /\ UNCHANGED tearIndex /\ phase' # "closed"
  BY <1>1, <1>2 DEF Swept
<1>3. CASE \E i \in Index : TearDown(i)
  <2>1. PICK i \in Index : TearDown(i)
    BY <1>3
  <2>2. /\ i = tearIndex /\ phase = "tearing" /\ phase' = "tearing"
        /\ \/ world' = world /\ tearIndex' = tearIndex
           \/ /\ tearIndex' = i + 1
              /\ world' = [TearEvent(i) EXCEPT !.eid[world.desc[i].chunk] = Invalid,
                                               !.desc[i] = FreedDesc(@)]
        /\ Occupied(i)
    BY <2>1 DEF TearDown, Visiting
  <2>3. ~Stored'
    BY <2>2 DEF Stored
  <2>4. CASE world' = world /\ tearIndex' = tearIndex
    BY <2>2, <2>3, <2>4 DEF Swept
  <2>5. CASE /\ tearIndex' = i + 1
             /\ world' = [TearEvent(i) EXCEPT !.eid[world.desc[i].chunk] = Invalid,
                                              !.desc[i] = FreedDesc(@)]
    <3> DEFINE w == TearEvent(i)
               c == world.desc[i].chunk
               e == <<i, world.desc[i].gen>>
    <3>1. world \in WorldType /\ c \in Chunk
      BY <2>2 DEF IInv, TypeOK, WorldType, Occupied
    <3>2. w \in WorldType /\ w.desc = world.desc
      <4>1. ChunkAt(world, e) \in Chunk
        BY <3>1 DEF ChunkAt
      <4> HIDE DEF e
      <4> QED BY <3>1, <4>1, InvalidIsEid, DestroyedBasicType DEF TearEvent, e
    <3> HIDE DEF w, c
    <3>3. world'.desc = [world.desc EXCEPT ![i] = FreedDesc(world.desc[i])]
      BY <2>5, <3>2 DEF WorldType, w
    <3>4. \A j \in Index : world'.desc[j].chunk =
                             IF j = i THEN None ELSE world.desc[j].chunk
      BY <3>1, <3>3 DEF WorldType, FreedDesc
    <3> QED BY <1>1, <2>2, <2>3, <2>5, <3>4 DEF Swept
  <2> QED BY <2>2, <2>4, <2>5
<1>4. CASE \E i \in Index : PassEmpty(i)
  BY <1>1, <1>4 DEF PassEmpty, Visiting, Occupied, Swept, Stored
<1>5. CASE TornDown
  BY <1>1, <1>5 DEF TornDown, Swept, Stored
<1>6. CASE UNCHANGED vars
  BY <1>6 DEF vars, Swept, Stored
<1>7. CASE Parse
  <2>1. Stored /\ UNCHANGED tearIndex /\ phase' # "closed"
    BY <1>7 DEF Parse, ParseCreate, ParseDestroy, ParseUpdate, ParseDestroyThrows,
                ParseOther, ParseEnd, PacketAt, Stored
  <2> QED BY <1>2, <2>1
<1>8. CASE BeginShutdown \/ \E t \in 0 .. EndOfTime : RewindTo(t)
  <2>1. Stored /\ UNCHANGED tearIndex /\ phase' # "closed"
    BY <1>8 DEF BeginShutdown, RewindTo, BeginSeek, Stored
  <2> QED BY <1>2, <2>1
<1>9. CASE Seek
  <2>1. UNCHANGED tearIndex /\ (phase' = phase \/ phase' = "tearing")
    BY <1>9 DEF Seek, StepBackward, StepForward, FinishSeek, StepThrows, SeekReturnThrows
  <2>2. mode # "idle"
    BY <1>9 DEF Seek, StepBackward, StepForward, FinishSeek, StepThrows, SeekReturnThrows
  <2>3. Stored
    BY <2>2 DEF StoreInv, AtTheEnd
  <2> QED BY <1>2, <2>1, <2>3 DEF Stored
<1> QED BY <1>3, <1>4, <1>5, <1>6, <1>7, <1>8, <1>9 DEF Next

LEMMA SweptInvariant == Spec => []Swept
<1>1. Init => Swept
  BY BoundsAssumption
     DEF Init, Swept, Stored, EmptyWorld, EmptyDesc, Index, ServerIndex, Chunk
<1>2. IInv /\ StoreInv /\ Swept /\ [Next]_vars => Swept'
  BY SweptStep
<1> QED BY <1>1, <1>2, InductiveInvariant, StoreInvariant, PTL DEF Spec

\* Closing the replay deletes the units of all entities ever created, and no
\* others (~EntityManager, on_unit_disappear_es).
THEOREM AllUnitsFreed == Spec => []UnitsAllFreed
<1>1. ASSUME IInv, StoreInv, Swept PROVE UnitsAllFreed
  <2> SUFFICES ASSUME phase = "closed"
               PROVE  deleted = {c \in (Reserved + 1) .. (nextIndex - 1) :
                                   HasUnit(world.kind[c])}
    BY DEF UnitsAllFreed
  <2>1. Left /\ \A i \in Index : world.desc[i].chunk = None
    <3>1. Left /\ tearIndex >= nextIndex
      BY <1>1 DEF StoreInv, Teardown, Stored, Swept
    <3>2. tearIndex \in Int /\ nextIndex \in Int /\ \A i \in Index : i \in Int
      BY <1>1, BoundsAssumption DEF IInv, TypeOK, Index, ServerIndex, Chunk
    <3> QED BY <1>1, <3>1, <3>2 DEF Left, Swept
  <2>2. \A c : c \in Born <=> c \in (Reserved + 1) .. (nextIndex - 1)
    <3>1. nextIndex \in (Reserved + 1) .. (Reserved + MaxActions + 1)
      BY <1>1 DEF IInv, TypeOK
    <3> QED BY <3>1, BoundsAssumption DEF Born, Chunk
  <2>3. \A c \in Born : c # None
    BY SentinelAssumption DEF Born
  <2>4. \A c : c \in deleted <=> c \in Born /\ HasUnit(world.kind[c])
    BY <2>1, <2>3 DEF Left
  <2> QED BY <2>2, <2>4
<1> QED BY <1>1, InductiveInvariant, StoreInvariant, SweptInvariant, PTL

-----------------------------------------------------------------------------
(* allOwnedUnits *)

\* Operators after which a world has the kinds and the lists of all units it had.
SameRoll(w, v) == v.kind = w.kind /\ v.allOwned = w.allOwned

LEMMA TablesRoll ==
  ASSUME NEW w \in WorldType
  PROVE  /\ \A u, unit, e : SameRoll(w, SetUnitData(w, u, unit, e))
         /\ \A c, e : SameRoll(w, SetCurrEid(w, c, e))
         /\ \A c : SameRoll(w, PlayerGains(w, c)) /\ SameRoll(w, PlayerLoses(w, c))
         /\ \A a, b : SameRoll(w, SwapDesc(w, a, b))
         /\ \A e, new : SameRoll(w, SetEidComponent(w, e, new))
         /\ \A e, v : SameRoll(w, SwapValue(w, e, v))
BY DEF SameRoll, WorldType, SetUnitData, SetCurrEid, PlayerGains, PlayerLoses, SwapDesc,
       SetEidComponent, SwapValue

LEMMA CreatedBasicRoll ==
  ASSUME NEW w \in WorldType, NEW e \in Eid, ChunkAt(w, e) \in Chunk
  PROVE  SameRoll(w, OnCreatedBasic(w, e))
<1> DEFINE c == ChunkAt(w, e)
           k == w.kind[c]
           s == SetUnitData(w, k.uid, IF HasUnit(k) THEN c ELSE None, e)
           a == UidAppears(w, e)
<1>1. s \in WorldType /\ SameRoll(w, s)
  BY KindType, SetUnitDataType, TablesRoll
<1>2. a = IF HasUid(k) /\ k.uid # Unset THEN SetCurrEid(s, c, e) ELSE w
  BY DEF UidAppears
<1> HIDE DEF s, k
<1>3. a \in WorldType /\ SameRoll(w, a)
  BY <1>1, <1>2, SetCurrEidType, TablesRoll DEF SameRoll
<1> HIDE DEF a
<1>4. SameRoll(a, PlayerGains(a, c))
  BY <1>3, TablesRoll
<1> QED BY <1>3, <1>4 DEF SameRoll, OnCreatedBasic, a

LEMMA DestroyedBasicRoll ==
  ASSUME NEW w \in WorldType, NEW e, NEW new \in Eid, ChunkAt(w, e) \in Chunk
  PROVE  SameRoll(w, OnDestroyedBasic(w, e, new))
<1> DEFINE c == ChunkAt(w, e)
           k == w.kind[c]
           s == SetUnitData(w, k.uid, None, Invalid)
           a == UidVanishes(w, e, new)
<1>1. s \in WorldType /\ SameRoll(w, s)
  BY KindType, SetUnitDataType, InvalidIsEid, TablesRoll
<1>2. a = IF HasUid(k) THEN SetCurrEid(s, c, new) ELSE w
  BY DEF UidVanishes
<1> HIDE DEF s, k
<1>3. a \in WorldType /\ SameRoll(w, a)
  BY <1>1, <1>2, SetCurrEidType, TablesRoll DEF SameRoll
<1> HIDE DEF a
<1>4. SameRoll(a, PlayerLoses(a, c))
  BY <1>3, TablesRoll
<1> QED BY <1>3, <1>4 DEF SameRoll, OnDestroyedBasic, a

LEMMA AppearRoll ==
  ASSUME NEW w \in WorldType, NEW c \in Chunk, NEW e \in ServerEid,
         AppearFault(w, Storage(c), e) # "entity"
  PROVE  SameRoll(w, Appear(w, Storage(c), e))
<1> DEFINE s == SwapDesc(w, Storage(c), e)
           t == SetEidComponent(s, e, e)
<1>1. s \in WorldType /\ SameRoll(w, s)
  BY StorageIsEid, ServerIsEid, SwapDescType, TablesRoll
<1>2. ChunkAt(s, e) \in Chunk
  BY <1>1, ServerIsEid, ChunkIsTyped DEF AppearFault, EntityExists
<1> HIDE DEF s
<1>3. t \in WorldType /\ t.desc = s.desc /\ SameRoll(s, t)
  BY <1>1, <1>2, ServerIsEid, SetEidType, TablesRoll
<1>4. ChunkAt(t, e) \in Chunk
  BY <1>2, <1>3 DEF ChunkAt
<1> HIDE DEF t
<1>5. SameRoll(t, OnCreatedBasic(t, e))
  BY <1>3, <1>4, ServerIsEid, CreatedBasicRoll
<1> QED BY <1>1, <1>3, <1>5 DEF SameRoll, Appear, s, t

LEMMA VanishRoll ==
  ASSUME NEW w \in WorldType, NEW c \in Chunk, NEW e \in ServerEid,
         ChunkAt(w, e) \in Chunk
  PROVE  SameRoll(w, Vanish(w, Storage(c), e))
<1> DEFINE t == SetEidComponent(w, e, Storage(c))
           d == OnDestroyedBasic(t, e, Storage(c))
<1>1. t \in WorldType /\ t.desc = w.desc /\ SameRoll(w, t)
  BY StorageIsEid, SetEidType, TablesRoll
<1>2. ChunkAt(t, e) \in Chunk
  BY <1>1 DEF ChunkAt
<1> HIDE DEF t
<1>3. d \in WorldType /\ SameRoll(t, d)
  BY <1>1, <1>2, StorageIsEid, DestroyedBasicType, DestroyedBasicRoll
<1> HIDE DEF d
<1>4. SameRoll(d, SwapDesc(d, Storage(c), e))
  BY <1>3, TablesRoll
<1> QED BY <1>1, <1>3, <1>4 DEF SameRoll, Vanish, t, d

LEMMA StepRoll ==
  ASSUME NEW w \in WorldType, NEW a \in ActionType,
         a.op # "update" => \E c \in Chunk : a.before = Storage(c)
  PROVE  /\ UndoFault(w, a) = "none" => SameRoll(w, Undone(w, a))
         /\ RedoFault(w, a) = "none" => SameRoll(w, Redone(w, a))
<1>0. a.after \in ServerEid /\ a.op \in {"create", "destroy", "update"}
  BY DEF ActionType
<1>1. CASE a.op = "update"
  BY <1>1, TablesRoll DEF Undone, Redone
<1>2. CASE a.op # "update"
  <2>1. PICK c \in Chunk : a.before = Storage(c)
    BY <1>2
  <2>2. AppearFault(w, a.before, a.after) = "none" => SameRoll(w, Appear(w, a.before, a.after))
    BY <1>0, <2>1, AppearRoll
  <2>3. VanishFault(w, a.after) = "none" => SameRoll(w, Vanish(w, a.before, a.after))
    BY <1>0, <2>1, VanishFaultResolves, VanishRoll
  <2> QED BY <1>0, <1>2, <2>2, <2>3 DEF UndoFault, RedoFault, Undone, Redone
<1> QED BY <1>1, <1>2
\* A sequence of numbers that grows by one beyond all of them.
LEMMA AppendedRoll ==
  ASSUME NEW all \in Seq(Chunk), NEW c \in Chunk,
         \A i, j \in 1 .. Len(all) : i < j => all[i] < all[j],
         \A i \in 1 .. Len(all) : all[i] < c
  PROVE  LET longer == Append(all, c)
         IN  /\ \A i, j \in 1 .. Len(longer) : i < j => longer[i] < longer[j]
             /\ {longer[i] : i \in 1 .. Len(longer)} = {all[i] : i \in 1 .. Len(all)} \cup {c}
<1> DEFINE longer == Append(all, c)
           n == Len(all)
<1>1. /\ n \in Nat /\ Len(longer) = n + 1
      /\ \A i \in 1 .. n : longer[i] = all[i]
      /\ longer[n + 1] = c
      /\ \A i \in 1 .. (n + 1) : i \in 1 .. n \/ i = n + 1
  OBVIOUS
<1> HIDE DEF longer
<1>2. ASSUME NEW i \in 1 .. (n + 1), NEW j \in 1 .. (n + 1), i < j
      PROVE  longer[i] < longer[j]
  <2>1. i \in 1 .. n
    BY <1>1, <1>2
  <2> QED BY <1>1, <1>2, <2>1
<1>3. n + 1 \in 1 .. (n + 1) /\ \A i \in 1 .. n : i \in 1 .. (n + 1)
  BY <1>1
<1>4. ASSUME NEW d
      PROVE  (\E i \in 1 .. (n + 1) : d = longer[i]) <=> (\E i \in 1 .. n : d = all[i]) \/ d = c
  BY <1>1, <1>3
<1>5. {longer[i] : i \in 1 .. Len(longer)} = {all[i] : i \in 1 .. n} \cup {c}
  BY <1>1, <1>4
<1> QED BY <1>1, <1>2, <1>5 DEF longer

LEMMA ParseCreateRoll ==
  ASSUME IInv, AllOwnedExact, NEW t \in 0 .. MaxTime, NEW e \in ServerEid, NEW k \in Kind,
         NEW v \in Value, ParseCreate(t, e, k, v)
  PROVE  AllOwnedExact'
<1> DEFINE c == nextIndex
           w == [world EXCEPT !.desc[e[1]] = [chunk |-> c, gen |-> e[2]],
                              !.kind[c] = k, !.eid[c] = e, !.value[c] = v]
           o == OnCreated(w, e)
<1>1. /\ world' = OnCreatedBasic(o, e)
      /\ nextIndex' = nextIndex + 1
      /\ HistoryHasRoom
  BY DEF ParseCreate, Created
<1>2. world \in WorldType
  BY DEF IInv, TypeOK
<1>3. c \in Chunk /\ c >= Reserved + 1 /\ c \in Int
  <2>1. Len(history) < MaxActions /\ nextIndex <= Reserved + 1 + Len(history)
    BY <1>1 DEF IInv, RoomLeft, HistoryHasRoom
  <2>2. nextIndex \in (Reserved + 1) .. (Reserved + MaxActions + 1)
    BY DEF IInv, TypeOK
  <2> QED BY <2>1, <2>2, BoundsAssumption, CountersAreIntegers DEF IInv, Chunk
<1>4. e \in Eid /\ e[1] \in Index /\ e[2] \in Nat
  BY ServerIsEid, GenerationAssumption
<1>5. /\ w \in WorldType /\ ChunkAt(w, e) = c
      /\ w.allOwned = world.allOwned /\ w.kind = [world.kind EXCEPT ![c] = k]
  BY <1>2, <1>3, <1>4 DEF WorldType, ChunkAt
<1> HIDE DEF w
<1>6. /\ o \in WorldType /\ ChunkAt(o, e) = c /\ o.kind = w.kind
      /\ o.allOwned = IF Owns(k)
                      THEN [world.allOwned EXCEPT ![k.pid] = Append(@, c)]
                      ELSE world.allOwned
  <2>1. o \in WorldType /\ o.desc = w.desc /\ o.kind = w.kind
    BY <1>3, <1>5, CreatedType, CreatedFacts
  <2>2. w.kind[c] = k
    BY <1>2, <1>3, <1>5 DEF WorldType
  <2>3. o.allOwned = IF Owns(k)
                     THEN [world.allOwned EXCEPT ![k.pid] = Append(@, c)]
                     ELSE world.allOwned
    BY <1>5, <2>2 DEF OnCreated, WorldType
  <2> QED BY <1>5, <2>1, <2>3 DEF ChunkAt
<1> HIDE DEF o
<1>7. world'.kind = [world.kind EXCEPT ![c] = k] /\ world'.allOwned = o.allOwned
  BY <1>1, <1>3, <1>4, <1>5, <1>6, CreatedBasicRoll DEF SameRoll
<1>8. /\ \A d \in Chunk : world'.kind[d] = IF d = c THEN k ELSE world.kind[d]
      /\ \A p \in Player : world'.allOwned[p] = IF Owns(k) /\ k.pid = p
                                                THEN Append(world.allOwned[p], c)
                                                ELSE world.allOwned[p]
  BY <1>2, <1>3, <1>6, <1>7 DEF WorldType
<1> SUFFICES ASSUME NEW p \in Player
             PROVE  LET all == world'.allOwned[p]
                    IN  /\ \A i, j \in 1 .. Len(all) : i < j => all[i] < all[j]
                        /\ {all[i] : i \in 1 .. Len(all)} =
                             {d \in (Reserved + 1) .. (nextIndex' - 1) :
                                Owns(world'.kind[d]) /\ world'.kind[d].pid = p}
  BY DEF AllOwnedExact
<1> DEFINE all == world.allOwned[p]
           mine == {d \in (Reserved + 1) .. (c - 1) :
                      Owns(world.kind[d]) /\ world.kind[d].pid = p}
<1>9. /\ all \in Seq(Chunk)
      /\ \A i, j \in 1 .. Len(all) : i < j => all[i] < all[j]
      /\ {all[i] : i \in 1 .. Len(all)} = mine
  BY <1>2 DEF AllOwnedExact, WorldType
<1>10. {d \in (Reserved + 1) .. (nextIndex' - 1) :
          Owns(world'.kind[d]) /\ world'.kind[d].pid = p}
         = IF Owns(k) /\ k.pid = p THEN mine \cup {c} ELSE mine
  <2>1. \A d : d \in (Reserved + 1) .. (nextIndex' - 1)
                 <=> d \in (Reserved + 1) .. (c - 1) \/ d = c
    BY <1>1, <1>3, BoundsAssumption
  <2>2. \A d \in (Reserved + 1) .. (c - 1) : d \in Chunk /\ d # c
    BY <1>3, BoundsAssumption DEF Chunk
  <2> QED BY <1>3, <1>8, <2>1, <2>2
<1>11. \A i \in 1 .. Len(all) : all[i] < c
  <2>1. \A i \in 1 .. Len(all) : all[i] \in mine
    BY <1>9
  <2>2. \A d \in mine : d < c
    BY <1>3, BoundsAssumption
  <2> QED BY <2>1, <2>2
<1> HIDE DEF mine, all
<1>12. CASE Owns(k) /\ k.pid = p
  <2>1. world'.allOwned[p] = Append(all, c)
    BY <1>8, <1>12 DEF all
  <2> QED BY <1>3, <1>9, <1>10, <1>11, <1>12, <2>1, AppendedRoll
<1>13. CASE ~(Owns(k) /\ k.pid = p)
  <2>1. world'.allOwned[p] = all
    BY <1>8, <1>13 DEF all
  <2> QED BY <1>9, <1>10, <1>13, <2>1
<1> QED BY <1>12, <1>13

\* Every other step keeps the lists, the kinds and the number of indices.
LEMMA RollKept ==
  ASSUME IInv, AllOwnedExact, SameRoll(world, world'), UNCHANGED nextIndex
  PROVE  AllOwnedExact'
BY DEF AllOwnedExact, SameRoll

LEMMA ParseDestroyRoll ==
  ASSUME IInv, NEW t \in 0 .. MaxTime, NEW e \in ServerEid, ParseDestroy(t, e)
  PROVE  SameRoll(world, world') /\ UNCHANGED nextIndex
<1>1. /\ phase = "parsing" /\ EntityExists(world, e)
      /\ world' = Vanish(world, StorageOf(e), e)
      /\ UNCHANGED nextIndex
  BY DEF ParseDestroy, PacketAt
<1>2. world \in WorldType
  BY DEF IInv, TypeOK
<1>3. ChunkAt(world, e) \in Chunk
  BY <1>1, <1>2, ServerIsEid, ChunkIsTyped DEF EntityExists
<1>4. StorageOf(e) = Storage(ChunkAt(world, e))
  <2>1. e[1] \in ServerIndex /\ e = <<e[1], e[2]>>
    BY ServerIsEid
  <2>2. OwnsStorage(e[1])
    BY <1>1, <2>1 DEF IInv, ParseInv, Ownership
  <2>3. creationOf[e] # 0 /\ history[creationOf[e]].before = Storage(ChunkAt(world, e))
    BY <1>1, <2>1, <2>2 DEF OwnsStorage, EntityExists, ChunkAt
  <2> QED BY <2>3 DEF StorageOf
<1> QED BY <1>1, <1>2, <1>3, <1>4, VanishRoll

LEMMA TearDownRoll ==
  ASSUME IInv, NEW i \in Index, TearDown(i)
  PROVE  SameRoll(world, world') /\ UNCHANGED nextIndex
<1> DEFINE c == world.desc[i].chunk
           e == <<i, world.desc[i].gen>>
           w == TearEvent(i)
<1>1. /\ UNCHANGED nextIndex /\ Occupied(i)
      /\ \/ world' = world
         \/ world' = [w EXCEPT !.eid[c] = Invalid, !.desc[i] = FreedDesc(@)]
  BY DEF TearDown, Visiting
<1>2. world \in WorldType
  BY DEF IInv, TypeOK
<1>3. c \in Chunk
  BY <1>1, <1>2 DEF Occupied, WorldType
<1>4. w \in WorldType /\ SameRoll(world, w)
  <2>1. ChunkAt(world, e) \in Chunk
    BY <1>3 DEF ChunkAt
  <2> HIDE DEF e
  <2>2. /\ OnDestroyedBasic(world, e, Invalid) \in WorldType
        /\ SameRoll(world, OnDestroyedBasic(world, e, Invalid))
    BY <1>2, <2>1, InvalidIsEid, DestroyedBasicType, DestroyedBasicRoll
  <2> QED BY <1>2, <2>2 DEF TearEvent, SameRoll, e
<1> HIDE DEF w, c
<1>5. CASE world' = world
  BY <1>1, <1>5 DEF SameRoll
<1>6. CASE world' = [w EXCEPT !.eid[c] = Invalid, !.desc[i] = FreedDesc(@)]
  <2>1. SameRoll(w, world')
    BY <1>4, <1>6 DEF SameRoll, WorldType
  <2> QED BY <1>1, <1>4, <2>1 DEF SameRoll
<1> QED BY <1>1, <1>5, <1>6

LEMMA SeekRoll ==
  ASSUME IInv, Seek
  PROVE  SameRoll(world, world') /\ UNCHANGED nextIndex
<1>1. world \in WorldType /\ currIndex \in 0 .. Len(history) /\ Len(history) \in Nat
      /\ history \in Seq(ActionType)
  BY DEF IInv, TypeOK
<1>2. CASE StepBackward
  <2> DEFINE a == history[currIndex]
  <2>1. /\ currIndex > 0 /\ UndoFault(world, a) = "none"
        /\ world' = Undone(world, a) /\ UNCHANGED nextIndex
    BY <1>2 DEF StepBackward, MustUndo
  <2>2. a \in ActionType /\ (a.op # "update" => \E c \in Chunk : a.before = Storage(c))
    BY <1>1, <2>1 DEF IInv, StorageNamed
  <2> HIDE DEF a
  <2> QED BY <1>1, <2>1, <2>2, StepRoll
<1>3. CASE StepForward
  <2> DEFINE a == history[currIndex + 1]
  <2>1. /\ currIndex < Len(history) /\ RedoFault(world, a) = "none"
        /\ world' = Redone(world, a) /\ UNCHANGED nextIndex
    BY <1>3 DEF StepForward, MustRedo
  <2>2. a \in ActionType /\ (a.op # "update" => \E c \in Chunk : a.before = Storage(c))
    BY <1>1, <2>1 DEF IInv, StorageNamed
  <2> HIDE DEF a
  <2> QED BY <1>1, <2>1, <2>2, StepRoll
<1>4. CASE FinishSeek \/ StepThrows \/ SeekReturnThrows
  BY <1>4 DEF FinishSeek, StepThrows, SeekReturnThrows, SameRoll
<1> QED BY <1>2, <1>3, <1>4 DEF Seek

\* MPlayer::allOwnedUnits lists each unit a player owned in the whole replay once, in
\* the order of creation, whatever rewinds happen (UpdateMPlayerES.cpp.inl:9-20).
THEOREM AllOwnedCorrect == Spec => []AllOwnedExact
<1>1. ASSUME Init PROVE AllOwnedExact
  <2>1. \A p \in Player : world.allOwned[p] = << >>
    BY <1>1 DEF Init, EmptyWorld
  <2>2. nextIndex = Reserved + 1 /\ (Reserved + 1) .. (nextIndex - 1) = {}
    BY <1>1, BoundsAssumption DEF Init
  <2> QED BY <2>1, <2>2 DEF AllOwnedExact
<1>2. ASSUME IInv, AllOwnedExact, [Next]_vars PROVE AllOwnedExact'
  <2>1. CASE Parse
    <3>1. PICK t \in 0 .. MaxTime :
            \/ \E e \in ServerEid :
                 \/ \E k \in Kind, v \in Value : ParseCreate(t, e, k, v)
                 \/ ParseDestroy(t, e)
                 \/ \E v \in Value : ParseUpdate(t, e, v)
                 \/ ParseDestroyThrows(t, e)
            \/ ParseOther(t) \/ ParseEnd(t)
      BY <2>1 DEF Parse
    <3>2. CASE \E e \in ServerEid, k \in Kind, v \in Value : ParseCreate(t, e, k, v)
      BY <1>2, <3>2, ParseCreateRoll
    <3>3. CASE \E e \in ServerEid : ParseDestroy(t, e)
      BY <1>2, <3>3, ParseDestroyRoll, RollKept
    <3>4. CASE \E e \in ServerEid, v \in Value : ParseUpdate(t, e, v)
      <4>1. world \in WorldType
        BY <1>2 DEF IInv, TypeOK
      <4>2. SameRoll(world, world') /\ UNCHANGED nextIndex
        BY <3>4, <4>1, TablesRoll DEF ParseUpdate
      <4> QED BY <1>2, <4>2, RollKept
    <3>5. CASE \/ \E e \in ServerEid : ParseDestroyThrows(t, e)
               \/ ParseOther(t) \/ ParseEnd(t)
      BY <1>2, <3>5, RollKept DEF ParseDestroyThrows, ParseOther, ParseEnd, SameRoll
    <3> QED BY <3>1, <3>2, <3>3, <3>4, <3>5
  <2>2. CASE Seek
    BY <1>2, <2>2, SeekRoll, RollKept
  <2>3. CASE \E i \in Index : TearDown(i)
    BY <1>2, <2>3, TearDownRoll, RollKept
  <2>4. CASE \/ \E t \in 0 .. EndOfTime : RewindTo(t)
             \/ BeginShutdown \/ TornDown \/ UNCHANGED vars
             \/ \E i \in Index : PassEmpty(i)
    BY <1>2, <2>4, RollKept DEF RewindTo, BeginSeek, BeginShutdown, TornDown, PassEmpty,
                                Visiting, vars, SameRoll
  <2> QED BY <1>2, <2>1, <2>2, <2>3, <2>4 DEF Next
<1> QED BY <1>1, <1>2, InductiveInvariant, PTL DEF Spec
=============================================================================
