------------------------ MODULE EcsRewindHistoryProofs ------------------------
(***************************************************************************)
(* EcsRewind implements Timeline: the state shown after any sequence of    *)
(* seeks is the state that was shown when the same actions were parsed,    *)
(* and every step of the store is a step of the timeline or none.          *)
(***************************************************************************)
EXTENDS EcsRewindHistory, EcsRewindProofs

-----------------------------------------------------------------------------
(* What is shown, as a function of the actions applied *)

\* Units whose handle the uid handlers keep in curr_eid.
Titled(k) == HasUnit(k) /\ k.uid # Unset

Any(S) == CHOOSE c \in S : TRUE

\* The chunk at server index i, and the one that carries uid u.
Seated(alive, home, i) == {c \in alive : home[c][1] = i}

Bearers(alive, kind, u) == {c \in alive : HasUid(kind[c]) /\ kind[c].uid = u}

Seat(c, home, kind, val) ==
  [gen |-> home[c][2], kind |-> kind[c], eid |-> home[c], value |-> val[c],
   currEid |-> IF Titled(kind[c]) THEN home[c] ELSE Invalid, chunk |-> c]

\* The view of a store in which the chunks `alive` are at home.
ViewOf(alive, home, kind, val) ==
  [entity  |-> [i \in ServerIndex |->
                  IF Seated(alive, home, i) = {} THEN None
                  ELSE Seat(Any(Seated(alive, home, i)), home, kind, val)],
   uidEid  |-> [u \in Uid |->
                  IF Bearers(alive, kind, u) = {} THEN Invalid
                  ELSE home[Any(Bearers(alive, kind, u))]],
   uidUnit |-> [u \in Uid |->
                  IF Bearers(alive, kind, u) = {} THEN None
                  ELSE IF HasUnit(kind[Any(Bearers(alive, kind, u))])
                  THEN Any(Bearers(alive, kind, u)) ELSE None],
   owned   |-> [p \in Player |-> {c \in alive : Owns(kind[c]) /\ kind[c].pid = p}]]

\* curr_eid of a living unit with a uid is its handle; nothing else has one.
Named(w, born, alive, home) ==
  /\ \A c \in alive : Titled(w.kind[c]) => w.currEid[c] = home[c]
  /\ \A c \in Chunk : c \notin born \/ ~Titled(w.kind[c]) => w.currEid[c] = Invalid

LEMMA OneOf ==
  ASSUME NEW c
  PROVE  Any({c}) = c
BY DEF Any

\* The view depends on nothing but the living chunks.
LEMMA SameView ==
  ASSUME NEW alive, NEW home, NEW kind, NEW val, NEW home2, NEW kind2, NEW val2,
         \A c \in alive : home2[c] = home[c] /\ kind2[c] = kind[c] /\ val2[c] = val[c]
  PROVE  ViewOf(alive, home2, kind2, val2) = ViewOf(alive, home, kind, val)
<1>1. ASSUME NEW i PROVE Seated(alive, home2, i) = Seated(alive, home, i)
  BY DEF Seated
<1>2. ASSUME NEW u PROVE Bearers(alive, kind2, u) = Bearers(alive, kind, u)
  BY DEF Bearers
<1>3. ASSUME NEW S \in SUBSET alive, S # {} PROVE Any(S) \in alive
  BY <1>3 DEF Any
<1>4. ASSUME NEW i \in ServerIndex, Seated(alive, home, i) # {}
      PROVE  Seat(Any(Seated(alive, home, i)), home2, kind2, val2)
               = Seat(Any(Seated(alive, home, i)), home, kind, val)
  <2> DEFINE c == Any(Seated(alive, home, i))
  <2>1. c \in alive
    <3>1. Seated(alive, home, i) \in SUBSET alive
      BY DEF Seated
    <3> QED BY <1>3, <1>4, <3>1
  <2> HIDE DEF c
  <2>2. Seat(c, home2, kind2, val2) = Seat(c, home, kind, val)
    BY <2>1 DEF Seat
  <2> QED BY <2>2 DEF c
<1>5. ASSUME NEW u \in Uid, Bearers(alive, kind, u) # {}
      PROVE  /\ home2[Any(Bearers(alive, kind, u))] = home[Any(Bearers(alive, kind, u))]
             /\ kind2[Any(Bearers(alive, kind, u))] = kind[Any(Bearers(alive, kind, u))]
  <2>1. Bearers(alive, kind, u) \in SUBSET alive
    BY DEF Bearers
  <2> QED BY <1>3, <1>5, <2>1
<1>6. ASSUME NEW p \in Player
      PROVE  {c \in alive : Owns(kind2[c]) /\ kind2[c].pid = p}
               = {c \in alive : Owns(kind[c]) /\ kind[c].pid = p}
  OBVIOUS
<1>7. ViewOf(alive, home2, kind2, val2).entity = ViewOf(alive, home, kind, val).entity
  BY <1>1, <1>4 DEF ViewOf
<1>8. ViewOf(alive, home2, kind2, val2).uidEid = ViewOf(alive, home, kind, val).uidEid
  BY <1>2, <1>5 DEF ViewOf
<1>9. ViewOf(alive, home2, kind2, val2).uidUnit = ViewOf(alive, home, kind, val).uidUnit
  BY <1>2, <1>5 DEF ViewOf
<1>10. ViewOf(alive, home2, kind2, val2).owned = ViewOf(alive, home, kind, val).owned
  BY <1>6 DEF ViewOf
<1> QED BY <1>7, <1>8, <1>9, <1>10 DEF ViewOf

\* The view of a store whose chunks are placed is that of the chunks living in it.
LEMMA ViewIs ==
  ASSUME NEW w \in WorldType, NEW born \in SUBSET Chunk, NEW alive \in SUBSET born,
         NEW home, PlacedIn(w, born, alive, home), Homed(born, alive, home),
         OwnedBy(w), Resolves(w), Named(w, born, alive, home)
  PROVE  LiveView(w) = ViewOf(alive, home, w.kind, w.value)
<1> DEFINE L == LiveView(w)
           V == ViewOf(alive, home, w.kind, w.value)
<1>1. \A c \in Chunk : /\ \A j \in ServerIndex :
                            w.desc[j].chunk = c <=> c \in alive /\ j = home[c][1]
                       /\ LiveIn(w, c) <=> c \in alive
  BY LiveAtHome
<1>2. \A i \in ServerIndex : w.desc[i].chunk # None => w.desc[i].chunk \in Chunk
  BY DEF WorldType, Index
<1>3. None \notin Chunk
  BY SentinelAssumption
<1>4. \A c \in alive : home[c] \in ServerEid /\ home[c] = <<home[c][1], home[c][2]>>
  BY ServerIsEid DEF Homed
<1>5. \A c \in alive : home[c][1] \in ServerIndex
  BY ServerIsEid, <1>4
<1>6. L.entity = V.entity
  <2>1. ASSUME NEW i \in ServerIndex
        PROVE  (IF w.desc[i].chunk = None THEN None ELSE EntityView(w, i))
                 = (IF Seated(alive, home, i) = {} THEN None
                    ELSE Seat(Any(Seated(alive, home, i)), home, w.kind, w.value))
    <3>1. CASE w.desc[i].chunk = None
      <4>1. Seated(alive, home, i) = {}
        BY <1>1, <1>3, <3>1 DEF Seated
      <4> QED BY <3>1, <4>1
    <3>2. CASE w.desc[i].chunk # None
      <4> DEFINE c == w.desc[i].chunk
      <4>1. c \in Chunk /\ c \in alive /\ home[c][1] = i
        BY <1>1, <1>2, <3>2
      <4>2. Seated(alive, home, i) = {c}
        <5>1. ASSUME NEW d \in alive, home[d][1] = i PROVE d = c
          BY <1>1, <5>1
        <5> QED BY <4>1, <5>1 DEF Seated
      <4>3. Any(Seated(alive, home, i)) = c
        BY <4>2, OneOf
      <4>4. w.desc[i] = [chunk |-> c, gen |-> home[c][2]] /\ w.eid[c] = home[c]
        BY <4>1 DEF PlacedIn, AtServer
      <4>5. w.currEid[c] = IF Titled(w.kind[c]) THEN home[c] ELSE Invalid
        BY <4>1 DEF Named
      <4>6. EntityView(w, i) = Seat(c, home, w.kind, w.value)
        BY <4>4, <4>5 DEF EntityView, Seat
      <4>7. Seated(alive, home, i) # {}
        BY <4>2
      <4> QED BY <3>2, <4>3, <4>6, <4>7
    <3> QED BY <3>1, <3>2
  <2> QED BY <2>1 DEF LiveView, ViewOf
<1>7. ASSUME NEW u \in Uid
      PROVE  /\ w.uidEid[u] = IF Bearers(alive, w.kind, u) = {} THEN Invalid
                              ELSE home[Any(Bearers(alive, w.kind, u))]
             /\ w.uidUnit[u] = IF Bearers(alive, w.kind, u) = {} THEN None
                               ELSE IF HasUnit(w.kind[Any(Bearers(alive, w.kind, u))])
                               THEN Any(Bearers(alive, w.kind, u)) ELSE None
  <2>1. ASSUME NEW d \in Bearers(alive, w.kind, u)
        PROVE  w.uidEid[u] = home[d] /\ w.uidEid[u] # Invalid /\ ChunkAt(w, w.uidEid[u]) = d
    <3>1. d \in alive /\ d \in Chunk /\ HasUid(w.kind[d]) /\ w.kind[d].uid = u
      BY DEF Bearers
    <3>2. /\ home[d][1] \in ServerIndex /\ w.desc[home[d][1]] = [chunk |-> d, gen |-> home[d][2]]
          /\ home[d] = <<home[d][1], home[d][2]>>
      BY <1>4, <1>5, <3>1 DEF PlacedIn, AtServer
    <3>3. w.uidEid[u] = home[d]
      BY <1>3, <3>1, <3>2 DEF Resolves
    <3>4. home[d] # <<0, 0>>
      BY <3>2, BoundsAssumption DEF ServerIndex
    <3> QED BY <3>2, <3>3, <3>4 DEF ChunkAt, Invalid
  <2>2. CASE Bearers(alive, w.kind, u) = {}
    <3>1. w.uidEid[u] = Invalid
      <4> SUFFICES ASSUME w.uidEid[u] # Invalid PROVE FALSE
        OBVIOUS
      <4> DEFINE c == ChunkAt(w, w.uidEid[u])
      <4>1. /\ w.uidEid[u][1] \in ServerIndex /\ c # None
            /\ HasUid(w.kind[c]) /\ w.kind[c].uid = u
        BY DEF Resolves, EntityExists
      <4>2. c \in alive
        BY <1>1, <1>2, <4>1 DEF ChunkAt
      <4> HIDE DEF c
      <4> QED BY <2>2, <4>1, <4>2 DEF Bearers
    <3> QED BY <2>2, <3>1 DEF Resolves
  <2>3. CASE Bearers(alive, w.kind, u) # {}
    <3>1. PICK d : d \in Bearers(alive, w.kind, u)
      BY <2>3
    <3>2. \A b \in Bearers(alive, w.kind, u) : b = d
      BY <2>1, <3>1
    <3>3. Bearers(alive, w.kind, u) = {d}
      BY <3>1, <3>2
    <3>4. Any(Bearers(alive, w.kind, u)) = d
      BY <3>3, OneOf
    <3>5. w.uidUnit[u] = IF HasUnit(w.kind[d]) THEN d ELSE None
      BY <2>1, <3>1 DEF Resolves
    <3> QED BY <2>1, <2>3, <3>1, <3>4, <3>5
  <2> QED BY <2>2, <2>3
<1>8. ASSUME NEW p \in Player
      PROVE  w.owned[p] = {c \in alive : Owns(w.kind[c]) /\ w.kind[c].pid = p}
  BY <1>1 DEF OwnedBy
<1>9. w.uidEid \in [Uid -> Eid] /\ w.uidUnit \in [Uid -> Chunk \cup {None}]
      /\ w.owned \in [Player -> SUBSET Chunk]
  BY DEF WorldType
<1>10. L.uidEid = V.uidEid
  BY <1>7, <1>9 DEF LiveView, ViewOf
<1>11. L.uidUnit = V.uidUnit
  BY <1>7, <1>9 DEF LiveView, ViewOf
<1>12. L.owned = V.owned
  BY <1>8, <1>9 DEF LiveView, ViewOf
<1> QED BY <1>6, <1>10, <1>11, <1>12 DEF LiveView, ViewOf

-----------------------------------------------------------------------------
(* What moving an entity does to its values and to curr_eid *)

LEMMA SetUnitDataKeeps ==
  ASSUME NEW w \in WorldType, NEW u, NEW unit, NEW e
  PROVE  /\ SetUnitData(w, u, unit, e).value = w.value
         /\ SetUnitData(w, u, unit, e).currEid = w.currEid
         /\ SetUnitData(w, u, unit, e).kind = w.kind
BY DEF SetUnitData, WorldType

LEMMA PlayerKeeps ==
  ASSUME NEW w \in WorldType, NEW c
  PROVE  /\ PlayerGains(w, c).value = w.value /\ PlayerGains(w, c).currEid = w.currEid
         /\ PlayerLoses(w, c).value = w.value /\ PlayerLoses(w, c).currEid = w.currEid
BY DEF PlayerGains, PlayerLoses, WorldType

LEMMA SetCurrEidKeeps ==
  ASSUME NEW w \in WorldType, NEW c, NEW e
  PROVE  /\ SetCurrEid(w, c, e).value = w.value
         /\ SetCurrEid(w, c, e).currEid =
              IF HasUnit(w.kind[c]) THEN [w.currEid EXCEPT ![c] = e] ELSE w.currEid
BY DEF SetCurrEid, WorldType

LEMMA UnitHasUid ==
  ASSUME NEW k, HasUnit(k)
  PROVE  HasUid(k)
BY DEF HasUnit, HasUid

LEMMA CreatedBasicKeeps ==
  ASSUME NEW w \in WorldType, NEW e \in Eid, ChunkAt(w, e) \in Chunk
  PROVE  LET v == OnCreatedBasic(w, e)
             c == ChunkAt(w, e)
         IN  /\ v.value = w.value
             /\ v.currEid = IF Titled(w.kind[c]) THEN [w.currEid EXCEPT ![c] = e]
                            ELSE w.currEid
<1> DEFINE c == ChunkAt(w, e)
           k == w.kind[c]
           unit == IF HasUnit(k) THEN c ELSE None
           s == SetUnitData(w, k.uid, unit, e)
           a == UidAppears(w, e)
<1>1. s \in WorldType /\ s.kind = w.kind
  <2>1. k.uid \in Uid \cup {Unset} /\ unit \in Chunk \cup {None}
    BY KindType
  <2> HIDE DEF k, c, unit
  <2>2. s \in WorldType
    BY <2>1, SetUnitDataType
  <2>3. s.kind = w.kind
    BY SetUnitDataKeeps
  <2> QED BY <2>2, <2>3
<1>2. s.value = w.value /\ s.currEid = w.currEid
  <2> HIDE DEF k, c, unit
  <2> QED BY SetUnitDataKeeps
<1>3. a = IF HasUid(k) /\ k.uid # Unset THEN SetCurrEid(s, c, e) ELSE w
  BY DEF UidAppears
<1>4. OnCreatedBasic(w, e) = PlayerGains(a, c)
  BY DEF OnCreatedBasic
<1> HIDE DEF c, k, s, a, unit
<1>5. a \in WorldType /\ c \in Chunk
  BY <1>1, <1>3, SetCurrEidType DEF c
<1>6. /\ a.value = w.value
      /\ a.currEid = IF Titled(k) THEN [w.currEid EXCEPT ![c] = e] ELSE w.currEid
  <2>1. s.kind[c] = k
    BY <1>1 DEF k
  <2>2. CASE HasUid(k) /\ k.uid # Unset
    <3>1. HasUnit(k) <=> Titled(k)
      BY <2>2 DEF Titled
    <3>2. SetCurrEid(s, c, e).value = s.value
          /\ SetCurrEid(s, c, e).currEid = IF HasUnit(k) THEN [s.currEid EXCEPT ![c] = e]
                                           ELSE s.currEid
      BY <1>1, <2>1, SetCurrEidKeeps
    <3> QED BY <1>2, <1>3, <2>2, <3>1, <3>2
  <2>3. CASE ~(HasUid(k) /\ k.uid # Unset)
    BY <1>3, <2>3, UnitHasUid DEF Titled
  <2> QED BY <2>2, <2>3
<1>7. PlayerGains(a, c).value = a.value /\ PlayerGains(a, c).currEid = a.currEid
  BY <1>5, PlayerKeeps
<1> QED BY <1>4, <1>6, <1>7 DEF c, k

LEMMA DestroyedBasicKeeps ==
  ASSUME NEW w \in WorldType, NEW e, NEW new \in Eid, ChunkAt(w, e) \in Chunk
  PROVE  LET v == OnDestroyedBasic(w, e, new)
             c == ChunkAt(w, e)
         IN  /\ v.value = w.value
             /\ v.currEid = IF HasUnit(w.kind[c]) THEN [w.currEid EXCEPT ![c] = new]
                            ELSE w.currEid
<1> DEFINE c == ChunkAt(w, e)
           k == w.kind[c]
           s == SetUnitData(w, k.uid, None, Invalid)
           a == UidVanishes(w, e, new)
<1>1. s \in WorldType /\ s.kind = w.kind
  <2>1. k.uid \in Uid \cup {Unset}
    BY KindType
  <2> HIDE DEF k, c
  <2>2. s \in WorldType
    BY <2>1, SetUnitDataType, InvalidIsEid
  <2>3. s.kind = w.kind
    BY SetUnitDataKeeps
  <2> QED BY <2>2, <2>3
<1>2. s.value = w.value /\ s.currEid = w.currEid
  <2> HIDE DEF k, c
  <2> QED BY SetUnitDataKeeps
<1>3. a = IF HasUid(k) THEN SetCurrEid(s, c, new) ELSE w
  BY DEF UidVanishes
<1>4. OnDestroyedBasic(w, e, new) = PlayerLoses(a, c)
  BY DEF OnDestroyedBasic
<1> HIDE DEF c, k, s, a
<1>5. a \in WorldType /\ c \in Chunk
  BY <1>1, <1>3, SetCurrEidType DEF c
<1>6. /\ a.value = w.value
      /\ a.currEid = IF HasUnit(k) THEN [w.currEid EXCEPT ![c] = new] ELSE w.currEid
  <2>1. s.kind[c] = k
    BY <1>1 DEF k
  <2>2. CASE HasUid(k)
    <3>1. SetCurrEid(s, c, new).value = s.value
          /\ SetCurrEid(s, c, new).currEid = IF HasUnit(k) THEN [s.currEid EXCEPT ![c] = new]
                                             ELSE s.currEid
      BY <1>1, <2>1, SetCurrEidKeeps
    <3> QED BY <1>2, <1>3, <2>2, <3>1
  <2>3. CASE ~HasUid(k)
    BY <1>3, <2>3, UnitHasUid
  <2> QED BY <2>2, <2>3
<1>7. PlayerLoses(a, c).value = a.value /\ PlayerLoses(a, c).currEid = a.currEid
  BY <1>5, PlayerKeeps
<1> QED BY <1>4, <1>6, <1>7 DEF c, k

\* An entity that appears keeps its values; curr_eid becomes its handle.
LEMMA AppearKeeps ==
  ASSUME NEW w \in WorldType, NEW c \in Chunk, NEW e \in ServerEid,
         w.desc[c] = [chunk |-> c, gen |-> e[2]],
         w.desc[e[1]].chunk = None
  PROVE  LET v == Appear(w, Storage(c), e)
         IN  /\ v.value = w.value
             /\ v.currEid = IF Titled(w.kind[c]) THEN [w.currEid EXCEPT ![c] = e]
                            ELSE w.currEid
<1> DEFINE s == SwapDesc(w, Storage(c), e)
           t == SetEidComponent(s, e, e)
<1>1. /\ e[1] \in ServerIndex /\ e[1] \in Index /\ e[1] \notin Chunk /\ e \in Eid
      /\ c \in Index /\ Storage(c)[1] = c
  BY ServerIsEid, ServerIsNotChunk, StorageIsEid
<1>2. /\ s \in WorldType
      /\ s.desc = [w.desc EXCEPT ![c] = w.desc[e[1]], ![e[1]] = w.desc[c]]
      /\ s.kind = w.kind /\ s.value = w.value /\ s.currEid = w.currEid
  <2>1. s \in WorldType /\ s.desc = [w.desc EXCEPT ![c] = w.desc[e[1]], ![e[1]] = w.desc[c]]
    BY <1>1, SwapDescType
  <2> QED BY <2>1 DEF SwapDesc, WorldType
<1> HIDE DEF s
<1>3. s.desc[e[1]].chunk = c
  BY <1>1, <1>2 DEF WorldType
<1>4. ChunkAt(s, e) = c
  BY <1>3 DEF ChunkAt
<1>5. /\ t \in WorldType /\ t.desc = s.desc
      /\ t.kind = s.kind /\ t.value = s.value /\ t.currEid = s.currEid
  <2>1. t \in WorldType /\ t.desc = s.desc
    BY <1>1, <1>2, <1>4, SetEidType
  <2> QED BY <1>2, <2>1 DEF SetEidComponent, WorldType
<1>6. ChunkAt(t, e) = c
  BY <1>4, <1>5 DEF ChunkAt
<1>7. Appear(w, Storage(c), e) = OnCreatedBasic(t, e)
  BY DEF Appear, t, s
<1> HIDE DEF t
<1> QED BY <1>1, <1>2, <1>5, <1>6, <1>7, CreatedBasicKeeps

\* An entity that vanishes keeps its values; only its own curr_eid changes.
LEMMA VanishKeeps ==
  ASSUME NEW w \in WorldType, NEW c \in Chunk, NEW e \in ServerEid,
         w.desc[e[1]] = [chunk |-> c, gen |-> e[2]],
         w.desc[c].chunk = None
  PROVE  LET v == Vanish(w, Storage(c), e)
         IN  /\ v.value = w.value
             /\ \A x \in Chunk : x # c \/ ~HasUnit(w.kind[c]) => v.currEid[x] = w.currEid[x]
<1> DEFINE t == SetEidComponent(w, e, Storage(c))
           d == OnDestroyedBasic(t, e, Storage(c))
<1>1. /\ e[1] \in ServerIndex /\ e[1] \in Index /\ c \in Index
      /\ Storage(c)[1] = c /\ Storage(c) \in Eid
  BY ServerIsEid, StorageIsEid
<1>2. ChunkAt(w, e) = c
  BY DEF ChunkAt
<1>3. /\ t \in WorldType /\ t.desc = w.desc
      /\ t.kind = w.kind /\ t.value = w.value /\ t.currEid = w.currEid
  <2>1. t \in WorldType /\ t.desc = w.desc
    BY <1>1, <1>2, SetEidType
  <2> QED BY <1>2, <2>1 DEF SetEidComponent, WorldType
<1>4. ChunkAt(t, e) = c
  BY <1>2, <1>3 DEF ChunkAt
<1>5. Vanish(w, Storage(c), e) = SwapDesc(d, Storage(c), e)
  BY DEF Vanish, t
<1> HIDE DEF t
<1>6. /\ d \in WorldType /\ d.value = w.value
      /\ d.currEid = IF HasUnit(w.kind[c]) THEN [w.currEid EXCEPT ![c] = Storage(c)]
                     ELSE w.currEid
  BY <1>1, <1>3, <1>4, DestroyedBasicKeeps, DestroyedBasicType
<1> HIDE DEF d
<1>7. /\ Vanish(w, Storage(c), e).value = d.value
      /\ Vanish(w, Storage(c), e).currEid = d.currEid
  BY <1>5, <1>6 DEF SwapDesc, WorldType
<1>8. w.currEid \in [Chunk -> Eid]
  BY DEF WorldType
<1> QED BY <1>6, <1>7, <1>8

\* A chunk that comes home keeps curr_eid exact.
LEMMA AppearNamed ==
  ASSUME NEW w \in WorldType, NEW c \in Chunk, NEW e \in ServerEid,
         w.desc[c] = [chunk |-> c, gen |-> e[2]],
         w.desc[e[1]].chunk = None,
         NEW born \in SUBSET Chunk, NEW alive \in SUBSET born, NEW home,
         c \in born, home[c] = e, Named(w, born, alive, home)
  PROVE  Named(Appear(w, Storage(c), e), born, alive \cup {c}, home)
<1> DEFINE v == Appear(w, Storage(c), e)
<1>1. v.kind = w.kind
  BY AppearFacts
<1>2. v.currEid = IF Titled(w.kind[c]) THEN [w.currEid EXCEPT ![c] = e] ELSE w.currEid
  BY AppearKeeps
<1>3. w.currEid \in [Chunk -> Eid]
  BY DEF WorldType
<1> HIDE DEF v
<1>4. Named(v, born, alive \cup {c}, home)
  BY <1>1, <1>2, <1>3 DEF Named
<1> QED BY <1>4 DEF v

\* A chunk that is parked leaves the curr_eid of the others alone.
LEMMA VanishNamed ==
  ASSUME NEW w \in WorldType, NEW c \in Chunk, NEW e \in ServerEid,
         w.desc[e[1]] = [chunk |-> c, gen |-> e[2]],
         w.desc[c].chunk = None, VanishFault(w, e) = "none",
         NEW born \in SUBSET Chunk, NEW alive \in SUBSET born, NEW home,
         c \in born, Named(w, born, alive, home)
  PROVE  Named(Vanish(w, Storage(c), e), born, alive \ {c}, home)
<1> DEFINE v == Vanish(w, Storage(c), e)
<1>1. v.kind = w.kind /\ (HasUid(w.kind[c]) => w.kind[c].uid # Unset)
  <2>1. v.kind = w.kind
    BY VanishFacts
  <2>2. ChunkAt(w, e) = c
    BY DEF ChunkAt
  <2>3. DestroyedBasicAsserts(w, e)
    BY DEF VanishFault
  <2>4. HasUid(w.kind[c]) => w.kind[c].uid # Unset
    BY <2>2, <2>3 DEF DestroyedBasicAsserts, UnitEid
  <2> QED BY <2>1, <2>4
<1>2. \A x \in Chunk : x # c \/ ~HasUnit(w.kind[c]) => v.currEid[x] = w.currEid[x]
  BY VanishKeeps
<1> HIDE DEF v
<1>3. HasUnit(w.kind[c]) => Titled(w.kind[c])
  BY <1>1, UnitHasUid DEF Titled
<1>4. Named(v, born, alive \ {c}, home)
  BY <1>1, <1>2, <1>3 DEF Named
<1> QED BY <1>4 DEF v

-----------------------------------------------------------------------------
(* The history knows every value that was live *)

Vals(h) == [0 .. Len(h) -> [Chunk -> Value \cup {None}]]

\* val[n] are the values after the first n actions: an update of the entity at home
\* changes one of them, and holds the one that is not live; other actions change none.
Trail(h, cur, val) ==
  \A k \in Steps(h) :
    IF h[k].op = "update"
    THEN \E c \in Living(h, k) :
           /\ Home(h)[c] = h[k].after
           /\ h[k].held = IF k <= cur THEN val[k - 1][c] ELSE val[k][c]
           /\ \A d \in Chunk \ {c} : val[k][d] = val[k - 1][d]
    ELSE val[k] = val[k - 1]

\* s is what the actions of h show one after the other.
Shows(h, kind, val, s) ==
  s = [n \in 1 .. Len(h) + 1 |-> ViewOf(Living(h, n - 1), Home(h), kind, val[n - 1])]

\* curr_eid is exact, and the values live, those held by the actions and the views
\* seen are those of one run of the actions.
HistInv ==
  /\ Stored => Named(world, Born, Living(history, currIndex), Home(history))
  /\ \E val \in Vals(history) :
       /\ Stored => world.value = val[currIndex]
       /\ Trail(history, currIndex, val)
       /\ Shows(history, world.kind, val, seen)

LEMMA HomesKept ==
  ASSUME NEW h, NEW g, SameRecord(h, g), Lives(h), NEW n, NEW c \in Living(h, n)
  PROVE  c \in Chunk /\ c \in Living(g, n) /\ Home(g)[c] = Home(h)[c]
<1>1. c \in Chunk /\ \E k \in Steps(h) : Creates(h, k, c)
  BY DEF Living
<1>2. PICK k \in Steps(h) : Creates(h, k, c)
  BY <1>1
<1> QED BY <1>1, <1>2, SameHome, SameLiving

LEMMA SameShows ==
  ASSUME NEW h, NEW g, SameRecord(h, g), Lives(h), NEW kind, NEW val, NEW s,
         Shows(h, kind, val, s)
  PROVE  Shows(g, kind, val, s)
<1>1. ASSUME NEW n
      PROVE  ViewOf(Living(g, n), Home(g), kind, val[n])
               = ViewOf(Living(h, n), Home(h), kind, val[n])
  <2>1. Living(g, n) = Living(h, n)
    BY SameLiving
  <2>2. \A c \in Living(h, n) : Home(g)[c] = Home(h)[c]
    BY HomesKept
  <2>3. ViewOf(Living(h, n), Home(g), kind, val[n])
          = ViewOf(Living(h, n), Home(h), kind, val[n])
    BY <2>2, SameView
  <2> QED BY <2>1, <2>3
<1>2. Len(g) = Len(h)
  BY DEF SameRecord
<1> QED BY <1>1, <1>2 DEF Shows

\* From history h with the first cur actions applied to history g with the first
\* cur2: nothing but action n changes, and its value is the one that is not live.
Aligned(h, g, n, cur, cur2) ==
  \A k \in Steps(h) : k # n => g[k] = h[k] /\ (k <= cur <=> k <= cur2)

Exchanged(h, g, n, cur2, val) ==
  h[n].op = "update" =>
    \A c \in Living(h, n) : Home(h)[c] = h[n].after
      => g[n].held = IF n <= cur2 THEN val[n - 1][c] ELSE val[n][c]

LEMMA TrailStepped ==
  ASSUME NEW h, NEW g, SameRecord(h, g), Lives(h), NEW n \in Steps(h), NEW cur, NEW cur2,
         Aligned(h, g, n, cur, cur2),
         NEW val, Trail(h, cur, val), Exchanged(h, g, n, cur2, val)
  PROVE  Trail(g, cur2, val)
<1> SUFFICES ASSUME NEW k \in Steps(g)
             PROVE  IF g[k].op = "update"
                    THEN \E c \in Living(g, k) :
                           /\ Home(g)[c] = g[k].after
                           /\ g[k].held = IF k <= cur2 THEN val[k - 1][c] ELSE val[k][c]
                           /\ \A d \in Chunk \ {c} : val[k][d] = val[k - 1][d]
                    ELSE val[k] = val[k - 1]
  BY DEF Trail
<1>1. k \in Steps(h) /\ g[k].op = h[k].op /\ g[k].after = h[k].after
  BY DEF SameRecord, Steps
<1>2. CASE h[k].op = "update"
  <2>1. PICK c \in Living(h, k) :
           /\ Home(h)[c] = h[k].after
           /\ h[k].held = IF k <= cur THEN val[k - 1][c] ELSE val[k][c]
           /\ \A d \in Chunk \ {c} : val[k][d] = val[k - 1][d]
    BY <1>1, <1>2 DEF Trail
  <2>2. c \in Living(g, k) /\ Home(g)[c] = g[k].after
    BY <1>1, <2>1, HomesKept
  <2>3. g[k].held = IF k <= cur2 THEN val[k - 1][c] ELSE val[k][c]
    <3>1. CASE k = n
      BY <1>2, <2>1, <3>1 DEF Exchanged
    <3>2. CASE k # n
      BY <1>1, <2>1, <3>2 DEF Aligned
    <3> QED BY <3>1, <3>2
  <2> QED BY <1>1, <1>2, <2>1, <2>2, <2>3
<1>3. CASE h[k].op # "update"
  BY <1>1, <1>3 DEF Trail
<1> QED BY <1>2, <1>3

\* The entity an update names is the chunk that is at home there.
LEMMA UpdateTarget ==
  ASSUME IInv, StoreInv, Placed, NEW n \in Steps(history), history[n].op = "update",
         currIndex \in {n - 1, n}, NEW c \in Living(history, n),
         Home(history)[c] = history[n].after
  PROVE  c \in Chunk /\ ChunkAt(world, history[n].after) = c
<1>1. Living(history, n) = Living(history, n - 1)
  BY UpdateResolves
<1>2. c \in Living(history, currIndex) /\ c \in Born /\ c \in Chunk
  BY <1>1, StoreContext DEF Born
<1>3. AtServer(world, c, Home(history)[c])
  BY <1>2 DEF Placed, PlacedIn
<1> QED BY <1>2, <1>3 DEF AtServer, ChunkAt

\* An update that is stepped over swaps the value it holds with the live one.
LEMMA UpdateStep ==
  ASSUME IInv, StoreInv, Placed, NEW n \in Steps(history), history[n].op = "update",
         currIndex \in {n - 1, n}, NEW dir,
         NEW val \in Vals(history), world.value = val[currIndex],
         Trail(history, currIndex, val), NEW m \in {n - 1, n}, m # currIndex
  PROVE  /\ SwapValue(world, history[n].after, history[n].held).value = val[m]
         /\ \A c \in Living(history, n) : Home(history)[c] = history[n].after
              => Flipped(world, history[n], dir).held
                   = IF n <= m THEN val[n - 1][c] ELSE val[n][c]
<1> DEFINE a == history[n]
<1>1. /\ world \in WorldType /\ a \in ActionType /\ n \in Int
      /\ n - 1 \in 0 .. Len(history) /\ n \in 0 .. Len(history)
  BY StoreContext DEF Steps
<1>2. PICK c \in Living(history, n) :
         /\ Home(history)[c] = a.after
         /\ a.held = IF n <= currIndex THEN val[n - 1][c] ELSE val[n][c]
         /\ \A d \in Chunk \ {c} : val[n][d] = val[n - 1][d]
  BY DEF Trail
<1>3. c \in Chunk /\ ChunkAt(world, a.after) = c
  BY <1>2, UpdateTarget
<1>4. \A b \in Living(history, n) : Home(history)[b] = a.after => b = c
  BY <1>3, UpdateTarget
<1> HIDE DEF a
<1>5. SwapValue(world, a.after, a.held).value = [world.value EXCEPT ![c] = a.held]
  BY <1>1, <1>3 DEF SwapValue, WorldType
<1>6. Flipped(world, a, dir).held = world.value[c]
  <2>1. a.op = "update"
    BY DEF a
  <2> QED BY <1>1, <1>3, <2>1 DEF Flipped, ActionType
<1>7. val[n] \in [Chunk -> Value \cup {None}] /\ val[n - 1] \in [Chunk -> Value \cup {None}]
  BY <1>1 DEF Vals
<1>8. a.held = val[m][c]
  BY <1>1, <1>2
<1>9. [val[currIndex] EXCEPT ![c] = val[m][c]] = val[m]
  <2>1. CASE currIndex = n /\ m = n - 1
    BY <1>2, <1>7, <2>1
  <2>2. CASE currIndex = n - 1 /\ m = n
    BY <1>2, <1>7, <2>2
  <2> QED BY <2>1, <2>2
<1>10. val[currIndex][c] = IF n <= m THEN val[n - 1][c] ELSE val[n][c]
  BY <1>1
<1> QED BY <1>4, <1>5, <1>6, <1>8, <1>9, <1>10 DEF a

-----------------------------------------------------------------------------
(* One step of a rewind *)

NamedNow == Named(world, Born, Living(history, currIndex), Home(history))

LEMMA AppearLive ==
  ASSUME IInv, StoreInv, Placed, NamedNow, NEW c \in Born, NEW e \in ServerEid,
         c \notin Living(history, currIndex), e = Home(history)[c],
         world.desc[e[1]].chunk = None
  PROVE  LET v == Appear(world, Storage(c), e)
         IN  /\ v.value = world.value
             /\ Named(v, Born, Living(history, currIndex) \cup {c}, Home(history))
<1>1. /\ world \in WorldType /\ Born \in SUBSET Chunk /\ c \in Chunk
      /\ Living(history, currIndex) \in SUBSET Born
  BY StoreContext
<1>2. world.desc[c] = [chunk |-> c, gen |-> e[2]]
  BY DEF Placed, PlacedIn, Parked
<1>3. Appear(world, Storage(c), e).value = world.value
  BY <1>1, <1>2, AppearKeeps
<1>4. Named(Appear(world, Storage(c), e), Born, Living(history, currIndex) \cup {c},
            Home(history))
  BY <1>1, <1>2, AppearNamed DEF NamedNow
<1> QED BY <1>3, <1>4

LEMMA VanishLive ==
  ASSUME IInv, StoreInv, Placed, NamedNow, NEW c \in Living(history, currIndex),
         NEW e \in ServerEid, e = Home(history)[c], VanishFault(world, e) = "none"
  PROVE  LET v == Vanish(world, Storage(c), e)
         IN  /\ v.value = world.value
             /\ Named(v, Born, Living(history, currIndex) \ {c}, Home(history))
<1>1. /\ world \in WorldType /\ Born \in SUBSET Chunk /\ c \in Chunk /\ c \in Born
      /\ Living(history, currIndex) \in SUBSET Born
  BY StoreContext
<1>2. world.desc[e[1]] = [chunk |-> c, gen |-> e[2]] /\ world.desc[c].chunk = None
  BY <1>1 DEF Placed, PlacedIn, AtServer
<1>3. Vanish(world, Storage(c), e).value = world.value
  BY <1>1, <1>2, VanishKeeps
<1>4. Named(Vanish(world, Storage(c), e), Born, Living(history, currIndex) \ {c},
            Home(history))
  BY <1>1, <1>2, VanishNamed DEF NamedNow
<1> QED BY <1>3, <1>4

\* A replicated value names nobody.
LEMMA SwapValueNamed ==
  ASSUME NEW w \in WorldType, NEW e, NEW x, NEW born, NEW alive, NEW home,
         Named(w, born, alive, home)
  PROVE  Named(SwapValue(w, e, x), born, alive, home)
BY DEF SwapValue, Named, WorldType

\* The next state of the store when creation n or destruction n is stepped over.
LEMMA CreateUndone ==
  ASSUME IInv, StoreInv, Placed, NamedNow, NEW n \in Steps(history), currIndex = n,
         history[n].op = "create", VanishFault(world, history[n].after) = "none"
  PROVE  LET v == Vanish(world, history[n].before, history[n].after)
         IN  v.value = world.value /\ Named(v, Born, Living(history, n - 1), Home(history))
<1> DEFINE a == history[n]
<1>1. /\ Len(history) \in Nat /\ Lives(history) /\ a.after \in ServerEid
      /\ \E c \in Chunk : a.before = Storage(c)
  BY StoreContext
<1>2. PICK c \in Chunk : a.before = Storage(c)
  BY <1>1
<1>3. Creates(history, n, c)
  BY <1>2 DEF Creates
<1>4. /\ Living(history, n) = Living(history, n - 1) \cup {c}
      /\ Living(history, n - 1) = Living(history, n) \ {c}
  BY <1>1, <1>3, CreateLiving
<1>5. Home(history)[c] = a.after
  BY <1>1, <1>3, HomeIs DEF Lives
<1>6. c \in Living(history, currIndex)
  BY <1>4
<1>7. VanishFault(world, a.after) = "none"
  OBVIOUS
<1> HIDE DEF a
<1>8. LET v == Vanish(world, Storage(c), a.after)
      IN  /\ v.value = world.value
          /\ Named(v, Born, Living(history, currIndex) \ {c}, Home(history))
  BY <1>1, <1>5, <1>6, <1>7, VanishLive
<1> QED BY <1>2, <1>4, <1>8 DEF a

LEMMA DestroyUndone ==
  ASSUME IInv, StoreInv, Placed, NamedNow, NEW n \in Steps(history), currIndex = n,
         history[n].op = "destroy"
  PROVE  LET v == Appear(world, history[n].before, history[n].after)
         IN  v.value = world.value /\ Named(v, Born, Living(history, n - 1), Home(history))
<1> DEFINE a == history[n]
<1>1. /\ Len(history) \in Nat /\ Lives(history) /\ a.after \in ServerEid
      /\ a.after[1] \in ServerIndex /\ n \in Int
      /\ \E c \in Chunk : a.before = Storage(c)
      /\ Living(history, n - 1) \in SUBSET Born
  BY StoreContext DEF Steps
<1>2. PICK c \in Chunk : a.before = Storage(c)
  BY <1>1
<1>3. Destroys(history, n, c)
  BY <1>2 DEF Destroys
<1>4. /\ c \in Living(history, n - 1)
      /\ Living(history, n) = Living(history, n - 1) \ {c}
      /\ Living(history, n - 1) = Living(history, n) \cup {c}
      /\ Home(history)[c] = a.after
  BY <1>1, <1>3, DestroyLiving
<1>5. c \in Born /\ c \notin Living(history, currIndex)
  BY <1>1, <1>4
<1>6. world.desc[a.after[1]].chunk = None
  BY <1>1, <1>3, SeatFree DEF Placed
<1> HIDE DEF a
<1>7. LET v == Appear(world, Storage(c), a.after)
      IN  /\ v.value = world.value
          /\ Named(v, Born, Living(history, currIndex) \cup {c}, Home(history))
  BY <1>1, <1>4, <1>5, <1>6, AppearLive
<1> QED BY <1>2, <1>4, <1>7 DEF a

LEMMA CreateRedone ==
  ASSUME IInv, StoreInv, Placed, NamedNow, NEW n \in Steps(history), currIndex = n - 1,
         history[n].op = "create"
  PROVE  LET v == Appear(world, history[n].before, history[n].after)
         IN  v.value = world.value /\ Named(v, Born, Living(history, n), Home(history))
<1> DEFINE a == history[n]
<1>1. /\ Len(history) \in Nat /\ Lives(history) /\ a.after \in ServerEid
      /\ a.after[1] \in ServerIndex /\ n \in Int /\ n - 1 \in Int
      /\ \E c \in Chunk : a.before = Storage(c)
      /\ Living(history, n) \in SUBSET Born
  BY StoreContext DEF Steps
<1>2. PICK c \in Chunk : a.before = Storage(c)
  BY <1>1
<1>3. Creates(history, n, c)
  BY <1>2 DEF Creates
<1>4. /\ c \notin Living(history, n - 1)
      /\ Living(history, n) = Living(history, n - 1) \cup {c}
  BY <1>1, <1>3, CreateLiving
<1>5. Home(history)[c] = a.after
  BY <1>1, <1>3, HomeIs DEF Lives
<1>6. c \in Born /\ c \notin Living(history, currIndex)
  BY <1>1, <1>4
<1>7. world.desc[a.after[1]].chunk = None
  BY <1>1, <1>3, SeatFree DEF Placed
<1> HIDE DEF a
<1>8. LET v == Appear(world, Storage(c), a.after)
      IN  /\ v.value = world.value
          /\ Named(v, Born, Living(history, currIndex) \cup {c}, Home(history))
  BY <1>1, <1>5, <1>6, <1>7, AppearLive
<1> QED BY <1>2, <1>4, <1>8 DEF a

LEMMA DestroyRedone ==
  ASSUME IInv, StoreInv, Placed, NamedNow, NEW n \in Steps(history), currIndex = n - 1,
         history[n].op = "destroy", VanishFault(world, history[n].after) = "none"
  PROVE  LET v == Vanish(world, history[n].before, history[n].after)
         IN  v.value = world.value /\ Named(v, Born, Living(history, n), Home(history))
<1> DEFINE a == history[n]
<1>1. /\ Len(history) \in Nat /\ Lives(history) /\ a.after \in ServerEid
      /\ \E c \in Chunk : a.before = Storage(c)
  BY StoreContext
<1>2. PICK c \in Chunk : a.before = Storage(c)
  BY <1>1
<1>3. Destroys(history, n, c)
  BY <1>2 DEF Destroys
<1>4. /\ c \in Living(history, n - 1)
      /\ Living(history, n) = Living(history, n - 1) \ {c}
      /\ Home(history)[c] = a.after
  BY <1>1, <1>3, DestroyLiving
<1>5. VanishFault(world, a.after) = "none"
  OBVIOUS
<1> HIDE DEF a
<1>6. LET v == Vanish(world, Storage(c), a.after)
      IN  /\ v.value = world.value
          /\ Named(v, Born, Living(history, currIndex) \ {c}, Home(history))
  BY <1>1, <1>4, <1>5, VanishLive
<1> QED BY <1>2, <1>4, <1>6 DEF a

LEMMA NamedSame ==
  ASSUME NEW w, NEW born, NEW alive, NEW home, NEW home2, Named(w, born, alive, home),
         \A c \in alive : home2[c] = home[c]
  PROVE  Named(w, born, alive, home2)
BY DEF Named

\* What a step over action n in either direction leaves of the invariant.
LEMMA SteppedHist ==
  ASSUME IInv, StoreInv, Stored, HistInv, NEW n \in Steps(history),
         currIndex \in {n - 1, n}, NEW m \in {n - 1, n}, m # currIndex, currIndex' = m,
         NEW dir, history' = [history EXCEPT ![n] = Flipped(world, history[n], dir)],
         world'.kind = world.kind,
         IF history[n].op = "update"
         THEN world' = SwapValue(world, history[n].after, history[n].held)
         ELSE world'.value = world.value,
         Named(world', Born, Living(history, m), Home(history)),
         UNCHANGED <<nextIndex, phase, seen>>
  PROVE  HistInv'
<1>1. /\ Len(history) \in Nat /\ Lives(history) /\ history \in Seq(ActionType)
      /\ n \in Int /\ n - 1 \in 0 .. Len(history) /\ n \in 0 .. Len(history)
      /\ currIndex \in Int /\ m \in Int
  BY StoreContext DEF Steps
<1>2. SameRecord(history, history')
  BY FlippedRecord
<1>3. /\ \A k \in Steps(history) : k # n => history'[k] = history[k]
      /\ history'[n] = Flipped(world, history[n], dir)
  BY <1>1 DEF Steps
<1>4. Placed /\ NamedNow /\ Stored' /\ Born' = Born
  BY DEF StoreInv, HistInv, NamedNow, Stored, Born
<1>5. PICK val \in Vals(history) :
         /\ Stored => world.value = val[currIndex]
         /\ Trail(history, currIndex, val)
         /\ Shows(history, world.kind, val, seen)
  BY DEF HistInv
<1>6. Vals(history') = Vals(history)
  BY <1>2 DEF Vals, SameRecord
<1>7. world'.value = val[m]
  <2>1. CASE history[n].op = "update"
    <3>1. SwapValue(world, history[n].after, history[n].held).value = val[m]
      BY <1>4, <1>5, <2>1, UpdateStep
    <3> QED BY <2>1, <3>1
  <2>2. CASE history[n].op # "update"
    <3>1. val[n] = val[n - 1]
      BY <1>5, <2>2 DEF Trail
    <3> QED BY <1>5, <2>2, <3>1
  <2> QED BY <2>1, <2>2
<1>8. Trail(history', m, val)
  <2>1. Aligned(history, history', n, currIndex, m)
    BY <1>1, <1>3 DEF Steps, Aligned
  <2>2. Exchanged(history, history', n, m, val)
    BY <1>3, <1>4, <1>5, UpdateStep DEF Exchanged
  <2> QED BY <1>1, <1>2, <1>5, <2>1, <2>2, TrailStepped
<1>9. Shows(history', world'.kind, val, seen')
  BY <1>1, <1>2, <1>5, SameShows
<1>10. Named(world', Born', Living(history', currIndex'), Home(history'))
  <2>1. Living(history', m) = Living(history, m)
    BY <1>2, SameLiving
  <2>2. \A c \in Living(history, m) : Home(history')[c] = Home(history)[c]
    BY <1>1, <1>2, HomesKept
  <2>3. Named(world', Born, Living(history, m), Home(history'))
    BY <2>2, NamedSame
  <2> QED BY <1>4, <2>1, <2>3
<1> QED BY <1>5, <1>6, <1>7, <1>8, <1>9, <1>10 DEF HistInv

LEMMA StepBackwardHist ==
  ASSUME IInv, StoreInv, HistInv, StepBackward, UNCHANGED seen
  PROVE  HistInv'
<1> DEFINE n == currIndex
           a == history[n]
<1>1. /\ currIndex > 0
      /\ UndoFault(world, a) = "none"
      /\ currIndex' = n - 1
      /\ world' = Undone(world, a)
      /\ history' = [history EXCEPT ![n] = Flipped(world, a, "rewind")]
      /\ UNCHANGED <<nextIndex, phase>>
  BY DEF StepBackward, MustUndo
<1>2. n \in Steps(history) /\ n \in Int
  BY <1>1, StoreContext DEF Steps
<1>3. Stored /\ Placed /\ NamedNow
  BY DEF StepBackward, StoreInv, AtTheEnd, HistInv, NamedNow
<1>4. world'.kind = world.kind
  BY <1>1, <1>2, <1>3, UndoSound
<1>5. a.op \in {"create", "destroy", "update"} /\ a.dir = "fastforward"
  BY <1>1, <1>2, StoreContext DEF UndoFault
<1>6. /\ Named(world', Born, Living(history, n - 1), Home(history))
      /\ IF a.op = "update" THEN world' = SwapValue(world, a.after, a.held)
         ELSE world'.value = world.value
  <2>1. CASE a.op = "create"
    <3>1. VanishFault(world, a.after) = "none" /\ world' = Vanish(world, a.before, a.after)
      BY <1>1, <1>5, <2>1 DEF UndoFault, Undone
    <3> QED BY <1>2, <1>3, <2>1, <3>1, CreateUndone
  <2>2. CASE a.op = "destroy"
    <3>1. world' = Appear(world, a.before, a.after)
      BY <1>1, <1>5, <2>2 DEF Undone
    <3> QED BY <1>2, <1>3, <2>2, <3>1, DestroyUndone
  <2>3. CASE a.op = "update"
    <3>1. world' = SwapValue(world, a.after, a.held)
      BY <1>1, <2>3 DEF Undone
    <3>2. Living(history, n) = Living(history, n - 1)
      BY <1>2, <1>3, <2>3, UpdateResolves
    <3>3. Named(world', Born, Living(history, n), Home(history))
      BY <1>3, <3>1, StoreContext, SwapValueNamed DEF NamedNow
    <3> QED BY <2>3, <3>1, <3>2, <3>3
  <2> QED BY <1>5, <2>1, <2>2, <2>3
<1>7. n - 1 # n
  BY <1>2
<1> QED BY <1>1, <1>2, <1>3, <1>4, <1>6, <1>7, SteppedHist

LEMMA StepForwardHist ==
  ASSUME IInv, StoreInv, HistInv, StepForward, UNCHANGED seen
  PROVE  HistInv'
<1> DEFINE n == currIndex + 1
           a == history[n]
<1>1. /\ currIndex < Len(history)
      /\ RedoFault(world, a) = "none"
      /\ currIndex' = n
      /\ world' = Redone(world, a)
      /\ history' = [history EXCEPT ![n] = Flipped(world, a, "fastforward")]
      /\ UNCHANGED <<nextIndex, phase>>
  BY DEF StepForward, MustRedo
<1>2. n \in Steps(history) /\ n \in Int /\ currIndex = n - 1 /\ n # currIndex
  BY <1>1, StoreContext DEF Steps
<1> HIDE DEF n
<1>3. Stored /\ Placed /\ NamedNow
  BY DEF StepForward, StoreInv, AtTheEnd, HistInv, NamedNow
<1>4. world'.kind = world.kind
  BY <1>1, <1>2, <1>3, RedoSound
<1>5. a.op \in {"create", "destroy", "update"} /\ a.dir = "rewind"
  BY <1>1, <1>2, StoreContext DEF RedoFault
<1>6. /\ Named(world', Born, Living(history, n), Home(history))
      /\ IF a.op = "update" THEN world' = SwapValue(world, a.after, a.held)
         ELSE world'.value = world.value
  <2>1. CASE a.op = "create"
    <3>1. world' = Appear(world, a.before, a.after)
      BY <1>1, <2>1 DEF Redone
    <3> QED BY <1>2, <1>3, <2>1, <3>1, CreateRedone
  <2>2. CASE a.op = "destroy"
    <3>1. VanishFault(world, a.after) = "none" /\ world' = Vanish(world, a.before, a.after)
      BY <1>1, <1>5, <2>2 DEF RedoFault, Redone
    <3> QED BY <1>2, <1>3, <2>2, <3>1, DestroyRedone
  <2>3. CASE a.op = "update"
    <3>1. world' = SwapValue(world, a.after, a.held)
      BY <1>1, <2>3 DEF Redone
    <3>2. Living(history, n) = Living(history, n - 1)
      BY <1>2, <1>3, <2>3, UpdateResolves
    <3>3. Named(world', Born, Living(history, n - 1), Home(history))
      BY <1>2, <1>3, <3>1, StoreContext, SwapValueNamed DEF NamedNow
    <3> QED BY <2>3, <3>1, <3>2, <3>3
  <2> QED BY <1>5, <2>1, <2>2, <2>3
<1> QED BY <1>1, <1>2, <1>3, <1>4, <1>6, SteppedHist

-----------------------------------------------------------------------------
(* Parsing: the state an action leaves is remembered *)

\* What is shown is the view of the chunks that are at home.
LEMMA ShownIs ==
  IInv /\ StoreInv /\ Stored /\ NamedNow
    => LiveView(world) = ViewOf(Living(history, currIndex), Home(history),
                                world.kind, world.value)
<1> SUFFICES ASSUME IInv, StoreInv, Stored, NamedNow
             PROVE  LiveView(world) = ViewOf(Living(history, currIndex), Home(history),
                                             world.kind, world.value)
  OBVIOUS
<1>1. /\ world \in WorldType /\ Born \in SUBSET Chunk
      /\ Living(history, currIndex) \in SUBSET Born
      /\ Homed(Born, Living(history, currIndex), Home(history))
  BY StoreContext DEF Homed
<1>2. /\ PlacedIn(world, Born, Living(history, currIndex), Home(history))
      /\ OwnedBy(world) /\ Resolves(world)
      /\ Named(world, Born, Living(history, currIndex), Home(history))
  BY DEF StoreInv, Placed, NamedNow
<1> QED BY <1>1, <1>2, ViewIs

LEMMA ShownIsNext ==
  IInv' /\ StoreInv' /\ Stored' /\ NamedNow'
    => LiveView(world') = ViewOf(Living(history', currIndex'), Home(history'),
                                 world'.kind, world'.value)
<1>1. (IInv /\ StoreInv /\ Stored /\ NamedNow
         => LiveView(world) = ViewOf(Living(history, currIndex), Home(history),
                                     world.kind, world.value))'
  BY ShownIs, PTL
<1> QED BY <1>1

\* val2 prolongs val by the values after one more action; of the chunks in X,
\* which lived in none of the states of h, all of it says they hold x.
Prolongs(h, kind, kind2, val, val2, X, x) ==
  /\ \A d \in Chunk \ X : kind2[d] = kind[d]
  /\ \A n \in 0 .. Len(h) : Living(h, n) \cap X = {}
  /\ \A n \in 0 .. Len(h) : \A d \in Chunk : val2[n][d] = IF d \in X THEN x ELSE val[n][d]

\* What the last action of g does to the values.
LastStep(g, val2) ==
  LET m == Len(g)
  IN  IF g[m].op = "update"
      THEN \E c \in Living(g, m) :
             /\ Home(g)[c] = g[m].after
             /\ g[m].held = val2[m - 1][c]
             /\ \A d \in Chunk \ {c} : val2[m][d] = val2[m - 1][d]
      ELSE val2[m] = val2[m - 1]

LEMMA HomesGrown ==
  ASSUME NEW h, NEW g, NEW a, Len(h) \in Nat, Extends(h, g, a), Lives(h), Lives(g),
         NEW n \in 0 .. Len(h), NEW c \in Living(h, n)
  PROVE  c \in Chunk /\ c \in Living(g, n) /\ Home(g)[c] = Home(h)[c]
<1>1. c \in Chunk /\ \E k \in Steps(h) : Creates(h, k, c)
  BY DEF Living
<1>2. Home(g)[c] = Home(h)[c]
  BY <1>1, GrownHome
<1>3. Living(g, n) = Living(h, n)
  BY GrownLiving
<1> QED BY <1>1, <1>2, <1>3

LEMMA TrailGrown ==
  ASSUME NEW h, NEW g, NEW a, Len(h) \in Nat, Extends(h, g, a), Lives(h), Lives(g),
         NEW kind, NEW kind2, NEW val \in Vals(h), NEW val2 \in Vals(g), NEW X, NEW x,
         Trail(h, Len(h), val), Prolongs(h, kind, kind2, val, val2, X, x), LastStep(g, val2)
  PROVE  Trail(g, Len(g), val2)
<1> SUFFICES ASSUME NEW k \in Steps(g)
             PROVE  IF g[k].op = "update"
                    THEN \E c \in Living(g, k) :
                           /\ Home(g)[c] = g[k].after
                           /\ g[k].held = IF k <= Len(g) THEN val2[k - 1][c] ELSE val2[k][c]
                           /\ \A d \in Chunk \ {c} : val2[k][d] = val2[k - 1][d]
                    ELSE val2[k] = val2[k - 1]
  BY DEF Trail
<1>1. /\ Len(g) = Len(h) + 1 /\ k <= Len(g)
      /\ k \in Steps(h) \/ k = Len(g)
  BY GrownSteps DEF Extends, Steps
<1>2. CASE k = Len(g)
  BY <1>1, <1>2 DEF LastStep
<1>3. CASE k \in Steps(h)
  <2>1. /\ g[k] = h[k] /\ k <= Len(h)
        /\ k \in 0 .. Len(h) /\ k - 1 \in 0 .. Len(h)
        /\ k \in 0 .. Len(g) /\ k - 1 \in 0 .. Len(g)
    BY <1>1, <1>3, GrownSteps DEF Steps
  <2>2. /\ val2[k] \in [Chunk -> Value \cup {None}]
        /\ val2[k - 1] \in [Chunk -> Value \cup {None}]
    BY <2>1 DEF Vals
  <2>3. \A d \in Chunk : /\ val2[k][d] = IF d \in X THEN x ELSE val[k][d]
                         /\ val2[k - 1][d] = IF d \in X THEN x ELSE val[k - 1][d]
    BY <2>1 DEF Prolongs
  <2>4. CASE h[k].op = "update"
    <3>1. PICK c \in Living(h, k) :
             /\ Home(h)[c] = h[k].after
             /\ h[k].held = IF k <= Len(h) THEN val[k - 1][c] ELSE val[k][c]
             /\ \A d \in Chunk \ {c} : val[k][d] = val[k - 1][d]
      BY <1>3, <2>4 DEF Trail
    <3>2. c \in Chunk /\ c \in Living(g, k) /\ Home(g)[c] = Home(h)[c]
      BY <2>1, HomesGrown
    <3>3. c \notin X
      BY <2>1 DEF Prolongs
    <3>4. g[k].held = val2[k - 1][c]
      BY <2>1, <2>3, <3>1, <3>2, <3>3
    <3>5. \A d \in Chunk \ {c} : val2[k][d] = val2[k - 1][d]
      BY <2>3, <3>1
    <3> QED BY <1>1, <2>1, <2>4, <3>1, <3>2, <3>4, <3>5
  <2>5. CASE h[k].op # "update"
    <3>1. val[k] = val[k - 1]
      BY <1>3, <2>5 DEF Trail
    <3>2. \A d \in Chunk : val2[k][d] = val2[k - 1][d]
      BY <2>3, <3>1
    <3>3. val2[k] = val2[k - 1]
      BY <2>2, <3>2
    <3> QED BY <2>1, <2>5, <3>3
  <2> QED BY <2>4, <2>5
<1> QED BY <1>1, <1>2, <1>3

\* Append as a function.
LEMMA AppendedIs ==
  ASSUME NEW n \in Nat, NEW s, s = [i \in 1 .. n |-> s[i]], NEW x
  PROVE  /\ \A i \in 1 .. n : Append(s, x)[i] = s[i]
         /\ Append(s, x)[n + 1] = x
         /\ Append(s, x) = [i \in 1 .. n + 1 |-> Append(s, x)[i]]
<1> DEFINE S == {s[i] : i \in 1 .. n} \cup {x}
           t == Append(s, x)
<1>1. s \in [1 .. n -> S] /\ x \in S
  OBVIOUS
<1> HIDE DEF S
<1>2. s \in Seq(S) /\ Len(s) = n
  BY <1>1
<1>3. /\ t \in Seq(S) /\ Len(t) = n + 1
      /\ \A i \in 1 .. n : t[i] = s[i]
      /\ t[n + 1] = x
  BY <1>1, <1>2
<1> HIDE DEF t
<1>4. t \in [1 .. n + 1 -> S]
  BY <1>3
<1>5. t = [i \in 1 .. n + 1 |-> t[i]]
  BY <1>4
<1> QED BY <1>3, <1>5 DEF t

LEMMA ShowsGrown ==
  ASSUME NEW h, NEW g, NEW a, Len(h) \in Nat, Extends(h, g, a), Lives(h), Lives(g),
         NEW kind, NEW kind2, NEW val, NEW val2, NEW X, NEW x, NEW s,
         Shows(h, kind, val, s), Prolongs(h, kind, kind2, val, val2, X, x)
  PROVE  Shows(g, kind2, val2,
               Append(s, ViewOf(Living(g, Len(g)), Home(g), kind2, val2[Len(g)])))
<1> DEFINE last == ViewOf(Living(g, Len(g)), Home(g), kind2, val2[Len(g)])
           view(n) == ViewOf(Living(g, n), Home(g), kind2, val2[n])
           t == [n \in 1 .. Len(g) + 1 |-> view(n - 1)]
<1>1. ASSUME NEW n \in 0 .. Len(h)
      PROVE  view(n) = ViewOf(Living(h, n), Home(h), kind, val[n])
  <2>1. Living(g, n) = Living(h, n)
    BY GrownLiving
  <2>2. \A c \in Living(h, n) : /\ Home(g)[c] = Home(h)[c]
                                /\ kind2[c] = kind[c] /\ val2[n][c] = val[n][c]
    <3> SUFFICES ASSUME NEW c \in Living(h, n)
                 PROVE  Home(g)[c] = Home(h)[c] /\ kind2[c] = kind[c] /\ val2[n][c] = val[n][c]
      OBVIOUS
    <3>1. c \in Chunk /\ Home(g)[c] = Home(h)[c]
      BY HomesGrown
    <3>2. c \notin X
      BY DEF Prolongs
    <3> QED BY <3>1, <3>2 DEF Prolongs
  <2>3. ViewOf(Living(h, n), Home(g), kind2, val2[n])
          = ViewOf(Living(h, n), Home(h), kind, val[n])
    BY <2>2, SameView
  <2> QED BY <2>1, <2>3
<1>2. last = view(Len(g))
  OBVIOUS
<1> HIDE DEF view, last
<1>3. s = [n \in 1 .. Len(h) + 1 |-> view(n - 1)]
  BY <1>1 DEF Shows
<1>4. Len(g) = Len(h) + 1
  BY DEF Extends
<1>5. Append(s, last) = t
  <2> DEFINE m == Len(h) + 1
             q == Append(s, last)
  <2>1. m \in Nat /\ s = [n \in 1 .. m |-> s[n]]
    BY <1>3
  <2>2. (m + 1) - 1 = Len(g) /\ m + 1 = Len(g) + 1
    BY <1>4
  <2>3. \A n \in 1 .. m : s[n] = view(n - 1)
    BY <1>3
  <2> HIDE DEF m
  <2>4. /\ \A n \in 1 .. m : q[n] = s[n]
        /\ q[m + 1] = last
        /\ q = [n \in 1 .. m + 1 |-> q[n]]
    BY <2>1, AppendedIs
  <2> HIDE DEF q
  <2>5. ASSUME NEW n \in 1 .. m + 1
        PROVE  q[n] = view(n - 1)
    <3>1. CASE n \in 1 .. m
      BY <2>3, <2>4, <3>1
    <3>2. CASE n = m + 1
      BY <1>2, <2>2, <2>4, <3>2
    <3> QED BY <2>1, <3>1, <3>2
  <2> QED BY <2>2, <2>4, <2>5 DEF q
<1> QED BY <1>5 DEF Shows, last, view

\* What a recorded action leaves of the invariant.
LEMMA RecordedHist ==
  ASSUME IInv, StoreInv, IInv', StoreInv', Stored',
         NEW a, Extends(history, history', a), currIndex' = Len(history'),
         NamedNow', seen' = Append(seen, LiveView(world')),
         NEW val \in Vals(history), NEW val2 \in Vals(history'), NEW X, NEW x,
         Trail(history, Len(history), val), Shows(history, world.kind, val, seen),
         Prolongs(history, world.kind, world'.kind, val, val2, X, x),
         LastStep(history', val2), world'.value = val2[Len(history')]
  PROVE  HistInv'
<1>1. Len(history) \in Nat /\ Lives(history) /\ Lives(history')
  BY StoreContext DEF StoreInv
<1>2. Trail(history', Len(history'), val2)
  BY <1>1, TrailGrown
<1>3. LiveView(world') = ViewOf(Living(history', Len(history')), Home(history'), world'.kind,
                                val2[Len(history')])
  BY ShownIsNext
<1>4. Shows(history', world'.kind, val2, seen')
  BY <1>1, <1>3, ShowsGrown
<1>5. Named(world', Born', Living(history', currIndex'), Home(history'))
  BY DEF NamedNow
<1> QED BY <1>2, <1>4, <1>5 DEF HistInv

\* Values and the chunks known so far, prolonged by what is live afterwards.
Longer(val, n, x) == [m \in 0 .. n + 1 |-> IF m <= n THEN val[m] ELSE x]

\* val2 has one entry more than val, x.
Continues(h, g, kind, val, val2, x) ==
  /\ val2 \in Vals(g)
  /\ Prolongs(h, kind, kind, val, val2, {}, None)
  /\ val2[Len(g)] = x
  /\ val2[Len(g) - 1] = val[Len(h)]

LEMMA LongerIs ==
  ASSUME NEW h, NEW g, NEW a, Len(h) \in Nat, Extends(h, g, a), NEW kind,
         NEW val \in Vals(h), NEW x \in [Chunk -> Value \cup {None}],
         NEW val2, val2 = Longer(val, Len(h), x)
  PROVE  Continues(h, g, kind, val, val2, x)
<1>1. Len(g) = Len(h) + 1
  BY DEF Extends
<1>2. \A m \in 0 .. Len(h) : val2[m] = val[m]
  BY DEF Longer
<1>3. val2 \in Vals(g)
  BY <1>1 DEF Longer, Vals
<1>4. val2[Len(g)] = x /\ val2[Len(g) - 1] = val[Len(h)]
  BY <1>1 DEF Longer
<1>5. Prolongs(h, kind, kind, val, val2, {}, None)
  BY <1>2 DEF Prolongs
<1> QED BY <1>3, <1>4, <1>5 DEF Continues

LEMMA ParseUpdateHist ==
  ASSUME IInv, StoreInv, HistInv, IInv', StoreInv',
         NEW t \in 0 .. MaxTime, NEW e \in ServerEid, NEW v \in Value,
         ParseUpdate(t, e, v), seen' = Append(seen, LiveView(world'))
  PROVE  HistInv'
<1> DEFINE c == ChunkAt(world, e)
           a == Action(t, "update", Invalid, e, world.value[c])
<1>1. /\ phase = "parsing" /\ phase' = "parsing" /\ EntityExists(world, e)
      /\ world' = SwapValue(world, e, v)
      /\ EmplaceNew(a)
      /\ nextIndex' = nextIndex
  BY DEF ParseUpdate, PacketAt
<1>2. /\ Stored /\ Placed /\ currIndex = Len(history)
      /\ world \in WorldType /\ Len(history) \in Nat /\ Lives(history)
      /\ Lives(history')
  BY <1>1, ParsingStore, StoreContext DEF StoreInv
<1>3. c \in Living(history, Len(history)) /\ Home(history)[c] = e
  BY <1>1, <1>2, ExistsAtHome
<1>4. c \in Chunk
  BY <1>3 DEF Living
<1>5. a \in ActionType /\ a.op = "update" /\ a.after = e /\ a.held = world.value[c]
  <2>1. world.value[c] \in Value \cup {None}
    BY <1>2, <1>4 DEF WorldType
  <2> QED BY <2>1, InvalidIsEid DEF Action, ActionType
<1>6. /\ world'.kind = world.kind
      /\ world'.value = [world.value EXCEPT ![c] = v]
  BY <1>1, <1>2, <1>4 DEF SwapValue, WorldType
<1> HIDE DEF a, c
<1>7. Extends(history, history', a) /\ currIndex' = Len(history')
  BY <1>1, <1>5, EmplacedExtends
<1> DEFINE n == Len(history')
<1>8. n \in Nat /\ n \in Steps(history') /\ history'[n] = a /\ n - 1 = Len(history)
  BY <1>2, <1>7, GrownSteps
<1> HIDE DEF n
<1>9. Living(history', n) = Living(history, Len(history))
  <2>1. Living(history', n) = Living(history', n - 1)
    BY <1>5, <1>8, UpdateLiving DEF n
  <2>2. Living(history', n - 1) = Living(history, Len(history))
    BY <1>2, <1>7, <1>8, GrownLiving
  <2> QED BY <2>1, <2>2
<1>10. \A x \in Living(history, Len(history)) : Home(history')[x] = Home(history)[x]
  <2>1. Len(history) \in 0 .. Len(history)
    BY <1>2
  <2> QED BY <1>2, <1>7, <2>1, HomesGrown
<1>11. NamedNow'
  <2>1. Named(world, Born, Living(history, Len(history)), Home(history))
    BY <1>2 DEF HistInv
  <2>2. Named(world', Born, Living(history, Len(history)), Home(history))
    BY <1>1, <1>2, <2>1, SwapValueNamed
  <2>3. Named(world', Born, Living(history, Len(history)), Home(history'))
    BY <1>10, <2>2, NamedSame
  <2>4. Born' = Born
    BY <1>1 DEF Born
  <2> QED BY <1>7, <1>9, <2>3, <2>4 DEF NamedNow, n
<1>12. PICK val \in Vals(history) :
         /\ Stored => world.value = val[currIndex]
         /\ Trail(history, currIndex, val)
         /\ Shows(history, world.kind, val, seen)
  BY DEF HistInv
<1>13. world.value = val[Len(history)] /\ Trail(history, Len(history), val)
  BY <1>2, <1>12
<1>14. world'.value \in [Chunk -> Value \cup {None}]
  BY <1>2, <1>6 DEF WorldType
<1> DEFINE val2 == Longer(val, Len(history), world'.value)
<1>15. /\ val2 \in Vals(history')
       /\ Prolongs(history, world.kind, world'.kind, val, val2, {}, None)
       /\ val2[n] = world'.value /\ val2[n - 1] = world.value
  <2>1. val2 = Longer(val, Len(history), world'.value)
    OBVIOUS
  <2> HIDE DEF val2
  <2>2. Continues(history, history', world.kind, val, val2, world'.value)
    BY <1>2, <1>7, <1>14, <2>1, LongerIs
  <2> QED BY <1>6, <1>13, <2>2 DEF n, Continues
<1> HIDE DEF val2
<1>16. LastStep(history', val2)
  <2>1. Home(history')[c] = e
    BY <1>3, <1>10
  <2>2. \A d \in Chunk \ {c} : val2[n][d] = val2[n - 1][d]
    BY <1>2, <1>6, <1>15 DEF WorldType
  <2> QED BY <1>3, <1>5, <1>8, <1>9, <1>15, <2>1, <2>2 DEF LastStep, n
<1>17. Stored'
  BY <1>1 DEF Stored
<1> QED BY <1>7, <1>11, <1>12, <1>13, <1>15, <1>16, <1>17, RecordedHist DEF n

\* A destroyed entity is parked where it was first allocated.
LEMMA StorageIs ==
  ASSUME IInv, phase = "parsing", NEW e \in ServerEid, EntityExists(world, e)
  PROVE  StorageOf(e) = Storage(ChunkAt(world, e))
<1>1. e[1] \in ServerIndex /\ e = <<e[1], e[2]>>
  BY ServerIsEid
<1>2. OwnsStorage(e[1])
  BY <1>1 DEF IInv, ParseInv, Ownership
<1>3. creationOf[e] # 0 /\ history[creationOf[e]].before = Storage(ChunkAt(world, e))
  BY <1>1, <1>2 DEF OwnsStorage, EntityExists, ChunkAt
<1> QED BY <1>3 DEF StorageOf

LEMMA ParseDestroyHist ==
  ASSUME IInv, StoreInv, HistInv, IInv', StoreInv',
         NEW t \in 0 .. MaxTime, NEW e \in ServerEid,
         ParseDestroy(t, e), seen' = Append(seen, LiveView(world'))
  PROVE  HistInv'
<1> DEFINE c == ChunkAt(world, e)
           a == Action(t, "destroy", Storage(c), e, None)
<1>1. /\ phase = "parsing" /\ phase' = "parsing" /\ EntityExists(world, e)
      /\ DestroyFault(e) = "none"
      /\ world' = Vanish(world, StorageOf(e), e)
      /\ EmplaceNew(Action(t, "destroy", StorageOf(e), e, None))
      /\ nextIndex' = nextIndex
  BY DEF ParseDestroy, PacketAt
<1>2. /\ Stored /\ Placed /\ NamedNow /\ currIndex = Len(history)
      /\ world \in WorldType /\ Len(history) \in Nat /\ Lives(history)
      /\ Lives(history')
  BY <1>1, ParsingStore, StoreContext DEF StoreInv, HistInv, NamedNow
<1>3. c \in Living(history, Len(history)) /\ Home(history)[c] = e
  BY <1>1, <1>2, ExistsAtHome
<1>4. c \in Chunk
  BY <1>3 DEF Living
<1>5. StorageOf(e) = Storage(c)
  BY <1>1, StorageIs
<1>6. a \in ActionType /\ a.op = "destroy" /\ a.after = e /\ a.before = Storage(c)
  BY <1>4, StorageIsEid DEF Action, ActionType
<1>7. EmplaceNew(a) /\ world' = Vanish(world, Storage(c), e)
  BY <1>1, <1>5
<1>8. VanishFault(world, e) = "none"
  BY <1>1 DEF DestroyFault
<1> HIDE DEF a, c
<1>9. /\ world'.value = world.value
      /\ Named(world', Born, Living(history, Len(history)) \ {c}, Home(history))
  BY <1>2, <1>3, <1>7, <1>8, VanishLive
<1>10. world'.kind = world.kind
  BY <1>2, <1>3, <1>7, <1>8, VanishStep
<1>11. Extends(history, history', a) /\ currIndex' = Len(history')
  BY <1>6, <1>7, EmplacedExtends
<1> DEFINE n == Len(history')
<1>12. n \in Nat /\ n \in Steps(history') /\ history'[n] = a /\ n - 1 = Len(history)
  BY <1>2, <1>11, GrownSteps
<1> HIDE DEF n
<1>13. Living(history', n) = Living(history, Len(history)) \ {c}
  <2>1. Destroys(history', n, c)
    BY <1>6, <1>12 DEF Destroys
  <2>2. Living(history', n) = Living(history', n - 1) \ {c}
    BY <1>2, <1>4, <1>12, <2>1, DestroyLiving DEF n
  <2>3. Living(history', n - 1) = Living(history, Len(history))
    BY <1>2, <1>11, <1>12, GrownLiving
  <2> QED BY <2>2, <2>3
<1>14. \A x \in Living(history, Len(history)) \ {c} : Home(history')[x] = Home(history)[x]
  <2>1. Len(history) \in 0 .. Len(history)
    BY <1>2
  <2> QED BY <1>2, <1>11, <2>1, HomesGrown
<1>15. NamedNow'
  <2>1. Named(world', Born, Living(history, Len(history)) \ {c}, Home(history'))
    BY <1>9, <1>14, NamedSame
  <2>2. Born' = Born
    BY <1>1 DEF Born
  <2> QED BY <1>11, <1>13, <2>1, <2>2 DEF NamedNow, n
<1>16. PICK val \in Vals(history) :
         /\ Stored => world.value = val[currIndex]
         /\ Trail(history, currIndex, val)
         /\ Shows(history, world.kind, val, seen)
  BY DEF HistInv
<1>17. world.value = val[Len(history)] /\ Trail(history, Len(history), val)
  BY <1>2, <1>16
<1>18. world'.value \in [Chunk -> Value \cup {None}]
  BY <1>2, <1>9 DEF WorldType
<1> DEFINE val2 == Longer(val, Len(history), world'.value)
<1>19. /\ val2 \in Vals(history')
       /\ Prolongs(history, world.kind, world'.kind, val, val2, {}, None)
       /\ val2[n] = world'.value /\ val2[n - 1] = world.value
  <2>1. val2 = Longer(val, Len(history), world'.value)
    OBVIOUS
  <2> HIDE DEF val2
  <2>2. Continues(history, history', world.kind, val, val2, world'.value)
    BY <1>2, <1>11, <1>18, <2>1, LongerIs
  <2> QED BY <1>10, <1>17, <2>2 DEF n, Continues
<1> HIDE DEF val2
<1>20. LastStep(history', val2)
  BY <1>6, <1>9, <1>12, <1>19 DEF LastStep, n
<1>21. Stored'
  BY <1>1 DEF Stored
<1> QED BY <1>11, <1>15, <1>16, <1>17, <1>19, <1>20, <1>21, RecordedHist DEF n

\* A chunk that nothing was said about before is given its kind and value, and its
\* value is read back into the past, where it lived nowhere.
Backdated(val, n, c, v) == [m \in 0 .. n + 1 |-> IF m <= n THEN [val[m] EXCEPT ![c] = v]
                                                 ELSE [val[n] EXCEPT ![c] = v]]

LEMMA BackdatedIs ==
  ASSUME NEW h, NEW g, NEW a, Len(h) \in Nat, Extends(h, g, a),
         NEW val \in Vals(h), NEW c \in Chunk, NEW v \in Value
  PROVE  LET val2 == Backdated(val, Len(h), c, v)
         IN  /\ val2 \in Vals(g)
             /\ val2[Len(g)] = [val[Len(h)] EXCEPT ![c] = v]
             /\ val2[Len(g) - 1] = val2[Len(g)]
<1> DEFINE val2 == Backdated(val, Len(h), c, v)
<1>1. Len(g) = Len(h) + 1
  BY DEF Extends
<1>2. \A m \in 0 .. Len(h) : val[m] \in [Chunk -> Value \cup {None}]
  BY DEF Vals
<1>3. val2 \in Vals(g)
  <2>1. \A m \in 0 .. Len(h) :
          [val[m] EXCEPT ![c] = v] \in [Chunk -> Value \cup {None}]
    BY <1>2
  <2>2. Len(h) \in 0 .. Len(h)
    OBVIOUS
  <2>3. \A m \in 0 .. Len(h) + 1 :
          (IF m <= Len(h) THEN [val[m] EXCEPT ![c] = v] ELSE [val[Len(h)] EXCEPT ![c] = v])
            \in [Chunk -> Value \cup {None}]
    BY <2>1, <2>2
  <2> QED BY <1>1, <2>3 DEF Backdated, Vals
<1>4. /\ val2[Len(g)] = [val[Len(h)] EXCEPT ![c] = v]
      /\ val2[Len(g) - 1] = val2[Len(g)]
  BY <1>1 DEF Backdated
<1> QED BY <1>3, <1>4

LEMMA BackdatedProlongs ==
  ASSUME NEW h, Len(h) \in Nat, NEW kind, NEW kind2,
         NEW val \in Vals(h), NEW c \in Chunk, NEW v \in Value,
         ~ \E k \in Steps(h) : Creates(h, k, c),
         \A d \in Chunk \ {c} : kind2[d] = kind[d]
  PROVE  Prolongs(h, kind, kind2, val, Backdated(val, Len(h), c, v), {c}, v)
<1> DEFINE val2 == Backdated(val, Len(h), c, v)
<1>1. \A m \in 0 .. Len(h) : val2[m] = [val[m] EXCEPT ![c] = v]
  BY DEF Backdated
<1>2. \A m \in 0 .. Len(h) : val[m] \in [Chunk -> Value \cup {None}]
  BY DEF Vals
<1> HIDE DEF val2
<1>3. \A m \in 0 .. Len(h) : Living(h, m) \cap {c} = {}
  BY DEF Living
<1>4. \A m \in 0 .. Len(h) : \A d \in Chunk :
        val2[m][d] = IF d \in {c} THEN v ELSE val[m][d]
  BY <1>1, <1>2
<1>5. Prolongs(h, kind, kind2, val, val2, {c}, v)
  BY <1>3, <1>4 DEF Prolongs
<1> QED BY <1>5 DEF val2

\* A chunk constructed at an index the server gave it, listed with its player.
Anew(w, e, k, v, c) ==
  OnCreated([w EXCEPT !.desc[e[1]] = [chunk |-> c, gen |-> e[2]],
                      !.kind[c] = k, !.eid[c] = e, !.value[c] = v], e)

LEMMA PlacedAnew ==
  ASSUME NEW w \in WorldType, NEW c \in Chunk, NEW e \in ServerEid, NEW k \in Kind,
         NEW v \in Value
  PROVE  LET n == Anew(w, e, k, v, c)
         IN  /\ n \in WorldType
             /\ n.desc[e[1]].chunk = c
             /\ n.kind = [w.kind EXCEPT ![c] = k]
             /\ n.value = [w.value EXCEPT ![c] = v]
             /\ n.currEid = w.currEid
<1> DEFINE p == [w EXCEPT !.desc[e[1]] = [chunk |-> c, gen |-> e[2]],
                          !.kind[c] = k, !.eid[c] = e, !.value[c] = v]
<1>1. e \in Eid /\ e[1] \in Index /\ e[2] \in Nat
  BY ServerIsEid, GenerationAssumption
<1>2. /\ p \in WorldType /\ ChunkAt(p, e) = c /\ p.desc[e[1]].chunk = c
      /\ p.kind = [w.kind EXCEPT ![c] = k]
      /\ p.value = [w.value EXCEPT ![c] = v]
      /\ p.currEid = w.currEid
  BY <1>1 DEF WorldType, ChunkAt
<1> HIDE DEF p
<1>3. /\ OnCreated(p, e) \in WorldType /\ OnCreated(p, e).desc = p.desc
      /\ OnCreated(p, e).kind = p.kind /\ OnCreated(p, e).value = p.value
      /\ OnCreated(p, e).currEid = p.currEid
  BY <1>2, CreatedType, CreatedFacts
<1> QED BY <1>2, <1>3 DEF Anew, p

LEMMA ParseCreateHist ==
  ASSUME IInv, StoreInv, HistInv, IInv', StoreInv',
         NEW t \in 0 .. MaxTime, NEW e \in ServerEid, NEW k \in Kind, NEW v \in Value,
         ParseCreate(t, e, k, v), seen' = Append(seen, LiveView(world'))
  PROVE  HistInv'
<1> DEFINE c == nextIndex
           a == Action(t, "create", Storage(c), e, None)
           w == Anew(world, e, k, v, c)
           alive == Living(history, Len(history))
<1>1. /\ phase = "parsing" /\ phase' = "parsing" /\ HistoryHasRoom
      /\ world' = OnCreatedBasic(w, e)
      /\ EmplaceNew(a)
      /\ nextIndex' = nextIndex + 1
  BY DEF ParseCreate, Created, Anew, PacketAt
<1>2. /\ Stored /\ Placed /\ NamedNow /\ currIndex = Len(history)
      /\ world \in WorldType /\ Len(history) \in Nat /\ Lives(history)
      /\ Born \in SUBSET Chunk /\ alive \in SUBSET Born
      /\ Lives(history') /\ Len(history) \in 0 .. Len(history)
  BY <1>1, ParsingStore, StoreContext DEF StoreInv, HistInv, NamedNow
<1>3. c \in Chunk /\ Chunk \subseteq Int /\ c \in Int
  <2>1. Len(history) < MaxActions /\ nextIndex <= Reserved + 1 + Len(history)
    BY <1>1 DEF IInv, RoomLeft, HistoryHasRoom
  <2>2. nextIndex \in (Reserved + 1) .. (Reserved + MaxActions + 1)
    BY DEF IInv, TypeOK
  <2> QED BY <1>2, <2>1, <2>2, BoundsAssumption, CountersAreIntegers DEF IInv, Chunk
<1> HIDE DEF w
<1>4. c \notin Born /\ Born' = Born \cup {c}
  <2>1. nextIndex' = nextIndex + 1
    BY <1>1
  <2>2. \A x \in Chunk : x < nextIndex + 1 <=> x < nextIndex \/ x = c
    BY <1>3
  <2>3. c \notin Born
    BY <1>3 DEF Born
  <2>4. \A x : x \in Born' <=> x \in Born \/ x = c
    BY <1>3, <2>1, <2>2 DEF Born
  <2> QED BY <2>3, <2>4
<1>5. /\ e \in Eid /\ e[1] \in ServerIndex /\ e[1] \in Index /\ e[2] \in Nat
  BY ServerIsEid, GenerationAssumption
<1>6. /\ w \in WorldType
      /\ w.desc[e[1]].chunk = c
      /\ w.kind = [world.kind EXCEPT ![c] = k]
      /\ w.value = [world.value EXCEPT ![c] = v]
      /\ w.currEid = world.currEid
  BY <1>2, <1>3, PlacedAnew DEF w
<1>7. ChunkAt(w, e) = c
  BY <1>6 DEF ChunkAt
<1>8. /\ world'.kind = w.kind /\ world'.value = w.value
      /\ world'.currEid = IF Titled(w.kind[c]) THEN [w.currEid EXCEPT ![c] = e]
                          ELSE w.currEid
  <2>1. ChunkAt(w, e) \in Chunk
    BY <1>3, <1>7
  <2>2. world'.kind = w.kind
    BY <1>1, <1>5, <1>6, <2>1, CreatedBasicFacts
  <2>3. /\ world'.value = w.value
        /\ world'.currEid = IF Titled(w.kind[c]) THEN [w.currEid EXCEPT ![c] = e]
                            ELSE w.currEid
    <3>1. LET u == OnCreatedBasic(w, e)
              d == ChunkAt(w, e)
          IN  /\ u.value = w.value
              /\ u.currEid = IF Titled(w.kind[d]) THEN [w.currEid EXCEPT ![d] = e]
                             ELSE w.currEid
      BY <1>5, <1>6, <2>1, CreatedBasicKeeps
    <3> QED BY <1>1, <1>7, <3>1
  <2> QED BY <2>2, <2>3
<1>9. a \in ActionType /\ a.op = "create" /\ a.after = e /\ a.before = Storage(c)
  BY <1>3, StorageIsEid DEF Action, ActionType
<1>10. \A l \in Steps(history) : ~Creates(history, l, c)
  BY <1>3, <1>4 DEF StoreInv, AllBorn
<1>11. Named(world, Born, alive, Home(history))
  BY <1>2 DEF NamedNow
<1> HIDE DEF a, c
<1>12. Extends(history, history', a) /\ currIndex' = Len(history')
  BY <1>1, <1>9, EmplacedExtends
<1> DEFINE n == Len(history')
<1>13. n \in Nat /\ n \in Steps(history') /\ history'[n] = a /\ n - 1 = Len(history)
  BY <1>2, <1>12, GrownSteps
<1> HIDE DEF n
<1>14. Creates(history', n, c)
  BY <1>9, <1>13 DEF Creates
<1>15. Living(history', n) = alive \cup {c}
  <2>1. Living(history', n) = Living(history', n - 1) \cup {c}
    BY <1>2, <1>3, <1>13, <1>14, CreateLiving DEF n
  <2>2. Living(history', n - 1) = alive
    BY <1>2, <1>12, <1>13, GrownLiving
  <2> QED BY <2>1, <2>2
<1>16. Home(history')[c] = e
  BY <1>2, <1>3, <1>9, <1>13, <1>14, HomeIs DEF Lives
<1>17. \A x \in alive : Home(history')[x] = Home(history)[x]
  BY <1>2, <1>12, HomesGrown
<1> HIDE DEF alive
<1>18. NamedNow'
  <2>1. c \notin alive
    BY <1>2, <1>4
  <2>2. world.currEid \in [Chunk -> Eid] /\ world.kind \in [Chunk -> Kind \cup {NoKind}]
    BY <1>2 DEF WorldType
  <2>3. \A x \in alive \cup {c} :
          Titled(world'.kind[x]) => world'.currEid[x] = Home(history')[x]
    <3> SUFFICES ASSUME NEW x \in alive \cup {c}, Titled(world'.kind[x])
                 PROVE  world'.currEid[x] = Home(history')[x]
      OBVIOUS
    <3>1. CASE x = c
      BY <1>3, <1>6, <1>8, <1>16, <2>2, <3>1
    <3>2. CASE x # c
      <4>1. x \in alive /\ x \in Chunk
        BY <1>2, <3>2
      <4>2. world'.kind[x] = world.kind[x] /\ world'.currEid[x] = world.currEid[x]
        BY <1>6, <1>8, <2>2, <3>2, <4>1
      <4>3. world.currEid[x] = Home(history)[x]
        BY <1>11, <4>1, <4>2 DEF Named
      <4> QED BY <1>17, <4>1, <4>2, <4>3
    <3> QED BY <3>1, <3>2
  <2>4. \A x \in Chunk : x \notin Born \cup {c} \/ ~Titled(world'.kind[x])
          => world'.currEid[x] = Invalid
    <3> SUFFICES ASSUME NEW x \in Chunk, x \notin Born \cup {c} \/ ~Titled(world'.kind[x])
                 PROVE  world'.currEid[x] = Invalid
      OBVIOUS
    <3>1. CASE x = c
      <4>1. ~Titled(w.kind[c])
        BY <1>8, <3>1
      <4> QED BY <1>4, <1>6, <1>8, <1>11, <3>1, <4>1 DEF Named
    <3>2. CASE x # c
      <4>1. world'.kind[x] = world.kind[x] /\ world'.currEid[x] = world.currEid[x]
        BY <1>6, <1>8, <2>2, <3>2
      <4> QED BY <1>11, <3>2, <4>1 DEF Named
    <3> QED BY <3>1, <3>2
  <2>5. Named(world', Born \cup {c}, alive \cup {c}, Home(history'))
    BY <2>3, <2>4 DEF Named
  <2> QED BY <1>4, <1>12, <1>15, <2>5 DEF NamedNow, n
<1>19. PICK val \in Vals(history) :
         /\ Stored => world.value = val[currIndex]
         /\ Trail(history, currIndex, val)
         /\ Shows(history, world.kind, val, seen)
  BY DEF HistInv
<1>20. world.value = val[Len(history)] /\ Trail(history, Len(history), val)
  BY <1>2, <1>19
<1>21. \A d \in Chunk \ {c} : world'.kind[d] = world.kind[d]
  BY <1>2, <1>6, <1>8 DEF WorldType
<1> DEFINE val2 == Backdated(val, Len(history), c, v)
<1>22. /\ val2 \in Vals(history')
       /\ Prolongs(history, world.kind, world'.kind, val, val2, {c}, v)
       /\ val2[n] = world'.value
       /\ val2[n - 1] = val2[n]
  <2>1. /\ val2 \in Vals(history')
        /\ val2[Len(history')] = [val[Len(history)] EXCEPT ![c] = v]
        /\ val2[Len(history') - 1] = val2[Len(history')]
    BY <1>2, <1>3, <1>12, BackdatedIs
  <2>2. Prolongs(history, world.kind, world'.kind, val, val2, {c}, v)
    BY <1>2, <1>3, <1>10, <1>21, BackdatedProlongs
  <2> HIDE DEF val2
  <2> QED BY <1>6, <1>8, <1>20, <2>1, <2>2 DEF n
<1> HIDE DEF val2
<1>23. LastStep(history', val2)
  BY <1>9, <1>13, <1>22 DEF LastStep, n
<1>24. Stored'
  BY <1>1 DEF Stored
<1> QED BY <1>12, <1>18, <1>19, <1>20, <1>22, <1>23, <1>24, RecordedHist DEF n

-----------------------------------------------------------------------------
(* Steps that leave the history alone *)

LEMMA HistKept ==
  ASSUME HistInv, Stored' => Stored /\ world' = world,
         world'.kind = world.kind, UNCHANGED <<history, currIndex, nextIndex, seen>>
  PROVE  HistInv'
<1>1. PICK val \in Vals(history) :
         /\ Stored => world.value = val[currIndex]
         /\ Trail(history, currIndex, val)
         /\ Shows(history, world.kind, val, seen)
  BY DEF HistInv
<1>2. Born' = Born
  BY DEF Born
<1>3. Stored' => Named(world', Born', Living(history', currIndex'), Home(history'))
  BY <1>2 DEF HistInv
<1>4. /\ Stored' => world'.value = val[currIndex']
      /\ Trail(history', currIndex', val)
      /\ Shows(history', world'.kind, val, seen')
  BY <1>1
<1> QED BY <1>3, <1>4 DEF HistInv

LEMMA TearDownKind ==
  ASSUME IInv, NEW i \in Index, TearDown(i)
  PROVE  world'.kind = world.kind
<1> DEFINE c == world.desc[i].chunk
           e == <<i, world.desc[i].gen>>
           w == TearEvent(i)
<1>1. Occupied(i) /\ (fault' # "none" => world' = world)
      /\ (fault' = "none"
            => world' = [w EXCEPT !.eid[c] = Invalid, !.desc[i] = FreedDesc(@)])
  BY DEF TearDown
<1>2. world \in WorldType /\ c \in Chunk
  BY <1>1 DEF IInv, TypeOK, Occupied, WorldType
<1>3. w \in WorldType /\ w.kind = world.kind
  <2>1. CASE i \in basicDestroyed
    BY <1>2, <2>1 DEF TearEvent
  <2>2. CASE i \notin basicDestroyed
    <3>1. ChunkAt(world, e) = c
      BY DEF ChunkAt
    <3>2. w = OnDestroyedBasic(world, e, Invalid)
      BY <2>2 DEF TearEvent
    <3> HIDE DEF e, c, w
    <3> QED BY <1>2, <3>1, <3>2, InvalidIsEid, DestroyedBasicFacts, DestroyedBasicType
  <2> QED BY <2>1, <2>2
<1> HIDE DEF w, c
<1> QED BY <1>1, <1>3 DEF WorldType

LEMMA QuietSteps ==
  ASSUME IInv, HistInv,
         \/ \E t \in 0 .. MaxTime :
              \/ ParseOther(t) \/ ParseEnd(t)
              \/ \E e \in ServerEid : ParseDestroyThrows(t, e)
         \/ \E t \in Seconds : RewindTo(t)
         \/ StepThrows \/ SeekReturnThrows \/ FinishSeek
         \/ BeginShutdown \/ TornDown
         \/ \E i \in Index : PassEmpty(i)
         \/ UNCHANGED vars
  PROVE  /\ UNCHANGED history
         /\ UNCHANGED seen => HistInv'
<1>1. Stored' => Stored
  BY DEF ParseOther, ParseEnd, ParseDestroyThrows, RewindTo, StepThrows, SeekReturnThrows,
         FinishSeek, BeginShutdown, TornDown, PassEmpty, Visiting, PacketAt, Stored, vars
<1>2. UNCHANGED <<world, history, nextIndex>>
  BY DEF ParseOther, ParseEnd, ParseDestroyThrows, RewindTo, StepThrows, SeekReturnThrows,
         FinishSeek, BeginShutdown, TornDown, PassEmpty, Visiting, PacketAt, BeginSeek, vars
<1>3. currIndex' = currIndex
  <2>1. CASE \E t \in Seconds : RewindTo(t)
    BY <2>1, BeginSeekInv DEF RewindTo
  <2>2. CASE BeginShutdown
    <3>1. EndOfTime \in Seconds
      BY BoundsAssumption DEF Seconds, EndOfTime
    <3>2. CASE phase = "ready" /\ rewindTime # EndOfTime
      BY <2>2, <3>1, <3>2, BeginSeekInv DEF BeginShutdown
    <3>3. CASE ~(phase = "ready" /\ rewindTime # EndOfTime)
      BY <2>2, <3>3 DEF BeginShutdown
    <3> QED BY <3>2, <3>3
  <2>3. CASE \/ \E t \in 0 .. MaxTime :
                  \/ ParseOther(t) \/ ParseEnd(t)
                  \/ \E e \in ServerEid : ParseDestroyThrows(t, e)
             \/ StepThrows \/ SeekReturnThrows \/ FinishSeek \/ TornDown
             \/ \E i \in Index : PassEmpty(i)
             \/ UNCHANGED vars
    BY <2>3 DEF ParseOther, ParseEnd, ParseDestroyThrows, StepThrows, SeekReturnThrows,
                FinishSeek, TornDown, PassEmpty, Visiting, PacketAt, vars
  <2> QED BY <2>1, <2>2, <2>3
<1>4. UNCHANGED seen => HistInv'
  BY <1>1, <1>2, <1>3, HistKept
<1> QED BY <1>2, <1>4

-----------------------------------------------------------------------------
(* Theorems *)

LEMMA InitHist ==
  ASSUME HistoryInit
  PROVE  HistInv
<1>1. IInv /\ StoreInv
  BY InitInv, InitStore DEF HistoryInit
<1>2. /\ world = EmptyWorld /\ history = << >> /\ currIndex = 0 /\ nextIndex = Reserved + 1
      /\ phase = "parsing" /\ seen = <<LiveView(world)>>
  BY DEF HistoryInit, Init
<1>3. Stored /\ Born = {} /\ world \in WorldType /\ Len(history) = 0
  <2>1. Born = {}
    BY <1>2, BoundsAssumption DEF Born, Chunk
  <2> QED BY <1>1, <1>2, <2>1, StoreContext DEF Stored
<1>4. Living(history, 0) = {} /\ Steps(history) = {}
  BY <1>3 DEF Living, Steps
<1>5. NamedNow
  BY <1>2, <1>3, <1>4 DEF NamedNow, Named, EmptyWorld
<1>6. LiveView(world) = ViewOf(Living(history, 0), Home(history), world.kind, world.value)
  BY <1>1, <1>2, <1>3, <1>5, ShownIs
<1> DEFINE val == [n \in 0 .. 0 |-> world.value]
<1>7. val \in Vals(history)
  BY <1>3 DEF Vals, WorldType
<1>8. world.value = val[currIndex]
  BY <1>2
<1>9. Trail(history, currIndex, val)
  BY <1>4 DEF Trail
<1>10. Shows(history, world.kind, val, seen)
  <2>1. [n \in 1 .. Len(history) + 1 |->
           ViewOf(Living(history, n - 1), Home(history), world.kind, val[n - 1])]
          = [n \in 1 .. 1 |-> LiveView(world)]
    <3>1. Len(history) + 1 = 1
      BY <1>3
    <3>2. \A n \in 1 .. 1 :
            ViewOf(Living(history, n - 1), Home(history), world.kind, val[n - 1])
              = LiveView(world)
      BY <1>6
    <3> QED BY <3>1, <3>2
  <2>2. seen = [n \in 1 .. 1 |-> LiveView(world)]
    BY <1>2
  <2> QED BY <2>1, <2>2 DEF Shows
<1> HIDE DEF val
<1> QED BY <1>5, <1>7, <1>8, <1>9, <1>10 DEF HistInv, NamedNow

\* A run with a memory is a run.
LEMMA HistoryRuns == HistorySpec => Spec
<1>1. HistoryInit => Init
  BY DEF HistoryInit
<1>2. [HistoryNext]_<<vars, seen>> => [Next]_vars
  BY DEF HistoryNext
<1> QED BY <1>1, <1>2, PTL DEF HistorySpec, Spec

\* The values live, the values held by the actions of the history and the states seen
\* while parsing are those of one run of the actions, at every step of every rewind:
\* an update action holds the value that is not live, so that undoing and redoing it
\* are inverse to each other (CompReplAction of rewind.h, EntityManager.cpp:66-87).
THEOREM HistoryRemembered == HistorySpec => []HistInv
<1>1. HistoryInit => HistInv
  BY InitHist
<1>2. /\ IInv /\ IInv' /\ StoreInv /\ StoreInv' /\ HistInv
      /\ [HistoryNext]_<<vars, seen>>
      => HistInv'
  <2> SUFFICES ASSUME IInv, IInv', StoreInv, StoreInv', HistInv,
                      [HistoryNext]_<<vars, seen>>
               PROVE  HistInv'
    OBVIOUS
  <2>1. [Next]_vars
    BY DEF HistoryNext
  <2>2. Len(history') = Len(history) => seen' = seen
    <3>1. Len(history) \in Nat
      BY StoreContext
    <3> QED BY <3>1 DEF HistoryNext
  <2>3. Len(history') = Len(history) + 1 => seen' = Append(seen, LiveView(world'))
    <3>1. Len(history) \in Nat
      BY StoreContext
    <3>2. CASE UNCHANGED <<vars, seen>>
      BY <3>1, <3>2 DEF vars
    <3> QED BY <3>1, <3>2 DEF HistoryNext
  <2>4. ASSUME NEW t \in 0 .. MaxTime, NEW e \in ServerEid, NEW k \in Kind,
               NEW v \in Value, ParseCreate(t, e, k, v)
        PROVE  HistInv'
    <3>1. history' = Append(history, Action(t, "create", Storage(nextIndex), e, None))
      BY <2>4 DEF ParseCreate, EmplaceNew
    <3>2. Len(history') = Len(history) + 1
      BY <3>1, StoreContext
    <3> QED BY <2>3, <2>4, <3>2, ParseCreateHist
  <2>5. ASSUME NEW t \in 0 .. MaxTime, NEW e \in ServerEid, ParseDestroy(t, e)
        PROVE  HistInv'
    <3>1. history' = Append(history, Action(t, "destroy", StorageOf(e), e, None))
      BY <2>5 DEF ParseDestroy, EmplaceNew
    <3>2. Len(history') = Len(history) + 1
      BY <3>1, StoreContext
    <3> QED BY <2>3, <2>5, <3>2, ParseDestroyHist
  <2>6. ASSUME NEW t \in 0 .. MaxTime, NEW e \in ServerEid, NEW v \in Value,
               ParseUpdate(t, e, v)
        PROVE  HistInv'
    <3>1. history' = Append(history, Action(t, "update", Invalid, e,
                                            world.value[ChunkAt(world, e)]))
      BY <2>6 DEF ParseUpdate, EmplaceNew
    <3>2. Len(history') = Len(history) + 1
      BY <3>1, StoreContext
    <3> QED BY <2>3, <2>6, <3>2, ParseUpdateHist
  <2>7. CASE Parse
    <3>1. PICK t \in 0 .. MaxTime :
            \/ \E e \in ServerEid :
                 \/ \E k \in Kind, v \in Value : ParseCreate(t, e, k, v)
                 \/ ParseDestroy(t, e)
                 \/ \E v \in Value : ParseUpdate(t, e, v)
                 \/ ParseDestroyThrows(t, e)
            \/ ParseOther(t)
            \/ ParseEnd(t)
      BY <2>7 DEF Parse
    <3>2. CASE \/ ParseOther(t) \/ ParseEnd(t)
               \/ \E e \in ServerEid : ParseDestroyThrows(t, e)
      BY <2>2, <3>2, QuietSteps
    <3> QED BY <2>4, <2>5, <2>6, <3>1, <3>2
  <2>8. CASE StepBackward
    <3>1. Len(history') = Len(history)
      BY <2>8, StoreContext DEF StepBackward
    <3> QED BY <2>2, <2>8, <3>1, StepBackwardHist
  <2>9. CASE StepForward
    <3>1. Len(history') = Len(history)
      BY <2>9, StoreContext DEF StepForward
    <3> QED BY <2>2, <2>9, <3>1, StepForwardHist
  <2>10. CASE \/ \E t \in Seconds : RewindTo(t)
              \/ StepThrows \/ SeekReturnThrows \/ FinishSeek
              \/ BeginShutdown \/ TornDown
              \/ \E i \in Index : PassEmpty(i)
              \/ UNCHANGED vars
    BY <2>2, <2>10, QuietSteps
  <2>11. ASSUME NEW i \in Index, TearDown(i)
         PROVE  HistInv'
    <3>1. UNCHANGED <<history, currIndex, nextIndex>> /\ ~Stored'
      BY <2>11 DEF TearDown, Visiting, Stored
    <3>2. world'.kind = world.kind
      BY <2>11, TearDownKind
    <3> QED BY <2>2, <3>1, <3>2, HistKept
  <2> QED BY <2>1, <2>7, <2>8, <2>9, <2>10, <2>11 DEF Next, Seek, Seconds
<1> QED BY <1>1, <1>2, HistoryRuns, InductiveInvariant, StoreInvariant, PTL DEF HistorySpec

LEMMA ReplayedIs ==
  IInv /\ StoreInv /\ HistInv /\ Stored
    => /\ LiveView(world) = seen[currIndex + 1]
       /\ currIndex \in 0 .. Len(history)
<1> SUFFICES ASSUME IInv, StoreInv, HistInv, Stored
             PROVE  LiveView(world) = seen[currIndex + 1] /\ currIndex \in 0 .. Len(history)
  OBVIOUS
<1>1. PICK val \in Vals(history) :
         /\ Stored => world.value = val[currIndex]
         /\ Trail(history, currIndex, val)
         /\ Shows(history, world.kind, val, seen)
  BY DEF HistInv
<1>2. currIndex \in 0 .. Len(history) /\ Len(history) \in Nat
  BY StoreContext
<1>3. currIndex + 1 \in 1 .. Len(history) + 1 /\ (currIndex + 1) - 1 = currIndex
  BY <1>2
<1>4. seen[currIndex + 1]
        = ViewOf(Living(history, currIndex), Home(history), world.kind, val[currIndex])
  BY <1>1, <1>3 DEF Shows
<1>5. NamedNow
  BY DEF HistInv, NamedNow
<1> QED BY <1>1, <1>2, <1>4, <1>5, ShownIs

\* What is shown after any sequence of seeks is what was shown when the same actions
\* were parsed: undoing and redoing are inverse to each other
\* (RewindMgr.h:66-83, EntityManager.cpp:15-87).
THEOREM ReplayExact == HistorySpec => []StateIsReplayed
<1>1. IInv /\ StoreInv /\ HistInv => StateIsReplayed
  BY ReplayedIs DEF StateIsReplayed, Quiet, Stored
<1> QED BY <1>1, HistoryRuns, InductiveInvariant, StoreInvariant, HistoryRemembered, PTL

-----------------------------------------------------------------------------
(* A uid belongs to one entity at a time, at every point of the history *)

UidsUnique ==
  \A n \in 0 .. Len(history) : \A c, d \in Living(history, n) :
    /\ Registered(world.kind[c]) /\ Registered(world.kind[d])
    /\ world.kind[c].uid = world.kind[d].uid
    => c = d

LEMMA UniqueKept ==
  ASSUME UidsUnique, world'.kind = world.kind,
         \A n \in 0 .. Len(history') :
           \E m \in 0 .. Len(history) : Living(history', n) \subseteq Living(history, m)
  PROVE  UidsUnique'
<1> SUFFICES ASSUME NEW n \in 0 .. Len(history'),
                    NEW c \in Living(history', n), NEW d \in Living(history', n),
                    Registered(world'.kind[c]), Registered(world'.kind[d]),
                    world'.kind[c].uid = world'.kind[d].uid
             PROVE  c = d
  BY DEF UidsUnique
<1>1. PICK m \in 0 .. Len(history) : Living(history', n) \subseteq Living(history, m)
  OBVIOUS
<1>2. c \in Living(history, m) /\ d \in Living(history, m)
  BY <1>1
<1> QED BY <1>2 DEF UidsUnique

\* A chunk that lives under a uid is the one the uid resolves to.
LEMMA UidTaken ==
  ASSUME IInv, StoreInv, Placed, NEW c \in Living(history, currIndex),
         Registered(world.kind[c])
  PROVE  world.uidEid[world.kind[c].uid] # Invalid
<1> DEFINE e == Home(history)[c]
           u == world.kind[c].uid
<1>1. /\ world \in WorldType /\ c \in Born /\ c \in Chunk /\ e \in ServerEid
  BY StoreContext DEF Born
<1>2. AtServer(world, c, e)
  BY <1>1 DEF Placed, PlacedIn
<1>3. e[1] \in ServerIndex /\ e = <<e[1], e[2]>>
  BY <1>1, ServerIsEid
<1>4. u \in Uid
  BY <1>1, KindType DEF Registered
<1>5. world.desc[e[1]].chunk = c /\ c # None
  BY <1>1, <1>2, SentinelAssumption DEF AtServer
<1> HIDE DEF e
<1>6. world.uidEid[u] = <<e[1], world.desc[e[1]].gen>>
  BY <1>3, <1>4, <1>5 DEF StoreInv, Resolves, Registered
<1>7. e[1] # 0
  BY <1>3 DEF ServerIndex
<1> QED BY <1>6, <1>7 DEF Invalid

LEMMA CreateUnique ==
  ASSUME IInv, StoreInv, IInv', StoreInv', UidsUnique,
         NEW t \in 0 .. MaxTime, NEW e \in ServerEid, NEW k \in Kind, NEW v \in Value,
         ParseCreate(t, e, k, v)
  PROVE  UidsUnique'
<1> DEFINE c == nextIndex
           a == Action(t, "create", Storage(c), e, None)
           w == Anew(world, e, k, v, c)
           alive == Living(history, Len(history))
<1>1. /\ phase = "parsing" /\ HistoryHasRoom /\ ServerKeepsUidsUnique(k)
      /\ world' = OnCreatedBasic(w, e)
      /\ EmplaceNew(a)
  BY DEF ParseCreate, Created, Anew, PacketAt
<1>2. /\ Placed /\ currIndex = Len(history)
      /\ world \in WorldType /\ Len(history) \in Nat /\ Lives(history)
      /\ Lives(history') /\ \A n : Living(history, n) \subseteq Born
  BY <1>1, ParsingStore, StoreContext DEF StoreInv
<1>3. c \in Chunk /\ c \in Int
  <2>1. Len(history) < MaxActions /\ nextIndex <= Reserved + 1 + Len(history)
    BY <1>1 DEF IInv, RoomLeft, HistoryHasRoom
  <2>2. nextIndex \in (Reserved + 1) .. (Reserved + MaxActions + 1)
    BY DEF IInv, TypeOK
  <2> QED BY <1>2, <2>1, <2>2, BoundsAssumption, CountersAreIntegers DEF IInv, Chunk
<1>4. c \notin Born
  BY <1>3 DEF Born
<1>5. /\ w \in WorldType /\ w.kind = [world.kind EXCEPT ![c] = k]
      /\ w.desc[e[1]].chunk = c /\ e \in Eid
  <2>1. e \in Eid
    BY ServerIsEid
  <2>2. /\ w \in WorldType
        /\ w.desc[e[1]].chunk = c
        /\ w.kind = [world.kind EXCEPT ![c] = k]
        /\ w.value = [world.value EXCEPT ![c] = v]
        /\ w.currEid = world.currEid
    BY <1>2, <1>3, PlacedAnew
  <2> QED BY <2>1, <2>2
<1> HIDE DEF w
<1>6. world'.kind = [world.kind EXCEPT ![c] = k]
  <2>1. ChunkAt(w, e) = c
    BY <1>5 DEF ChunkAt
  <2> QED BY <1>1, <1>3, <1>5, <2>1, CreatedBasicFacts
<1>7. a \in ActionType /\ a.op = "create" /\ a.before = Storage(c)
  BY <1>3, StorageIsEid DEF Action, ActionType
<1> HIDE DEF a, c
<1>8. Extends(history, history', a)
  BY <1>1, <1>7, EmplacedExtends
<1> DEFINE n == Len(history')
<1>9. n \in Nat /\ n \in Steps(history') /\ history'[n] = a /\ n - 1 = Len(history)
  BY <1>2, <1>8, GrownSteps
<1> HIDE DEF n
<1>10. Living(history', n) = alive \cup {c}
  <2>1. Creates(history', n, c)
    BY <1>7, <1>9 DEF Creates
  <2>2. Living(history', n) = Living(history', n - 1) \cup {c}
    BY <1>2, <1>3, <1>9, <2>1, CreateLiving DEF n
  <2>3. Living(history', n - 1) = alive
    BY <1>2, <1>8, <1>9, GrownLiving
  <2> QED BY <2>2, <2>3
<1>11. \A x \in Born : x \in Chunk /\ world'.kind[x] = world.kind[x] /\ x # c
  BY <1>2, <1>4, <1>6 DEF WorldType, Born
<1>12. world'.kind[c] = k
  BY <1>2, <1>3, <1>6 DEF WorldType
<1>13. ASSUME NEW d \in alive, Registered(world'.kind[d]), Registered(k),
              world'.kind[d].uid = k.uid
       PROVE  FALSE
  <2>1. d \in Born /\ world'.kind[d] = world.kind[d] /\ d \in Living(history, currIndex)
    BY <1>2, <1>11
  <2>2. world.uidEid[k.uid] # Invalid
    BY <1>2, <1>13, <2>1, UidTaken
  <2> QED BY <1>1, <1>13, <2>2 DEF ServerKeepsUidsUnique, Registered, UnitEid
<1>14. ASSUME NEW m \in 0 .. Len(history'), NEW x \in Living(history', m),
              NEW y \in Living(history', m),
              Registered(world'.kind[x]), Registered(world'.kind[y]),
              world'.kind[x].uid = world'.kind[y].uid
       PROVE  x = y
  <2>1. CASE m = n
    <3>1. CASE x = c /\ y # c
      BY <1>10, <1>12, <1>13, <1>14, <2>1, <3>1
    <3>2. CASE x # c /\ y = c
      BY <1>10, <1>12, <1>13, <1>14, <2>1, <3>2
    <3>3. CASE x # c /\ y # c
      <4>1. x \in alive /\ y \in alive /\ x \in Born /\ y \in Born
        BY <1>2, <1>10, <2>1, <3>3
      <4>2. Len(history) \in 0 .. Len(history)
        BY <1>2
      <4> QED BY <1>11, <1>14, <4>1, <4>2 DEF UidsUnique
    <3> QED BY <3>1, <3>2, <3>3
  <2>2. CASE m # n
    <3>1. m \in 0 .. Len(history)
      BY <1>2, <1>9, <2>2 DEF n
    <3>2. Living(history', m) = Living(history, m)
      BY <1>2, <1>8, <3>1, GrownLiving
    <3>3. x \in Living(history, m) /\ y \in Living(history, m) /\ x \in Born /\ y \in Born
      BY <1>2, <3>2
    <3> QED BY <1>11, <1>14, <3>1, <3>3 DEF UidsUnique
  <2> QED BY <2>1, <2>2
<1> QED BY <1>14 DEF UidsUnique

\* A recorded destruction or update leaves no new chunk alive.
LEMMA RecordUnique ==
  ASSUME IInv, StoreInv, StoreInv', UidsUnique, phase = "parsing",
         NEW a \in ActionType, EmplaceNew(a), a.op # "create", world'.kind = world.kind
  PROVE  UidsUnique'
<1>1. Len(history) \in Nat /\ Lives(history) /\ Lives(history')
  BY StoreContext DEF StoreInv
<1>2. Extends(history, history', a)
  BY EmplacedExtends
<1> DEFINE n == Len(history')
<1>3. n \in Nat /\ n \in Steps(history') /\ history'[n] = a /\ n - 1 = Len(history)
  BY <1>1, <1>2, GrownSteps
<1> HIDE DEF n
<1>4. Living(history', n - 1) = Living(history, Len(history))
  BY <1>1, <1>2, <1>3, GrownLiving
<1>5. Living(history', n) \subseteq Living(history', n - 1)
  <2>1. \A c : ~Creates(history', n, c)
    BY <1>3 DEF Creates
  <2>2. \A k \in Steps(history') : k <= n => k = n \/ k <= n - 1
    BY <1>3 DEF Steps
  <2>3. \A k \in Steps(history') : k <= n - 1 => k <= n
    BY <1>3 DEF Steps
  <2> QED BY <2>1, <2>2, <2>3 DEF Living
<1>6. \A m \in 0 .. Len(history') :
        \E l \in 0 .. Len(history) : Living(history', m) \subseteq Living(history, l)
  <2> SUFFICES ASSUME NEW m \in 0 .. Len(history')
               PROVE  \E l \in 0 .. Len(history) : Living(history', m) \subseteq Living(history, l)
    OBVIOUS
  <2>1. CASE m = n
    BY <1>1, <1>4, <1>5, <2>1
  <2>2. CASE m # n
    <3>1. m \in 0 .. Len(history)
      BY <1>1, <1>3, <2>2 DEF n
    <3> QED BY <1>1, <1>2, <3>1, GrownLiving
  <2> QED BY <2>1, <2>2
<1> QED BY <1>6, UniqueKept

LEMMA StepUnique ==
  ASSUME IInv, StoreInv, UidsUnique, StepBackward \/ StepForward
  PROVE  UidsUnique'
<1>1. Stored /\ Placed
  BY DEF StepBackward, StepForward, StoreInv, AtTheEnd
<1>2. SameRecord(history, history') /\ world'.kind = world.kind
  <2>1. CASE StepBackward
    <3>1. /\ UndoFault(world, history[currIndex]) = "none"
          /\ world' = Undone(world, history[currIndex])
          /\ history' = [history EXCEPT ![currIndex] =
                           Flipped(world, history[currIndex], "rewind")]
      BY <2>1 DEF StepBackward
    <3>2. currIndex \in Steps(history)
      BY <2>1, StoreContext DEF StepBackward, MustUndo, Steps
    <3> QED BY <1>1, <3>1, <3>2, UndoSound, FlippedRecord
  <2>2. CASE StepForward
    <3> DEFINE n == currIndex + 1
    <3>1. /\ RedoFault(world, history[n]) = "none"
          /\ world' = Redone(world, history[n])
          /\ history' = [history EXCEPT ![n] = Flipped(world, history[n], "fastforward")]
      BY <2>2 DEF StepForward
    <3>2. n \in Steps(history) /\ currIndex = n - 1
      BY <2>2, StoreContext DEF StepForward, MustRedo, Steps
    <3> HIDE DEF n
    <3> QED BY <1>1, <3>1, <3>2, RedoSound, FlippedRecord
  <2> QED BY <2>1, <2>2
<1>3. \A m \in 0 .. Len(history') :
        m \in 0 .. Len(history) /\ Living(history', m) = Living(history, m)
  BY <1>2, SameLiving DEF SameRecord
<1> QED BY <1>2, <1>3, UniqueKept

\* A uid names one living entity, at every point of the history.
LEMMA UniqueInvariant == Spec => []UidsUnique
<1>1. Init => UidsUnique
  BY DEF Init, UidsUnique, Living, Steps
<1>2. IInv /\ IInv' /\ StoreInv /\ StoreInv' /\ UidsUnique /\ [Next]_vars => UidsUnique'
  <2> SUFFICES ASSUME IInv, IInv', StoreInv, StoreInv', UidsUnique, [Next]_vars
               PROVE  UidsUnique'
    OBVIOUS
  <2>1. ASSUME UNCHANGED history, world'.kind = world.kind PROVE UidsUnique'
    BY <2>1 DEF UidsUnique
  <2>2. ASSUME NEW t \in 0 .. MaxTime, NEW e \in ServerEid, ParseDestroy(t, e)
        PROVE  UidsUnique'
    <3> DEFINE c == ChunkAt(world, e)
               a == Action(t, "destroy", Storage(c), e, None)
    <3>1. /\ phase = "parsing" /\ EntityExists(world, e) /\ DestroyFault(e) = "none"
          /\ world' = Vanish(world, StorageOf(e), e)
          /\ EmplaceNew(Action(t, "destroy", StorageOf(e), e, None))
      BY <2>2 DEF ParseDestroy, PacketAt
    <3>2. Placed
      BY <3>1, ParsingStore
    <3>3. c \in Living(history, currIndex) /\ Home(history)[c] = e /\ c \in Chunk
      BY <3>1, <3>2, ExistsAtHome DEF Living
    <3>4. StorageOf(e) = Storage(c)
      BY <3>1, StorageIs
    <3>5. a \in ActionType /\ a.op = "destroy" /\ EmplaceNew(a)
      BY <3>1, <3>3, <3>4, StorageIsEid DEF Action, ActionType
    <3>6. VanishFault(world, e) = "none"
      BY <3>1 DEF DestroyFault
    <3> HIDE DEF a, c
    <3>7. world'.kind = world.kind
      BY <3>1, <3>2, <3>3, <3>4, <3>6, VanishStep
    <3> QED BY <3>1, <3>5, <3>7, RecordUnique
  <2>3. ASSUME NEW t \in 0 .. MaxTime, NEW e \in ServerEid, NEW v \in Value,
               ParseUpdate(t, e, v)
        PROVE  UidsUnique'
    <3> DEFINE c == ChunkAt(world, e)
               a == Action(t, "update", Invalid, e, world.value[c])
    <3>1. /\ phase = "parsing" /\ EntityExists(world, e)
          /\ world' = SwapValue(world, e, v) /\ EmplaceNew(a)
      BY <2>3 DEF ParseUpdate, PacketAt
    <3>2. Placed /\ world \in WorldType
      BY <3>1, ParsingStore, StoreContext
    <3>3. c \in Chunk
      BY <3>1, <3>2, ExistsAtHome DEF Living
    <3>4. a \in ActionType /\ a.op = "update"
      <4>1. world.value[c] \in Value \cup {None}
        BY <3>2, <3>3 DEF WorldType
      <4> QED BY <4>1, InvalidIsEid DEF Action, ActionType
    <3>5. world'.kind = world.kind
      BY <3>1, <3>2, SwapValueFacts
    <3> HIDE DEF a
    <3> QED BY <3>1, <3>4, <3>5, RecordUnique
  <2>4. CASE Parse
    <3>1. PICK t \in 0 .. MaxTime :
            \/ \E e \in ServerEid :
                 \/ \E k \in Kind, v \in Value : ParseCreate(t, e, k, v)
                 \/ ParseDestroy(t, e)
                 \/ \E v \in Value : ParseUpdate(t, e, v)
                 \/ ParseDestroyThrows(t, e)
            \/ ParseOther(t)
            \/ ParseEnd(t)
      BY <2>4 DEF Parse
    <3>2. CASE \/ ParseOther(t) \/ ParseEnd(t)
               \/ \E e \in ServerEid : ParseDestroyThrows(t, e)
      BY <2>1, <3>2 DEF ParseOther, ParseEnd, ParseDestroyThrows
    <3> QED BY <2>2, <2>3, <3>1, <3>2, CreateUnique
  <2>5. CASE StepBackward \/ StepForward
    BY <2>5, StepUnique
  <2>6. CASE \/ \E t \in 0 .. EndOfTime : RewindTo(t)
             \/ StepThrows \/ SeekReturnThrows \/ FinishSeek
             \/ BeginShutdown \/ TornDown \/ UNCHANGED vars
             \/ \E i \in Index : PassEmpty(i)
    BY <2>1, <2>6 DEF RewindTo, StepThrows, SeekReturnThrows, FinishSeek, BeginShutdown,
                      BeginSeek, TornDown, PassEmpty, Visiting, vars
  <2>7. CASE \E i \in Index : TearDown(i)
    BY <2>1, <2>7, TearDownKind DEF TearDown, Visiting
  <2> QED BY <2>4, <2>5, <2>6, <2>7 DEF Next, Seek
<1> QED BY <1>1, <1>2, InductiveInvariant, StoreInvariant, PTL DEF Spec

-----------------------------------------------------------------------------
(* When every entity that can carry a uid does, no assertion fires *)

UidsGiven == \A k \in Kind : HasUid(k) => k.uid # Unset

\* Whatever is in the server's range has its uid registered.
LEMMA RegisteredAt ==
  ASSUME IInv, StoreInv, UidsGiven, NEW e, e[1] \in ServerIndex, ChunkAt(world, e) # None
  PROVE  DestroyedBasicAsserts(world, e)
<1> DEFINE c == ChunkAt(world, e)
           k == world.kind[c]
<1>1. c = world.desc[e[1]].chunk /\ e[1] \in Index
  BY DEF ChunkAt, Index
<1>2. world \in WorldType /\ c \in Chunk
  BY <1>1, StoreContext DEF WorldType
<1>3. k \in Kind \cup {NoKind} /\ k.uid \in Uid \cup {Unset}
  BY <1>2, KindType DEF WorldType
<1> HIDE DEF c
<1>4. HasUid(k) => k.uid # Unset
  BY <1>3 DEF UidsGiven, NoKind, HasUid
<1>5. HasUid(k) => world.uidEid[k.uid] = <<e[1], world.desc[e[1]].gen>>
  <2>1. ASSUME HasUid(k) PROVE k.uid \in Uid
    BY <1>3, <1>4, <2>1
  <2>2. world.desc[e[1]].chunk = c /\ c # None
    BY <1>1 DEF c
  <2>3. ASSUME NEW i \in ServerIndex, world.desc[i].chunk = c, HasUid(k), k.uid \in Uid
        PROVE  world.uidEid[k.uid] = <<i, world.desc[i].gen>>
    BY <2>2, <2>3 DEF StoreInv, Resolves
  <2> QED BY <2>1, <2>2, <2>3
<1>6. e[1] # 0
  BY DEF ServerIndex
<1>7. HasUid(k) => UnitEid(world, k.uid) # Invalid
  BY <1>4, <1>5, <1>6 DEF UnitEid, Invalid
<1> QED BY <1>7 DEF DestroyedBasicAsserts, c

LEMMA LivingVanishes ==
  ASSUME IInv, StoreInv, Placed, UidsGiven, NEW c \in Living(history, currIndex),
         NEW e \in ServerEid, e = Home(history)[c]
  PROVE  VanishFault(world, e) = "none"
<1>1. c \in Born /\ c \in Chunk /\ e[1] \in ServerIndex /\ c # None
  BY StoreContext, ServerIsEid, SentinelAssumption
<1>2. AtServer(world, c, e)
  BY <1>1 DEF Placed, PlacedIn
<1>3. ChunkAt(world, e) = c /\ EntityExists(world, e)
  BY <1>1, <1>2 DEF AtServer, ChunkAt, EntityExists
<1>4. DestroyedBasicAsserts(world, e)
  BY <1>1, <1>3, RegisteredAt
<1> QED BY <1>3, <1>4 DEF VanishFault

\* A chunk that lives in a neighbouring state together with all that live now finds
\* its uid free.
LEMMA ParkedAppears ==
  ASSUME IInv, StoreInv, Placed, UidsUnique, NEW c \in Chunk, NEW e \in ServerEid,
         c \in Born, c \notin Living(history, currIndex), e = Home(history)[c],
         world.desc[e[1]].chunk = None,
         NEW m \in 0 .. Len(history), c \in Living(history, m),
         Living(history, currIndex) \subseteq Living(history, m)
  PROVE  AppearFault(world, Storage(c), e) = "none"
<1> DEFINE s == SwapDesc(world, Storage(c), e)
           k == world.kind[c]
<1>1. /\ world \in WorldType /\ e[1] \in ServerIndex /\ e[1] \in Index /\ e[1] # c
      /\ c \in Index /\ Storage(c)[1] = c /\ c # None
  BY StoreContext, ServerIsEid, ServerIsNotChunk, StorageIsEid, SentinelAssumption
<1>2. world.desc[c] = [chunk |-> c, gen |-> e[2]]
  BY DEF Placed, PlacedIn, Parked
<1>3. /\ s.desc = [world.desc EXCEPT ![c] = world.desc[e[1]], ![e[1]] = world.desc[c]]
      /\ s.kind = world.kind /\ s.uidEid = world.uidEid
  <2>1. s.desc = [world.desc EXCEPT ![c] = world.desc[e[1]], ![e[1]] = world.desc[c]]
    BY <1>1, SwapDescType
  <2> QED BY <1>1, <2>1 DEF SwapDesc, WorldType
<1> HIDE DEF s
<1>4. ChunkAt(s, e) = c /\ EntityExists(s, e)
  <2>1. s.desc[e[1]] = [chunk |-> c, gen |-> e[2]]
    BY <1>1, <1>2, <1>3 DEF WorldType
  <2> QED BY <1>1, <2>1 DEF ChunkAt, EntityExists
<1>5. ASSUME HasUid(k), k.uid # Unset, world.uidEid[k.uid] # Invalid
      PROVE  FALSE
  <2> DEFINE u == k.uid
             x == world.uidEid[u]
             d == ChunkAt(world, x)
  <2>1. u \in Uid
    BY <1>1, <1>5, KindType
  <2>2. /\ x[1] \in ServerIndex /\ EntityExists(world, x)
        /\ HasUid(world.kind[d]) /\ world.kind[d].uid = u
    BY <1>5, <2>1 DEF StoreInv, Resolves
  <2>3. d \in Living(history, currIndex)
    BY <2>2 DEF Placed, PlacedIn, EntityExists, ChunkAt
  <2>4. d = c
    BY <1>5, <2>2, <2>3 DEF UidsUnique, Registered
  <2> QED BY <2>3, <2>4
<1>6. CreatedBasicAsserts(s, e)
  BY <1>3, <1>4, <1>5 DEF CreatedBasicAsserts, UnitEid
<1> QED BY <1>4, <1>6 DEF AppearFault, s

LEMMA UndoNeverThrows ==
  ASSUME IInv, StoreInv, Placed, UidsUnique, UidsGiven,
         NEW n \in Steps(history), currIndex = n
  PROVE  UndoFault(world, history[n]) = "none"
<1> DEFINE a == history[n]
<1>1. /\ Len(history) \in Nat /\ n \in Int /\ n - 1 \in 0 .. Len(history)
      /\ a.after \in ServerEid /\ a.after[1] \in ServerIndex
      /\ a.op \in {"create", "destroy", "update"}
      /\ a.op # "update" => \E c \in Chunk : a.before = Storage(c)
      /\ Lives(history) /\ Living(history, n - 1) \in SUBSET Born
  BY StoreContext DEF Steps
<1>2. a.dir = "fastforward"
  BY <1>1 DEF IInv, DirectionMatches, Steps
<1>3. CASE a.op = "create"
  <2>1. PICK c \in Chunk : a.before = Storage(c)
    BY <1>1, <1>3
  <2>2. Creates(history, n, c)
    BY <1>3, <2>1 DEF Creates
  <2>3. c \in Living(history, currIndex) /\ Home(history)[c] = a.after
    <3>1. Living(history, n) = Living(history, n - 1) \cup {c}
      BY <1>1, <2>2, CreateLiving
    <3> QED BY <1>1, <2>2, <3>1, HomeIs DEF Lives
  <2>4. VanishFault(world, a.after) = "none"
    BY <1>1, <2>3, LivingVanishes
  <2> QED BY <1>2, <1>3, <2>4 DEF UndoFault
<1>4. CASE a.op = "destroy"
  <2>1. PICK c \in Chunk : a.before = Storage(c)
    BY <1>1, <1>4
  <2>2. Destroys(history, n, c)
    BY <1>4, <2>1 DEF Destroys
  <2>3. /\ c \in Living(history, n - 1)
        /\ Living(history, n) = Living(history, n - 1) \ {c}
        /\ Home(history)[c] = a.after
    BY <1>1, <2>2, DestroyLiving
  <2>4. world.desc[a.after[1]].chunk = None
    BY <1>1, <2>2, SeatFree DEF Placed
  <2>5. c \in Born /\ c \notin Living(history, currIndex)
        /\ Living(history, currIndex) \subseteq Living(history, n - 1)
    BY <1>1, <2>3
  <2>6. AppearFault(world, Storage(c), a.after) = "none"
    <3> HIDE DEF a
    <3> QED BY <1>1, <2>3, <2>4, <2>5, ParkedAppears
  <2> QED BY <1>2, <1>4, <2>1, <2>6 DEF UndoFault
<1>5. CASE a.op = "update"
  <2>1. ChunkAt(world, a.after) # None
    BY <1>5, UpdateResolves
  <2> QED BY <1>2, <1>5, <2>1 DEF UndoFault
<1> QED BY <1>1, <1>3, <1>4, <1>5

LEMMA RedoNeverThrows ==
  ASSUME IInv, StoreInv, Placed, UidsUnique, UidsGiven,
         NEW n \in Steps(history), currIndex = n - 1
  PROVE  RedoFault(world, history[n]) = "none"
<1> DEFINE a == history[n]
<1>1. /\ Len(history) \in Nat /\ n \in Int /\ n \in 0 .. Len(history) /\ n - 1 \in Int
      /\ a.after \in ServerEid /\ a.after[1] \in ServerIndex
      /\ a.op \in {"create", "destroy", "update"}
      /\ a.op # "update" => \E c \in Chunk : a.before = Storage(c)
      /\ Lives(history) /\ Living(history, n) \in SUBSET Born
  BY StoreContext DEF Steps
<1>2. a.dir = "rewind"
  BY <1>1 DEF IInv, DirectionMatches, Steps
<1>3. CASE a.op = "create"
  <2>1. PICK c \in Chunk : a.before = Storage(c)
    BY <1>1, <1>3
  <2>2. Creates(history, n, c)
    BY <1>3, <2>1 DEF Creates
  <2>3. /\ c \notin Living(history, n - 1)
        /\ Living(history, n) = Living(history, n - 1) \cup {c}
        /\ Home(history)[c] = a.after
    BY <1>1, <2>2, CreateLiving, HomeIs DEF Lives
  <2>4. world.desc[a.after[1]].chunk = None
    BY <1>1, <2>2, SeatFree DEF Placed
  <2>5. c \in Born /\ c \notin Living(history, currIndex) /\ c \in Living(history, n)
        /\ Living(history, currIndex) \subseteq Living(history, n)
    BY <1>1, <2>3
  <2>6. AppearFault(world, Storage(c), a.after) = "none"
    <3> HIDE DEF a
    <3> QED BY <1>1, <2>3, <2>4, <2>5, ParkedAppears
  <2> QED BY <1>2, <1>3, <2>1, <2>6 DEF RedoFault
<1>4. CASE a.op = "destroy"
  <2>1. PICK c \in Chunk : a.before = Storage(c)
    BY <1>1, <1>4
  <2>2. Destroys(history, n, c)
    BY <1>4, <2>1 DEF Destroys
  <2>3. c \in Living(history, currIndex) /\ Home(history)[c] = a.after
    BY <1>1, <2>2, DestroyLiving
  <2>4. VanishFault(world, a.after) = "none"
    BY <1>1, <2>3, LivingVanishes
  <2> QED BY <1>2, <1>4, <2>4 DEF RedoFault
<1>5. CASE a.op = "update"
  <2>1. ChunkAt(world, a.after) # None
    BY <1>5, UpdateResolves
  <2> QED BY <1>2, <1>5, <2>1 DEF RedoFault
<1> QED BY <1>1, <1>3, <1>4, <1>5

\* The assertions of the uid handlers do not fire.
StepsThrowNothing ==
  /\ ~StepThrows
  /\ \A t, e : e \in ServerEid => ~ParseDestroyThrows(t, e)
  /\ \A i \in Index : TearDown(i) => fault' = fault

LEMMA StepsNeverThrow ==
  ASSUME IInv, StoreInv, UidsUnique, UidsGiven
  PROVE  StepsThrowNothing
<1>1. ~StepThrows
  <2> SUFFICES ASSUME StepThrows PROVE FALSE
    OBVIOUS
  <2>1. /\ mode # "idle" /\ StepFault # "none"
        /\ IF mode = "backward" THEN MustUndo ELSE MustRedo
    BY DEF StepThrows
  <2>2. Placed
    BY <2>1 DEF StoreInv, AtTheEnd
  <2>3. CASE mode = "backward"
    <3>1. currIndex \in Steps(history)
      BY <2>1, <2>3, StoreContext DEF Steps, MustUndo
    <3> QED BY <2>1, <2>2, <2>3, <3>1, UndoNeverThrows DEF StepFault
  <2>4. CASE mode # "backward"
    <3> DEFINE n == currIndex + 1
    <3>1. n \in Steps(history) /\ currIndex = n - 1
      BY <2>1, <2>4, StoreContext DEF Steps, MustRedo
    <3>2. StepFault = RedoFault(world, history[n])
      BY <2>4 DEF StepFault
    <3> HIDE DEF n
    <3> QED BY <2>1, <2>2, <3>1, <3>2, RedoNeverThrows
  <2> QED BY <2>3, <2>4
<1>2. ASSUME NEW t, NEW e \in ServerEid, ParseDestroyThrows(t, e) PROVE FALSE
  <2>1. EntityExists(world, e) /\ DestroyFault(e) # "none"
    BY <1>2 DEF ParseDestroyThrows
  <2>2. e[1] \in ServerIndex /\ e[1] \notin basicDestroyed
    BY ServerIsEid, ServerIsNotChunk DEF IInv, TypeOK
  <2>3. DestroyedBasicAsserts(world, e)
    BY <2>1, <2>2, RegisteredAt DEF EntityExists
  <2> QED BY <2>1, <2>2, <2>3 DEF DestroyFault, VanishFault
<1>3. ASSUME NEW i \in Index, TearDown(i) PROVE fault' = fault
  <2> DEFINE e == <<i, world.desc[i].gen>>
  <2>1. phase = "tearing" /\ fault = "none" /\ Occupied(i) /\ fault' = TearFault(i)
    BY <1>3 DEF TearDown, Visiting
  <2>2. i \in basicDestroyed \/ i \in ServerIndex
    BY <2>1 DEF StoreInv, Teardown, Stored, Left, Occupied
  <2>3. CASE i \in basicDestroyed
    BY <2>1, <2>3 DEF TearFault
  <2>4. CASE i \in ServerIndex
    <3>1. ChunkAt(world, e) # None
      BY <2>1 DEF ChunkAt, Occupied
    <3>2. e[1] = i
      OBVIOUS
    <3>3. DestroyedBasicAsserts(world, e)
      <4> HIDE DEF e
      <4> QED BY <2>4, <3>1, <3>2, RegisteredAt
    <3> QED BY <2>1, <3>3 DEF TearFault
  <2> QED BY <2>2, <2>3, <2>4
<1> QED BY <1>1, <1>2, <1>3 DEF StepsThrowNothing

\* An entity whose uid component holds -1 is the only way to the assertions of the two
\* uid_entity_es: in a replay without one, every entity whose destruction is announced,
\* undone or redone has its uid registered, and every uid that comes back is free
\* (BaseEntityES.cpp.inl:49, 61).
THEOREM UidsRegistered ==
  ASSUME UidsGiven
  PROVE  Spec => []DestroyedUidRegistered
<1>1. Init => DestroyedUidRegistered
  BY DEF Init, DestroyedUidRegistered
<1>2. IInv /\ StoreInv /\ UidsUnique /\ DestroyedUidRegistered /\ [Next]_vars
        => DestroyedUidRegistered'
  <2> SUFFICES ASSUME IInv, StoreInv, UidsUnique, DestroyedUidRegistered, [Next]_vars
               PROVE  DestroyedUidRegistered'
    OBVIOUS
  <2>1. CASE UNCHANGED fault
    BY <2>1 DEF DestroyedUidRegistered
  <2>2. CASE Parse
    <3>1. \A t, e : e \in ServerEid => ~ParseDestroyThrows(t, e)
      BY StepsNeverThrow DEF StepsThrowNothing
    <3> QED BY <2>1, <2>2, <3>1 DEF Parse, ParseCreate, ParseDestroy, ParseUpdate,
                                     ParseOther, ParseEnd, PacketAt
  <2>3. CASE (\E t \in 0 .. EndOfTime : RewindTo(t)) \/ BeginShutdown
    BY <2>3 DEF RewindTo, BeginShutdown, BeginSeek, DestroyedUidRegistered
  <2>4. CASE Seek
    <3>1. ~StepThrows
      BY StepsNeverThrow DEF StepsThrowNothing
    <3> QED BY <2>1, <2>4, <3>1 DEF Seek, StepBackward, StepForward, FinishSeek,
                                     SeekReturnThrows, DestroyedUidRegistered
  <2>5. CASE \E i \in Index : TearDown(i)
    BY <2>1, <2>5, StepsNeverThrow DEF StepsThrowNothing
  <2>6. CASE TornDown \/ (\E i \in Index : PassEmpty(i)) \/ UNCHANGED vars
    BY <2>1, <2>6 DEF TornDown, PassEmpty, vars
  <2> QED BY <2>2, <2>3, <2>4, <2>5, <2>6 DEF Next
<1> QED BY <1>1, <1>2, InductiveInvariant, StoreInvariant, UniqueInvariant, PTL DEF Spec

-----------------------------------------------------------------------------
(* The timeline: its state in terms of the store *)

LogNow == [i \in 1 .. Len(history) |-> [time |-> history[i].time, state |-> <<seen[i + 1]>>]]

ShownNow == IF Closed THEN << >> ELSE <<LiveView(world)>>

LogWorks == fault = "none" /\ ~Closed

LogRecords(t) ==
  /\ LogWorks /\ phase = "parsing" /\ t >= rewindTime
  /\ LogNow' = Append(LogNow, [time |-> t, state |-> ShownNow'])
  /\ rewindTime' = t
  /\ UNCHANGED <<phase, mode, fault>>

LogPasses(t) ==
  /\ LogWorks /\ phase = "parsing" /\ t >= rewindTime
  /\ rewindTime' = t
  /\ UNCHANGED <<LogNow, ShownNow, mode, fault>>

LogSought(t) ==
  /\ LogWorks /\ phase # "parsing" /\ mode = "idle"
  /\ rewindTime' = t
  /\ IF history = << >> THEN fault' # "none" /\ mode' = "idle"
     ELSE fault' = "none" /\ mode' # "idle"
  /\ phase' # "parsing"
  /\ UNCHANGED <<LogNow, ShownNow>>

LogWanders ==
  /\ LogWorks /\ mode # "idle"
  /\ ShownNow' \in Promise!Recorded
  /\ UNCHANGED <<LogNow, phase, rewindTime, mode, fault>>

LogArrives ==
  /\ LogWorks /\ mode # "idle"
  /\ ShownNow = Promise!StateAt(rewindTime)
  /\ mode' = "idle"
  /\ ShownNow' \in {ShownNow, << >>}
  /\ phase # "parsing" /\ phase' # "parsing"
  /\ UNCHANGED <<LogNow, rewindTime, fault>>

LogCloses ==
  /\ LogWorks /\ mode = "idle"
  /\ ShownNow' = << >>
  /\ phase' # "parsing"
  /\ UNCHANGED <<LogNow, rewindTime, mode, fault>>

LogRests ==
  /\ UNCHANGED <<LogNow, ShownNow, rewindTime, mode, fault>>
  /\ phase' = "parsing" <=> phase = "parsing"

TimelineStep ==
  \/ \E t \in Seconds : LogRecords(t) \/ LogPasses(t) \/ LogSought(t)
  \/ LogWanders \/ LogArrives \/ LogCloses \/ LogRests

LEMMA ShownIsNone == ShownNow = << >> <=> Closed
BY DEF ShownNow

LEMMA LogEmpty ==
  ASSUME history \in Seq(ActionType)
  PROVE  LogNow = << >> <=> history = << >>
<1>1. history = << >> <=> Len(history) = 0
  OBVIOUS
<1>2. LogNow = << >> <=> Len(history) = 0
  <2>1. DOMAIN LogNow = 1 .. Len(history)
    BY DEF LogNow
  <2> QED BY <2>1 DEF LogNow
<1> QED BY <1>1, <1>2

LEMMA StepIsTimeline ==
  ASSUME TimelineStep, history \in Seq(ActionType)
  PROVE  [Promise!Next]_(Promise!vars)
<1>1. LogNow = << >> <=> history = << >>
  BY LogEmpty
<1> QED
BY <1>1, ShownIsNone DEF TimelineStep, LogWorks, LogRecords, LogPasses, LogSought, LogWanders,
   LogArrives, LogCloses, LogRests, Promise!Next, Promise!vars, Promise!Record, Promise!Pass,
   Promise!Seek, Promise!Wander, Promise!Arrive, Promise!Close, Promise!Working, LogNow, ShownNow

LEMMA InitIsTimeline ==
  ASSUME HistoryInit
  PROVE  Promise!Init
BY LogEmpty DEF HistoryInit, Init, Promise!Init, LogNow, Closed

-----------------------------------------------------------------------------
(* The timeline: what is seen *)

LEMMA SeenLength ==
  ASSUME IInv, StoreInv, HistInv
  PROVE  seen = [i \in 1 .. Len(history) + 1 |-> seen[i]] /\ Len(history) \in Nat
<1>1. PICK val \in Vals(history) : Shows(history, world.kind, val, seen)
  BY DEF HistInv
<1>2. Len(history) \in Nat
  BY StoreContext
<1> QED BY <1>1, <1>2 DEF Shows

\* What was shown before the first action.
FirstSeen == seen[1] = LiveView(EmptyWorld)

LEMMA SeenNext ==
  ASSUME IInv, StoreInv, [HistoryNext]_<<vars, seen>>
  PROVE  seen' = seen \/ seen' = Append(seen, LiveView(world'))
BY DEF HistoryNext

LEMMA FirstRemembered == HistorySpec => []FirstSeen
<1>1. HistoryInit => FirstSeen
  BY DEF HistoryInit, Init, FirstSeen
<1>2. IInv /\ StoreInv /\ HistInv /\ FirstSeen /\ [HistoryNext]_<<vars, seen>> => FirstSeen'
  <2> SUFFICES ASSUME IInv, StoreInv, HistInv, FirstSeen, [HistoryNext]_<<vars, seen>>
               PROVE  FirstSeen'
    OBVIOUS
  <2> DEFINE n == Len(history) + 1
  <2>1. seen = [i \in 1 .. n |-> seen[i]] /\ n \in Nat /\ 1 \in 1 .. n
    BY SeenLength
  <2> HIDE DEF n
  <2>2. ASSUME NEW x PROVE Append(seen, x)[1] = seen[1]
    BY <2>1, AppendedIs
  <2>3. seen'[1] = seen[1]
    <3>1. seen' = seen \/ seen' = Append(seen, LiveView(world'))
      BY SeenNext
    <3>2. Append(seen, LiveView(world'))[1] = seen[1]
      BY <2>2
    <3> QED BY <3>1, <3>2
  <2> QED BY <2>3 DEF FirstSeen, LiveView, EntityView, EmptyWorld
<1> QED BY <1>1, <1>2, HistoryRuns, InductiveInvariant, StoreInvariant, HistoryRemembered, PTL
        DEF HistorySpec

\* A recorded action at time t adds the state it leaves to the log.
LEMMA LogGrows ==
  ASSUME IInv, StoreInv, HistInv, NEW a, NEW t, history' = Append(history, a), a.time = t,
         phase' = "parsing", seen' = Append(seen, LiveView(world'))
  PROVE  LogNow' = Append(LogNow, [time |-> t, state |-> ShownNow'])
<1> DEFINE n == Len(history)
           x == LiveView(world')
           l == LogNow
           r == [time |-> t, state |-> <<x>>]
<1>1. n \in Nat /\ seen = [i \in 1 .. n + 1 |-> seen[i]] /\ history = [i \in 1 .. n |-> history[i]]
  <2>1. history \in Seq(ActionType)
    BY StoreContext
  <2> QED BY <2>1, SeenLength
<1>2. l = [i \in 1 .. n |-> l[i]]
  BY DEF LogNow
<1>3. \A i \in 1 .. n : l[i] = [time |-> history[i].time, state |-> <<seen[i + 1]>>]
  BY DEF LogNow
<1>4. Len(history') = n + 1
  BY StoreContext
<1>5. ShownNow' = <<x>>
  BY DEF ShownNow, Closed
<1> HIDE DEF n, x, l
<1>6. /\ \A i \in 1 .. n : history'[i] = history[i]
      /\ history'[n + 1] = a
  BY <1>1, AppendedIs
<1>7. /\ \A i \in 1 .. n + 1 : seen'[i] = seen[i]
      /\ seen'[(n + 1) + 1] = x
  <2>1. n + 1 \in Nat
    BY <1>1
  <2> QED BY <1>1, <2>1, AppendedIs DEF x
<1>8. /\ \A i \in 1 .. n : Append(l, r)[i] = l[i]
      /\ Append(l, r)[n + 1] = r
      /\ Append(l, r) = [i \in 1 .. n + 1 |-> Append(l, r)[i]]
  BY <1>1, <1>2, AppendedIs
<1>9. ASSUME NEW i \in 1 .. n + 1
      PROVE  Append(l, r)[i] = [time |-> history'[i].time, state |-> <<seen'[i + 1]>>]
  <2>1. CASE i \in 1 .. n
    <3>1. Append(l, r)[i] = [time |-> history[i].time, state |-> <<seen[i + 1]>>]
      BY <1>3, <1>8, <2>1
    <3>2. i + 1 \in 1 .. n + 1
      BY <1>1, <2>1
    <3> QED BY <1>6, <1>7, <2>1, <3>1, <3>2
  <2>2. CASE i = n + 1
    BY <1>6, <1>7, <1>8, <2>2
  <2>3. i \in 1 .. n \/ i = n + 1
    BY <1>1
  <2> QED BY <2>1, <2>2, <2>3
<1>10. LogNow' = [i \in 1 .. n + 1 |-> [time |-> history'[i].time, state |-> <<seen'[i + 1]>>]]
  BY <1>4 DEF LogNow
<1> QED BY <1>5, <1>8, <1>9, <1>10 DEF l, r

-----------------------------------------------------------------------------
(* The timeline: every step is one of it *)

LEMMA RecordsNow ==
  ASSUME IInv, StoreInv, HistInv, NEW t \in 0 .. MaxTime, NEW a, a.time = t,
         PacketAt(t), EmplaceNew(a), phase' = phase, fault' = fault,
         seen' = Append(seen, LiveView(world'))
  PROVE  LogRecords(t)
<1>1. /\ phase = "parsing" /\ phase' = "parsing" /\ fault = "none" /\ t >= rewindTime
      /\ rewindTime' = t /\ UNCHANGED <<phase, mode, fault>>
  BY DEF PacketAt, IInv, ParseInv
<1>2. LogNow' = Append(LogNow, [time |-> t, state |-> ShownNow'])
  BY <1>1, LogGrows DEF EmplaceNew
<1> QED BY <1>1, <1>2 DEF LogRecords, LogWorks, Closed

LEMMA SecondsOfParsing == 0 .. MaxTime \in SUBSET Seconds
BY BoundsAssumption DEF Seconds, EndOfTime

LEMMA ParsingIsTimeline ==
  ASSUME IInv, StoreInv, HistInv, StepsThrowNothing, Parse, [HistoryNext]_<<vars, seen>>
  PROVE  TimelineStep
<1>1. PICK t \in 0 .. MaxTime :
        \/ \E e \in ServerEid :
             \/ \E k \in Kind, v \in Value : ParseCreate(t, e, k, v)
             \/ ParseDestroy(t, e)
             \/ \E v \in Value : ParseUpdate(t, e, v)
             \/ ParseDestroyThrows(t, e)
        \/ ParseOther(t)
        \/ ParseEnd(t)
  BY DEF Parse
<1>2. t \in Seconds /\ PacketAt(t)
  BY <1>1, SecondsOfParsing DEF ParseCreate, ParseDestroy, ParseUpdate, ParseDestroyThrows,
     ParseOther, ParseEnd
<1>3. ASSUME NEW a, a.time = t, EmplaceNew(a), phase' = phase, fault' = fault
      PROVE  TimelineStep
  <2>1. Len(history') > Len(history)
    <3>1. history \in Seq(ActionType) /\ history' = Append(history, a)
      BY <1>3, StoreContext DEF EmplaceNew
    <3>2. Len(history') = Len(history) + 1
      BY <3>1
    <3> QED BY <3>1, <3>2
  <2>2. seen' = Append(seen, LiveView(world'))
    <3>1. ~UNCHANGED history
      BY <2>1, StoreContext
    <3> QED BY <2>1, <3>1 DEF HistoryNext, vars
  <2>3. LogRecords(t)
    BY <1>2, <1>3, <2>2, RecordsNow
  <2> QED BY <1>2, <2>3 DEF TimelineStep
<1>4. ASSUME NEW e \in ServerEid, NEW k \in Kind, NEW v \in Value, ParseCreate(t, e, k, v)
      PROVE  TimelineStep
  <2> DEFINE a == Action(t, "create", Storage(nextIndex), e, None)
  <2>1. EmplaceNew(a) /\ phase' = phase /\ fault' = fault
    BY <1>4 DEF ParseCreate
  <2>2. a.time = t
    BY DEF Action
  <2> HIDE DEF a
  <2> QED BY <1>3, <2>1, <2>2
<1>5. ASSUME NEW e \in ServerEid, ParseDestroy(t, e)
      PROVE  TimelineStep
  <2> DEFINE a == Action(t, "destroy", StorageOf(e), e, None)
  <2>1. EmplaceNew(a) /\ phase' = phase /\ fault' = fault
    BY <1>5 DEF ParseDestroy
  <2>2. a.time = t
    BY DEF Action
  <2> HIDE DEF a
  <2> QED BY <1>3, <2>1, <2>2
<1>6. ASSUME NEW e \in ServerEid, NEW v \in Value, ParseUpdate(t, e, v)
      PROVE  TimelineStep
  <2> DEFINE a == Action(t, "update", Invalid, e, world.value[ChunkAt(world, e)])
  <2>1. EmplaceNew(a) /\ phase' = phase /\ fault' = fault
    BY <1>6 DEF ParseUpdate
  <2>2. a.time = t
    BY DEF Action
  <2> HIDE DEF a
  <2> QED BY <1>3, <2>1, <2>2
<1>7. CASE ParseOther(t) \/ ParseEnd(t)
  <2>1. UNCHANGED <<world, history, mode, fault>> /\ phase' \in {"parsing", "ready"}
        /\ phase = "parsing" /\ fault = "none" /\ rewindTime' = t /\ t >= rewindTime
    BY <1>7 DEF ParseOther, ParseEnd, PacketAt, IInv, ParseInv
  <2>2. seen' = seen
    <3>1. ~(Len(history) > Len(history))
      BY StoreContext
    <3> QED BY <2>1, <3>1 DEF HistoryNext
  <2>3. LogPasses(t)
    <3>1. LogNow' = LogNow
      BY <2>1, <2>2 DEF LogNow
    <3>2. ShownNow' = ShownNow
      BY <2>1 DEF ShownNow, Closed, LiveView, EntityView
    <3> QED BY <2>1, <3>1, <3>2 DEF LogPasses, LogWorks, Closed
  <2> QED BY <1>2, <2>3 DEF TimelineStep
<1>8. ~\E e \in ServerEid : ParseDestroyThrows(t, e)
  BY DEF StepsThrowNothing
<1> QED BY <1>1, <1>4, <1>5, <1>6, <1>7, <1>8

\* Neither a seek nor the destructor adds to the log.
LEMMA LogKept ==
  ASSUME Len(history') = Len(history), seen' = seen,
         \A i \in 1 .. Len(history) : history'[i].time = history[i].time
  PROVE  LogNow' = LogNow
BY DEF LogNow

LEMMA ShownIsRecorded ==
  ASSUME IInv, StoreInv, HistInv, FirstSeen, Stored
  PROVE  ShownNow \in {<<LiveView(EmptyWorld)>>} \cup {LogNow[i].state : i \in 1 .. Len(history)}
<1>1. LiveView(world) = seen[currIndex + 1] /\ currIndex \in 0 .. Len(history)
  BY ReplayedIs
<1>2. ShownNow = <<seen[currIndex + 1]>>
  BY <1>1 DEF ShownNow, Closed, Stored
<1>3. CASE currIndex = 0
  BY <1>2, <1>3 DEF FirstSeen
<1>4. CASE currIndex \in 1 .. Len(history)
  <2>1. LogNow[currIndex].state = <<seen[currIndex + 1]>>
    BY <1>4 DEF LogNow
  <2> QED BY <1>2, <1>4, <2>1
<1>5. currIndex = 0 \/ currIndex \in 1 .. Len(history)
  BY <1>1, StoreContext
<1> QED BY <1>3, <1>4, <1>5

LEMMA ShownIsRecordedNext ==
  IInv' /\ StoreInv' /\ HistInv' /\ FirstSeen' /\ Stored'
    => ShownNow' \in {<<LiveView(EmptyWorld)>>} \cup
                     {LogNow'[i].state : i \in 1 .. Len(history')}
<1>1. (IInv /\ StoreInv /\ HistInv /\ FirstSeen /\ Stored
        => ShownNow \in {<<LiveView(EmptyWorld)>>} \cup
                        {LogNow[i].state : i \in 1 .. Len(history)})'
  BY ShownIsRecorded, PTL
<1> QED BY <1>1 DEF LiveView, EntityView, EmptyWorld

LEMMA RecordedIs ==
  ASSUME Len(history) \in Nat
  PROVE  Promise!Recorded
           = {<<LiveView(EmptyWorld)>>} \cup {LogNow[i].state : i \in 1 .. Len(history)}
<1>1. Len(LogNow) = Len(history)
  BY DEF LogNow
<1> QED BY <1>1 DEF Promise!Recorded, LogNow

LEMMA StepIsWandering ==
  ASSUME IInv, StoreInv, HistInv, IInv', StoreInv', HistInv', FirstSeen',
         StepBackward \/ StepForward, seen' = seen
  PROVE  LogWanders
<1>1. /\ mode # "idle" /\ fault = "none"
      /\ UNCHANGED <<phase, mode, rewindTime, fault>>
  BY DEF StepBackward, StepForward
<1>2. Stored /\ Stored'
  BY <1>1 DEF StoreInv, AtTheEnd, Stored
<1>3. Len(history') = Len(history)
      /\ \A i \in 1 .. Len(history) : history'[i].time = history[i].time
  <2>1. CASE StepBackward
    <3>1. /\ currIndex \in 1 .. Len(history)
          /\ UndoFault(world, history[currIndex]) = "none"
          /\ history' = [history EXCEPT ![currIndex]
                           = Flipped(world, history[currIndex], "rewind")]
      BY <2>1, StoreContext DEF StepBackward, MustUndo
    <3> QED BY <3>1, Stepped
  <2>2. CASE StepForward
    <3> DEFINE n == currIndex + 1
    <3>1. /\ n \in 1 .. Len(history)
          /\ RedoFault(world, history[n]) = "none"
          /\ history' = [history EXCEPT ![n] = Flipped(world, history[n], "fastforward")]
      BY <2>2, StoreContext DEF StepForward, MustRedo
    <3> HIDE DEF n
    <3> QED BY <3>1, Stepped
  <2> QED BY <2>1, <2>2
<1>4. LogNow' = LogNow
  BY <1>3, LogKept
<1>5. ShownNow' \in {<<LiveView(EmptyWorld)>>} \cup {LogNow[i].state : i \in 1 .. Len(history)}
  BY <1>2, <1>3, <1>4, ShownIsRecordedNext
<1>6. ShownNow' \in Promise!Recorded
  BY <1>5, RecordedIs, StoreContext
<1> QED BY <1>1, <1>2, <1>4, <1>6 DEF LogWanders, LogWorks, Stored, Closed

\* The loop that ends has applied the actions up to its target.
LEMMA ArrivedExactly ==
  ASSUME IInv, mode # "idle", SeekDone
  PROVE  \A i \in 1 .. Len(history) : i <= currIndex <=> history[i].time <= rewindTime
<1>1. /\ IF mode = "backward" THEN ~MustUndo ELSE ~MustRedo
      /\ currIndex \in 0 .. Len(history)
      /\ Len(history) \in Nat
      /\ mode \in {"idle", "backward", "forward"}
      /\ HistorySorted
      /\ rewindTime \in Int
      /\ \A i \in 1 .. Len(history) : history[i].time \in Int
  BY TimesAreIntegers DEF IInv, TypeOK, SeekDone
<1>2. CASE mode = "backward"
  <2>1. \A i \in 1 .. Len(history) : i > currIndex => history[i].time > rewindTime
    BY <1>2 DEF IInv, LoopInv
  <2>2. ASSUME NEW i \in 1 .. Len(history), i <= currIndex
        PROVE  history[i].time <= rewindTime
    <3>1. currIndex \in 1 .. Len(history)
      BY <1>1, <2>2
    <3>2. history[i].time <= history[currIndex].time
      BY <1>1, <2>2, <3>1 DEF HistorySorted
    <3>3. history[currIndex].time <= rewindTime
      BY <1>1, <1>2, <3>1 DEF MustUndo
    <3> QED BY <1>1, <3>1, <3>2, <3>3
  <2> QED BY <1>1, <2>1, <2>2
<1>3. CASE mode = "forward"
  <2>1. \A i \in 1 .. Len(history) : i <= currIndex => history[i].time <= rewindTime
    BY <1>3 DEF IInv, LoopInv
  <2>2. ASSUME NEW i \in 1 .. Len(history), i > currIndex
        PROVE  history[i].time > rewindTime
    <3>1. currIndex + 1 \in 1 .. Len(history)
      BY <1>1, <2>2
    <3>2. history[currIndex + 1].time <= history[i].time
      BY <1>1, <2>2, <3>1 DEF HistorySorted
    <3>3. history[currIndex + 1].time > rewindTime
      BY <1>1, <1>3, <3>1 DEF MustRedo
    <3> QED BY <1>1, <3>1, <3>2, <3>3
  <2> QED BY <1>1, <2>1, <2>2
<1> QED BY <1>1, <1>2, <1>3

LEMMA ShownIsSought ==
  ASSUME IInv, StoreInv, HistInv, FirstSeen, Stored, mode # "idle", SeekDone
  PROVE  ShownNow = Promise!StateAt(rewindTime)
<1> DEFINE n == Len(history)
           UpToNow(m) == \A i \in 1 .. n : i <= m <=> history[i].time <= rewindTime
<1>1. n \in Nat /\ currIndex \in 0 .. n /\ LiveView(world) = seen[currIndex + 1]
  BY ReplayedIs, StoreContext
<1>2. UpToNow(currIndex)
  BY ArrivedExactly
<1>3. ASSUME NEW m \in 0 .. n, UpToNow(m)
      PROVE  m = currIndex
  <2>1. \A i \in 1 .. n : i <= m <=> i <= currIndex
    BY <1>2, <1>3
  <2>2. m > currIndex => currIndex + 1 \in 1 .. n /\ ~(currIndex + 1 <= currIndex)
                         /\ currIndex + 1 <= m
    BY <1>1
  <2>3. m < currIndex => m + 1 \in 1 .. n /\ ~(m + 1 <= m) /\ m + 1 <= currIndex
    BY <1>1
  <2>4. m \in Int /\ currIndex \in Int
    BY <1>1
  <2> QED BY <2>1, <2>2, <2>3, <2>4
<1>4. (CHOOSE m \in 0 .. n : UpToNow(m)) = currIndex
  <2> HIDE DEF UpToNow
  <2> QED BY <1>1, <1>2, <1>3
<1>5. Len(LogNow) = n /\ \A i \in 1 .. n : LogNow[i].time = history[i].time
  BY <1>1 DEF LogNow
<1>6. Promise!UpTo(rewindTime) = currIndex
  <2>1. Promise!UpTo(rewindTime)
          = CHOOSE m \in 0 .. Len(LogNow) :
              \A i \in 1 .. Len(LogNow) : i <= m <=> LogNow[i].time <= rewindTime
    BY DEF Promise!UpTo, LogNow
  <2>2. \A m : (\A i \in 1 .. Len(LogNow) : i <= m <=> LogNow[i].time <= rewindTime)
                 <=> UpToNow(m)
    BY <1>5
  <2> HIDE DEF UpToNow
  <2>3. (CHOOSE m \in 0 .. Len(LogNow) :
           \A i \in 1 .. Len(LogNow) : i <= m <=> LogNow[i].time <= rewindTime)
          = CHOOSE m \in 0 .. n : UpToNow(m)
    BY <1>5, <2>2
  <2> QED BY <1>4, <2>1, <2>3
<1>7. ShownNow = <<seen[currIndex + 1]>>
  BY <1>1 DEF ShownNow, Closed, Stored
<1>8. CASE currIndex = 0
  BY <1>6, <1>7, <1>8 DEF Promise!StateAt, FirstSeen
<1>9. CASE currIndex # 0
  <2>1. currIndex \in 1 .. n
    BY <1>1, <1>9
  <2>2. LogNow[currIndex].state = <<seen[currIndex + 1]>>
    BY <2>1 DEF LogNow
  <2> QED BY <1>6, <1>7, <1>9, <2>2 DEF Promise!StateAt, LogNow
<1> QED BY <1>8, <1>9

\* What BeginSeek does to the timeline.
LEMMA SoughtNow ==
  ASSUME IInv, StoreInv, NEW t \in Seconds, phase = "ready", phase' \in {"ready", "closing"},
         mode = "idle", fault = "none", BeginSeek(t), seen' = seen
  PROVE  LogSought(t)
<1>1. UNCHANGED <<history, world>> /\ rewindTime' = t
  BY DEF BeginSeek
<1>2. LogNow' = LogNow /\ ShownNow' = ShownNow
  BY <1>1 DEF LogNow, ShownNow, Closed, LiveView, EntityView
<1>3. IF history = << >> THEN fault' # "none" /\ mode' = "idle"
      ELSE fault' = "none" /\ mode' # "idle"
  BY DEF BeginSeek
<1> QED BY <1>1, <1>2, <1>3 DEF LogSought, LogWorks, Closed

LEMMA SeekingIsTimeline ==
  ASSUME IInv, StoreInv, HistInv, FirstSeen, IInv', StoreInv', HistInv', FirstSeen',
         StepsThrowNothing, ~MayCheckIndex, seen' = seen,
         \/ \E t \in Seconds : RewindTo(t)
         \/ Seek
  PROVE  TimelineStep
<1>1. ASSUME NEW t \in Seconds, RewindTo(t)
      PROVE  TimelineStep
  <2>1. LogSought(t)
    BY <1>1, SoughtNow DEF RewindTo
  <2> QED BY <2>1 DEF TimelineStep
<1>2. CASE StepBackward \/ StepForward
  BY <1>2, StepIsWandering DEF TimelineStep
<1>3. CASE FinishSeek
  <2>1. /\ fault = "none" /\ mode # "idle" /\ SeekDone /\ mode' = "idle"
        /\ phase' = IF phase = "closing" THEN "tearing" ELSE phase
        /\ UNCHANGED <<world, history, rewindTime, fault>>
    BY <1>3 DEF FinishSeek
  <2>2. Stored /\ phase # "parsing" /\ phase' # "parsing"
    BY <2>1, NotParsing DEF StoreInv, AtTheEnd
  <2>3. ShownNow = Promise!StateAt(rewindTime)
    BY <2>1, <2>2, ShownIsSought
  <2>4. LogNow' = LogNow /\ ShownNow' \in {ShownNow, << >>}
    BY <2>1, <2>2 DEF LogNow, ShownNow, Closed, Stored, LiveView, EntityView
  <2> QED BY <2>1, <2>2, <2>3, <2>4 DEF TimelineStep, LogArrives, LogWorks, Stored, Closed
<1>4. ~StepThrows /\ ~SeekReturnThrows
  BY DEF StepsThrowNothing, SeekReturnThrows
<1> QED BY <1>1, <1>2, <1>3, <1>4 DEF Seek

LEMMA ClosingIsTimeline ==
  ASSUME IInv, StoreInv, StepsThrowNothing, seen' = seen,
         \/ BeginShutdown \/ TornDown \/ UNCHANGED vars
         \/ \E i \in Index : TearDown(i) \/ PassEmpty(i)
  PROVE  TimelineStep
<1>1. CASE BeginShutdown
  <2>1. phase \in {"parsing", "ready"} /\ mode = "idle" /\ fault = "none"
    BY <1>1 DEF BeginShutdown
  <2>2. CASE phase = "ready" /\ rewindTime # EndOfTime
    <3>1. phase' = "closing" /\ BeginSeek(EndOfTime)
      BY <1>1, <2>2 DEF BeginShutdown
    <3>2. EndOfTime \in Seconds
      BY BoundsAssumption DEF Seconds, EndOfTime
    <3>3. LogSought(EndOfTime)
      BY <2>1, <2>2, <3>1, <3>2, SoughtNow
    <3> QED BY <3>2, <3>3 DEF TimelineStep
  <2>3. CASE ~(phase = "ready" /\ rewindTime # EndOfTime)
    <3>1. phase' = "tearing" /\ UNCHANGED <<history, mode, rewindTime, fault>>
      BY <1>1, <2>3 DEF BeginShutdown
    <3>2. LogNow' = LogNow /\ ShownNow' = << >>
      BY <3>1 DEF LogNow, ShownNow, Closed
    <3> QED BY <2>1, <3>1, <3>2 DEF TimelineStep, LogCloses, LogWorks, Closed
  <2> QED BY <2>2, <2>3
<1>2. CASE TornDown \/ \E i \in Index : TearDown(i) \/ PassEmpty(i)
  <2>1. /\ phase = "tearing" /\ phase' \in {"tearing", "closed"}
        /\ UNCHANGED <<history, mode, rewindTime, fault>>
    BY <1>2 DEF StepsThrowNothing, TearDown, PassEmpty, Visiting, TornDown
  <2>2. LogNow' = LogNow /\ ShownNow' = ShownNow
    BY <2>1 DEF LogNow, ShownNow, Closed
  <2> QED BY <2>1, <2>2 DEF TimelineStep, LogRests
<1>3. CASE UNCHANGED vars
  BY <1>3 DEF vars, TimelineStep, LogRests, LogNow, ShownNow, Closed, LiveView, EntityView
<1> QED BY <1>1, <1>2, <1>3

\* The rewinding entity store implements the timeline: whatever is sought, in whatever
\* order, from whichever side, a seek that arrives shows the state recorded at or before
\* its target, and on the way only recorded states are shown (RewindMgr.h:66-83,
\* ParserState.cpp:106).  Without a checked index (MayCheckIndex) and an entity whose
\* uid is -1 (UidsGiven) no operation fails but a seek in an empty history.
THEOREM TimelineImplemented ==
  ASSUME ~MayCheckIndex, UidsGiven
  PROVE  HistorySpec => ImplementsTimeline
<1>1. HistoryInit => Promise!Init
  BY InitIsTimeline
<1>2. /\ IInv /\ StoreInv /\ UidsUnique /\ HistInv /\ FirstSeen
      /\ IInv' /\ StoreInv' /\ HistInv' /\ FirstSeen'
      /\ [HistoryNext]_<<vars, seen>>
      => [Promise!Next]_(Promise!vars)
  <2> SUFFICES ASSUME IInv, StoreInv, UidsUnique, HistInv, FirstSeen,
                      IInv', StoreInv', HistInv', FirstSeen',
                      [HistoryNext]_<<vars, seen>>
               PROVE  [Promise!Next]_(Promise!vars)
    OBVIOUS
  <2>1. StepsThrowNothing /\ history \in Seq(ActionType) /\ Len(history) \in Nat
    BY StepsNeverThrow, StoreContext
  <2>2. Len(history') = Len(history) => seen' = seen
    BY <2>1 DEF HistoryNext
  <2>3. CASE Parse
    BY <2>1, <2>3, ParsingIsTimeline, StepIsTimeline
  <2>4. CASE (\E t \in Seconds : RewindTo(t)) \/ Seek
    <3>1. Len(history') = Len(history)
      <4>1. CASE StepBackward \/ StepForward
        BY <2>1, <4>1 DEF StepBackward, StepForward
      <4>2. CASE (\E t \in Seconds : RewindTo(t)) \/ StepThrows \/ SeekReturnThrows \/ FinishSeek
        BY <4>2, QuietSteps
      <4> QED BY <2>4, <4>1, <4>2 DEF Seek
    <3>2. TimelineStep
      BY <2>1, <2>2, <2>4, <3>1, SeekingIsTimeline
    <3> QED BY <2>1, <3>2, StepIsTimeline
  <2>5. CASE \/ BeginShutdown \/ TornDown \/ UNCHANGED vars
             \/ \E i \in Index : TearDown(i) \/ PassEmpty(i)
    <3>1. Len(history') = Len(history)
      BY <2>5, QuietSteps DEF TearDown, Visiting
    <3>2. TimelineStep
      BY <2>1, <2>2, <2>5, <3>1, ClosingIsTimeline
    <3> QED BY <2>1, <3>2, StepIsTimeline
  <2> QED BY <2>3, <2>4, <2>5 DEF HistoryNext, Next, Seconds, vars
<1> QED
  BY <1>1, <1>2, HistoryRuns, InductiveInvariant, StoreInvariant, UniqueInvariant,
     HistoryRemembered, FirstRemembered, PTL
  DEF HistorySpec, ImplementsTimeline, Promise!Spec
=============================================================================
