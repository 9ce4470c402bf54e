# TLA+ verification of WrplReplayParser

The library under `src/replay` reads a recorded War Thunder match (`.wrpl`), rebuilds the
game's entities and replicated objects from the packets the server sent, and then lets a
user move that state to any time of the match. This project models the parts of it where
many operations have to agree on shared state, checks them with TLC on small instances,
and proves the core for every instance with TLAPS.

## The system

| Component | State | Operations | Interacts through |
|---|---|---|---|
| Replay files and readers (`Replay/`) | per file its data and `ref_count`; per reader the position, the running timestamp and the index of the file | `getData`, `getNextPacket`, `load_replay`, `afterParse` | called by the owner of the `ParserState`; packets are handed over one by one; all readers of a replay share its files |
| `ParserState` (`state/ParserState.cpp`) | packet clock `curr_time_ms`, `current_rewind_ms`, `replay_length_ms`; `uid_lookup`, `uid_unit_lookup`; players, teams, zones, areas | `ParsePacket`, `rewindToMs`, `setUnitData`, `getUnitEid`, destructor | calls the entity manager, the entity stream, mpi dispatch; is called back by event handlers |
| Entity store (`ecs/EntityManager.cpp`, `EntityDescs.h`) | descriptors by index, `basic_destroyed`, component chunks, `eidToEventCreationMap` | `createEntity`, `destroyEntity`, `swap_desc`, `allocateOneEid`, destructor | sends events to handlers in the middle of its operations |
| Action history (`ECSRewindManager`, `RewindMgr.h`) | `timeStates`, `curr_index` | `create…Action`, `rewindTo`, `iterateToIndex` | actions call back into the entity store |
| Event handlers (`events/*.cpp.inl`) | units, `currentOwnedUnits`, `allOwnedUnits`, the lookups of `ParserState` | one handler per event and component set | run synchronously inside `sendEventImmediate` |
| Replicated variables (`mpi/reflection.*`) | per variable a history of values and a pointer to the value shown | `deserialize`, `rewindToTime` | packets; `ParserState::rewindToMs` |
| Entity stream (`network/Connection.cpp`) | tables of templates and components known to both ends | construction, replication, destruction packets, written and read | calls the entity store |
| ReliabilitySystem (`Connection.h`) | sequence numbers, pending acknowledgements, received queue | `packetSent`, `packetReceived`, `processAck`, `update`, `genLastSeqAckData` | `CNetwork::onPacket`; callbacks for acknowledged and lost packets |
| mpi dispatch (`mpi/`) | queue of data whose unit does not exist yet, zones and areas | `UnitRef_Dispatch`, `deserializeReflectables`, `on_unit_appear_mpi_es`, `create_zone`, `create_mission_area` | `ParserState`; handlers of the entity store |
| Archetypes, templates, queries (`ecs/`, `GState`) | data shared by all parsers of the process, two shared mutexes; per parser the slots of each archetype | `buildTemplateIdByName`, `instantiateTemplate`, `EnsureArchetype`, `updateAllQueries`, `reserveChunkId`, `releaseChunkId` | every entity store; every event |
| `ThreadPool` (`src/src/include/ThreadPool.h`) | task queue, `activeTasks`, `stop` | `enqueue`, `join`, destructor | threads |

What is hard here: nothing is undone by re-parsing. Every event has to be invertible, and
the handlers that keep lookup tables run inside each inversion, in both directions, any
number of times, in an order no test walks through. Parsers of several replays run in
threads of their own and share the template data base, and readers of one replay share its
files. The stream refers to what it defined long ago, or to units that are yet to come,
and numbers its packets modulo a power of two. The complete list is `hazards` in
`PROJECT.json`, each with its line.

What makes the components correct, in one sentence each:

* entity store: after any seeks, each chunk of components is at exactly one index, and
  what is seen equals what was seen when parsing was at that time;
* handlers: uid and ownership tables always describe exactly the living entities;
* history: the actions applied are exactly those up to the time shown, each applied in
  alternating directions;
* replicated variables: the value shown is the latest one at the time shown, although
  repeated values and failed decodes leave no trace;
* entity stream: both ends derive the same tables from the same packets;
* reliability: only packets that arrived are reported acknowledged, every packet is
  reported, and what an acknowledgement says of the last packets is exact;
* shared templates and archetypes: nothing is made twice, every event finds the entities
  it should, and nothing but a second shared lock of one thread keeps a parser waiting for
  ever;
* readers: packets come once, in order and with their times, across files; the data of a
  file is there while somebody reads it and goes with the last reader;
* mpi queue: a unit's objects are given what was recorded for them, in order, although some
  of it came before the unit;
* thread pool: no task is lost or doubled, no wakeup is lost, waiting ends.

## Modules

| Module | Models | Source |
|---|---|---|
| `EcsRewind` | entity store, action history, handlers, parsing and rewinding, shutdown | `ecs/EntityManager.*`, `EntityDescs.h`, `RewindMgr.h`, `events/*`, `state/ParserState.cpp` |
| `EcsRewindHistory` | `EcsRewind` with a history variable; refinement mapping | – |
| `Timeline` | abstract specification: a log of states and seeks in it | the promise of `rewindToMs` |
| `ReflectionVars` | history of replicated variables | `RewindMgr.h` (`skip_to`), `mpi/reflection.*` |
| `TemplateSync` | both ends of the entity stream | `network/Connection.cpp` |
| `Reliability` | both ends of the reliability system and the network between them | `network/Connection.*` |
| `SharedState` | templates, archetypes, a query and storage slots under several parsers | `ecs/Templates.*`, `ecs/Archetypes.cpp`, `archetypes.h`, `EntityManager.*`, `EntityManagerQuery.cpp` |
| `ReplayReader` | readers of one replay, the data of its files | `Replay/*` |
| `MpiQueue` | reflection data of units, before and after the unit | `mpi/mpi.cpp`, `mpi/ObjectDispatcher.cpp` |
| `ParseReplay` | composition: parsers that take packets from readers and hand data to units | `python/state/State.cpp`, `state/ParserState.cpp` |
| `ThreadPool` | workers and clients of one pool | `src/include/ThreadPool.h` |
| `EcsRewindProofs`, `EcsRewindHistoryProofs`, `ReflectionVarsProofs`, `TemplateSyncProofs`, `ReliabilityProofs`, `SharedStateProofs`, `ParseReplayProofs`, `ThreadPoolProofs` | theorems about the module they are named for; `ParseReplayProofs` has those about `ReplayReader` and `MpiQueue` too | – |
| `MC…` | instances for TLC | – |

### EcsRewind

A replay is single-threaded, so one call is one action, with two exceptions: each step of
`iterateToIndex` and each index of the destructor's loop is an action of its own, so that
the invariants hold at every point where a handler runs, not only between calls.

| In the module | In the code |
|---|---|
| `world.desc` | `EntityDescs::entDescs` (template, archetype and chunk as one name; generation) |
| `world.kind`, `eid`, `value`, `currEid` | the components of a chunk: its classes with `uid` and `unit__playerId`, `eid`, any replicated one, `Unit::curr_eid` |
| `world.uidEid`, `uidUnit`, `owned`, `allOwned` | `uid_lookup`, `uid_unit_lookup`, `MPlayer::currentOwnedUnits`, `MPlayer::allOwnedUnits` |
| `history`, `currIndex` | `timeStates`, `curr_index`; `before`, `after`, `dir`, `held` are the fields of the actions |
| `creationOf` | `eidToEventCreationMap` |
| `ParseCreate`, `ParseDestroy`, `ParseUpdate`, `ParseOther`, `ParseEnd`, `ParseDestroyThrows` | one packet of the recorded stream: `readConstructionPacket` → `createEntity`, `readDestructionPacket` → `destroyEntity`, `deserializeComponentReplication`, anything else, the end marker, a failing assertion |
| `RewindTo`, `StepBackward`, `StepForward`, `StepThrows`, `SeekReturnThrows`, `FinishSeek` | `rewindToMs`, `iterateToIndex` |
| `BeginShutdown`, `TearDown`, `PassEmpty`, `TornDown` | `~ParserState`, `~EntityManager` |
| `tearIndex` | the index `i` of the loop of `~EntityManager` |

`Appear` and `Vanish` are the bodies of the four `forward`/`backward` functions of
creation and destruction. A `G_ASSERT` that fails throws; it becomes the terminal `fault`,
so that "no assertion fires" is an invariant, not an assumption. One index goes out of
range: a forward seek that ends before the first action forms a reference to
`timeStates[-1]`, which nobody reads. In builds whose vectors check their indices
(`EASTL_ASSERT_ENABLED`) it throws; `MayCheckIndex` says whether these builds are included.
They are in `ecs_rewind`, and not in `ecs_timeline`, whose abstract seek arrives.

`EventEntityCreated` is sent once in an entity's life, `EventEntityCreatedBasic` each time
it appears: `allOwnedUnits` grows with the first and is never erased, so at the end it
names units that the destructor has deleted. The players go after the entity store does,
and nothing in the library reads the table; what the tables promise meanwhile is
`DeletedUnitsDropped`, and what this one does, `AllOwnedExact`.

`Timeline` knows states and seeks in them, and nothing of entities. The refinement mapping
`Promise` shows it the state as a sequence of one view, and as the empty sequence once the
replay is closed, so that a closed replay has a value of its own, unlike any view.

Handlers that write a component of their own entity only (rockets, bombs, payloads) are
left out, and re-creation of a living entity, which no replay reaches.

The recorded stream is an input. It is any sequence of creations, destructions and
updates with two restrictions: timestamps do not decrease, and the server does not give a
uid to a second living entity (the assertion at `BaseEntityES.cpp.inl:49` demands that of
the stream). The reader's own checks (entity exists already, entity does not exist) are
guards, and the skipped packets are `ParseOther`. The owner of a unit (`unit__playerId`) is
fixed when the unit is created; that it may be replicated while the unit lives is a listed
hazard, and no property covers it. The handlers' assertion that the player exists
(`UpdateMPlayerES.cpp.inl`) is taken to hold: the stream names players the replay has.

### ReflectionVars

`RewindMgr<SpaceHandler, T, true>` per variable. `index` is `curr_index`, `shown` the state
the value pointer designates. `Deserialize` decodes one packet: each field appends a state
and takes it back if the decoder fails or the value did not change. `RewindToTime` runs the
two binary searches of `goToIndex`, whose results differ by direction. `log` is a history
variable: what was decoded, dropped values included.

### TemplateSync

The writer's tables (`serverTemplatesIdx`, `componentsSynced`, `syncedTemplate`) and the
reader's (`serverTemplates`, `clientTemplatesComponents`, `componentsSynced`), with the
blocks between them in order. A definition lists its components; the first description of
a component carries a hash, and the reader has to know from its own table whether one
follows. `Retemplates` says whether the server may construct a living entity again from
another template.

### Reliability

| In the module | In the code |
|---|---|
| `Seqno`, `IsSeqGt`, `SeqDiff` | `sequence_t` arithmetic, `is_seq_gt`, `seq_diff` |
| `pending`, `queue` | `pendingAcks`, `receivedQueue` |
| `Send`, `ProcessAck`, `UpdateSender` | `packetSent`, `processAck`, `update`, as a peer that sends calls them |
| `Arrive` | `onPacket` of a client with a peer: `packetReceived`, then `genLastSeqAckData` |
| `UpdateReceiver` | `update`, as a peer that receives calls it |

This is the contract of the class. Of its methods the repository calls `packetReceived`
(at the end of `readReplicationPacket`) and, if a peer was set, `genLastSeqAckData` (by
`writeLastRecvdPacketAcks`, `CNetwork.cpp:83-92`). `packetSent`, `processAck` and `update`
have no caller at either end, and the model calls them as a user of the class would. In
particular the guards of `Send` suppose a receiver that calls `update` often enough; the
code's own receiver never trims its queue, and nothing here speaks of a queue that spans
half of the numbers. The network loses a packet by never delivering it.
The numbers wrap, so nothing can be said unless what is alive is young: `Window` bounds the
age of packets, records and acknowledgements, and the assumption `Window + HistoryDepth <=
HalfMax` is what makes `IsSeqGt` an order on everything alive. The real constants satisfy
it with much room. `LowerBound` is what the binary search of `vector_set` finds in a queue
that is so ordered; the order itself is a conjunct of the proved invariant.

### SharedState

| In the module | In the code |
|---|---|
| `templates`, `instOf`, `insts` | `templates` with `template_lookup`, `inst_templates`, `InstantiatedTemplate::archetype_index` |
| `archs`, `query`, `updatedTo` | `archetypes`, the archetypes of a query, `allQueriesUpdatedToArch` |
| `archWriter`, `archShared`, `templShared`, the places `waiting`, `naming`, `instancing` | `archetypes_mtx`, `template_mtx`: who holds them, who waits for them unique |
| `writersFirst` | which kind of `std::shared_mutex` the build has |
| `store`, `home` | `MgrArchetypeStorage` of each parser, the archetype and chunk id of each entity |
| `Lookup`, `AskForTemplates`, `AddTemplate` / `FindInstance`, `AskForTemplates`, `MakeInstance` | `buildTemplateIdByName` / `instantiateTemplate`, each with a shared look and a second one under the unique lock |
| `PeekArchetype` … `ConstructLocked`, `ConstructShared` | `EnsureArchetype`, its first look without a lock |
| `LockForCreate` … `HandledCreated`, `SendDestroyed`, `HandledDestroyed`, `DestroyEntity` | `createEntity`, `destroyEntity` with the events they send |

A section under `template_mtx` is one step; `archetypes_mtx` is held over several, as its
middle is visible to the read without a lock. The events of one call are one locked
section, since they take and leave the same mutex.

A thread that holds `archetypes_mtx` shared asks for it again in two places:
`on_unit_appear_mpi_es` when messages wait for the entity (`UnitRef_Dispatch` reads it with
`getNullable`), and `createEntity` when it moves an entity. The standard leaves that
undefined. Some mutexes grant it; those that let a waiting writer go before every new reader
block, and then the thread and the writer wait for each other. `writersFirst`, a free choice
at the start, says which kind the build has, and there is a property for each:
`EveryReplayEnds` where the lock is granted, and `OnlySecondLocksBlock`, that nothing but
such a lock stops the parsers, where it is not. There the replays need not end: without
its premise `EveryReplayEnds` is violated, after 28 states, by a parser that handles the
creation of an entity with waiting messages and another that waits to add an archetype.
`createEntity` also takes `template_mtx` again for a line of its debugging log; log lines
are left out.

The freeing path of
`destroyEntity` (forced, at teardown, or for handles outside the reserved range) is the
one modelled here: the other path, which parks the chunk for a rewind, is in `EcsRewind`
and frees no slot. Re-creation of a living entity (`add_sub_template`) is public but no
packet leads to it; the slot discipline of moving an entity is checked all the same.

### ReplayReader, MpiQueue and ParseReplay

`ReplayReader` has one thread per reader. `getData` and `afterParse` are split where another
thread can come between: the read and the write of `ref_count`, the test of `zlib_data`, its
`resize` and the reading of the file. `Serialised` says that no two of those calls overlap;
it is what a program does that opens and drops its readers in one thread, and it is FALSE
in the run about threads. `Construct` is the reader of a file of either kind; the one
that decompresses at once may throw, after it was counted. Packets carry their time, or
have that of the packet before; `retry` is the one retry `getNextPacket` allows itself
after a change of file.

`MpiQueue` is the path of one reflectable: applied to the object of the addressed
type, skipped when the unit has none, queued when the entity is no unit yet. `Kept` is what
of a sequence is in a set. It stands where `SelectSeq` would: the standard modules define
that one by a LOCAL recursive operator, which the provers do not have. For the same reason
the loops of `deserializeReflectables` (`Reflect`) and `makeArchetypesQuery` (`MatchesAfter`)
are recursive functions.
`ParseReplay` runs a parser per reader (`LoadFromReader`): take a packet, apply it, stop at
the end marker, at the last packet, or when the reader throws.

### ThreadPool

A section under `queueMutex` is one action; waiting and waking are separate. `notify_one`
of `enqueue` and `notify_all` of the destructor are steps after the mutex was released.
Spurious wakeups are allowed and never relied on.

## Runs

| Run | Instance | Shows |
|---|---|---|
| `ecs_rewind` | 2 server indices, 2 generations, 2 uids, 1 player, 3 kinds, 4 actions, times 0..2 | table consistency and exact seeking at every step of parsing, rewinding, shutdown |
| `ecs_timeline` | 1 index, 1 generation (not that of storage handles), 1 uid, 2 values, 2 kinds, 4 actions, times 0..2 | a rewound state is the parsed state; `Timeline` is implemented; seeks end |
| `reflection_vars` | 1 variable, 3 values and a garbled field, 4 packets, times 0..3 | value shown is exact |
| `thread_pool` | 2 workers, 2 clients, 3 tasks | safety and liveness of the pool |
| `template_sync` | 3 templates that share 2 components, 2 entities, 6 blocks | tables of both ends agree |
| `reliability` | 14 sequence numbers from 11 on, 2 acknowledgement bits, history depth 2, 2 misses are a loss, window 4, 6 packets | acknowledgements are exact, and every packet is reported |
| `shared_state` | 3 parsers, 3 entities, 3 names of which 1 is known, 5 workloads, 2 entities a chunk, both kinds of mutex | nothing is made twice, slots are exact; what can keep a parser waiting |
| `parse_replay` | 2 parsers, 2 entities, 4 recordings of up to 4 files, readers of both kinds | order of packets and of data, life of file data |
| `ecs_unit_stamp` | 1 index, 3 actions, times 0..2 | *violation*: stale time of death |
| `ecs_uidless` | 1 index, 3 actions | *violation*: assertion for a uid of -1 |
| `template_retemplate` | as `template_sync`, `Retemplates` | *violation*: skipped definition |
| `reader_threads` | 2 readers of one file, not serialised | *violation*: a count of `ref_count` is lost |

Why the bounds suffice. Four actions over two indices are a creation, its destruction, the
re-creation of the index (with the same or another generation) and one more event of
another entity, or two creations with updates between them. That is the longest pattern in
which chunks change places: an action only touches the descriptors of its own index and of
its own storage index. Three times and the end of time are the least with which a forward
seek can stop short of the end of the history (with two, every forward seek runs to it);
they also give ties, the first moment, and a target on either side of every action;
rewinds are unbounded in number. A variable needs
three states to have one dropped between two others; four packets give room for a failed
one as well. In the pool a third task distinguishes a queue that empties from one that has
more, and two workers distinguish the last from any other. Three templates over two
components give a first, a partly and a fully known definition; six blocks also hold a
replication, a destruction and a repeated construction.

Six packets from number 11 of 14 wrap after the third, with the window of four spanning the
wrap; they leave packets that are too old for two bits, records that are missed twice, and
queues from which `update` drops entries. Fourteen is near the least that `Window`, the
history and the order allow (`HalfMax` is 6). In `shared_state` three parsers are the least
with a thread between a first look and a second, one in the unique section, and one that
holds the mutex shared; one workload lets all three need the same new template, others make
the archetypes that match a query consecutive or not, and the long one fills one and a half
chunks and frees slots below, at and above the next free one. Messages wait for an entity
of two of the workloads, and entities are moved in two: in each, another parser wants a new
archetype meanwhile. The recordings of
`parse_replay` have data before and after the unit, an entity that is no unit first and one
later, a unit without a model, a creation of an entity that is there, files without a packet
at the start and in the middle, an end marker with packets behind it, and none at all. The
data of an object is one of seven values, the least that tell apart all data of a recording.
Lost counts need two readers of one file only.

`CHECK_DEADLOCK FALSE` is set where the system may stop: a replay ends closed or with a
fault, a stream ends at its bound, a pool ends destroyed, and the parsers of `shared_state`
end their replays or, where writers go first, may wait for each other. `parse_replay` checks
for deadlock; its only final state is the one in which every parser is done. Elsewhere the
liveness properties say where stopping would be wrong (`SeekEnds`, `TasksRun`,
`DestructorReturns`, `EveryPacketReported`, `EveryReplayEnds`, `OnlySecondLocksBlock`).

Each property of a passing run has a mutant: an operator beside the one it replaces,
written as a plausible slip of the code, with which TLC finds the property violated.

### Fairness

* `EcsRewind`: weak fairness of `Seek`. `rewindToMs` is an ordinary call on one thread, so
  once begun it goes on to its end. No fairness for parsing or for asking to rewind: a user
  may stop.
* `ThreadPool`: weak fairness of each worker, each client inside a call, and the
  destructor: threads are scheduled and tasks return. None for `Spurious`, `Enqueue`, `Join`,
  `Stop`.
* `SharedState`: weak fairness of each thread's next step. Waiting for a mutex is a disabled
  step; `EveryReplayEnds` and `OnlySecondLocksBlock` need no more, as every thread asks for a
  bounded number of entities.
* `Reliability`: weak fairness of `Tick` and `UpdateSender`: time passes, and the owner of a
  connection calls `update` again and again. None for the network or the sender.
* `ParseReplay`: weak fairness of each parser's step: each is a loop in a running thread.
  Whether a reader throws is a free choice.

## What the violations show

* `Unit::destroyed_at_ms` (documented as the time the unit was destroyed in the ecs) is
  written again whenever a destruction is redone, from `curr_time_ms`, which
  `rewindToMs` sets only at its end.
* A uid of -1 is accepted when an entity appears and refused by an assertion when it is
  destroyed, by a packet, by a rewind or at the end.
* The assertion that template ids only ever grow by one fails after a construction block
  of an existing entity is skipped with the definition it carries. It needs a server that
  constructs a living entity again from a new template, which the recorded format allows;
  whether the game's server ever does is not known from this repository.
* `ref_count` of a file is changed without a lock. Two threads that open readers of the same
  replay at once can count one reader, and the assertion of `afterParse` fails in the
  destructor of the last. `LoadFromReader` releases the interpreter lock, and
  `experiment/dagor_replay_threading_test` opens readers in twenty threads.

## What is proved

`EcsRewindProofs`, for every number of indices, generations, uids, players, kinds, values
and for every bound, from the assumptions named in `EcsRewind`:

| Theorem | Property |
|---|---|
| `InductiveInvariant` | `Spec => []IInv` |
| `TypeCorrect` | `TypeOK` |
| `DirectionsCorrect` | `DirectionMatches` |
| `NeverTwiceHolds` | the direction assertions never fire |
| `SeekExact` | `SeekIsExact` |
| `CreationMapCorrect` | `CreationMapExact` |
| `StoreInvariant` | `Spec => []StoreInv` |
| `RewindSound` | `RewindNeverAsserts` |
| `ChunksPlaced` | `ChunkAtOneIndex` |
| `OwnedAlwaysExact` | `OwnedExact` |
| `LookupsExact` | `UidLookupExact` |
| `AllOwnedCorrect` | `AllOwnedExact` |
| `DeletedDropped` | `DeletedUnitsDropped` |
| `AllUnitsFreed` | `UnitsAllFreed` |

Of these, `IInv` is inductive, and `StoreInv` is, given `IInv`. `SeekIsExact` speaks of
finished seeks; in between, `LoopInv` says the loop has not passed its target, and
`HistorySorted` turns the single comparison at the loop's head into a statement about the
whole history. `HistorySorted` needs, while parsing, that no recorded action is later than
the clock (`ParseInv`). `DirectionMatches` needs `currIndex = Len(history)` while parsing,
since a new action starts out applied. `CreationMapExact` needs `Ownership`: the chunk at a
server index has the name of the storage index allocated with it, that index is empty
meanwhile, no two server indices hold one chunk, and the map has no keys but living handles.
`StorageNamed` and `RoomLeft` bound what the swaps and the allocator touch. The proof has
one lemma per action (`ParseCreateInv`, …, `TornDownInv`), each over one step per conjunct
the action disturbs; lemmas about the descriptor operators (`SwapDescType`, `AppearType`,
`Stepped`, `Appended`) are stated once.

`StoreInv`, on top of `IInv`, says where every chunk is, as a function of the actions
applied so far, and so needs no replay of the history. `Lives` is about the history alone:
a chunk is created once and destroyed at most once, later and under the same handle; chunks
created at one server index take turns; an update names a living entity. `AllBorn` ties it
to the allocator (the chunks created are those below `nextIndex`) and to `basic_destroyed`.
`Placed` follows from the chunks `Living` at `currIndex`: each is at the handle it was
created under (its `Home`), and each other one is parked at its own storage index.
`OwnedBy` and `Resolves` say that the tables agree with the server's range, `Left` what a
half torn down store still holds, and `AtTheEnd` that a replay is closed only at its end.
`CreateLiving`, `DestroyLiving` and `UpdateLiving` say how one action changes `Living`;
`SeatFree` that the home of a chunk about to appear is empty, for which `Lives` is needed;
`Entering`, `Leaving`, `Gaining` and `Losing` what the swap and the handlers do to placement
and tables. `UndoSound` and `RedoSound` join them: no assertion fires in either direction.

The destructor's loop has an invariant of its own, `Swept`: the indices it has passed hold
no chunk; with `Left` it gives `UnitsAllFreed`. `AllOwnedExact` is inductive given
the two invariants: only a creation adds to `allOwned` (`ParseCreateRoll`), with a chunk
newer than every one listed, and every other operation keeps the lists and the kinds
(`SameRoll`).

`EcsRewindHistoryProofs`, for the same constants:

| Theorem | Property |
|---|---|
| `HistoryRemembered` | `HistorySpec => []HistInv` |
| `ReplayExact` | `StateIsReplayed` |
| `UidsRegistered` | `DestroyedUidRegistered`, if no kind has a uid of -1 (`UidsGiven`) |
| `TimelineImplemented` | `ImplementsTimeline`, under `UidsGiven` and `~MayCheckIndex` |

`StoreInv` says where each chunk is, as a function of the actions applied; `HistInv` adds
what the chunks hold. There is one `val`, a table of values after each number of actions,
that explains three things at once (`Trail`, `Shows`): the values live are `val[currIndex]`,
each update holds the value that is not live, on whichever side of `currIndex` it is, and
each state in `seen` is the `ViewOf` the chunks living then with those values. `ViewIs`
shows that a store whose chunks are placed and named shows just that view, and so
`ReplayExact` follows without undoing anything. `val` is quantified, not a variable:
a chunk created now has its first value in all earlier entries too (`Backdated`), as a
parked chunk keeps its value. `Named` says that `curr_eid` of a living unit with a uid is
its handle.

The refinement has a step of `Timeline` for each kind of step here: parsing appends to the
log, a step of the loop moves by one state, `FinishSeek` arrives, and closing shows nothing.
`FinishSeek` needs `SeekIsExact`. The two hypotheses are needed. An abstract seek fails in
an empty history only, and a checked index would fail elsewhere too. A uid of -1 fails an
assertion in the middle of a seek, as `ecs_uidless` shows; `UidsRegistered` says that this
is the only way to do it.

`ThreadPoolProofs`, for any number of workers, clients and tasks, from `PoolAssumption`
(a non-empty finite set of workers, an owner among the clients, `NoTask` is no task):

| Theorem | Property |
|---|---|
| `InductiveInvariant` | `Spec => []IInv` |
| `TypeCorrect` | `TypeOK` |
| `ActiveIsExact` | `ActiveCounts` |
| `EveryTaskOnce` | `RunsOnce` |
| `JoinersAreWoken` | `JoinNeverSleepsIdle` |
| `DestructorDrains` | `DestroyedMeansDone` |
| `JoinWaits` | `JoinMeansDone` |

`IInv` adds to the checked invariants `Custody` (a worker holds a task exactly while it is
busy, and the task's count says whether it ran), `NoDoubles` (the queue has no task twice)
and `Drained` (a worker that left saw `stop` and an empty queue, which stays empty). The
step from `activeTasks = 0` to "nobody is busy" counts: `CrewGrows` and `CrewShrinks` show
that the count follows the set of busy workers, and `IdleMeansNobodyBusy` reads it back.
`JoinWaits` and `DestructorDrains` then rest on `NothingLeft`: a task that was enqueued and
is neither queued nor in hand has run. The theorems are about `Spec`, without fairness; the
run checks the same properties under `FairSpec`, which implies it.

`SharedStateProofs`, for any number of parsers, entities and names, any workloads and any
chunk size:

| Theorem | Property |
|---|---|
| `CoreInvariant` | `Spec => []CoreInv` |
| `NothingTwiceAlways` | `NothingTwice` |
| `StoresInvariant` | `Spec => []IInv` |
| `TypeCorrect` | `TypeOK` |
| `SlotsAlwaysExact` | `SlotsExact` |
| `EntitiesAlwaysQueried` | `EntitiesQueried` |

`CoreInv` is about what is shared: `Registry` says how templates, instances and archetypes
refer to each other, `ThreadInv` what a thread that is in the middle of `createEntity` has
in hand and may rely on although others go on: its template is there, its instance is the
one of the template, its archetype has an index. `StoreInv` is about what a parser has
alone; `ReservedIsExact` and `ReleasedIsExact` show that the next free slot stays the lowest
one, for which the scan needs an answer: `LeastNat`, by the well-foundedness of the
naturals.

`QueryInv` says that the query lists the matching archetypes up to `updatedTo`, once each
and in order (`QueryExact`), and that `updatedTo` lags behind the table by one archetype
exactly while the thread that added it still holds the lock (`Updated`, `LocksHeld`). So
one turn of the loop is all an update ever takes (`OneMatch`), and whoever finds the lock
free finds the query complete.

`ReliabilityProofs`, for every width of the numbers and the bits, every depth, window and
threshold that satisfy `ReliabilityAssumption`:

| Theorem | Property |
|---|---|
| `ReliabilityInvariant` | `Spec => []IInv` |
| `TypeCorrect` | `TypeOK` |
| `AckedAlwaysReceived` | `AckedWasReceived` |
| `AcksAlwaysExact` | `AcksExact` |

The proof takes the wrapped numbers back to packets. `Stands` says which packet a number
stands for; packets at most `HalfMax` apart compare as their numbers do. `QueueInv` says
that the queue is in order and has everything recent that arrived, `AliveInv` how old
things are, and `AckTrue` that each bit of an acknowledgement in the network stands for a
packet that arrived, or for one too old to be recorded. The proof of a bit is then a
computation with two packets.

`ParseReplayProofs`, for any recordings and any number of parsers:

| Theorem | Property |
|---|---|
| `ReaderInvariant` | `ReaderSpec => []IInv`, under `Serialised` |
| `DataHeldAlways`, `DataHeldWhileParsing` | `DataHeld`, under `Serialised` |
| `AfterParseNeverAsserts`, `ParsersNeverAssert` | `AfterParseCounted`, under `Serialised` |
| `ParsersAreReaders` | `Spec => ReaderSpec` |
| `ReadInvariant` | `Spec => []ReadInv` |
| `ReadInOrderAlways` | `ReadInOrder` |
| `QueueInvariant` | `Spec => []QueueInv` |
| `AppliedInOrderAlways` | `AppliedInOrder` |

`Alone` says that one thread at most is inside a call, `Between` what it knows there: the
count it read is the count. The number of holders follows by adding and removing one
(`HolderAdded`, `HolderRemoved`). `ParsersAreReaders` carries every theorem about readers
over to the composition. `reader_threads` shows that the hypothesis is needed. What is
parsed does not depend on it: the theorems about order hold for any overlap of calls.

`ReadInv` says of each parser that it has parsed the packets of the files behind it and
those before its place in the file (`InPlace`), and why it leaves a file (`LeavesWell`): for
good at an end marker or a file without a packet, otherwise at the end, with the retry
still to come. `Given`, what a parser should get, is computed from the recording as a whole;
`GivenBegins` says that the packets before a place in the files are a beginning of it, and
all of it once the reader leaves for good.

`QueueInv` says that what waits for an entity, or what its unit was given of it, is what was
recorded for it since it last stopped being a unit (`Recent`), and that `kind` is what the
packets parsed make of the entity (`There`, `IsUnit`). `ReflectDoes` is the closed form of
the loop over a packet's reflectables, whatever their order and entities: for each entity,
the loop appends its part. The proof found a flaw of an earlier statement of
`AppliedInOrder`, which took a repeated creation of a living entity for the appearance
of a unit; the code leaves such an entity alone. The property now says so, and a
recording of the run has that case.

The lemmas about sequences (`FlattenSeq`, `Kept`, prefixes) rest on `NatInduct` and
`SeqInduct`, which state induction with a set of numbers or of sequences in the place of
a predicate, and so take no operator as a parameter.

`TemplateSyncProofs`, for any templates, components, entities and number of blocks, under
`~Retemplates`:

| Theorem | Property |
|---|---|
| `SyncInvariant` | `Spec => []IInv` |
| `TypeCorrect` | `TypeOK` |
| `StreamNeverLost` | `NeverLost` |
| `TablesAlwaysAgree` | `TablesAgree` |
| `ReaderCatchesUp` | `CaughtUp` |

Writer and reader never share a state; the invariant speaks of what the reader is going to
know when it reaches a block that is still on its way. `SyncedAt` (components) and `GoneAt`
(entities) say so by position in the channel; reading a block brings the others one place
nearer and changes neither (`SyncedAtRead`, `GoneAtRead`), and writing adds a block at the
end. `InOrder` says definitions come in the order of their indices, `Resolved` that a
reference comes after its definition. `template_retemplate` shows that the hypothesis is
needed.

`ReflectionVarsProofs`, for any variables, values, times and number of packets:

| Theorem | Property |
|---|---|
| `VariablesInvariant` | `Spec => []IInv` |
| `TypeCorrect` | `TypeOK` |
| `LatestIsShown` | `ShownIsLatest` |
| `ExactWhenUntied` | `UntiedIsExact` |

`HistoryInv` relates the history to what was decoded: it is ordered (`Sorted`), has nothing
that was not decoded (`Recorded`), and whatever was decoded and is not in it repeated the
value that was last at the time (`Kept`). `ShownAt` says which state is shown: one of the
very time, or the last before it. `SeekShows` proves it of a seek from any `curr_index`,
that is without a relation between the index and the pointer, which a removal breaks; both
binary searches have an answer by `PrefixExists`.

Model-checked only: liveness and everything under fairness, which is outside TLAPS's reach:
`SeekEnds`, `TasksRun`, `DestructorReturns`, `EveryReplayEnds`, `OnlySecondLocksBlock`,
`EveryPacketReported`, `ParsersFinish`, and that `parse_replay` does not deadlock. Every
invariant and every refinement the passing runs check is also a theorem.

## Not modelled

* Most of the tree is vendored code, generated tables, the graphical inspector, assets of
  the game and trials under `experiment`. None of it keeps state of the library.
* Codecs, the packet framing, decompression, the header, compressed integers and the layout
  of components: sequential transformations of bytes. A model would repeat them bit for bit.
* Start-up: templates from game data, event tables, component types and the registry of
  message classes are filled once, before anything runs, and only read afterwards.
* Mission objects (zones and areas): their lists grow as the stream says. What can go wrong
  depends on the order in which the server announces them, of which the repository says
  nothing; the hazards name the lines.
* Messages to units: `dispatchMpiMessage` of units yields none; the other messages are
  dispatched without state.
* Append-only records of `ParserState` (chat messages and the like), the handlers that write a
  component of their own entity, and printing.
* The free list of `allocateOneEid`: server handles are given by the stream, and local
  ones are made by no packet.
* The Clog decryptor and the python bindings, except `LoadFromReader`.

## Plan

1. An owner that changes by replication (`unit__playerId`) in `EcsRewind`, with the value
   of the component no longer opaque; mission objects, once the order of announcements
   is known.
2. Proofs: that some parser of `SharedState` can step in each state that is not final, where
   a second shared lock is granted, as a statement about guards; the acknowledged and lost
   packets of `Reliability` as an abstract specification of its own.
3. `Reliability` with a receiver that never calls `update`: for how long the bits of its
   acknowledgements stay exact while the queue grows around the numbers.
