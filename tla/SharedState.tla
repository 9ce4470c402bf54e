----------------------------- MODULE SharedState -----------------------------
(***************************************************************************)
(* GState, the data base that every parser of the process shares, seen     *)
(* from parsers that each read a replay in a thread of their own:          *)
(* templates are added, instantiated and given an archetype the first time *)
(* some parser needs them (buildTemplateIdByName, instantiateTemplate,     *)
(* EnsureArchetype), queries follow the archetypes, and each parser keeps  *)
(* the entities of an archetype in slots of its own storage.               *)
(*                                                                         *)
(* template_mtx and archetypes_mtx are shared mutexes.  A section is split *)
(* into steps where another thread can see its middle: the fast path of    *)
(* EnsureArchetype reads archetype_index with no lock at all.              *)
(*                                                                         *)
(* A thread that holds archetypes_mtx shared asks for it again in two      *)
(* places: createEntity, when it moves an entity that is already there,    *)
(* and the handlers of EventEntityCreated, when messages wait for the      *)
(* entity.  The standard does not say what a shared_mutex does with that.  *)
(* Some grant it; those that let a waiting writer go before every new      *)
(* reader do not.  writersFirst tells the two kinds of build apart.        *)
(*                                                                         *)
(* Abstractions: components and their data are left out, and so are the    *)
(* log lines, one of which takes template_mtx again in createEntity; a     *)
(* query is the set of templates it matches; an archetype is the template  *)
(* it was made for; indices start at 1 and 0 is the invalid index.         *)
(***************************************************************************)
EXTENDS Integers, Sequences, FiniteSets

CONSTANTS
  Parser,     \* threads, each with a ParserState and an EntityManager
  Entity,     \* entity handles of one replay
  Name,       \* template names
  Known,      \* names in the data base from the start, as a sequence
  Matched,    \* templates the query matches
  Workloads,  \* what the replays may ask for: a sequence of Request per parser
  ChunkSize,  \* entities per chunk
  NoParser

\* queued: do messages wait for the entity (ParserState::get_queued_data)?
Request == [op : {"create", "destroy"}, entity : Entity, name : Name, queued : BOOLEAN]

ASSUME SharedAssumption ==
  /\ NoParser \notin Parser
  /\ Known \in Seq(Name)
  /\ \A i, j \in 1 .. Len(Known) : Known[i] = Known[j] => i = j
  /\ Matched \subseteq Name
  /\ Workloads \subseteq [Parser -> Seq(Request)]
  /\ ChunkSize \in Nat \ {0}

VARIABLES
  templates,  \* templates and template_lookup: the name of each template_t
  instOf,     \* inst_templates: the instance of each template, or 0
  insts,      \* every InstantiatedTemplate made: its template and archetype_index
  archs,      \* archetypes: the template of each
  query,      \* the archetypes of the query, in order
  updatedTo,  \* allQueriesUpdatedToArch
  archWriter, \* the thread that holds archetypes_mtx unique
  archShared, \* the threads that hold it shared
  templShared,\* the threads that hold template_mtx shared
  writersFirst,\* does a waiting writer go before every new shared lock?
  pc,         \* where each thread is
  todo,       \* what is left of each replay
  tid, inst, arch, \* the thread's templId, inst and archetype_id
  store,      \* arch_data: the slots of each archetype a parser has constructed
  home        \* archetype and slot of each entity of each parser

shared == <<templates, instOf, insts, archs, query, updatedTo>>
locks  == <<archWriter, archShared, templShared>>
local  == <<tid, inst, arch>>
own    == <<store, home>>
vars   == <<shared, locks, writersFirst, pc, todo, local, own>>

NoHome == [arch |-> 0, slot |-> -1]

\* A storage slot table: how many slots exist, which are taken, and
\* last_available_slot, -1 for none.
NoSlots == [size |-> 0, used |-> {}, last |-> -1]

\* A null entry of MgrArchetypeStorage::data.
Absent == [NoSlots EXCEPT !.size = -1]

Init ==
  /\ templates = Known
  /\ instOf = [t \in 1 .. Len(Known) |-> 0]
  /\ insts = << >>
  /\ archs = << >>
  /\ query = << >>
  /\ updatedTo = 0
  /\ archWriter = NoParser
  /\ archShared = {}
  /\ templShared = {}
  /\ writersFirst \in BOOLEAN
  /\ pc = [p \in Parser |-> "idle"]
  /\ todo \in Workloads
  /\ tid = [p \in Parser |-> 0]
  /\ inst = [p \in Parser |-> 0]
  /\ arch = [p \in Parser |-> 0]
  /\ store = [p \in Parser |-> << >>]
  /\ home = [p \in Parser |-> [e \in Entity |-> NoHome]]

Goto(p, at) == pc' = [pc EXCEPT ![p] = at]

Now(p, op) == pc[p] = "idle" /\ todo[p] # << >> /\ Head(todo[p]).op = op

-----------------------------------------------------------------------------
(* The mutexes.  A thread that asks for one unique waits until nobody holds it. *)

WaitForArchetypes == {p \in Parser : pc[p] = "waiting"}
WaitForTemplates  == {p \in Parser : pc[p] \in {"naming", "instancing"}}

\* May a thread take the mutex shared?
ShareArchetypes == archWriter = NoParser /\ (writersFirst => WaitForArchetypes = {})
ShareTemplates  == writersFirst => WaitForTemplates = {}

-----------------------------------------------------------------------------
(* TemplateDB.  A section under template_mtx is one step; createEntity alone *)
(* holds it longer, shared.                                                  *)

\* getTemplateIdByNameNoLock
IdOf(n) == {t \in 1 .. Len(templates) : templates[t] = n}

\* buildTemplateIdByName: is the template there?
Lookup(p) ==
  LET n == Head(todo[p]).name
  IN  /\ Now(p, "create")
      /\ ShareTemplates
      /\ IF IdOf(n) = {}
         THEN Goto(p, "unnamed") /\ UNCHANGED tid
         ELSE Goto(p, "named") /\ \E t \in IdOf(n) : tid' = [tid EXCEPT ![p] = t]
      /\ UNCHANGED <<shared, locks, todo, inst, arch, own>>

AskForTemplates(p) ==
  /\ \/ pc[p] = "unnamed" /\ Goto(p, "naming")
     \/ pc[p] = "uninstanced" /\ Goto(p, "instancing")
  /\ UNCHANGED <<shared, locks, todo, local, own>>

\* ... under the unique lock: look again, then add the compound template.
AddTemplate(p) ==
  LET n == Head(todo[p]).name
  IN  /\ pc[p] = "naming"
      /\ templShared = {}
      /\ IF IdOf(n) = {}
         THEN /\ templates' = Append(templates, n)
              /\ instOf' = Append(instOf, 0)
              /\ tid' = [tid EXCEPT ![p] = Len(templates) + 1]
         ELSE /\ \E t \in IdOf(n) : tid' = [tid EXCEPT ![p] = t]
              /\ UNCHANGED <<templates, instOf>>
      /\ Goto(p, "named")
      /\ UNCHANGED <<insts, archs, query, updatedTo, locks, todo, inst, arch, own>>

\* instantiateTemplate: is it instantiated?
FindInstance(p) ==
  /\ pc[p] = "named"
  /\ ShareTemplates
  /\ Goto(p, IF instOf[tid[p]] = 0 THEN "uninstanced" ELSE "instanced")
  /\ UNCHANGED <<shared, locks, todo, local, own>>

\* ... under the unique lock: look again, then make it.
MakeInstance(p) ==
  /\ pc[p] = "instancing"
  /\ templShared = {}
  /\ IF instOf[tid[p]] = 0
     THEN /\ insts' = Append(insts, [template |-> tid[p], arch |-> 0])
          /\ instOf' = [instOf EXCEPT ![tid[p]] = Len(insts) + 1]
     ELSE UNCHANGED <<insts, instOf>>
  /\ Goto(p, "instanced")
  /\ UNCHANGED <<templates, archs, query, updatedTo, locks, todo, local, own>>

-----------------------------------------------------------------------------
(* EnsureArchetype *)

\* Mutant of PeekArchetype: archetype_index is read under a shared lock, which is
\* still held when the unique one is asked for.
PeekArchetypeHolding(p) ==
  LET i == instOf[tid[p]]
  IN  /\ pc[p] = "instanced"
      /\ ShareTemplates /\ ShareArchetypes
      /\ inst' = [inst EXCEPT ![p] = i]
      /\ arch' = [arch EXCEPT ![p] = insts[i].arch]
      /\ archShared' = IF insts[i].arch = 0 THEN archShared \cup {p} ELSE archShared
      /\ Goto(p, IF insts[i].arch = 0 THEN "missing" ELSE "present")
      /\ UNCHANGED <<shared, archWriter, templShared, todo, tid, own>>

\* getInstTemplate, and archetype_index read without a lock
PeekArchetype(p) ==
  LET i == instOf[tid[p]]
  IN  /\ pc[p] = "instanced"
      /\ ShareTemplates
      /\ inst' = [inst EXCEPT ![p] = i]
      /\ arch' = [arch EXCEPT ![p] = insts[i].arch]
      /\ Goto(p, IF insts[i].arch = 0 THEN "missing" ELSE "present")
      /\ UNCHANGED <<shared, locks, todo, tid, own>>

AskForArchetypes(p) ==
  /\ pc[p] = "missing"
  /\ Goto(p, "waiting")
  /\ UNCHANGED <<shared, locks, todo, local, own>>

LockArchetypes(p) ==
  /\ pc[p] = "waiting"
  /\ archWriter = NoParser /\ archShared = {}
  /\ archWriter' = p
  /\ Goto(p, "locked")
  /\ UNCHANGED <<shared, archShared, templShared, todo, local, own>>

\* Mutants of CreateArchetype: the size of the table is taken for the index of its
\* last entry; archetype_index is not read again.
CreateArchetypePastEnd(p) ==
  /\ pc[p] = "locked"
  /\ IF insts[inst[p]].arch = 0
     THEN /\ archs' = Append(archs, tid[p])
          /\ insts' = [insts EXCEPT ![inst[p]].arch = Len(archs) + 2]
          /\ arch' = [arch EXCEPT ![p] = Len(archs) + 2]
          /\ Goto(p, "published")
     ELSE /\ arch' = [arch EXCEPT ![p] = insts[inst[p]].arch]
          /\ Goto(p, "created")
          /\ UNCHANGED <<archs, insts>>
  /\ UNCHANGED <<templates, instOf, query, updatedTo, locks, todo, tid, inst, own>>

CreateArchetypeBlind(p) ==
  /\ pc[p] = "locked"
  /\ archs' = Append(archs, tid[p])
  /\ insts' = [insts EXCEPT ![inst[p]].arch = Len(archs) + 1]
  /\ arch' = [arch EXCEPT ![p] = Len(archs) + 1]
  /\ Goto(p, "published")
  /\ UNCHANGED <<templates, instOf, query, updatedTo, locks, todo, tid, inst, own>>

\* Read archetype_index again; when it is still invalid create the archetype and
\* publish its index.
CreateArchetype(p) ==
  /\ pc[p] = "locked"
  /\ IF insts[inst[p]].arch = 0
     THEN /\ archs' = Append(archs, tid[p])
          /\ insts' = [insts EXCEPT ![inst[p]].arch = Len(archs) + 1]
          /\ arch' = [arch EXCEPT ![p] = Len(archs) + 1]
          /\ Goto(p, "published")
     ELSE /\ arch' = [arch EXCEPT ![p] = insts[inst[p]].arch]
          /\ Goto(p, "created")
          /\ UNCHANGED <<archs, insts>>
  /\ UNCHANGED <<templates, instOf, query, updatedTo, locks, todo, tid, inst, own>>

\* The loop of makeArchetypesQuery over the archetypes after the first n: found[a] is
\* what it has found when it has looked at archetype a.
MatchesAfter(n) ==
  LET found[a \in n .. Len(archs)] ==
        IF a = n THEN << >>
        ELSE IF templates[archs[a]] \in Matched THEN Append(found[a - 1], a)
        ELSE found[a - 1]
  IN  found[Len(archs)]

\* Mutant of NewMatches: starts one archetype too late.
NewMatchesLate == MatchesAfter(updatedTo + 1)

\* makeArchetypesQuery: the archetypes added since the last update that match
NewMatches == MatchesAfter(updatedTo)

\* updateAllQueries
UpdateQueries(p) ==
  /\ pc[p] = "published"
  /\ IF updatedTo = Len(archs)
     THEN UNCHANGED <<query, updatedTo>>
     ELSE /\ query' = query \o NewMatches
          /\ updatedTo' = Len(archs)
  /\ Goto(p, "created")
  /\ UNCHANGED <<templates, instOf, insts, archs, locks, todo, local, own>>

\* MgrArchetypeStorage::constructArch: the table grows to the index, and the
\* archetype gets storage when it has none.
Constructed(s, a) ==
  [i \in 1 .. IF a > Len(s) THEN a ELSE Len(s) |->
     IF i <= Len(s) /\ s[i] # Absent THEN s[i] ELSE IF i = a THEN NoSlots ELSE Absent]

ConstructLocked(p) ==
  /\ pc[p] = "created"
  /\ store' = [store EXCEPT ![p] = Constructed(@, arch[p])]
  /\ archWriter' = NoParser
  /\ Goto(p, "ensured")
  /\ UNCHANGED <<shared, archShared, templShared, todo, local, home>>

ConstructShared(p) ==
  /\ pc[p] = "present"
  /\ ShareArchetypes
  /\ store' = [store EXCEPT ![p] = Constructed(@, arch[p])]
  /\ Goto(p, "ensured")
  /\ UNCHANGED <<shared, locks, todo, local, home>>

-----------------------------------------------------------------------------
(* Archetype: slots *)

\* AllocateChunk
Grown(s) == [s EXCEPT !.size = @ + ChunkSize]

\* getNextAvailableChunkId
NextAvailable(s) ==
  IF s.last = -1 THEN [Grown(s) EXCEPT !.last = s.size] ELSE s

LowestOf(S) == CHOOSE x \in S : \A y \in S : x <= y

\* Mutant of Reserved: the next slot is taken to be free.
ReservedNext(s) ==
  IF s.last + 1 < s.size
  THEN [s EXCEPT !.used = @ \cup {s.last}, !.last = @ + 1]
  ELSE [Grown(s) EXCEPT !.used = @ \cup {s.last}, !.last = s.size]

\* reserveChunkId of last_available_slot: scan for the next free slot, or
\* allocate a chunk and take its first
Reserved(s) ==
  LET free == {x \in s.last + 1 .. s.size - 1 : x \notin s.used}
  IN  IF free # {}
      THEN [s EXCEPT !.used = @ \cup {s.last}, !.last = LowestOf(free)]
      ELSE [Grown(s) EXCEPT !.used = @ \cup {s.last}, !.last = s.size]

\* releaseChunkId
Released(s, x) ==
  [s EXCEPT !.used = @ \ {x}, !.last = IF x < s.last THEN x ELSE @]

-----------------------------------------------------------------------------
(* Queries *)

\* fillEidQueryView: the entry of archetype a in the query, 0 for none.  When the
\* archetypes of the query are consecutive the offset from the first is the entry;
\* else it is searched for.
QueryIndex(a) ==
  IF query = << >> \/ a > query[Len(query)] THEN 0
  ELSE LET i == IF a # query[1] /\ query[Len(query)] + 1 # Len(query) + query[1]
                THEN CHOOSE k \in 1 .. Len(query) + 1 :
                       IF \E j \in 1 .. Len(query) : query[j] = a
                       THEN k <= Len(query) /\ query[k] = a
                       ELSE k = Len(query) + 1
                ELSE a - query[1] + 1
       IN  IF i \in 1 .. Len(query) THEN i ELSE 0

-----------------------------------------------------------------------------
(* createEntity and destroyEntity *)

\* createEntity takes archetypes_mtx shared, then template_mtx.
LockForCreate(p) ==
  /\ pc[p] = "ensured"
  /\ ShareArchetypes
  /\ archShared' = archShared \cup {p}
  /\ Goto(p, "entering")
  /\ UNCHANGED <<shared, archWriter, templShared, todo, local, own>>

LockTemplates(p) ==
  /\ pc[p] = "entering"
  /\ ShareTemplates
  /\ templShared' = templShared \cup {p}
  /\ Goto(p, "filling")
  /\ UNCHANGED <<shared, archWriter, archShared, todo, local, own>>

\* The store with the entity moved into a new slot of archetype a: the slot is
\* taken first, then the one of a recreated entity is released.
Housed(s, a, old) ==
  LET taken == [s EXCEPT ![a] = Reserved(NextAvailable(@))]
  IN  IF old = NoHome THEN taken
      ELSE [taken EXCEPT ![old.arch] = Released(@, old.slot)]

\* Reserve a slot, fill it, enter the entity.  For an entity that is already there
\* getNullable asks for archetypes_mtx again; a new one is announced.
FillEntity(p) ==
  LET e == Head(todo[p]).entity
      a == arch[p]
  IN  /\ pc[p] = "filling"
      /\ home[p][e] # NoHome => ShareArchetypes
      /\ store' = [store EXCEPT ![p] = Housed(@, a, home[p][e])]
      /\ home' = [home EXCEPT ![p][e] = [arch |-> a, slot |-> NextAvailable(store[p][a]).last]]
      /\ archShared' = archShared \ {p}
      /\ templShared' = templShared \ {p}
      /\ IF home[p][e] = NoHome
         THEN Goto(p, "announcing") /\ UNCHANGED todo
         ELSE Goto(p, "idle") /\ todo' = [todo EXCEPT ![p] = Tail(@)]
      /\ UNCHANGED <<shared, archWriter, local>>

\* sendEventImmediate holds archetypes_mtx shared while the handlers run.
SendCreated(p) ==
  /\ pc[p] = "announcing"
  /\ ShareArchetypes
  /\ archShared' = archShared \cup {p}
  /\ Goto(p, "handling")
  /\ UNCHANGED <<shared, archWriter, templShared, todo, local, own>>

\* Mutant of HandledCreated: a handler needs archetypes_mtx unique, as one that
\* creates an entity of a new template would.
HandlerCreates(p) ==
  /\ pc[p] = "handling"
  /\ archWriter = NoParser /\ archShared = {}
  /\ todo' = [todo EXCEPT ![p] = Tail(@)]
  /\ Goto(p, "idle")
  /\ UNCHANGED <<shared, locks, local, own>>

\* When messages wait for the entity, on_unit_appear_mpi_es dispatches them, and
\* UnitRef_Dispatch reads the entity: getNullable asks for archetypes_mtx again.
HandledCreated(p) ==
  /\ pc[p] = "handling"
  /\ Head(todo[p]).queued => ShareArchetypes
  /\ archShared' = archShared \ {p}
  /\ todo' = [todo EXCEPT ![p] = Tail(@)]
  /\ Goto(p, "idle")
  /\ UNCHANGED <<shared, archWriter, templShared, local, own>>

\* destroyEntity of an entity that is not there does nothing.
DestroyAbsent(p) ==
  /\ Now(p, "destroy")
  /\ home[p][Head(todo[p]).entity] = NoHome
  /\ todo' = [todo EXCEPT ![p] = Tail(@)]
  /\ UNCHANGED <<shared, locks, pc, local, own>>

\* destroyEntity sends its events first.
SendDestroyed(p) ==
  /\ Now(p, "destroy")
  /\ home[p][Head(todo[p]).entity] # NoHome
  /\ ShareArchetypes
  /\ archShared' = archShared \cup {p}
  /\ Goto(p, "destroying")
  /\ UNCHANGED <<shared, archWriter, templShared, todo, local, own>>

HandledDestroyed(p) ==
  /\ pc[p] = "destroying"
  /\ archShared' = archShared \ {p}
  /\ Goto(p, "freeing")
  /\ UNCHANGED <<shared, archWriter, templShared, todo, local, own>>

\* The rest runs under no lock.
DestroyEntity(p) ==
  LET e == Head(todo[p]).entity
      h == home[p][e]
  IN  /\ pc[p] = "freeing"
      /\ store' = [store EXCEPT ![p][h.arch] = Released(@, h.slot)]
      /\ home' = [home EXCEPT ![p][e] = NoHome]
      /\ todo' = [todo EXCEPT ![p] = Tail(@)]
      /\ Goto(p, "idle")
      /\ UNCHANGED <<shared, locks, local>>

-----------------------------------------------------------------------------

Step(p) ==
  /\ UNCHANGED writersFirst
  /\ \/ Lookup(p) \/ FindInstance(p)
     \/ AskForTemplates(p) \/ AddTemplate(p) \/ MakeInstance(p)
     \/ PeekArchetype(p) \/ AskForArchetypes(p) \/ LockArchetypes(p)
     \/ CreateArchetype(p) \/ UpdateQueries(p) \/ ConstructLocked(p)
     \/ ConstructShared(p) \/ LockForCreate(p) \/ LockTemplates(p) \/ FillEntity(p)
     \/ SendCreated(p) \/ HandledCreated(p)
     \/ DestroyAbsent(p) \/ SendDestroyed(p) \/ HandledDestroyed(p) \/ DestroyEntity(p)

Next == \E p \in Parser : Step(p)

Spec == Init /\ [][Next]_vars

\* Every thread runs: a step it can take for ever is taken.
FairSpec == Spec /\ \A p \in Parser : WF_vars(Step(p))

-----------------------------------------------------------------------------
(* Properties *)

PCs == {"idle", "unnamed", "naming", "named", "uninstanced", "instancing", "instanced",
        "missing", "waiting", "locked", "published", "created", "present", "ensured",
        "entering", "filling", "announcing", "handling", "destroying", "freeing"}

SlotTable == [size : {-1} \cup Nat, used : SUBSET Nat, last : {-1} \cup Nat]

SharedTypeOK ==
  /\ templates \in Seq(Name)
  /\ instOf \in Seq(0 .. Len(insts)) /\ Len(instOf) = Len(templates)
  /\ insts \in Seq([template : 1 .. Len(templates), arch : 0 .. Len(archs)])
  /\ archs \in Seq(1 .. Len(templates))
  /\ updatedTo \in 0 .. Len(archs)

ThreadTypeOK ==
  /\ archWriter \in Parser \cup {NoParser}
  /\ archShared \subseteq Parser
  /\ templShared \subseteq Parser
  /\ pc \in [Parser -> PCs]
  /\ todo \in [Parser -> Seq(Request)]
  /\ tid \in [Parser -> 0 .. Len(templates)]
  /\ inst \in [Parser -> 0 .. Len(insts)]
  /\ arch \in [Parser -> 0 .. Len(archs)]

OwnTypeOK ==
  /\ store \in [Parser -> Seq(SlotTable)]
  /\ home \in [Parser -> [Entity -> [arch : 0 .. Len(archs), slot : {-1} \cup Nat]]]

\* Types of the variables; every index is one of its table.
TypeOK == SharedTypeOK /\ ThreadTypeOK /\ OwnTypeOK /\ writersFirst \in BOOLEAN

OneTemplatePerName ==
  \A t, u \in DOMAIN templates : templates[t] = templates[u] => t = u

OneInstancePerTemplate ==
  \A i \in DOMAIN insts : instOf[insts[i].template] = i

OneArchetypePerTemplate ==
  \A a, b \in DOMAIN archs : archs[a] = archs[b] => a = b

\* Whatever the threads do at once, no name gets two templates, no template two
\* instances or two archetypes (the second looks of buildTemplateIdByName,
\* instantiateTemplate and EnsureArchetype under the unique lock).
NothingTwice == OneTemplatePerName /\ OneInstancePerTemplate /\ OneArchetypePerTemplate

\* An event finds the components of an entity exactly when the query matches the
\* entity's template, and in the query's entry of its archetype, even if another
\* parser added the archetype (fillEidQueryView after updateAllQueries).
EntitiesQueried ==
  archWriter = NoParser =>
    \A p \in Parser, e \in Entity : home[p][e] # NoHome =>
      LET a == home[p][e].arch
          i == QueryIndex(a)
      IN  IF templates[archs[a]] \in Matched
          THEN i \in 1 .. Len(query) /\ query[i] = a
          ELSE i = 0

\* A slot table in which exactly the slots of T are taken, all in chunks it has, and
\* last_available_slot is the lowest free one.
TableExact(s, T) ==
  /\ s.used = T /\ T \subseteq 0 .. s.size - 1
  /\ T # {} => s.last # -1
  /\ s.last # -1 => s.last < s.size /\ s.last \notin T /\ 0 .. s.last - 1 \subseteq T

\* The slots of archetype a that entities with the homes h sit in.
Taken(h, a) == {h[e].slot : e \in {f \in Entity : h[f].arch = a}}

StorageExact(tables, h) ==
  /\ \A e \in Entity : h[e] # NoHome => h[e].arch \in DOMAIN tables
  /\ \A e, f \in Entity : e # f /\ h[e] # NoHome => h[e] # h[f]
  /\ \A a \in DOMAIN tables : TableExact(tables[a], Taken(h, a))

\* Every entity sits in storage its parser constructed, no two in one slot;
\* exactly their slots are taken, and last_available_slot is the lowest free one
\* (reserveChunkId and releaseChunkId, which only look upwards from it).
SlotsExact == \A p \in Parser : StorageExact(store[p], home[p])

Ended == \A p \in Parser : pc[p] = "idle" /\ todo[p] = << >>

\* Where a mutex grants a reader a second shared lock, every parser gets to the end
\* of its replay: the order in which EnsureArchetype, createEntity and the events
\* take the two mutexes leaves nobody waiting for ever.
EveryReplayEnds == ~writersFirst => <>Ended

\* A thread that holds archetypes_mtx asks for it again, behind a writer that waits
\* for this very thread.
Caught(p) ==
  /\ p \in archShared
  /\ WaitForArchetypes # {}
  /\ \/ pc[p] = "filling" /\ home[p][Head(todo[p]).entity] # NoHome
     \/ pc[p] = "handling" /\ Head(todo[p]).queued

\* Where waiting writers go first, that second lock (EntityManager.cpp:507) is the
\* only thing that can stop the parsers for ever: no other order of the locks does.
OnlySecondLocksBlock == writersFirst => <>(Ended \/ \E p \in Parser : Caught(p))
=============================================================================
