--------------------------- MODULE SharedStateProofs ---------------------------
(***************************************************************************)
(* For any number of parsers, templates and entities: the tables that the  *)
(* parsers share name nothing twice, the slots of every parser's storage   *)
(* are exact, and the query finds the entities it matches.                 *)
(*                                                                         *)
(* NothingTwice is not inductive.  ThreadInv says what a thread in the     *)
(* middle of createEntity knows of the tables, Registry how the tables     *)
(* refer to each other, StoreInv what the slots of a storage rely on and   *)
(* QueryInv how far the query has followed the archetypes.                 *)
(***************************************************************************)
EXTENDS SharedState, SequenceTheorems, NaturalsInduction, WellFoundedInduction, TLAPS

\* Where a thread has a template, an instance, an InstantiatedTemplate in hand, and
\* an archetype.
Building   == {"named", "uninstanced", "instancing", "instanced", "missing", "waiting",
               "present", "locked", "published", "created", "ensured", "entering", "filling"}
Instanced  == Building \ {"named", "uninstanced", "instancing"}
InHand     == {"missing", "waiting", "locked", "published", "created"}
ArchChosen == {"present", "published", "created", "ensured", "entering", "filling"}

ThreadInv ==
  \A p \in Parser :
    /\ pc[p] # "idle" => todo[p] # << >>
    /\ pc[p] \in Building => tid[p] \in 1 .. Len(templates)
    /\ pc[p] \in Instanced => instOf[tid[p]] # 0
    /\ pc[p] \in InHand => inst[p] = instOf[tid[p]]
    /\ pc[p] \in ArchChosen => arch[p] # 0

Registry ==
  /\ OneTemplatePerName
  /\ OneInstancePerTemplate
  /\ \A t \in DOMAIN templates : instOf[t] # 0 => insts[instOf[t]].template = t
  /\ \A a \in DOMAIN archs : instOf[archs[a]] # 0 /\ insts[instOf[archs[a]]].arch = a

CoreInv == SharedTypeOK /\ ThreadTypeOK /\ ThreadInv /\ Registry

-----------------------------------------------------------------------------
(* The tables as functions *)

LEMMA SeqMonotone ==
  ASSUME NEW S, NEW T, S \subseteq T, NEW s \in Seq(S)
  PROVE  s \in Seq(T)
OBVIOUS

LEMMA TablesTyped ==
  ASSUME SharedTypeOK
  PROVE  /\ Len(templates) \in Nat /\ DOMAIN templates = 1 .. Len(templates)
         /\ Len(insts) \in Nat /\ DOMAIN insts = 1 .. Len(insts)
         /\ Len(archs) \in Nat /\ DOMAIN archs = 1 .. Len(archs)
         /\ instOf \in [1 .. Len(templates) -> 0 .. Len(insts)]
         /\ \A i \in 1 .. Len(insts) : /\ insts[i].template \in 1 .. Len(templates)
                                      /\ insts[i].arch \in 0 .. Len(archs)
         /\ \A a \in 1 .. Len(archs) : archs[a] \in 1 .. Len(templates)
<1>1. Len(templates) \in Nat /\ DOMAIN templates = 1 .. Len(templates)
  BY LenProperties DEF SharedTypeOK
<1>2. Len(insts) \in Nat /\ DOMAIN insts = 1 .. Len(insts)
  BY LenProperties DEF SharedTypeOK
<1>3. Len(archs) \in Nat /\ DOMAIN archs = 1 .. Len(archs)
  BY LenProperties DEF SharedTypeOK
<1>4. instOf \in [1 .. Len(templates) -> 0 .. Len(insts)]
  BY LenProperties DEF SharedTypeOK
<1>5. ASSUME NEW i \in 1 .. Len(insts)
      PROVE  insts[i].template \in 1 .. Len(templates) /\ insts[i].arch \in 0 .. Len(archs)
  <2>1. insts[i] \in [template : 1 .. Len(templates), arch : 0 .. Len(archs)]
    BY ElementOfSeq, Zenon DEF SharedTypeOK
  <2>. QED BY <2>1
<1>6. ASSUME NEW a \in 1 .. Len(archs) PROVE archs[a] \in 1 .. Len(templates)
  BY ElementOfSeq, Zenon DEF SharedTypeOK
<1>. QED BY <1>1, <1>2, <1>3, <1>4, <1>5, <1>6

-----------------------------------------------------------------------------

LEMMA InitCore == Init => CoreInv
<1>. SUFFICES ASSUME Init PROVE CoreInv
  OBVIOUS
<1>. USE SharedAssumption DEF Init
<1>1. SharedTypeOK
  BY DEF SharedTypeOK
<1>2. ThreadTypeOK
  <2>1. todo \in [Parser -> Seq(Request)]
    OBVIOUS
  <2>. QED BY <2>1 DEF ThreadTypeOK, PCs
<1>3. ThreadInv
  BY DEF ThreadInv, Building, Instanced, InHand, ArchChosen
<1>4. Registry
  <2>1. DOMAIN templates = 1 .. Len(templates) /\ DOMAIN insts = {} /\ DOMAIN archs = {}
    OBVIOUS
  <2>2. OneTemplatePerName
    BY <2>1 DEF OneTemplatePerName
  <2>. QED BY <2>1, <2>2 DEF Registry, OneInstancePerTemplate
<1>. QED BY <1>1, <1>2, <1>3, <1>4 DEF CoreInv

\* A thread moves and the tables stay: what it knows where it arrives is enough.
LEMMA MoveKeepsCore ==
  ASSUME CoreInv, NEW p \in Parser, NEW where \in PCs,
         UNCHANGED shared, pc' = [pc EXCEPT ![p] = where],
         ThreadTypeOK',
         \A u \in Parser \ {p} : /\ todo'[u] = todo[u] /\ tid'[u] = tid[u]
                                 /\ inst'[u] = inst[u] /\ arch'[u] = arch[u],
         where # "idle" => todo'[p] # << >>,
         where \in Building => tid'[p] \in 1 .. Len(templates),
         where \in Instanced => instOf[tid'[p]] # 0,
         where \in InHand => inst'[p] = instOf[tid'[p]],
         where \in ArchChosen => arch'[p] # 0
  PROVE  CoreInv'
<1>1. SharedTypeOK' /\ Registry'
  BY DEF CoreInv, shared, SharedTypeOK, Registry, OneTemplatePerName, OneInstancePerTemplate
<1>2. ThreadInv'
  <2>. SUFFICES ASSUME NEW u \in Parser
                PROVE  /\ pc'[u] # "idle" => todo'[u] # << >>
                       /\ pc'[u] \in Building => tid'[u] \in 1 .. Len(templates)
                       /\ pc'[u] \in Instanced => instOf[tid'[u]] # 0
                       /\ pc'[u] \in InHand => inst'[u] = instOf[tid'[u]]
                       /\ pc'[u] \in ArchChosen => arch'[u] # 0
    BY DEF ThreadInv, shared
  <2>1. CASE u = p
    BY <2>1 DEF CoreInv, ThreadTypeOK
  <2>2. CASE u # p
    BY <2>2 DEF CoreInv, ThreadTypeOK, ThreadInv
  <2>. QED BY <2>1, <2>2
<1>. QED BY <1>1, <1>2 DEF CoreInv

LEMMA LookupKeepsCore ==
  ASSUME CoreInv, NEW p \in Parser, Lookup(p)
  PROVE  CoreInv'
<1>. USE DEF Lookup, Goto, locks, own
<1>1. PICK where \in {"unnamed", "named"}, t \in 0 .. Len(templates) :
        /\ pc' = [pc EXCEPT ![p] = where] /\ tid' = [tid EXCEPT ![p] = t]
        /\ where = "named" => t \in 1 .. Len(templates)
  <2>1. CASE IdOf(Head(todo[p]).name) = {}
    BY <2>1 DEF CoreInv, ThreadTypeOK
  <2>2. CASE IdOf(Head(todo[p]).name) # {}
    BY <2>2 DEF IdOf, CoreInv, SharedTypeOK
  <2>. QED BY <2>1, <2>2
<1>2. ThreadTypeOK'
  BY <1>1 DEF CoreInv, ThreadTypeOK, PCs, shared
<1>3. todo[p] # << >>
  BY DEF Now
<1>. QED BY <1>1, <1>2, <1>3, MoveKeepsCore
         DEF CoreInv, ThreadTypeOK, PCs, Building, Instanced, InHand, ArchChosen

LEMMA FindInstanceKeepsCore ==
  ASSUME CoreInv, NEW p \in Parser, FindInstance(p)
  PROVE  CoreInv'
<1>. USE DEF FindInstance, Goto, locks, local
<1>1. PICK where \in {"uninstanced", "instanced"} :
        /\ pc' = [pc EXCEPT ![p] = where]
        /\ where = "instanced" => instOf[tid[p]] # 0
  OBVIOUS
<1>2. ThreadTypeOK'
  BY <1>1 DEF CoreInv, ThreadTypeOK, PCs, shared
<1>3. todo[p] # << >> /\ tid[p] \in 1 .. Len(templates)
  BY DEF CoreInv, ThreadInv, Building
<1>. QED BY <1>1, <1>2, <1>3, MoveKeepsCore
         DEF CoreInv, ThreadTypeOK, PCs, Building, Instanced, InHand, ArchChosen

LEMMA PeekArchetypeKeepsCore ==
  ASSUME CoreInv, NEW p \in Parser, PeekArchetype(p)
  PROVE  CoreInv'
<1>. USE DEF PeekArchetype, Goto, locks
<1>. DEFINE i == instOf[tid[p]]
<1>1. todo[p] # << >> /\ tid[p] \in 1 .. Len(templates) /\ i # 0
  BY DEF CoreInv, ThreadInv, Building, Instanced
<1>2. i \in 1 .. Len(insts) /\ insts[i].arch \in 0 .. Len(archs)
  BY <1>1, TablesTyped DEF CoreInv
<1>3. PICK where \in {"missing", "present"} :
        /\ pc' = [pc EXCEPT ![p] = where]
        /\ where = "present" => insts[i].arch # 0
  OBVIOUS
<1>4. inst' = [inst EXCEPT ![p] = i] /\ arch' = [arch EXCEPT ![p] = insts[i].arch]
  OBVIOUS
<1>5. ThreadTypeOK'
  BY SMTT(30), <1>2, <1>3, <1>4 DEF CoreInv, ThreadTypeOK, PCs, shared
<1>. QED BY <1>1, <1>2, <1>3, <1>4, <1>5, MoveKeepsCore
         DEF CoreInv, ThreadTypeOK, PCs, Building, Instanced, InHand, ArchChosen

\* A thread asks for a mutex unique.
LEMMA AskKeepsCore ==
  ASSUME CoreInv, NEW p \in Parser, AskForTemplates(p) \/ AskForArchetypes(p)
  PROVE  CoreInv'
<1>. USE DEF AskForTemplates, AskForArchetypes, Goto, locks, local
<1>1. PICK where \in {"naming", "instancing", "waiting"} :
        /\ pc' = [pc EXCEPT ![p] = where] /\ pc[p] # "idle"
        /\ where = "instancing" => pc[p] = "uninstanced"
        /\ where = "waiting" => pc[p] = "missing"
  OBVIOUS
<1>2. ThreadTypeOK'
  BY <1>1 DEF CoreInv, ThreadTypeOK, PCs, shared
<1>3. todo[p] # << >>
  BY <1>1 DEF CoreInv, ThreadInv
<1>4. /\ where \in Building => tid[p] \in 1 .. Len(templates)
      /\ where = "waiting" => instOf[tid[p]] # 0 /\ inst[p] = instOf[tid[p]]
  BY <1>1 DEF CoreInv, ThreadInv, Building, Instanced, InHand
<1>5. UNCHANGED <<shared, todo, tid, inst, arch>>
  OBVIOUS
<1>. QED BY <1>1, <1>2, <1>3, <1>4, <1>5, MoveKeepsCore
         DEF CoreInv, ThreadTypeOK, PCs, Building, Instanced, InHand, ArchChosen

\* Steps that take or leave a lock, or change only what is the thread's own.
LEMMA LockKeepsCore ==
  ASSUME CoreInv, NEW p \in Parser,
         \/ LockArchetypes(p) \/ ConstructLocked(p) \/ ConstructShared(p)
         \/ LockForCreate(p) \/ LockTemplates(p)
         \/ SendCreated(p) \/ SendDestroyed(p) \/ HandledDestroyed(p)
  PROVE  CoreInv'
<1>. USE DEF LockArchetypes, ConstructLocked, ConstructShared, LockForCreate, LockTemplates,
             SendCreated, SendDestroyed, HandledDestroyed, Now, Goto, locks, local
<1>1. PICK where \in {"locked", "ensured", "entering", "filling", "handling", "destroying",
                      "freeing"} :
        /\ pc' = [pc EXCEPT ![p] = where]
        /\ where = "locked" => pc[p] = "waiting"
        /\ where = "ensured" => pc[p] \in {"created", "present"}
        /\ where = "entering" => pc[p] = "ensured"
        /\ where = "filling" => pc[p] = "entering"
  OBVIOUS
<1>2. ThreadTypeOK'
  BY <1>1 DEF CoreInv, ThreadTypeOK, PCs, shared
<1>3. todo[p] # << >>
  BY DEF CoreInv, ThreadInv
<1>4. /\ where \in Building => tid[p] \in 1 .. Len(templates) /\ instOf[tid[p]] # 0
      /\ where \in InHand => inst[p] = instOf[tid[p]]
      /\ where \in ArchChosen => arch[p] # 0
  BY <1>1 DEF CoreInv, ThreadInv, Building, Instanced, InHand, ArchChosen
<1>5. UNCHANGED <<shared, todo, tid, inst, arch>>
  OBVIOUS
<1>. QED BY <1>1, <1>2, <1>3, <1>4, <1>5, MoveKeepsCore
         DEF CoreInv, ThreadTypeOK, PCs, Building, Instanced, InHand, ArchChosen

\* Steps that end a request, or announce its entity.
LEMMA EndKeepsCore ==
  ASSUME CoreInv, NEW p \in Parser,
         FillEntity(p) \/ HandledCreated(p) \/ DestroyAbsent(p) \/ DestroyEntity(p)
  PROVE  CoreInv'
<1>. USE DEF FillEntity, HandledCreated, DestroyAbsent, DestroyEntity, Now, Goto, local, locks
<1>0. todo[p] # << >> /\ todo[p] \in Seq(Request)
  BY DEF CoreInv, ThreadInv, ThreadTypeOK
<1>1. PICK where \in {"idle", "announcing"} :
        /\ pc' = [pc EXCEPT ![p] = where]
        /\ where = "announcing" => UNCHANGED todo
        /\ UNCHANGED todo \/ todo' = [todo EXCEPT ![p] = Tail(@)]
  BY DEF CoreInv, ThreadTypeOK
<1>2. UNCHANGED <<shared, tid, inst, arch, archWriter>>
  OBVIOUS
<1>3. archShared' \subseteq Parser /\ templShared' \subseteq Parser
  BY DEF CoreInv, ThreadTypeOK, locks
<1>4. todo' \in [Parser -> Seq(Request)] /\ \A u \in Parser \ {p} : todo'[u] = todo[u]
  <2>1. Tail(todo[p]) \in Seq(Request)
    BY <1>0, HeadTailProperties, Zenon
  <2>. QED BY <1>1, <2>1 DEF CoreInv, ThreadTypeOK
<1>5. ThreadTypeOK'
  BY <1>1, <1>2, <1>3, <1>4 DEF CoreInv, ThreadTypeOK, PCs, shared
<1>. QED BY <1>0, <1>1, <1>2, <1>4, <1>5, MoveKeepsCore
         DEF CoreInv, ThreadTypeOK, PCs, Building, Instanced, InHand, ArchChosen

-----------------------------------------------------------------------------
(* Steps that add to the tables *)

LEMMA AddTemplateKeepsCore ==
  ASSUME CoreInv, NEW p \in Parser, AddTemplate(p)
  PROVE  CoreInv'
<1>. DEFINE n == Head(todo[p]).name
<1>0. todo[p] # << >> /\ n \in Name
  <2>1. todo[p] # << >> /\ todo[p] \in Seq(Request)
    BY DEF AddTemplate, CoreInv, ThreadInv, ThreadTypeOK
  <2>2. Head(todo[p]) \in Request
    BY <2>1, HeadTailProperties, Zenon
  <2>. QED BY <2>1, <2>2 DEF Request
<1>. HIDE DEF n
<1>1. CASE IdOf(n) # {}
  <2>1. PICK t \in 1 .. Len(templates) : tid' = [tid EXCEPT ![p] = t]
    BY <1>1 DEF IdOf, n, AddTemplate
  <2>2. /\ pc' = [pc EXCEPT ![p] = "named"]
        /\ UNCHANGED <<shared, locks, todo, inst, arch>>
    BY <1>1 DEF AddTemplate, Goto, shared, n
  <2>3. ThreadTypeOK'
    BY <2>1, <2>2, TablesTyped DEF CoreInv, ThreadTypeOK, PCs, locks, shared
  <2>. QED BY <1>0, <2>1, <2>2, <2>3, MoveKeepsCore
           DEF CoreInv, ThreadTypeOK, PCs, Building, Instanced, InHand, ArchChosen
<1>2. CASE IdOf(n) = {}
  <2>. DEFINE new == Len(templates) + 1
  <2>1. /\ templates' = Append(templates, n) /\ instOf' = Append(instOf, 0)
        /\ tid' = [tid EXCEPT ![p] = new] /\ pc' = [pc EXCEPT ![p] = "named"]
        /\ UNCHANGED <<insts, archs, updatedTo, locks, todo, inst, arch>>
    BY <1>2 DEF AddTemplate, Goto, n
  <2>2. /\ templates' \in Seq(Name) /\ Len(templates') = new
        /\ \A t \in 1 .. Len(templates) : templates'[t] = templates[t]
        /\ templates'[new] = n
    <3>1. templates \in Seq(Name)
      BY DEF CoreInv, SharedTypeOK
    <3>. QED BY <1>0, <2>1, <3>1, AppendProperties
  <2>3. /\ instOf' \in Seq(0 .. Len(insts)) /\ Len(instOf') = new
        /\ \A t \in 1 .. Len(templates) : instOf'[t] = instOf[t]
        /\ instOf'[new] = 0
    <3>1. 0 \in 0 .. Len(insts)
      BY TablesTyped DEF CoreInv
    <3>2. instOf \in Seq(0 .. Len(insts)) /\ Len(instOf) = Len(templates)
      BY DEF CoreInv, SharedTypeOK
    <3>. QED BY <2>1, <3>1, <3>2, AppendProperties
  <2>. HIDE DEF n
  <2>4. Len(templates) \in Nat /\ 1 .. Len(templates) \subseteq 1 .. new
    BY TablesTyped DEF CoreInv
  <2>5. SharedTypeOK'
    <3>1. insts \in Seq([template : 1 .. new, arch : 0 .. Len(archs)])
      <4>1. [template : 1 .. Len(templates), arch : 0 .. Len(archs)]
              \subseteq [template : 1 .. new, arch : 0 .. Len(archs)]
        BY <2>4
      <4>. QED BY <4>1, SeqMonotone, ZenonT(30) DEF CoreInv, SharedTypeOK
    <3>2. archs \in Seq(1 .. new)
      BY <2>4, SeqMonotone, ZenonT(30) DEF CoreInv, SharedTypeOK
    <3>3. updatedTo \in 0 .. Len(archs)
      BY DEF CoreInv, SharedTypeOK
    <3>. QED BY <2>1, <2>2, <2>3, <3>1, <3>2, <3>3, Zenon DEF SharedTypeOK
  <2>6. ThreadTypeOK'
    BY SMTT(30), <2>1, <2>2, <2>4 DEF CoreInv, ThreadTypeOK, PCs, locks
  <2>7. ThreadInv'
    <3>. SUFFICES ASSUME NEW u \in Parser
                  PROVE  /\ pc'[u] # "idle" => todo'[u] # << >>
                         /\ pc'[u] \in Building => tid'[u] \in 1 .. new
                         /\ pc'[u] \in Instanced => instOf'[tid'[u]] # 0
                         /\ pc'[u] \in InHand => inst'[u] = instOf'[tid'[u]]
                         /\ pc'[u] \in ArchChosen => arch'[u] # 0
      BY <2>2 DEF ThreadInv
    <3>1. CASE u = p
      BY <1>0, <2>1, <2>4, <3>1 DEF CoreInv, ThreadTypeOK, Instanced, InHand, ArchChosen
    <3>2. CASE u # p
      BY <2>1, <2>3, <2>4, <3>2 DEF CoreInv, ThreadTypeOK, ThreadInv, Instanced, InHand, Building
    <3>. QED BY <3>1, <3>2
  <2>8. Registry'
    <3>1. DOMAIN templates' = 1 .. new
      BY <2>2, LenProperties
    <3>2. \A t \in 1 .. new : t = new \/ t \in 1 .. Len(templates)
      BY <2>4
    <3>3. OneTemplatePerName'
      <4>1. \A t \in 1 .. Len(templates) : templates[t] # n
        BY <1>2 DEF IdOf
      <4>2. \A t, u \in 1 .. Len(templates) : templates[t] = templates[u] => t = u
        BY TablesTyped DEF CoreInv, Registry, OneTemplatePerName
      <4>. QED BY <2>2, <3>1, <3>2, <4>1, <4>2, Zenon DEF OneTemplatePerName
    <3>4. OneInstancePerTemplate'
      BY <2>1, <2>3, TablesTyped DEF CoreInv, Registry, OneInstancePerTemplate
    <3>5. \A t \in DOMAIN templates' : instOf'[t] # 0 => insts[instOf'[t]].template = t
      BY <2>3, <3>1, <3>2, TablesTyped DEF CoreInv, Registry
    <3>6. \A a \in DOMAIN archs : instOf'[archs[a]] # 0 /\ insts[instOf'[archs[a]]].arch = a
      BY <2>3, TablesTyped DEF CoreInv, Registry
    <3>. QED BY <2>1, <3>3, <3>4, <3>5, <3>6 DEF Registry
  <2>. QED BY <2>5, <2>6, <2>7, <2>8 DEF CoreInv
<1>. QED BY <1>1, <1>2

LEMMA MakeInstanceKeepsCore ==
  ASSUME CoreInv, NEW p \in Parser, MakeInstance(p)
  PROVE  CoreInv'
<1>0. todo[p] # << >> /\ tid[p] \in 1 .. Len(templates)
  BY DEF MakeInstance, CoreInv, ThreadInv, Building
<1>1. CASE instOf[tid[p]] # 0
  <2>1. /\ pc' = [pc EXCEPT ![p] = "instanced"]
        /\ UNCHANGED <<shared, locks, todo, tid, inst, arch>>
    BY <1>1 DEF MakeInstance, Goto, shared, local
  <2>2. ThreadTypeOK'
    BY <2>1 DEF CoreInv, ThreadTypeOK, PCs, locks, shared
  <2>. QED BY <1>0, <1>1, <2>1, <2>2, MoveKeepsCore
           DEF CoreInv, ThreadTypeOK, PCs, Building, Instanced, InHand, ArchChosen
<1>2. CASE instOf[tid[p]] = 0
  <2>. DEFINE new == Len(insts) + 1
              made == [template |-> tid[p], arch |-> 0]
              Made == [template : 1 .. Len(templates), arch : 0 .. Len(archs)]
  <2>1. /\ insts' = Append(insts, made)
        /\ instOf' = [instOf EXCEPT ![tid[p]] = new]
        /\ pc' = [pc EXCEPT ![p] = "instanced"]
        /\ UNCHANGED <<templates, archs, updatedTo, locks, todo, tid, inst, arch>>
    BY <1>2 DEF MakeInstance, Goto, local
  <2>2. /\ insts' \in Seq(Made) /\ Len(insts') = new /\ insts'[new] = made
        /\ \A i \in 1 .. Len(insts) : insts'[i] = insts[i]
    <3>1. made \in Made
      BY <1>0, TablesTyped DEF CoreInv
    <3>2. insts \in Seq(Made)
      BY DEF CoreInv, SharedTypeOK
    <3>. HIDE DEF made, Made
    <3>. QED BY <2>1, <3>1, <3>2, AppendProperties
  <2>3. DOMAIN insts' = 1 .. new /\ Len(insts) \in Nat /\ new \notin 0 .. Len(insts)
        /\ \A i \in 1 .. new : i = new \/ i \in 1 .. Len(insts)
    BY <2>2, LenProperties, TablesTyped DEF CoreInv
  <2>9. made.template = tid[p] /\ new # 0
    BY <2>3
  <2>4. /\ instOf' \in Seq(0 .. new) /\ Len(instOf') = Len(templates)
        /\ \A t \in 1 .. Len(templates) : instOf'[t] = IF t = tid[p] THEN new ELSE instOf[t]
    <3>1. instOf \in Seq(0 .. new) /\ Len(instOf) = Len(templates) /\ new \in 0 .. new
      <4>1. 0 .. Len(insts) \subseteq 0 .. new /\ new \in 0 .. new
        BY <2>3
      <4>. QED BY <4>1, SeqMonotone, Zenon DEF CoreInv, SharedTypeOK
    <3>. HIDE DEF new
    <3>. QED BY <1>0, <2>1, <3>1, ExceptSeq
  <2>5. SharedTypeOK'
    BY <2>1, <2>2, <2>4 DEF CoreInv, SharedTypeOK
  <2>6. ThreadTypeOK'
    BY SMTT(30), <2>1, <2>2, <2>3 DEF CoreInv, ThreadTypeOK, PCs, locks
  <2>7. ThreadInv'
    <3>. SUFFICES ASSUME NEW u \in Parser
                  PROVE  /\ pc'[u] # "idle" => todo'[u] # << >>
                         /\ pc'[u] \in Building => tid'[u] \in 1 .. Len(templates)
                         /\ pc'[u] \in Instanced => instOf'[tid'[u]] # 0
                         /\ pc'[u] \in InHand => inst'[u] = instOf'[tid'[u]]
                         /\ pc'[u] \in ArchChosen => arch'[u] # 0
      BY <2>1 DEF ThreadInv
    <3>1. CASE u = p
      BY <1>0, <2>1, <2>3, <2>4, <3>1 DEF CoreInv, ThreadTypeOK, Instanced, InHand, ArchChosen
    <3>2. CASE u # p
      BY <1>2, <2>1, <2>3, <2>4, <3>2
      DEF CoreInv, ThreadTypeOK, ThreadInv, Instanced, InHand, Building
    <3>. QED BY <3>1, <3>2
  <2>8. Registry'
    <3>1. OneTemplatePerName'
      BY <2>1 DEF CoreInv, Registry, OneTemplatePerName
    <3>2. OneInstancePerTemplate'
      <4>1. \A i \in 1 .. Len(insts) : /\ insts[i].template \in 1 .. Len(templates)
                                       /\ instOf[insts[i].template] = i
        BY TablesTyped DEF CoreInv, Registry, OneInstancePerTemplate
      <4>2. \A i \in 1 .. Len(insts) : i # 0
        OBVIOUS
      <4>. HIDE DEF made, new
      <4>3. \A i \in 1 .. new : instOf'[insts'[i].template] = i
        <5>. TAKE i \in 1 .. new
        <5>1. CASE i = new
          BY <1>0, <2>2, <2>4, <2>9, <5>1
        <5>2. CASE i \in 1 .. Len(insts)
          <6>1. insts'[i] = insts[i] /\ insts[i].template # tid[p]
            BY <1>2, <2>2, <4>1, <4>2, <5>2, Zenon
          <6>. QED BY <2>4, <4>1, <5>2, <6>1, Zenon
        <5>. QED BY <2>3, <5>1, <5>2, Zenon
      <4>. QED BY <2>3, <4>3, Zenon DEF OneInstancePerTemplate
    <3>3. \A t \in DOMAIN templates : instOf'[t] # 0 => insts'[instOf'[t]].template = t
      <4>. TAKE t \in DOMAIN templates
      <4>1. t \in 1 .. Len(templates) /\ instOf[t] \in 0 .. Len(insts)
        BY TablesTyped DEF CoreInv
      <4>2. instOf[t] # 0 => insts[instOf[t]].template = t
        BY DEF CoreInv, Registry
      <4>3. instOf[t] # 0 => instOf[t] \in 1 .. Len(insts)
        BY <2>3, <4>1
      <4>. HIDE DEF made, new
      <4>. QED BY <2>2, <2>4, <2>9, <4>1, <4>2, <4>3, Zenon
    <3>4. \A a \in DOMAIN archs : instOf'[archs[a]] # 0 /\ insts'[instOf'[archs[a]]].arch = a
      <4>. TAKE a \in DOMAIN archs
      <4>1. archs[a] \in 1 .. Len(templates) /\ instOf[archs[a]] \in 0 .. Len(insts)
        BY TablesTyped DEF CoreInv
      <4>2. instOf[archs[a]] # 0 /\ insts[instOf[archs[a]]].arch = a
        BY DEF CoreInv, Registry
      <4>3. instOf[archs[a]] \in 1 .. Len(insts)
        BY <2>3, <4>1, <4>2
      <4>. HIDE DEF made, new
      <4>. QED BY <1>2, <2>2, <2>4, <4>1, <4>2, <4>3, Zenon
    <3>. QED BY <2>1, <3>1, <3>2, <3>3, <3>4 DEF Registry
  <2>. QED BY <2>5, <2>6, <2>7, <2>8 DEF CoreInv
<1>. QED BY <1>1, <1>2

\* The check under the lock: only a template without an archetype gets one.
LEMMA CreateArchetypeKeepsCore ==
  ASSUME CoreInv, NEW p \in Parser, CreateArchetype(p)
  PROVE  CoreInv'
<1>. DEFINE i == instOf[tid[p]]
<1>0. /\ todo[p] # << >> /\ tid[p] \in 1 .. Len(templates) /\ inst[p] = i
      /\ i \in 1 .. Len(insts) /\ i # 0 /\ insts[i].template = tid[p]
  <2>1. todo[p] # << >> /\ tid[p] \in 1 .. Len(templates) /\ inst[p] = i /\ i # 0
    BY DEF CreateArchetype, CoreInv, ThreadInv, Building, Instanced, InHand
  <2>2. i \in 1 .. Len(insts) /\ insts[i].template = tid[p]
    BY <2>1, TablesTyped DEF CoreInv, Registry
  <2>. QED BY <2>1, <2>2
<1>1. CASE insts[i].arch # 0
  <2>1. /\ pc' = [pc EXCEPT ![p] = "created"]
        /\ arch' = [arch EXCEPT ![p] = insts[i].arch]
        /\ UNCHANGED <<shared, locks, todo, tid, inst>>
    BY <1>0, <1>1 DEF CreateArchetype, Goto, shared
  <2>2. insts[i].arch \in 0 .. Len(archs)
    BY <1>0, TablesTyped DEF CoreInv
  <2>3. ThreadTypeOK'
    BY <2>1, <2>2 DEF CoreInv, ThreadTypeOK, PCs, locks, shared
  <2>. QED BY <1>0, <1>1, <2>1, <2>3, MoveKeepsCore
           DEF CoreInv, ThreadTypeOK, PCs, Building, Instanced, InHand, ArchChosen
<1>2. CASE insts[i].arch = 0
  <2>. DEFINE new == Len(archs) + 1
              Made == [template : 1 .. Len(templates), arch : 0 .. new]
              made == [insts[i] EXCEPT !.arch = new]
  <2>1. /\ archs' = Append(archs, tid[p])
        /\ insts' = [insts EXCEPT ![i] = made]
        /\ arch' = [arch EXCEPT ![p] = new]
        /\ pc' = [pc EXCEPT ![p] = "published"]
        /\ UNCHANGED <<templates, instOf, updatedTo, locks, todo, tid, inst>>
    BY <1>0, <1>2 DEF CreateArchetype, Goto
  <2>2. /\ archs' \in Seq(1 .. Len(templates)) /\ Len(archs') = new /\ archs'[new] = tid[p]
        /\ \A a \in 1 .. Len(archs) : archs'[a] = archs[a]
    <3>1. archs \in Seq(1 .. Len(templates))
      BY DEF CoreInv, SharedTypeOK
    <3>. QED BY <1>0, <2>1, <3>1, AppendProperties
  <2>3. DOMAIN archs' = 1 .. new /\ Len(archs) \in Nat /\ new \notin 0 .. Len(archs) /\ new # 0
        /\ 0 .. Len(archs) \subseteq 0 .. new
        /\ \A a \in 1 .. new : a = new \/ a \in 1 .. Len(archs)
    BY <2>2, LenProperties, TablesTyped DEF CoreInv
  <2>4. /\ insts' \in Seq(Made) /\ Len(insts') = Len(insts)
        /\ \A j \in 1 .. Len(insts) : insts'[j] = IF j = i THEN made ELSE insts[j]
    <3>1. [template : 1 .. Len(templates), arch : 0 .. Len(archs)] \subseteq Made
      BY <2>3
    <3>2. insts \in Seq(Made)
      BY <3>1, SeqMonotone, ZenonT(30) DEF CoreInv, SharedTypeOK
    <3>3. insts[i] \in Made /\ new \in 0 .. new
      <4>. HIDE DEF Made
      <4>. QED BY <1>0, <2>3, <3>2, ElementOfSeq
    <3>4. made \in Made
      BY <3>3
    <3>. HIDE DEF Made, made
    <3>. QED BY <1>0, <2>1, <3>2, <3>4, ExceptSeq
  <2>5. made.template = tid[p] /\ made.arch = new
    <3>1. insts[i] \in [template : 1 .. Len(templates), arch : 0 .. Len(archs)]
      BY <1>0, ElementOfSeq, Zenon DEF CoreInv, SharedTypeOK
    <3>. QED BY <1>0, <3>1
  <2>6. DOMAIN insts' = 1 .. Len(insts) /\ DOMAIN insts = 1 .. Len(insts)
    BY <2>4, LenProperties, TablesTyped DEF CoreInv
  <2>. HIDE DEF made
  <2>7. SharedTypeOK'
    BY <2>1, <2>2, <2>3, <2>4 DEF CoreInv, SharedTypeOK
  <2>8. ThreadTypeOK'
    <3>. HIDE DEF Made
    <3>. QED BY SMTT(30), <2>1, <2>2, <2>3, <2>4 DEF CoreInv, ThreadTypeOK, PCs, locks
  <2>9. ThreadInv'
    <3>. SUFFICES ASSUME NEW u \in Parser
                  PROVE  /\ pc'[u] # "idle" => todo'[u] # << >>
                         /\ pc'[u] \in Building => tid'[u] \in 1 .. Len(templates)
                         /\ pc'[u] \in Instanced => instOf'[tid'[u]] # 0
                         /\ pc'[u] \in InHand => inst'[u] = instOf'[tid'[u]]
                         /\ pc'[u] \in ArchChosen => arch'[u] # 0
      BY <2>1 DEF ThreadInv
    <3>1. CASE u = p
      BY <1>0, <2>1, <2>3, <3>1 DEF CoreInv, ThreadTypeOK, Instanced, InHand, ArchChosen
    <3>2. CASE u # p
      BY <2>1, <3>2 DEF CoreInv, ThreadTypeOK, ThreadInv
    <3>. QED BY <3>1, <3>2
  <2>10. Registry'
    <3>1. OneTemplatePerName'
      BY <2>1 DEF CoreInv, Registry, OneTemplatePerName
    <3>2. \A j \in 1 .. Len(insts) : insts'[j].template = insts[j].template
      BY <1>0, <2>4, <2>5
    <3>3. OneInstancePerTemplate'
      BY <2>1, <2>6, <3>2 DEF CoreInv, Registry, OneInstancePerTemplate
    <3>4. \A t \in DOMAIN templates : instOf[t] # 0 => insts'[instOf[t]].template = t
      BY <3>2, TablesTyped DEF CoreInv, Registry
    <3>5. \A a \in 1 .. new : instOf[archs'[a]] # 0 /\ insts'[instOf[archs'[a]]].arch = a
      <4>. TAKE a \in 1 .. new
      <4>1. CASE a = new
        BY <1>0, <2>2, <2>4, <2>5, <4>1
      <4>2. CASE a \in 1 .. Len(archs)
        <5>1. /\ instOf[archs[a]] # 0 /\ insts[instOf[archs[a]]].arch = a
              /\ instOf[archs[a]] \in 1 .. Len(insts)
          BY <4>2, TablesTyped DEF CoreInv, Registry
        <5>2. a # 0 /\ a # new
          BY <2>3, <4>2
        <5>. HIDE DEF new
        <5>. QED BY <1>2, <2>2, <2>4, <4>2, <5>1, <5>2, Zenon
      <4>. QED BY <2>3, <4>1, <4>2
    <3>. QED BY <2>1, <2>3, <3>1, <3>3, <3>4, <3>5 DEF Registry
  <2>. QED BY <2>7, <2>8, <2>9, <2>10 DEF CoreInv
<1>. QED BY <1>1, <1>2

LEMMA UpdateQueriesKeepsCore ==
  ASSUME CoreInv, NEW p \in Parser, UpdateQueries(p)
  PROVE  CoreInv'
<1>1. /\ pc[p] = "published" /\ pc' = [pc EXCEPT ![p] = "created"]
      /\ updatedTo' \in {updatedTo, Len(archs)}
      /\ UNCHANGED <<templates, instOf, insts, archs, locks, todo, tid, inst, arch>>
  BY DEF UpdateQueries, Goto, local
<1>2. SharedTypeOK'
  BY <1>1, TablesTyped DEF CoreInv, SharedTypeOK
<1>3. ThreadTypeOK'
  BY <1>1 DEF CoreInv, ThreadTypeOK, PCs, locks
<1>4. ThreadInv'
  BY <1>1 DEF CoreInv, ThreadTypeOK, ThreadInv, Building, Instanced, InHand, ArchChosen
<1>5. Registry'
  BY <1>1 DEF CoreInv, Registry, OneTemplatePerName, OneInstancePerTemplate
<1>. QED BY <1>2, <1>3, <1>4, <1>5 DEF CoreInv

LEMMA StutterKeepsCore ==
  ASSUME CoreInv, UNCHANGED vars
  PROVE  CoreInv'
BY DEF CoreInv, vars, shared, locks, local, SharedTypeOK, ThreadTypeOK, ThreadInv, Registry,
   OneTemplatePerName, OneInstancePerTemplate

LEMMA StepKeepsCore ==
  ASSUME CoreInv, [Next]_vars
  PROVE  CoreInv'
<1>1. ASSUME NEW p \in Parser, Step(p) PROVE CoreInv'
  BY <1>1, LookupKeepsCore, AskKeepsCore, AddTemplateKeepsCore, FindInstanceKeepsCore,
     MakeInstanceKeepsCore, PeekArchetypeKeepsCore, CreateArchetypeKeepsCore,
     UpdateQueriesKeepsCore, LockKeepsCore, EndKeepsCore DEF Step
<1>. QED BY <1>1, StutterKeepsCore DEF Next

\* The tables of GState and the places of the threads keep their invariant, for any
\* number of threads.
THEOREM CoreInvariant == Spec => []CoreInv
<1>1. CoreInv /\ [Next]_vars => CoreInv'
  BY StepKeepsCore
<1>. QED BY InitCore, <1>1, PTL DEF Spec

LEMMA RegistryNothingTwice ==
  ASSUME CoreInv
  PROVE  NothingTwice
<1>1. OneArchetypePerTemplate
  BY DEF CoreInv, Registry, OneArchetypePerTemplate
<1>. QED BY <1>1 DEF CoreInv, Registry, NothingTwice

\* Whatever the parsers' threads do at once, no name gets two templates, no template
\* two instances or two archetypes.
THEOREM NothingTwiceAlways == Spec => []NothingTwice
<1>1. CoreInv => NothingTwice
  BY RegistryNothingTwice
<1>. QED BY <1>1, CoreInvariant, PTL

-----------------------------------------------------------------------------
(* Slots *)

Less == {m \in Nat \X Nat : m[1] < m[2]}

LEMMA LeastNat ==
  ASSUME NEW S \in SUBSET Nat, S # {}
  PROVE  LowestOf(S) \in S /\ \A y \in S : LowestOf(S) <= y
<1>1. IsWellFoundedOn(Less, Nat)
  BY NatLessThanWellFounded, Zenon DEF OpToRel, Less
<1>2. PICK x \in S : \A y \in S : ~(<<y, x>> \in Less)
  BY <1>1, WFMin, Zenon
<1>3. \A y \in S : ~(y < x)
  BY <1>2 DEF Less
<1>4. \A y \in S : x <= y
  BY <1>3
<1>. QED BY <1>4, Zenon DEF LowestOf

\* The slots of T are taken in table s, which has a slot once it has been used.
TableInv(s, T) ==
  s \in SlotTable /\ TableExact(s, T) /\ (s.last = -1 => s.size \in {-1, 0})

LEMMA NextAvailableIsFree ==
  ASSUME NEW s, NEW T, TableInv(s, T), s # Absent,
         NEW n, n = NextAvailable(s)
  PROVE  /\ n \in SlotTable /\ n.used = T /\ T \subseteq 0 .. n.size - 1
         /\ n.last \in Nat /\ n.last < n.size /\ n.last \notin T /\ 0 .. n.last - 1 \subseteq T
<1>0. s \in SlotTable /\ s.used = T /\ T \subseteq Nat
  BY DEF TableInv, TableExact, SlotTable
<1>1. CASE s.last # -1
  BY <1>0, <1>1 DEF TableInv, TableExact, SlotTable, NextAvailable
<1>2. CASE s.last = -1
  <2>1. T = {} /\ s.size \in {-1, 0}
    BY <1>2 DEF TableInv, TableExact
  <2>2. s.size = 0
    BY <1>0, <1>2, <2>1 DEF SlotTable, Absent, NoSlots
  <2>3. n = [[s EXCEPT !.size = s.size + ChunkSize] EXCEPT !.last = s.size]
    BY <1>2, Zenon DEF NextAvailable, Grown
  <2>4. n.size = ChunkSize /\ n.last = 0 /\ n.used = T /\ n \in SlotTable
    <3>1. [s EXCEPT !.size = s.size + ChunkSize] \in SlotTable
      BY <1>0, <2>2, SharedAssumption DEF SlotTable
    <3>2. n \in SlotTable
      <4>1. PICK g \in SlotTable : n = [g EXCEPT !.last = 0]
        BY <2>2, <2>3, <3>1, Zenon
      <4>. QED BY <4>1 DEF SlotTable
    <3>3. n.size = ChunkSize
      BY <1>0, <2>2, <2>3, SharedAssumption DEF SlotTable
    <3>4. n.last = 0 /\ n.used = T
      BY <1>0, <2>2, <2>3 DEF SlotTable
    <3>. QED BY <3>2, <3>3, <3>4
  <2>. QED BY <2>1, <2>4, SharedAssumption
<1>. QED BY <1>1, <1>2

LEMMA ReservedIsExact ==
  ASSUME NEW n \in SlotTable, n.used \subseteq 0 .. n.size - 1,
         n.last \in Nat, n.last < n.size, n.last \notin n.used,
         0 .. n.last - 1 \subseteq n.used
  PROVE  TableInv(Reserved(n), n.used \cup {n.last}) /\ Reserved(n) # Absent
<1>. DEFINE free == {x \in n.last + 1 .. n.size - 1 : x \notin n.used}
            T == n.used \cup {n.last}
<1>0. n.size \in Nat /\ n.used \subseteq Nat
  BY DEF SlotTable
<1>1. CASE free # {}
  <2>. DEFINE low == LowestOf(free)
  <2>1. low \in free /\ \A y \in free : low <= y
    <3>1. free \in SUBSET Nat
      BY <1>0
    <3>. HIDE DEF free
    <3>. QED BY <1>1, <3>1, LeastNat
  <2>. HIDE DEF low
  <2>2. Reserved(n) = [n EXCEPT !.used = T, !.last = low]
    BY <1>1 DEF Reserved, low
  <2>3. low \in Nat /\ low < n.size /\ low \notin T
    BY <1>0, <2>1
  <2>4. 0 .. low - 1 \subseteq T
    <3>. SUFFICES ASSUME NEW y \in 0 .. low - 1, y \notin n.used, y # n.last PROVE FALSE
      OBVIOUS
    <3>1. y \in free
      BY <1>0, <2>3
    <3>. QED BY <2>1, <2>3, <3>1
  <2>5. T \subseteq Nat
    BY <1>0
  <2>. DEFINE r == Reserved(n)
  <2>6. r.used = T /\ r.last = low /\ r.size = n.size /\ r \in SlotTable
    BY <2>2, <2>3, <2>5 DEF SlotTable
  <2>. HIDE DEF T
  <2>7. r # Absent
    BY <1>0, <2>6 DEF Absent, NoSlots
  <2>. QED BY <1>0, <2>3, <2>4, <2>6, <2>7 DEF TableInv, TableExact, T
<1>2. CASE free = {}
  <2>. DEFINE r == Reserved(n)
  <2>1. r = [n EXCEPT !.size = n.size + ChunkSize, !.used = T, !.last = n.size]
    BY <1>2 DEF Reserved, Grown, SlotTable
  <2>2. T \subseteq Nat /\ n.size + ChunkSize \in Nat /\ n.size < n.size + ChunkSize
    BY <1>0, SharedAssumption
  <2>3. r.used = T /\ r.last = n.size /\ r.size = n.size + ChunkSize /\ r \in SlotTable
    BY <1>0, <2>1, <2>2 DEF SlotTable
  <2>4. 0 .. n.size - 1 \subseteq T
    <3>. SUFFICES ASSUME NEW y \in 0 .. n.size - 1, y \notin n.used, y # n.last PROVE FALSE
      OBVIOUS
    <3>1. y \in free
      BY <1>0
    <3>. QED BY <1>2, <3>1
  <2>5. n.size \notin T
    BY <1>0
  <2>. QED BY <1>0, <2>2, <2>3, <2>4, <2>5 DEF TableInv, TableExact, Absent, NoSlots
<1>. QED BY <1>1, <1>2

LEMMA ReleasedIsExact ==
  ASSUME NEW s, NEW T, TableInv(s, T), NEW x \in T
  PROVE  TableInv(Released(s, x), T \ {x}) /\ Released(s, x) # Absent
<1>0. s \in SlotTable /\ s.used = T /\ T \subseteq Nat /\ s.last \in Nat
  BY DEF TableInv, TableExact, SlotTable
<1>1. s.last < s.size /\ s.last \notin T /\ 0 .. s.last - 1 \subseteq T
  BY <1>0 DEF TableInv, TableExact
<1>. DEFINE r == Released(s, x)
            low == IF x < s.last THEN x ELSE s.last
<1>2. r.used = T \ {x} /\ r.last = low /\ r.size = s.size /\ r \in SlotTable
  BY <1>0 DEF Released, SlotTable
<1>3. low \in Nat /\ low < s.size /\ low \notin T \ {x} /\ 0 .. low - 1 \subseteq T \ {x}
  BY <1>0, <1>1 DEF SlotTable
<1>4. r # Absent
  BY <1>2, <1>3 DEF Absent, NoSlots
<1>. QED BY <1>2, <1>3, <1>4 DEF TableInv, TableExact

-----------------------------------------------------------------------------
(* The storage of a parser *)

Homes == [Entity -> [arch : Nat, slot : {-1} \cup Nat]]

\* The tables are exact for the homes h, and one that was never used has no slot.
Sound(tables, h) ==
  /\ tables \in Seq(SlotTable)
  /\ h \in Homes
  /\ StorageExact(tables, h)
  /\ \A a \in 1 .. Len(tables) : TableInv(tables[a], Taken(h, a))

LEMMA SoundFacts ==
  ASSUME NEW tables, NEW h, Sound(tables, h), NEW e \in Entity
  PROVE  /\ Len(tables) \in Nat /\ DOMAIN tables = 1 .. Len(tables)
         /\ h[e].arch \in Nat
         /\ h[e].arch = 0 => h[e] = NoHome
         /\ h[e] # NoHome => h[e].arch \in 1 .. Len(tables) /\ h[e].slot \in Taken(h, h[e].arch)
<1>1. Len(tables) \in Nat /\ DOMAIN tables = 1 .. Len(tables)
  BY LenProperties DEF Sound
<1>2. h[e].arch \in Nat
  BY DEF Sound, Homes
<1>3. h[e] # NoHome => h[e].arch \in 1 .. Len(tables)
  BY <1>1 DEF Sound, StorageExact
<1>4. h[e].slot \in Taken(h, h[e].arch)
  BY DEF Taken
<1>. QED BY <1>1, <1>2, <1>3, <1>4

\* getting storage for an archetype
LEMMA ConstructKeepsSound ==
  ASSUME NEW tables, NEW h, Sound(tables, h), NEW a \in Nat \ {0},
         NEW new, new = Constructed(tables, a)
  PROVE  Sound(new, h) /\ a \in DOMAIN new /\ new[a] # Absent
<1>. DEFINE size == IF a > Len(tables) THEN a ELSE Len(tables)
<1>1. Len(tables) \in Nat /\ DOMAIN tables = 1 .. Len(tables)
  BY LenProperties DEF Sound
<1>2. size \in Nat /\ a \in 1 .. size /\ Len(tables) <= size
  BY <1>1
<1>3. /\ DOMAIN new = 1 .. size
      /\ \A i \in 1 .. size :
           new[i] = IF i <= Len(tables) /\ tables[i] # Absent THEN tables[i]
                    ELSE IF i = a THEN NoSlots ELSE Absent
      /\ new = [i \in 1 .. size |-> new[i]]
  BY DEF Constructed
<1>. HIDE DEF size
<1>4. NoSlots \in SlotTable /\ Absent \in SlotTable /\ NoSlots # Absent
  BY DEF NoSlots, Absent, SlotTable
<1>5. \A i \in 1 .. size : new[i] \in SlotTable
  <2>. TAKE i \in 1 .. size
  <2>1. i <= Len(tables) => tables[i] \in SlotTable
    BY <1>1, <1>2, ElementOfSeq DEF Sound
  <2>. QED BY <1>3, <1>4, <2>1, Zenon
<1>6. new \in Seq(SlotTable)
  <2>1. new \in [1 .. size -> SlotTable]
    BY <1>3, <1>5
  <2>. QED BY <1>2, <2>1, SeqDef
<1>7. Len(new) = size
  BY <1>2, <1>3, <1>6, LenProperties
<1>8. \A T : T = {} => TableInv(NoSlots, T) /\ TableInv(Absent, T)
  BY DEF TableInv, TableExact, NoSlots, Absent, SlotTable
<1>9. \A i \in 1 .. size : TableInv(new[i], Taken(h, i))
  <2>. TAKE i \in 1 .. size
  <2>1. CASE i \in 1 .. Len(tables) /\ tables[i] # Absent
    BY <1>2, <1>3, <2>1 DEF Sound
  <2>2. CASE i \in 1 .. Len(tables) /\ tables[i] = Absent
    <3>1. TableInv(Absent, Taken(h, i))
      BY <2>2 DEF Sound
    <3>2. Taken(h, i) = {}
      BY <3>1 DEF TableInv, TableExact, Absent, NoSlots
    <3>. QED BY <1>3, <1>8, <2>2, <3>2
  <2>3. CASE i \notin 1 .. Len(tables)
    <3>1. \A e \in Entity : h[e].arch # i
      <4>. TAKE e \in Entity
      <4>1. i # 0
        OBVIOUS
      <4>. QED BY <2>3, <4>1, SoundFacts DEF NoHome
    <3>2. Taken(h, i) = {}
      BY <3>1 DEF Taken
    <3>3. new[i] \in {NoSlots, Absent}
      BY <1>1, <1>2, <1>3, <2>3
    <3>. QED BY <1>8, <3>2, <3>3
  <2>. QED BY <2>1, <2>2, <2>3
<1>10. StorageExact(new, h)
  <2>1. \A i \in DOMAIN new : TableExact(new[i], Taken(h, i))
    BY <1>3, <1>9 DEF TableInv
  <2>2. \A e \in Entity : h[e] # NoHome => h[e].arch \in DOMAIN new
    BY <1>1, <1>2, <1>3, SoundFacts
  <2>. QED BY <2>1, <2>2 DEF StorageExact, Sound
<1>11. new[a] # Absent
  BY <1>2, <1>3, <1>4
<1>. QED BY <1>2, <1>3, <1>6, <1>7, <1>9, <1>10, <1>11 DEF Sound

\* An entity leaves its slot.
LEMMA DestroyKeepsSound ==
  ASSUME NEW tables, NEW h, Sound(tables, h), NEW e \in Entity, h[e] # NoHome,
         NEW new, new = [tables EXCEPT ![h[e].arch] = Released(@, h[e].slot)],
         NEW g, g = [h EXCEPT ![e] = NoHome]
  PROVE  Sound(new, g) /\ \A a \in 1 .. Len(tables) : a \in 1 .. Len(new)
<1>. DEFINE o == h[e].arch
<1>1. /\ Len(tables) \in Nat /\ DOMAIN tables = 1 .. Len(tables)
      /\ o \in 1 .. Len(tables) /\ h[e].slot \in Taken(h, o)
  BY SoundFacts
<1>. HIDE DEF o
<1>2. TableInv(Released(tables[o], h[e].slot), Taken(h, o) \ {h[e].slot})
  BY <1>1, ReleasedIsExact DEF Sound
<1>3. /\ new \in Seq(SlotTable) /\ Len(new) = Len(tables)
      /\ \A a \in 1 .. Len(tables) :
           new[a] = IF a = o THEN Released(tables[o], h[e].slot) ELSE tables[a]
  <2>1. tables \in Seq(SlotTable) /\ Released(tables[o], h[e].slot) \in SlotTable
    BY <1>2 DEF Sound, TableInv
  <2>. QED BY <1>1, <2>1, ExceptSeq DEF o
<1>4. /\ g \in Homes /\ g[e] = NoHome
      /\ \A f \in Entity : f # e => g[f] = h[f]
  BY DEF Sound, Homes, NoHome
<1>5. Taken(g, o) = Taken(h, o) \ {h[e].slot}
  <2>1. \A f \in Entity : f # e /\ h[f].arch = o => h[f].slot # h[e].slot
    <3>. SUFFICES ASSUME NEW f \in Entity, f # e, h[f].arch = o, h[f].slot = h[e].slot PROVE FALSE
      OBVIOUS
    <3>1. h[f] = h[e]
      BY DEF Sound, Homes, o
    <3>. QED BY <3>1 DEF Sound, StorageExact
  <2>2. g[e].arch # o
    BY <1>1, <1>4 DEF NoHome
  <2>. QED BY <1>4, <2>1, <2>2 DEF Taken
<1>6. \A a \in 1 .. Len(tables) : a # o => Taken(g, a) = Taken(h, a)
  BY <1>4 DEF Taken, o, NoHome
<1>7. \A a \in 1 .. Len(new) : TableInv(new[a], Taken(g, a))
  BY <1>2, <1>3, <1>5, <1>6 DEF Sound
<1>8. StorageExact(new, g)
  <2>1. DOMAIN new = 1 .. Len(new)
    BY <1>3, LenProperties
  <2>2. \A a \in DOMAIN new : TableExact(new[a], Taken(g, a))
    BY <1>7, <2>1 DEF TableInv
  <2>3. \A f \in Entity : g[f] # NoHome => g[f].arch \in DOMAIN new
    BY <1>1, <1>3, <1>4, <2>1 DEF Sound, StorageExact
  <2>4. \A f, u \in Entity : f # u /\ g[f] # NoHome => g[f] # g[u]
    BY <1>4 DEF Sound, StorageExact
  <2>. QED BY <2>2, <2>3, <2>4 DEF StorageExact
<1>. QED BY <1>3, <1>4, <1>7, <1>8 DEF Sound

\* An entity takes the first free slot of an archetype, and leaves the one it had.
LEMMA FillKeepsSound ==
  ASSUME NEW tables, NEW h, Sound(tables, h), NEW e \in Entity,
         NEW a \in 1 .. Len(tables), tables[a] # Absent,
         NEW new, new = Housed(tables, a, h[e]),
         NEW g, g = [h EXCEPT ![e] = [arch |-> a, slot |-> NextAvailable(tables[a]).last]]
  PROVE  Sound(new, g)
<1>. DEFINE n == NextAvailable(tables[a])
            x == n.last
            mid == [tables EXCEPT ![a] = Reserved(n)]
<1>1. Len(tables) \in Nat /\ DOMAIN tables = 1 .. Len(tables)
  BY LenProperties DEF Sound
<1>2. /\ n \in SlotTable /\ n.used = Taken(h, a) /\ Taken(h, a) \subseteq 0 .. n.size - 1
      /\ x \in Nat /\ x < n.size /\ x \notin Taken(h, a) /\ 0 .. x - 1 \subseteq Taken(h, a)
  <2>1. TableInv(tables[a], Taken(h, a))
    BY DEF Sound
  <2>. QED BY <2>1, NextAvailableIsFree, Zenon
<1>. HIDE DEF n
<1>3. TableInv(Reserved(n), Taken(h, a) \cup {x}) /\ Reserved(n) # Absent
  BY <1>2, ReservedIsExact
<1>. HIDE DEF x
<1>4. /\ mid \in Seq(SlotTable) /\ Len(mid) = Len(tables)
      /\ \A b \in 1 .. Len(tables) : mid[b] = IF b = a THEN Reserved(n) ELSE tables[b]
  <2>1. tables \in Seq(SlotTable) /\ Reserved(n) \in SlotTable
    BY <1>3 DEF Sound, TableInv
  <2>. QED BY <1>1, <2>1, ExceptSeq
<1>5. new = IF h[e] = NoHome THEN mid
            ELSE [mid EXCEPT ![h[e].arch] = Released(@, h[e].slot)]
  BY Zenon DEF Housed, n
<1>. HIDE DEF mid
<1>6. /\ g \in Homes /\ g[e].arch = a /\ g[e].slot = x
      /\ \A f \in Entity : f # e => g[f] = h[f]
  BY <1>2 DEF Sound, Homes, x, n
<1>. DEFINE S(b) == IF b = a THEN Taken(h, b) \cup {x} ELSE Taken(h, b)
<1>7. \A b \in 1 .. Len(tables) : TableInv(mid[b], S(b))
  BY <1>3, <1>4 DEF Sound
<1>8. /\ new \in Seq(SlotTable) /\ Len(new) = Len(tables)
      /\ \A b \in 1 .. Len(tables) : TableInv(new[b], Taken(g, b))
  <2>1. CASE h[e] = NoHome
    <3>1. h[e].arch = 0
      BY <2>1 DEF NoHome
    <3>2. \A b \in 1 .. Len(tables) : Taken(g, b) = S(b)
      BY <1>6, <3>1 DEF Taken
    <3>. QED BY <1>4, <1>5, <1>7, <2>1, <3>2
  <2>2. CASE h[e] # NoHome
    <3>. DEFINE o == h[e].arch
                y == h[e].slot
    <3>1. o \in 1 .. Len(tables) /\ y \in Taken(h, o)
      BY <2>2, SoundFacts
    <3>2. y \in S(o)
      BY <3>1
    <3>. HIDE DEF S
    <3>3. TableInv(Released(mid[o], y), S(o) \ {y})
      BY <1>7, <3>1, <3>2, ReleasedIsExact
    <3>4. /\ new \in Seq(SlotTable) /\ Len(new) = Len(tables)
          /\ \A b \in 1 .. Len(tables) :
               new[b] = IF b = o THEN Released(mid[o], y) ELSE mid[b]
      <4>1. Released(mid[o], y) \in SlotTable
        BY <3>3 DEF TableInv
      <4>2. new = [mid EXCEPT ![o] = Released(mid[o], y)]
        BY <1>5, <2>2
      <4>. HIDE DEF o, y
      <4>. QED BY <1>4, <3>1, <4>1, <4>2, ExceptSeq
    <3>5. \A b \in 1 .. Len(tables) : Taken(g, b) = IF b = o THEN S(b) \ {y} ELSE S(b)
      <4>1. \A f \in Entity : f # e /\ h[f].arch = o => h[f].slot # y
        <5>. SUFFICES ASSUME NEW f \in Entity, f # e, h[f].arch = o, h[f].slot = y PROVE FALSE
          OBVIOUS
        <5>1. h[f] = h[e]
          BY DEF Sound, Homes
        <5>. QED BY <2>2, <5>1 DEF Sound, StorageExact
      <4>2. o = a => x # y
        BY <1>2, <3>1
      <4>. TAKE b \in 1 .. Len(tables)
      <4>3. Taken(g, b) = {h[f].slot : f \in {u \in Entity : u # e /\ h[u].arch = b}}
                          \cup (IF b = a THEN {x} ELSE {})
        BY <1>6 DEF Taken
      <4>4. Taken(h, b) = {h[f].slot : f \in {u \in Entity : u # e /\ h[u].arch = b}}
                          \cup (IF b = o THEN {y} ELSE {})
        BY DEF Taken
      <4>5. b = o => y \notin {h[f].slot : f \in {u \in Entity : u # e /\ h[u].arch = b}}
        BY <4>1
      <4>. QED BY <4>2, <4>3, <4>4, <4>5, Zenon DEF S
    <3>. QED BY <1>7, <3>3, <3>4, <3>5
  <2>. QED BY <2>1, <2>2
<1>9. StorageExact(new, g)
  <2>1. DOMAIN new = 1 .. Len(tables)
    BY <1>8, LenProperties
  <2>2. \A b \in DOMAIN new : TableExact(new[b], Taken(g, b))
    BY <1>8, <2>1 DEF TableInv
  <2>3. \A f \in Entity : g[f] # NoHome => g[f].arch \in DOMAIN new
    BY <1>1, <1>6, <2>1 DEF Sound, StorageExact
  <2>4. \A f \in Entity : f # e => g[f] # g[e]
    <3>. SUFFICES ASSUME NEW f \in Entity, f # e, h[f].arch = a, h[f].slot = x PROVE FALSE
      BY <1>6
    <3>. QED BY <1>2 DEF Taken
  <2>5. \A f, u \in Entity : f # u /\ g[f] # NoHome => g[f] # g[u]
    BY <1>6, <2>4 DEF Sound, StorageExact
  <2>. QED BY <2>2, <2>3, <2>5 DEF StorageExact
<1>. QED BY <1>6, <1>8, <1>9 DEF Sound

-----------------------------------------------------------------------------
(* The storages of all parsers *)

Prepared(p) == arch[p] \in 1 .. Len(store[p]) /\ store[p][arch[p]] # Absent

StoreInv ==
  \A p \in Parser :
    /\ Sound(store[p], home[p])
    /\ pc[p] \in {"ensured", "entering", "filling"} => Prepared(p)
    /\ pc[p] \in {"destroying", "freeing"} => home[p][Head(todo[p]).entity] # NoHome

IInv == CoreInv /\ OwnTypeOK /\ StoreInv

HomeOf(m) == [arch : 0 .. m, slot : {-1} \cup Nat]

LEMMA InitIInv == Init => IInv
<1>. SUFFICES ASSUME Init PROVE IInv
  OBVIOUS
<1>1. CoreInv
  BY InitCore
<1>2. /\ archs = << >> /\ Len(archs) = 0
      /\ \A p \in Parser : store[p] = << >> /\ pc[p] = "idle"
                           /\ home[p] = [e \in Entity |-> NoHome]
  BY DEF Init
<1>3. OwnTypeOK
  <2>1. << >> \in Seq(SlotTable) /\ NoHome \in HomeOf(0)
    BY DEF NoHome, HomeOf
  <2>. QED BY <1>2, <2>1 DEF OwnTypeOK, Init, HomeOf
<1>4. \A p \in Parser : Sound(store[p], home[p])
  <2>. TAKE p \in Parser
  <2>1. store[p] \in Seq(SlotTable) /\ Len(store[p]) = 0 /\ DOMAIN store[p] = {}
    <3>1. << >> \in Seq(SlotTable) /\ Len(<< >>) = 0
      BY EmptySeq
    <3>2. DOMAIN << >> = {}
      BY <3>1, LenProperties
    <3>. QED BY <1>2, <3>1, <3>2
  <2>2. home[p] \in Homes
    BY <1>2 DEF Homes, NoHome
  <2>. QED BY <1>2, <2>1, <2>2 DEF Sound, StorageExact
<1>. QED BY <1>1, <1>2, <1>3, <1>4 DEF IInv, StoreInv

LEMMA ArchsCounted ==
  ASSUME CoreInv, CoreInv'
  PROVE  Len(archs) \in Nat /\ Len(archs') \in Nat
<1>1. archs \in Seq(1 .. Len(templates)) /\ archs' \in Seq(1 .. Len(templates'))
  BY DEF CoreInv, SharedTypeOK
<1>. QED BY <1>1, LenProperties

\* A thread moves, with a storage that is sound and what the next step needs of it.
LEMMA MoveKeepsStores ==
  ASSUME IInv, CoreInv', NEW p \in Parser, NEW where \in PCs, NEW tables, NEW h,
         Len(archs) <= Len(archs'),
         pc' = [pc EXCEPT ![p] = where],
         store' = [store EXCEPT ![p] = tables], home' = [home EXCEPT ![p] = h],
         \A u \in Parser \ {p} : todo'[u] = todo[u] /\ arch'[u] = arch[u],
         Sound(tables, h), h \in [Entity -> HomeOf(Len(archs'))],
         where \in {"ensured", "entering", "filling"} =>
           arch'[p] \in 1 .. Len(tables) /\ tables[arch'[p]] # Absent,
         where \in {"destroying", "freeing"} => h[Head(todo'[p]).entity] # NoHome
  PROVE  IInv'
<1>1. OwnTypeOK'
  <2>1. Len(archs) \in Nat /\ Len(archs') \in Nat
    BY ArchsCounted DEF IInv
  <2>2. \A u \in Parser : home[u] \in [Entity -> HomeOf(Len(archs'))]
    BY <2>1 DEF IInv, OwnTypeOK, HomeOf
  <2>3. tables \in Seq(SlotTable)
    BY DEF Sound
  <2>. QED BY <2>2, <2>3 DEF IInv, OwnTypeOK, HomeOf
<1>2. StoreInv'
  <2>. SUFFICES ASSUME NEW u \in Parser
                PROVE  /\ Sound(store'[u], home'[u])
                       /\ pc'[u] \in {"ensured", "entering", "filling"} => Prepared(u)'
                       /\ pc'[u] \in {"destroying", "freeing"} =>
                            home'[u][Head(todo'[u]).entity] # NoHome
    BY Zenon DEF StoreInv
  <2>1. pc \in [Parser -> PCs] /\ DOMAIN store = Parser /\ DOMAIN home = Parser
    BY DEF IInv, CoreInv, ThreadTypeOK, OwnTypeOK
  <2>2. CASE u = p
    BY <2>1, <2>2 DEF Prepared
  <2>3. CASE u # p
    <3>1. /\ pc'[u] = pc[u] /\ store'[u] = store[u] /\ home'[u] = home[u]
          /\ todo'[u] = todo[u] /\ arch'[u] = arch[u]
      BY <2>1, <2>3
    <3>. QED BY <3>1 DEF IInv, StoreInv, Prepared
  <2>. QED BY <2>2, <2>3
<1>. QED BY <1>1, <1>2 DEF IInv

\* Steps that leave the thread's storage as it is.
LEMMA QuietKeepsStores ==
  ASSUME IInv, CoreInv', NEW p \in Parser,
         \/ Lookup(p) \/ AskForTemplates(p) \/ AddTemplate(p) \/ FindInstance(p)
         \/ MakeInstance(p) \/ PeekArchetype(p) \/ AskForArchetypes(p) \/ LockArchetypes(p)
         \/ CreateArchetype(p) \/ UpdateQueries(p) \/ LockForCreate(p) \/ LockTemplates(p)
         \/ SendCreated(p) \/ HandledCreated(p)
         \/ DestroyAbsent(p) \/ SendDestroyed(p) \/ HandledDestroyed(p)
  PROVE  IInv'
<1>1. UNCHANGED own /\ \A u \in Parser \ {p} : todo'[u] = todo[u] /\ arch'[u] = arch[u]
  BY DEF Lookup, AskForTemplates, AddTemplate, FindInstance, MakeInstance, PeekArchetype,
     AskForArchetypes, LockArchetypes, CreateArchetype, UpdateQueries, LockForCreate,
     LockTemplates, SendCreated, HandledCreated, DestroyAbsent, SendDestroyed,
     HandledDestroyed, local, IInv, CoreInv, ThreadTypeOK
<1>2. Len(archs) <= Len(archs')
  <2>1. archs \in Seq(1 .. Len(templates)) /\ Len(archs) \in Nat
    BY TablesTyped DEF IInv, CoreInv, SharedTypeOK
  <2>2. UNCHANGED archs \/ archs' = Append(archs, tid[p])
    BY DEF Lookup, AskForTemplates, AddTemplate, FindInstance, MakeInstance, PeekArchetype,
       AskForArchetypes, LockArchetypes, CreateArchetype, UpdateQueries, LockForCreate,
       LockTemplates, SendCreated, HandledCreated, DestroyAbsent, SendDestroyed,
       HandledDestroyed, shared
  <2>3. CASE archs' = Append(archs, tid[p])
    BY <2>1, <2>3
  <2>. QED BY <2>1, <2>2, <2>3
<1>3. PICK where \in PCs : /\ pc' = [pc EXCEPT ![p] = where]
                           /\ where # "ensured"
                           /\ where \in {"entering", "filling"} =>
                                pc[p] \in {"ensured", "entering"} /\ UNCHANGED arch
                           /\ where \in {"destroying", "freeing"} =>
                                home[p][Head(todo'[p]).entity] # NoHome
  <2>1. CASE \/ Lookup(p) \/ AskForTemplates(p) \/ AddTemplate(p) \/ FindInstance(p)
             \/ MakeInstance(p) \/ PeekArchetype(p) \/ AskForArchetypes(p)
             \/ LockArchetypes(p) \/ CreateArchetype(p) \/ UpdateQueries(p)
    BY <2>1 DEF Lookup, AskForTemplates, AddTemplate, FindInstance, MakeInstance, PeekArchetype,
       AskForArchetypes, LockArchetypes, CreateArchetype, UpdateQueries, Goto, PCs
  <2>2. CASE LockForCreate(p) \/ LockTemplates(p) \/ SendCreated(p) \/ HandledCreated(p)
    BY <2>2 DEF LockForCreate, LockTemplates, SendCreated, HandledCreated, Goto, PCs, local
  <2>4. CASE SendDestroyed(p) \/ HandledDestroyed(p)
    BY <2>4 DEF SendDestroyed, HandledDestroyed, Goto, PCs, IInv, StoreInv
  <2>3. CASE DestroyAbsent(p)
    <3>1. pc' = [pc EXCEPT ![p] = "idle"]
      BY <2>3 DEF DestroyAbsent, Now, IInv, CoreInv, ThreadTypeOK
    <3>. QED BY <3>1 DEF PCs
  <2>. QED BY <2>1, <2>2, <2>3, <2>4
<1>4. /\ store' = [store EXCEPT ![p] = store[p]] /\ home' = [home EXCEPT ![p] = home[p]]
  BY <1>1 DEF own, IInv, OwnTypeOK
<1>5. Sound(store[p], home[p]) /\ home[p] \in [Entity -> HomeOf(Len(archs'))]
  <2>1. Len(archs) \in Nat /\ Len(archs') \in Nat
    BY ArchsCounted DEF IInv
  <2>. QED BY <1>2, <2>1 DEF IInv, StoreInv, OwnTypeOK, HomeOf
<1>6. where \in {"entering", "filling"} =>
        arch'[p] \in 1 .. Len(store[p]) /\ store[p][arch'[p]] # Absent
  BY <1>3 DEF IInv, StoreInv, Prepared
<1>. QED BY <1>1, <1>2, <1>3, <1>4, <1>5, <1>6, MoveKeepsStores

LEMMA ConstructKeepsStores ==
  ASSUME IInv, CoreInv', NEW p \in Parser, ConstructLocked(p) \/ ConstructShared(p)
  PROVE  IInv'
<1>. DEFINE new == Constructed(store[p], arch[p])
<1>1. /\ pc[p] \in {"created", "present"} /\ pc' = [pc EXCEPT ![p] = "ensured"]
      /\ store' = [store EXCEPT ![p] = new]
      /\ UNCHANGED <<home, todo, arch, archs>>
  BY DEF ConstructLocked, ConstructShared, Goto, shared, local
<1>2. arch[p] \in Nat \ {0}
  BY <1>1, TablesTyped DEF IInv, CoreInv, ThreadTypeOK, ThreadInv, ArchChosen
<1>3. Sound(new, home[p]) /\ arch[p] \in DOMAIN new /\ new[arch[p]] # Absent
  BY <1>2, ConstructKeepsSound DEF IInv, StoreInv
<1>. HIDE DEF new
<1>4. arch[p] \in 1 .. Len(new)
  BY <1>3, LenProperties DEF Sound
<1>5. home' = [home EXCEPT ![p] = home[p]] /\ home[p] \in [Entity -> HomeOf(Len(archs'))]
      /\ Len(archs) <= Len(archs')
  BY <1>1, TablesTyped DEF IInv, CoreInv, OwnTypeOK, HomeOf
<1>6. "ensured" \in PCs
  BY DEF PCs
<1>. QED BY <1>1, <1>3, <1>4, <1>5, <1>6, MoveKeepsStores

\* The entity of a request.
LEMMA RequestTyped ==
  ASSUME IInv, NEW p \in Parser, pc[p] # "idle"
  PROVE  Head(todo[p]).entity \in Entity
<1>1. todo[p] \in Seq(Request) /\ todo[p] # << >>
  BY DEF IInv, CoreInv, ThreadTypeOK, ThreadInv
<1>2. Head(todo[p]) \in Request
  BY <1>1, HeadTailProperties, Zenon
<1>. QED BY <1>2 DEF Request

LEMMA FillKeepsStores ==
  ASSUME IInv, CoreInv', NEW p \in Parser, FillEntity(p)
  PROVE  IInv'
<1>. DEFINE e == Head(todo[p]).entity
            a == arch[p]
            x == NextAvailable(store[p][a]).last
            new == Housed(store[p], a, home[p][e])
            g == [home[p] EXCEPT ![e] = [arch |-> a, slot |-> x]]
<1>1. PICK where \in {"announcing", "idle"} :
        /\ pc[p] = "filling" /\ pc' = [pc EXCEPT ![p] = where]
        /\ store' = [store EXCEPT ![p] = new] /\ home' = [home EXCEPT ![p] = g]
        /\ UNCHANGED <<arch, archs>>
        /\ UNCHANGED todo \/ todo' = [todo EXCEPT ![p] = Tail(@)]
  BY DEF FillEntity, Goto, shared, local, IInv, OwnTypeOK
<1>2. e \in Entity /\ a \in 1 .. Len(store[p]) /\ store[p][a] # Absent
      /\ Sound(store[p], home[p])
  BY <1>1, RequestTyped DEF IInv, StoreInv, Prepared
<1>3. Sound(new, g)
  BY <1>2, FillKeepsSound
<1>4. g \in [Entity -> HomeOf(Len(archs'))]
  <2>1. x \in {-1} \cup Nat
    <3>1. TableInv(store[p][a], Taken(home[p], a))
      BY <1>2 DEF Sound
    <3>. QED BY <1>2, <3>1, NextAvailableIsFree
  <2>2. a \in 0 .. Len(archs)
    BY DEF IInv, CoreInv, ThreadTypeOK
  <2>3. home[p] \in [Entity -> HomeOf(Len(archs))]
    BY DEF IInv, OwnTypeOK, HomeOf
  <2>4. [arch |-> a, slot |-> x] \in HomeOf(Len(archs))
    BY <2>1, <2>2 DEF HomeOf
  <2>. QED BY <1>1, <2>3, <2>4
<1>. HIDE DEF new, g
<1>5. \A u \in Parser \ {p} : todo'[u] = todo[u] /\ arch'[u] = arch[u]
  BY <1>1 DEF IInv, CoreInv, ThreadTypeOK
<1>6. where \in PCs /\ Len(archs) <= Len(archs')
  BY <1>1, TablesTyped DEF PCs, IInv, CoreInv
<1>. QED BY <1>1, <1>3, <1>4, <1>5, <1>6, MoveKeepsStores

LEMMA DestroyKeepsStores ==
  ASSUME IInv, CoreInv', NEW p \in Parser, DestroyEntity(p)
  PROVE  IInv'
<1>. DEFINE e == Head(todo[p]).entity
            h == home[p][e]
            new == [store[p] EXCEPT ![h.arch] = Released(@, h.slot)]
            g == [home[p] EXCEPT ![e] = NoHome]
<1>1. /\ pc[p] = "freeing" /\ pc' = [pc EXCEPT ![p] = "idle"]
      /\ store' = [store EXCEPT ![p] = new] /\ home' = [home EXCEPT ![p] = g]
      /\ UNCHANGED <<arch, archs>> /\ todo' = [todo EXCEPT ![p] = Tail(@)]
  BY DEF DestroyEntity, Goto, shared, local, IInv, OwnTypeOK
<1>2. e \in Entity /\ h # NoHome /\ Sound(store[p], home[p])
  BY <1>1, RequestTyped DEF IInv, StoreInv
<1>3. Sound(new, g)
  BY <1>2, DestroyKeepsSound
<1>4. g \in [Entity -> HomeOf(Len(archs'))]
  BY SMTT(30), <1>1, <1>2, TablesTyped DEF IInv, CoreInv, OwnTypeOK, HomeOf, NoHome
<1>. HIDE DEF new, g
<1>5. \A u \in Parser \ {p} : todo'[u] = todo[u] /\ arch'[u] = arch[u]
  BY <1>1 DEF IInv, CoreInv, ThreadTypeOK
<1>6. "idle" \in PCs /\ Len(archs) <= Len(archs')
  BY <1>1, TablesTyped DEF PCs, IInv, CoreInv
<1>. QED BY <1>1, <1>3, <1>4, <1>5, <1>6, MoveKeepsStores

LEMMA StutterKeepsStores ==
  ASSUME IInv, CoreInv', UNCHANGED vars
  PROVE  IInv'
BY DEF IInv, vars, shared, local, own, OwnTypeOK, StoreInv, Prepared

LEMMA StepKeepsIInv ==
  ASSUME IInv, [Next]_vars
  PROVE  IInv'
<1>1. CoreInv'
  BY StepKeepsCore DEF IInv
<1>2. ASSUME NEW p \in Parser, Step(p) PROVE IInv'
  BY <1>1, <1>2, QuietKeepsStores, ConstructKeepsStores, FillKeepsStores, DestroyKeepsStores
  DEF Step
<1>. QED BY <1>1, <1>2, StutterKeepsStores DEF Next

\* Every slot table and the home of every entity keep their invariant, over that of
\* the shared tables (archetypes.h:64-142).
THEOREM StoresInvariant == Spec => []IInv
<1>1. IInv /\ [Next]_vars => IInv'
  BY StepKeepsIInv
<1>. QED BY InitIInv, <1>1, PTL DEF Spec

\* Every index that a thread or a table holds is one of the table it refers to.
THEOREM TypeCorrect == Spec => []TypeOK
<1> DEFINE Kind == writersFirst \in BOOLEAN
<1>1. Init => Kind
  BY DEF Init
<1>2. Kind /\ [Next]_vars => Kind'
  BY DEF Next, Step, vars
<1>3. IInv /\ Kind => TypeOK
  BY DEF IInv, CoreInv, TypeOK
<1> HIDE DEF Kind
<1>. QED BY <1>1, <1>2, <1>3, StoresInvariant, PTL DEF Spec

\* reserveChunkId and releaseChunkId keep last_available_slot the lowest free slot and
\* give no slot twice, in the storage of every parser, however entities are created,
\* moved to other templates and destroyed.
THEOREM SlotsAlwaysExact == Spec => []SlotsExact
<1>1. IInv => SlotsExact
  BY DEF IInv, StoreInv, Sound, SlotsExact
<1>. QED BY <1>1, StoresInvariant, PTL

-----------------------------------------------------------------------------
(* The query.  At most one archetype is not in it yet: the one that the     *)
(* holder of archetypes_mtx is adding.                                      *)

Writing == {"locked", "published", "created"}

\* archetypes_mtx is held for the length of the slow path of EnsureArchetype.
LocksHeld == \A p \in Parser : pc[p] \in Writing <=> archWriter = p

Updated ==
  /\ \A p \in Parser : pc[p] = "published" => updatedTo = Len(archs) - 1
  /\ (\A p \in Parser : pc[p] # "published") => updatedTo = Len(archs)

\* query lists the matching archetypes up to updatedTo, once each and in order.
QueryExact ==
  /\ query \in Seq(1 .. updatedTo)
  /\ \A i, j \in 1 .. Len(query) : i <= j => query[j] - query[i] >= j - i
  /\ \A a \in 1 .. updatedTo :
       templates[archs[a]] \in Matched <=> \E i \in 1 .. Len(query) : query[i] = a

QueryInv == LocksHeld /\ Updated /\ QueryExact

\* One turn of the loop of makeArchetypesQuery.
LEMMA OneMatch ==
  ASSUME NEW n \in Nat, Len(archs) = n + 1
  PROVE  MatchesAfter(n) = IF templates[archs[n + 1]] \in Matched THEN <<n + 1>> ELSE << >>
<1> DEFINE loop(f) == [a \in n .. Len(archs) |->
                         IF a = n THEN << >>
                         ELSE IF templates[archs[a]] \in Matched THEN Append(f[a - 1], a)
                         ELSE f[a - 1]]
           found == CHOOSE f : f = loop(f)
           last == IF templates[archs[n + 1]] \in Matched THEN <<n + 1>> ELSE << >>
           g == [a \in n .. Len(archs) |-> IF a = n THEN << >> ELSE last]
<1>1. MatchesAfter(n) = found[Len(archs)]
  BY DEF MatchesAfter
<1>2. g = loop(g)
  <2>1. Append(<< >>, n + 1) = <<n + 1>>
    OBVIOUS
  <2>2. ASSUME NEW a \in n .. Len(archs)
        PROVE  g[a] = loop(g)[a]
    <3>1. CASE a = n
      BY <3>1
    <3>2. CASE a = n + 1
      <4>1. a # n /\ a - 1 = n /\ n \in n .. Len(archs)
        BY <3>2
      <4>2. g[a - 1] = << >> /\ g[a] = last
        BY <4>1
      <4>. QED BY <2>1, <3>2, <4>1, <4>2
    <3>. QED BY <3>1, <3>2
  <2>3. g = [a \in n .. Len(archs) |-> g[a]] /\ loop(g) = [a \in n .. Len(archs) |-> loop(g)[a]]
    OBVIOUS
  <2> HIDE DEF g, loop
  <2>. QED BY <2>2, <2>3
<1> HIDE DEF g
<1>3. found = loop(found)
  <2> HIDE DEF loop
  <2>. QED BY <1>2, Zenon
<1> HIDE DEF found
<1>4. found[n] = << >>
  BY <1>3
<1>5. found[n + 1] = last
  <2>1. n + 1 \in n .. Len(archs) /\ n + 1 # n /\ (n + 1) - 1 = n
    OBVIOUS
  <2>2. found[n + 1] = IF templates[archs[n + 1]] \in Matched THEN Append(found[n], n + 1)
                       ELSE found[n]
    BY <1>3, <2>1
  <2>. QED BY <1>4, <2>2
<1>. QED BY <1>1, <1>5

\* query and the archetypes of the tables afterwards
LEMMA QueryGrows ==
  ASSUME CoreInv, QueryExact, Len(archs) = updatedTo + 1,
         query' = query \o NewMatches, updatedTo' = Len(archs),
         UNCHANGED <<templates, archs>>
  PROVE  QueryExact'
<1> DEFINE n == updatedTo
           new == n + 1
<1>1. n \in Nat /\ Len(archs) = new
  BY DEF CoreInv, SharedTypeOK
<1>2. NewMatches = IF templates[archs[new]] \in Matched THEN <<new>> ELSE << >>
  BY <1>1, OneMatch DEF NewMatches
<1>3. query \in Seq(1 .. n) /\ query \in Seq(1 .. new) /\ Len(query) \in Nat
      /\ \A i \in 1 .. Len(query) : query[i] \in 1 .. n
  <2>1. 1 .. n \subseteq 1 .. new
    BY <1>1
  <2>2. query \in Seq(1 .. n)
    BY DEF QueryExact
  <2> HIDE DEF n, new
  <2>. QED BY <2>1, <2>2, SeqMonotone, LenProperties, ElementOfSeq
<1>4. \A a \in 1 .. new : templates'[archs'[a]] = templates[archs[a]]
  OBVIOUS
<1>5. CASE templates[archs[new]] \in Matched
  <2>1. query' = Append(query, new)
    <3>1. query' = query \o <<new>>
      BY <1>2, <1>5
    <3>. QED BY <1>1, <1>3, <3>1
  <2>2. /\ query' \in Seq(1 .. new) /\ Len(query') = Len(query) + 1
        /\ \A i \in 1 .. Len(query) : query'[i] = query[i]
        /\ query'[Len(query) + 1] = new
    <3>1. new \in 1 .. new
      BY <1>1
    <3> HIDE DEF new
    <3>. QED BY <1>3, <2>1, <3>1
  <2>3. ASSUME NEW i \in 1 .. Len(query'), NEW j \in 1 .. Len(query'), i <= j
        PROVE  query'[j] - query'[i] >= j - i
    <3> DEFINE m == Len(query)
    <3>1. CASE j \in 1 .. m
      BY <1>3, <2>2, <2>3, <3>1 DEF QueryExact
    <3>2. CASE j = m + 1 /\ i \in 1 .. m
      <4>1. m \in 1 .. m /\ i <= m
        BY <1>3, <3>2
      <4>2. query[m] - query[i] >= m - i
        BY <4>1, <3>2 DEF QueryExact
      <4>3. query[m] <= n /\ query[m] \in Int /\ query[i] \in Int
        BY <1>1, <1>3, <3>2, <4>1
      <4>4. query'[j] = n + 1 /\ query'[i] = query[i] /\ i \in Int /\ m \in Int
        BY <1>3, <2>2, <3>2
      <4> HIDE DEF n, m
      <4>. QED BY SMTT(30), <1>1, <3>2, <4>2, <4>3, <4>4
    <3>3. CASE j = m + 1 /\ i = m + 1
      BY <1>1, <2>2, <3>3
    <3>. QED BY <1>3, <2>2, <2>3, <3>1, <3>2, <3>3
  <2>4. ASSUME NEW a \in 1 .. new
        PROVE  templates[archs[a]] \in Matched <=> \E i \in 1 .. Len(query') : query'[i] = a
    <3>1. CASE a = new
      <4>1. Len(query) + 1 \in 1 .. Len(query')
        BY <1>3, <2>2
      <4>. QED BY <1>5, <2>2, <3>1, <4>1
    <3>2. CASE a \in 1 .. n
      <4>1. (\E i \in 1 .. Len(query') : query'[i] = a) <=> \E i \in 1 .. Len(query) : query[i] = a
        BY <1>1, <1>3, <2>2, <3>2
      <4>. QED BY <3>2, <4>1 DEF QueryExact
    <3>. QED BY <1>1, <3>1, <3>2
  <2>. QED BY <1>1, <1>4, <2>2, <2>3, <2>4 DEF QueryExact
<1>6. CASE templates[archs[new]] \notin Matched
  <2>1. query' = query
    BY <1>2, <1>3, <1>6
  <2>2. ASSUME NEW a \in 1 .. new
        PROVE  templates[archs[a]] \in Matched <=> \E i \in 1 .. Len(query) : query[i] = a
    <3>1. CASE a = new
      BY <1>1, <1>3, <1>6, <3>1
    <3>2. CASE a \in 1 .. n
      BY <3>2 DEF QueryExact
    <3>. QED BY <1>1, <3>1, <3>2
  <2>. QED BY <1>1, <1>3, <1>4, <2>1, <2>2 DEF QueryExact
<1>. QED BY <1>5, <1>6

\* The mutex is held between the steps of a section, and by nobody else.
LEMMA LocksKept ==
  ASSUME CoreInv, LocksHeld, NEW p \in Parser, Step(p)
  PROVE  LocksHeld'
<1>1. pc \in [Parser -> PCs] /\ NoParser \notin Parser
  BY SharedAssumption DEF CoreInv, ThreadTypeOK
<1>2. CASE LockArchetypes(p)
  BY <1>1, <1>2 DEF LockArchetypes, Goto, LocksHeld, Writing
<1>3. CASE ConstructLocked(p)
  BY <1>1, <1>3 DEF ConstructLocked, Goto, LocksHeld, Writing
<1>4. CASE CreateArchetype(p) \/ UpdateQueries(p)
  <2>1. pc[p] \in Writing /\ archWriter' = archWriter
        /\ \E where \in Writing : pc' = [pc EXCEPT ![p] = where]
    BY <1>4 DEF CreateArchetype, UpdateQueries, Goto, locks, Writing
  <2>. QED BY <1>1, <2>1 DEF LocksHeld
<1>5. CASE \/ Lookup(p) \/ AskForTemplates(p) \/ AddTemplate(p) \/ FindInstance(p)
           \/ MakeInstance(p) \/ PeekArchetype(p) \/ AskForArchetypes(p) \/ ConstructShared(p)
           \/ LockForCreate(p) \/ LockTemplates(p) \/ FillEntity(p) \/ SendCreated(p)
           \/ HandledCreated(p) \/ DestroyAbsent(p) \/ SendDestroyed(p)
           \/ HandledDestroyed(p) \/ DestroyEntity(p)
  <2>1. /\ pc[p] \notin Writing /\ archWriter' = archWriter
        /\ pc' = pc \/ \E where \in PCs \ Writing : pc' = [pc EXCEPT ![p] = where]
    BY <1>5 DEF Lookup, AskForTemplates, AddTemplate, FindInstance, MakeInstance, PeekArchetype,
       AskForArchetypes, ConstructShared, LockForCreate, LockTemplates, FillEntity, SendCreated,
       HandledCreated, DestroyAbsent, SendDestroyed, HandledDestroyed, DestroyEntity, Now, Goto,
       locks, Writing, PCs
  <2>. QED BY <1>1, <2>1 DEF LocksHeld
<1>. QED BY <1>2, <1>3, <1>4, <1>5 DEF Step

\* A step that neither adds an archetype nor updates the queries.
LEMMA QueryKept ==
  ASSUME CoreInv, QueryInv, LocksHeld', UNCHANGED <<archs, query, updatedTo>>,
         \A t \in 1 .. Len(templates) : templates'[t] = templates[t],
         \A u \in Parser : pc'[u] = "published" <=> pc[u] = "published"
  PROVE  QueryInv'
<1>1. \A a \in 1 .. updatedTo : archs[a] \in 1 .. Len(templates)
  BY TablesTyped DEF CoreInv, SharedTypeOK
<1>2. QueryExact'
  BY <1>1 DEF QueryInv, QueryExact
<1>3. Updated'
  BY DEF QueryInv, Updated
<1>. QED BY <1>2, <1>3 DEF QueryInv

LEMMA TemplatesKept ==
  ASSUME CoreInv, NEW p \in Parser, Step(p)
  PROVE  \A t \in 1 .. Len(templates) : templates'[t] = templates[t]
<1>1. templates' = templates \/ templates' = Append(templates, Head(todo[p]).name)
  BY DEF Step, Lookup, AskForTemplates, AddTemplate, FindInstance, MakeInstance, PeekArchetype,
     AskForArchetypes, LockArchetypes, CreateArchetype, UpdateQueries, ConstructLocked,
     ConstructShared, LockForCreate, LockTemplates, FillEntity, SendCreated, HandledCreated,
     DestroyAbsent, SendDestroyed, HandledDestroyed, DestroyEntity, shared
<1>2. templates \in Seq(Name)
  BY DEF CoreInv, SharedTypeOK
<1>. QED BY <1>1, <1>2, AppendProperties

LEMMA StepKeepsQuery ==
  ASSUME CoreInv, QueryInv, NEW p \in Parser, Step(p)
  PROVE  QueryInv'
<1>1. LocksHeld'
  BY LocksKept DEF QueryInv
<1>2. pc \in [Parser -> PCs] /\ Len(archs) \in Nat /\ updatedTo \in 0 .. Len(archs)
  BY TablesTyped DEF CoreInv, ThreadTypeOK, SharedTypeOK
<1>3. pc[p] \in Writing => \A u \in Parser \ {p} : pc[u] \notin Writing
  BY DEF QueryInv, LocksHeld
<1>4. CASE CreateArchetype(p) /\ insts[inst[p]].arch = 0
  <2>1. /\ pc[p] = "locked" /\ pc' = [pc EXCEPT ![p] = "published"]
        /\ archs' = Append(archs, tid[p]) /\ UNCHANGED <<templates, query, updatedTo>>
    BY <1>4 DEF CreateArchetype, Goto
  <2>2. updatedTo = Len(archs)
    BY <1>3, <2>1 DEF QueryInv, Updated, Writing
  <2>3. Len(archs') = Len(archs) + 1 /\ \A a \in 1 .. Len(archs) : archs'[a] = archs[a]
    BY <2>1 DEF CoreInv, SharedTypeOK
  <2>4. Updated'
    BY <1>2, <2>1, <2>2, <2>3 DEF Updated
  <2>5. QueryExact'
    BY <2>1, <2>2, <2>3 DEF QueryInv, QueryExact
  <2>. QED BY <1>1, <2>4, <2>5 DEF QueryInv
<1>5. CASE UpdateQueries(p)
  <2>1. /\ pc[p] = "published" /\ pc' = [pc EXCEPT ![p] = "created"]
        /\ UNCHANGED <<templates, archs>>
    BY <1>5 DEF UpdateQueries, Goto
  <2>2. updatedTo = Len(archs) - 1
    BY <2>1 DEF QueryInv, Updated
  <2>3. query' = query \o NewMatches /\ updatedTo' = Len(archs)
    BY <1>2, <1>5, <2>2 DEF UpdateQueries
  <2>4. QueryExact'
    BY <1>2, <2>1, <2>2, <2>3, QueryGrows DEF QueryInv
  <2>5. Updated'
    BY <1>2, <1>3, <2>1, <2>3 DEF Updated, Writing
  <2>. QED BY <1>1, <2>4, <2>5 DEF QueryInv
<1>6. CASE \/ CreateArchetype(p) /\ insts[inst[p]].arch # 0
           \/ Lookup(p) \/ AskForTemplates(p) \/ AddTemplate(p) \/ FindInstance(p)
           \/ MakeInstance(p) \/ PeekArchetype(p) \/ AskForArchetypes(p) \/ LockArchetypes(p)
           \/ ConstructLocked(p) \/ ConstructShared(p) \/ LockForCreate(p) \/ LockTemplates(p)
           \/ FillEntity(p) \/ SendCreated(p) \/ HandledCreated(p) \/ DestroyAbsent(p)
           \/ SendDestroyed(p) \/ HandledDestroyed(p) \/ DestroyEntity(p)
  <2>1. UNCHANGED <<archs, query, updatedTo>>
    BY <1>6 DEF Lookup, AskForTemplates, AddTemplate, FindInstance, MakeInstance, PeekArchetype,
       AskForArchetypes, LockArchetypes, CreateArchetype, ConstructLocked, ConstructShared,
       LockForCreate, LockTemplates, FillEntity, SendCreated, HandledCreated, DestroyAbsent,
       SendDestroyed, HandledDestroyed, DestroyEntity, shared
  <2>2. /\ pc[p] # "published"
        /\ pc' = pc \/ \E where \in PCs \ {"published"} : pc' = [pc EXCEPT ![p] = where]
    BY <1>6 DEF Lookup, AskForTemplates, AddTemplate, FindInstance, MakeInstance, PeekArchetype,
       AskForArchetypes, LockArchetypes, CreateArchetype, ConstructLocked, ConstructShared,
       LockForCreate, LockTemplates, FillEntity, SendCreated, HandledCreated, DestroyAbsent,
       SendDestroyed, HandledDestroyed, DestroyEntity, Now, Goto, PCs
  <2>3. \A u \in Parser : pc'[u] = "published" <=> pc[u] = "published"
    BY <1>2, <2>2
  <2>. QED BY <1>1, <2>1, <2>3, QueryKept, TemplatesKept
<1>. QED BY <1>4, <1>5, <1>6 DEF Step

\* The query names exactly the archetypes it matches, in order, up to the one that the
\* holder of archetypes_mtx is adding (updateAllQueries, makeArchetypesQuery).
LEMMA QueryInvariant == Spec => []QueryInv
<1>1. Init => QueryInv
  <2>. SUFFICES ASSUME Init PROVE QueryInv
    OBVIOUS
  <2>1. LocksHeld /\ Updated
    BY SharedAssumption DEF Init, LocksHeld, Updated, Writing
  <2>2. QueryExact
    BY DEF Init, QueryExact
  <2>. QED BY <2>1, <2>2 DEF QueryInv
<1>2. CoreInv /\ QueryInv /\ [Next]_vars => QueryInv'
  <2>. SUFFICES ASSUME CoreInv, QueryInv, [Next]_vars PROVE QueryInv'
    OBVIOUS
  <2>1. CASE UNCHANGED vars
    BY <2>1 DEF vars, shared, locks, QueryInv, LocksHeld, Updated, QueryExact
  <2>. QED BY <2>1, StepKeepsQuery DEF Next
<1>. QED BY <1>1, <1>2, CoreInvariant, PTL DEF Spec

\* In a query whose archetypes are consecutive the offset from the first is the entry.
LEMMA Consecutive ==
  ASSUME CoreInv, QueryExact, query # << >>,
         query[Len(query)] + 1 = Len(query) + query[1]
  PROVE  \A i \in 1 .. Len(query) : query[i] = query[1] + i - 1
<1> DEFINE m == Len(query)
<1>1. m \in Nat /\ m >= 1 /\ \A i \in 1 .. m : query[i] \in Int
  <2>1. query \in Seq(1 .. updatedTo) /\ updatedTo \in Int
    BY DEF QueryExact, CoreInv, SharedTypeOK
  <2>. QED BY <2>1
<1>2. SUFFICES ASSUME NEW i \in 1 .. m PROVE query[i] = query[1] + i - 1
  OBVIOUS
<1>3. 1 \in 1 .. m /\ m \in 1 .. m /\ 1 <= i /\ i <= m
  BY <1>1
<1>4. query[i] - query[1] >= i - 1 /\ query[m] - query[i] >= m - i
  BY <1>3 DEF QueryExact
<1>5. query[1] \in Int /\ query[m] \in Int /\ query[i] \in Int /\ i \in Int /\ m \in Int
      /\ query[m] + 1 = m + query[1]
  BY <1>1, <1>3
<1> HIDE DEF m
<1>6. ASSUME NEW f \in Int, NEW l \in Int, NEW q \in Int, NEW k \in Int, NEW n \in Int,
             l + 1 = n + f, q - f >= k - 1, l - q >= n - k
      PROVE  q = f + k - 1
  BY <1>6
<1>. QED BY <1>4, <1>5, <1>6

\* fillEidQueryView finds the entry of a matching archetype, and none of another.
LEMMA QueryIndexExact ==
  ASSUME CoreInv, QueryExact, NEW a \in 1 .. updatedTo
  PROVE  IF templates[archs[a]] \in Matched
         THEN QueryIndex(a) \in 1 .. Len(query) /\ query[QueryIndex(a)] = a
         ELSE QueryIndex(a) = 0
<1> DEFINE m == Len(query)
<1>1. m \in Nat /\ updatedTo \in Nat /\ \A i \in 1 .. m : query[i] \in 1 .. updatedTo
  <2>1. query \in Seq(1 .. updatedTo) /\ updatedTo \in Nat
    BY DEF QueryExact, CoreInv, SharedTypeOK
  <2>. QED BY <2>1
<1>2. templates[archs[a]] \in Matched <=> \E i \in 1 .. m : query[i] = a
  BY DEF QueryExact
<1>3. CASE query = << >> \/ a > query[m]
  <2>1. QueryIndex(a) = 0
    BY <1>3 DEF QueryIndex
  <2>2. ASSUME NEW i \in 1 .. m, query[i] = a PROVE FALSE
    <3>1. query # << >> /\ m \in 1 .. m /\ i <= m
      BY <1>1
    <3>2. query[m] - query[i] >= m - i
      BY <3>1 DEF QueryExact
    <3>3. a > query[m] /\ query[m] \in Int /\ a \in Int /\ i \in Int
      BY <1>1, <1>3, <3>1
    <3> HIDE DEF m
    <3>. QED BY <1>1, <2>2, <3>1, <3>2, <3>3
  <2>. QED BY <1>2, <2>1, <2>2
<1>4. CASE /\ query # << >> /\ ~(a > query[m])
           /\ a # query[1] /\ query[m] + 1 # m + query[1]
  <2> DEFINE Entry(k) == IF \E j \in 1 .. m : query[j] = a THEN k <= m /\ query[k] = a
                         ELSE k = m + 1
             i == CHOOSE k \in 1 .. m + 1 : Entry(k)
  <2>1. QueryIndex(a) = IF i \in 1 .. m THEN i ELSE 0
    BY <1>4 DEF QueryIndex
  <2>2. \E k \in 1 .. m + 1 : Entry(k)
    BY <1>1
  <2>3. i \in 1 .. m + 1 /\ Entry(i)
    <3> HIDE DEF Entry
    <3>. QED BY <2>2
  <2> HIDE DEF i
  <2>. QED BY <1>1, <1>2, <2>1, <2>3
<1>5. CASE /\ query # << >> /\ ~(a > query[m])
           /\ ~(a # query[1] /\ query[m] + 1 # m + query[1])
  <2> DEFINE i == a - query[1] + 1
  <2>1. QueryIndex(a) = IF i \in 1 .. m THEN i ELSE 0
    BY <1>5 DEF QueryIndex
  <2>2. 1 \in 1 .. m /\ query[1] \in Int /\ a \in Int
    BY <1>1, <1>5
  <2>3. CASE a = query[1]
    BY <1>1, <1>2, <2>1, <2>2, <2>3
  <2>4. CASE query[m] + 1 = m + query[1]
    <3>1. \A j \in 1 .. m : query[j] = query[1] + j - 1
      BY <1>5, <2>4, Consecutive
    <3>2. CASE i \in 1 .. m
      <4>1. query[i] = query[1] + i - 1
        BY <3>1, <3>2
      <4>2. query[i] = a
        BY <2>2, <4>1
      <4>. QED BY <1>2, <2>1, <3>2, <4>2
    <3>3. CASE i \notin 1 .. m
      <4>1. ~\E j \in 1 .. m : query[j] = a
        BY <2>2, <3>1, <3>3
      <4>. QED BY <1>2, <2>1, <3>3, <4>1
    <3>. QED BY <3>2, <3>3
  <2>. QED BY <1>5, <2>3, <2>4
<1>. QED BY <1>3, <1>4, <1>5

\* While nobody holds archetypes_mtx unique, the query finds every entity of a template
\* it matches under the entry of its archetype, and no other, whichever parser added
\* the archetype (EntityManagerQuery.cpp:992-1026).
THEOREM EntitiesAlwaysQueried == Spec => []EntitiesQueried
<1>1. IInv /\ QueryInv => EntitiesQueried
  <2>. SUFFICES ASSUME IInv, QueryInv, archWriter = NoParser,
                       NEW p \in Parser, NEW e \in Entity, home[p][e] # NoHome
                PROVE  IF templates[archs[home[p][e].arch]] \in Matched
                       THEN /\ QueryIndex(home[p][e].arch) \in 1 .. Len(query)
                            /\ query[QueryIndex(home[p][e].arch)] = home[p][e].arch
                       ELSE QueryIndex(home[p][e].arch) = 0
    BY DEF EntitiesQueried
  <2> DEFINE a == home[p][e].arch
  <2>1. a \in 0 .. Len(archs) /\ a \in DOMAIN store[p] /\ store[p] \in Seq(SlotTable)
    <3>1. home[p][e] \in HomeOf(Len(archs)) /\ store[p] \in Seq(SlotTable)
      BY DEF IInv, OwnTypeOK, HomeOf
    <3>2. a \in DOMAIN store[p]
      BY DEF IInv, StoreInv, Sound, StorageExact
    <3>. QED BY <3>1, <3>2 DEF HomeOf
  <2>2. updatedTo = Len(archs)
    <3>1. \A u \in Parser : pc[u] # "published"
      BY SharedAssumption DEF QueryInv, LocksHeld, Writing
    <3>. QED BY <3>1 DEF QueryInv, Updated
  <2>3. a \in 1 .. updatedTo
    BY <2>1, <2>2
  <2> HIDE DEF a
  <2>4. IF templates[archs[a]] \in Matched
        THEN QueryIndex(a) \in 1 .. Len(query) /\ query[QueryIndex(a)] = a
        ELSE QueryIndex(a) = 0
    BY <2>3, QueryIndexExact DEF IInv, QueryInv
  <2>. QED BY <2>4 DEF a
<1>. QED BY <1>1, StoresInvariant, QueryInvariant, PTL
=============================================================================
