---------------------------- MODULE TemplateSync ----------------------------
(***************************************************************************)
(* The two ends of an entity stream (Connection.cpp): a writer that names  *)
(* templates and components once and refers to them by index ever after    *)
(* (serializeConstruction), and the reader of the recorded packets that    *)
(* rebuilds the same tables (deserializeTemplate, syncReadTemplate,        *)
(* syncReadComponent).  Packets are reliable and ordered; a replay is that *)
(* record, read from its first packet.                                     *)
(*                                                                         *)
(* Abstractions: a template is the sequence of its replicated components;  *)
(* a name and its hash are the template or component itself, both sides    *)
(* having the same data base; component values are left out; a packet      *)
(* carries one block.  A reader that takes the bytes of a block for        *)
(* something else than was written, or whose assertion fails, has lost the *)
(* stream: `fault`.                                                        *)
(***************************************************************************)
EXTENDS Naturals, Sequences

CONSTANTS
  Template,    \* template names
  Component,   \* replicated components
  Parts,       \* Parts[m]: the components of template m, in order
  Entity,      \* server handles
  NoTemplate,
  Retemplates, \* may the server construct a living entity again as another template?
  MaxBlocks    \* bound: blocks written

ASSUME SyncAssumption ==
  /\ NoTemplate \notin Template
  /\ Parts \in [Template -> Seq(Component)]
  /\ \A m \in Template : \A i, j \in 1 .. Len(Parts[m]) :
       Parts[m][i] = Parts[m][j] => i = j
  /\ Retemplates \in BOOLEAN
  /\ MaxBlocks \in Nat

VARIABLES
  writer,   \* the sending Connection and its entities
  channel,  \* blocks written and not yet read
  written,  \* blocks written so far
  reader,   \* the receiving Connection and its entities
  fault     \* why reading stopped, or "none"

vars == <<writer, channel, written, reader, fault>>

Init ==
  /\ writer = [index  |-> [m \in Template |-> 0],     \* serverTemplatesIdx + 1
               count  |-> 0,                          \* syncedTemplate
               synced |-> {},                         \* componentsSynced
               entity |-> [e \in Entity |-> NoTemplate]]
  /\ channel = << >>
  /\ written = 0
  /\ reader = [names  |-> << >>,                      \* serverTemplates
               parts  |-> << >>,                      \* clientTemplatesComponents
               synced |-> {},                         \* componentsSynced
               entity |-> [e \in Entity |-> NoTemplate]]
  /\ fault = "none"

Elements(s) == {s[i] : i \in 1 .. Len(s)}

-----------------------------------------------------------------------------
(* The writer *)

Send(block) ==
  /\ written < MaxBlocks
  /\ written' = written + 1
  /\ channel' = Append(channel, block)
  /\ UNCHANGED <<reader, fault>>

\* Mutant of Described: every component is described in full.
DescribedInFull(m) ==
  [i \in 1 .. Len(Parts[m]) |-> [part |-> Parts[m][i], hashed |-> TRUE]]

\* A component of a definition; hashed when it is described for the first time.
Described(m) ==
  [i \in 1 .. Len(Parts[m]) |->
     [part |-> Parts[m][i], hashed |-> Parts[m][i] \notin writer.synced]]

\* serializeConstruction of entity e, of template m.  An entity may be sent
\* again while it lives.
Construct(e, m) ==
  /\ ~Retemplates => writer.entity[e] \in {NoTemplate, m}
  /\ IF writer.index[m] # 0
     THEN /\ Send([op |-> "construct", entity |-> e, index |-> writer.index[m],
                   name |-> NoTemplate, described |-> << >>])
          /\ writer' = [writer EXCEPT !.entity[e] = m]
     ELSE /\ Send([op |-> "construct", entity |-> e, index |-> writer.count + 1,
                   name |-> m, described |-> Described(m)])
          /\ writer' = [index  |-> [writer.index EXCEPT ![m] = writer.count + 1],
                        count  |-> writer.count + 1,
                        synced |-> writer.synced \cup Elements(Parts[m]),
                        entity |-> [writer.entity EXCEPT ![e] = m]]

\* serializeComponentReplication of one component of e
Replicate(e, p) ==
  /\ writer.entity[e] # NoTemplate
  /\ p \in Elements(Parts[writer.entity[e]])
  /\ Send([op |-> "replicate", entity |-> e, part |-> p])
  /\ UNCHANGED writer

Destroy(e) ==
  /\ writer.entity[e] # NoTemplate
  /\ Send([op |-> "destroy", entity |-> e])
  /\ writer' = [writer EXCEPT !.entity[e] = NoTemplate]

-----------------------------------------------------------------------------
(* The reader *)

Receive(op) ==
  /\ fault = "none"
  /\ channel # << >>
  /\ Head(channel).op = op
  /\ channel' = Tail(channel)
  /\ UNCHANGED <<writer, written>>

\* syncReadTemplate reads name and hash of exactly the components it does not
\* know yet, and nothing else of the ones it does.
DescriptionsMatch(block) ==
  \A i \in 1 .. Len(block.described) :
    block.described[i].hashed <=> block.described[i].part \notin reader.synced

\* What deserializeTemplate makes of the index and of what follows it.
TemplateFault(block) ==
  IF block.index <= Len(reader.names)
  THEN IF block.name = NoTemplate THEN "none" ELSE "misread"
  ELSE IF block.index # Len(reader.names) + 1 THEN "not monotonic"
  ELSE IF block.name = NoTemplate \/ ~DescriptionsMatch(block) THEN "misread"
  ELSE "none"

\* A block for an entity that exists is skipped, definitions and all.
SkipConstruct ==
  /\ Receive("construct")
  /\ reader.entity[Head(channel).entity] # NoTemplate
  /\ UNCHANGED <<reader, fault>>

\* Mutant of Learned: the components are stored from the last to the first.
LearnedBackwards(block) ==
  IF block.name = NoTemplate THEN reader
  ELSE [reader EXCEPT
          !.names  = Append(@, block.name),
          !.parts  = Append(@, [i \in 1 .. Len(block.described) |->
                                  block.described[Len(block.described) + 1 - i].part]),
          !.synced = @ \cup {block.described[i].part : i \in 1 .. Len(block.described)}]

Learned(block) ==
  IF block.name = NoTemplate THEN reader
  ELSE [reader EXCEPT
          !.names  = Append(@, block.name),
          !.parts  = Append(@, [i \in 1 .. Len(block.described) |->
                                  block.described[i].part]),
          !.synced = @ \cup {block.described[i].part : i \in 1 .. Len(block.described)}]

ReadConstruct ==
  LET block   == Head(channel)
      learned == Learned(block)
  IN  /\ Receive("construct")
      /\ reader.entity[block.entity] = NoTemplate
      /\ fault' = TemplateFault(block)
      /\ IF fault' = "none"
         THEN reader' = [learned EXCEPT !.entity[block.entity] = learned.names[block.index]]
         ELSE UNCHANGED reader

\* readReplicationPacket and deserializeComponentReplication
ReadReplicate ==
  LET block == Head(channel)
  IN  /\ Receive("replicate")
      /\ fault' = IF reader.entity[block.entity] = NoTemplate THEN "no object"
                  ELSE IF block.part \notin reader.synced THEN "not synced"
                  ELSE "none"
      /\ UNCHANGED reader

\* Mutant of ReadDestroy: the entity stays.
ReadDestroyIgnored ==
  /\ Receive("destroy")
  /\ UNCHANGED <<reader, fault>>

\* readDestructionPacket; an entity that does not exist is reported, no more
ReadDestroy ==
  /\ Receive("destroy")
  /\ reader' = [reader EXCEPT !.entity[Head(channel).entity] = NoTemplate]
  /\ UNCHANGED fault

-----------------------------------------------------------------------------

Next ==
  \/ \E e \in Entity : \/ \E m \in Template : Construct(e, m)
                       \/ \E p \in Component : Replicate(e, p)
                       \/ Destroy(e)
  \/ SkipConstruct \/ ReadConstruct \/ ReadReplicate \/ ReadDestroy

Spec == Init /\ [][Next]_vars

-----------------------------------------------------------------------------
(* Properties *)

Block ==
  [op : {"construct"}, entity : Entity, index : Nat \ {0},
   name : Template \cup {NoTemplate},
   described : Seq([part : Component, hashed : BOOLEAN])]
  \cup [op : {"replicate"}, entity : Entity, part : Component]
  \cup [op : {"destroy"}, entity : Entity]

\* Types of the variables.
TypeOK ==
  /\ writer \in [index : [Template -> Nat], count : Nat, synced : SUBSET Component,
                 entity : [Entity -> Template \cup {NoTemplate}]]
  /\ channel \in Seq(Block)
  /\ written \in 0 .. MaxBlocks
  /\ reader \in [names : Seq(Template), parts : Seq(Seq(Component)),
                 synced : SUBSET Component,
                 entity : [Entity -> Template \cup {NoTemplate}]]
  /\ fault \in {"none", "misread", "not monotonic", "no object", "not synced"}

\* The stream is never lost: every index the reader meets is known or the next
\* one, definitions come exactly where it expects them, and replication only
\* names what was synced (assertions of Connection.cpp:195, 206, 240, 599).
NeverLost == fault = "none"

\* The reader's tables are a prefix of the writer's: same name at the same
\* index, with the same components in the same order.
TablesAgree ==
  \A i \in 1 .. Len(reader.names) :
    /\ writer.index[reader.names[i]] = i
    /\ reader.parts[i] = Parts[reader.names[i]]

\* Once the stream is read, both ends know the same templates, components and
\* entities.
CaughtUp ==
  channel = << >> /\ fault = "none"
    => /\ Len(reader.names) = writer.count
       /\ reader.synced = writer.synced
       /\ reader.entity = writer.entity

\* "We rely on templateId being monotonically increased counter here"
\* (Connection.cpp:206).
TemplateIdsMonotonic == fault # "not monotonic"
=============================================================================
