-------------------------- MODULE TemplateSyncProofs --------------------------
(***************************************************************************)
(* Proofs about TemplateSync, for any templates, components and entities   *)
(* and any number of blocks, as long as a living entity keeps its template.*)
(*                                                                         *)
(* Reader and writer never meet: what the reader is going to know when it  *)
(* comes to a block is what it knows now and what the blocks before that   *)
(* one tell it.  SyncedAt and GoneAt say so for the components and for an  *)
(* entity; reading a block moves every other block one place nearer and    *)
(* changes neither (SyncedAtRead, GoneAtRead).                             *)
(***************************************************************************)
EXTENDS TemplateSync, SequenceTheorems, TLAPS

-----------------------------------------------------------------------------
(* The inductive invariant *)

Unread == 1 .. Len(channel)

Defines(i) == channel[i].op = "construct" /\ channel[i].name # NoTemplate
Refers(i) == channel[i].op = "construct" /\ channel[i].name = NoTemplate

Builds(i, e) == channel[i].op = "construct" /\ channel[i].entity = e
Ends(i, e) == channel[i].op = "destroy" /\ channel[i].entity = e

\* The components known to the reader when it comes to block i.
SyncedAt(i) ==
  reader.synced
  \cup {c \in Component : \E j \in 1 .. i - 1 : Defines(j) /\ c \in Elements(Parts[channel[j].name])}

\* No entity e at the reader when it comes to block i.
GoneAt(i, e) ==
  /\ reader.entity[e] # NoTemplate => \E k \in 1 .. i - 1 : Ends(k, e)
  /\ \A j \in 1 .. i - 1 : Builds(j, e) => \E k \in j + 1 .. i - 1 : Ends(k, e)

\* A template has one index, and so far as the reader knows it, the same at both ends.
Indexed ==
  /\ \A m \in Template : writer.index[m] <= writer.count
  /\ \A m, n \in Template : writer.index[m] = writer.index[n] /\ writer.index[m] # 0 => m = n
  /\ Len(reader.parts) = Len(reader.names)
  /\ Len(reader.names) <= writer.count
  /\ TablesAgree

\* The definitions on their way are those of the indices the reader lacks, in order.
InOrder ==
  /\ \A i \in Unread : Defines(i) =>
       /\ writer.index[channel[i].name] = channel[i].index
       /\ channel[i].index > Len(reader.names)
  /\ \A i, j \in Unread : Defines(i) /\ Defines(j) /\ i < j => channel[i].index < channel[j].index
  /\ \A k \in Len(reader.names) + 1 .. writer.count :
       \E i \in Unread : Defines(i) /\ channel[i].index = k

\* A reference comes after its definition.
Resolved ==
  \A i \in Unread : Refers(i) =>
    \/ channel[i].index <= Len(reader.names)
    \/ \E j \in 1 .. i - 1 : Defines(j) /\ channel[j].index = channel[i].index

\* A definition hashes what the reader does not know by then.
DescribedAt(i) ==
  /\ Len(channel[i].described) = Len(Parts[channel[i].name])
  /\ \A c \in 1 .. Len(channel[i].described) :
       /\ channel[i].described[c].part = Parts[channel[i].name][c]
       /\ channel[i].described[c].hashed <=> Parts[channel[i].name][c] \notin SyncedAt(i)

Synced ==
  /\ \A i \in Unread : Defines(i) => DescribedAt(i)
  /\ writer.synced = SyncedAt(Len(channel) + 1)
  /\ \A m \in Template : writer.index[m] # 0 => Elements(Parts[m]) \subseteq writer.synced

\* A block meets its entity as the writer left it.
Alive ==
  /\ \A e \in Entity : writer.entity[e] = NoTemplate <=> GoneAt(Len(channel) + 1, e)
  /\ \A i \in Unread : Defines(i) => GoneAt(i, channel[i].entity)
  /\ \A i \in Unread : channel[i].op = "replicate" =>
       ~GoneAt(i, channel[i].entity) /\ channel[i].part \in SyncedAt(i)

\* A living entity has one template, at the writer, on the way and at the reader.
SameTemplate ==
  \A e \in Entity : writer.entity[e] # NoTemplate =>
    /\ writer.index[writer.entity[e]] # 0
    /\ reader.entity[e] # NoTemplate /\ (\A k \in Unread : ~Ends(k, e))
         => reader.entity[e] = writer.entity[e]
    /\ \A j \in Unread : Builds(j, e) /\ (\A k \in j + 1 .. Len(channel) : ~Ends(k, e))
         => writer.index[writer.entity[e]] = channel[j].index

IInv ==
  /\ TypeOK
  /\ Indexed
  /\ InOrder
  /\ Resolved
  /\ Synced
  /\ Alive
  /\ SameTemplate
  /\ NeverLost

LEMMA BlocksTyped ==
  ASSUME TypeOK, NEW i \in 1 .. Len(channel)
  PROVE  channel[i] \in Block /\ channel[i].entity \in Entity
<1>1. channel[i] \in Block
  <2>1. channel \in Seq(Block)
    BY DEF TypeOK
  <2>. QED BY <2>1
<1>. QED BY <1>1 DEF Block

-----------------------------------------------------------------------------
(* A block is sent *)

LEMMA SentIs ==
  ASSUME TypeOK, NEW b, channel' = Append(channel, b)
  PROVE  /\ Len(channel) \in Nat
         /\ Len(channel') = Len(channel) + 1
         /\ \A i \in Unread : channel'[i] = channel[i]
         /\ channel'[Len(channel) + 1] = b
<1>1. channel \in Seq(Block)
  BY DEF TypeOK
<1>. QED BY <1>1 DEF Unread

\* What is sent changes nothing for the blocks before it.
LEMMA SyncedAtSent ==
  ASSUME TypeOK, NEW b, channel' = Append(channel, b), UNCHANGED reader,
         NEW i \in 1 .. Len(channel) + 1
  PROVE  SyncedAt(i)' = SyncedAt(i)
<1>1. \A j \in 1 .. i - 1 : channel'[j] = channel[j]
  BY SentIs DEF Unread
<1>. QED BY <1>1 DEF SyncedAt, Defines

LEMMA GoneAtSent ==
  ASSUME TypeOK, NEW b, channel' = Append(channel, b), UNCHANGED reader,
         NEW i \in 1 .. Len(channel) + 1, NEW e \in Entity
  PROVE  GoneAt(i, e)' <=> GoneAt(i, e)
<1>1. \A j \in 1 .. i - 1 : channel'[j] = channel[j]
  BY SentIs DEF Unread
<1>. QED BY <1>1 DEF GoneAt, Builds, Ends

\* After a block, its entity is there or gone as the block says.
LEMMA GoneAfterSent ==
  ASSUME TypeOK, NEW b, channel' = Append(channel, b), UNCHANGED reader, NEW e \in Entity,
         NEW L \in Nat, L = Len(channel)
  PROVE  GoneAt(L + 2, e)' <=>
           \/ b.op = "destroy" /\ b.entity = e
           \/ GoneAt(L + 1, e) /\ ~(b.op = "construct" /\ b.entity = e)
<1>1. channel'[L + 1] = b
  BY SentIs
<1>2. \A j \in 1 .. L : channel'[j] = channel[j]
  BY SentIs DEF Unread
<1>3. \A j \in 1 .. L : (Builds(j, e)' <=> Builds(j, e)) /\ (Ends(j, e)' <=> Ends(j, e))
  BY <1>2 DEF Builds, Ends
<1>4. Builds(L + 1, e)' <=> b.op = "construct" /\ b.entity = e
  BY <1>1 DEF Builds
<1>5. Ends(L + 1, e)' <=> b.op = "destroy" /\ b.entity = e
  BY <1>1 DEF Ends
<1>6. GoneAt(L + 2, e)' <=>
        /\ reader.entity[e] # NoTemplate => \E k \in 1 .. L + 1 : Ends(k, e)'
        /\ \A j \in 1 .. L + 1 : Builds(j, e)' => \E k \in j + 1 .. L + 1 : Ends(k, e)'
  BY DEF GoneAt, Builds, Ends
<1>7. CASE b.op = "destroy" /\ b.entity = e
  <2>1. Ends(L + 1, e)' /\ ~Builds(L + 1, e)'
    BY <1>4, <1>5, <1>7
  <2>2. \A j \in 1 .. L + 1 : Builds(j, e)' => L + 1 \in j + 1 .. L + 1
    <3>. SUFFICES ASSUME NEW j \in 1 .. L + 1, Builds(j, e)' PROVE j <= L
      OBVIOUS
    <3>. QED BY <2>1
  <2>. QED BY <2>1, <2>2, <1>6, <1>7
<1>8. CASE b.op = "construct" /\ b.entity = e
  <2>1. Builds(L + 1, e)' /\ ~\E k \in L + 2 .. L + 1 : Ends(k, e)'
    BY <1>4, <1>8
  <2>. QED BY <2>1, <1>1, <1>6, <1>8
<1>9. CASE ~(b.op = "destroy" /\ b.entity = e) /\ ~(b.op = "construct" /\ b.entity = e)
  <2>1. ~Ends(L + 1, e)' /\ ~Builds(L + 1, e)'
    BY <1>4, <1>5, <1>9
  <2>2. \A j \in 0 .. L : (\E k \in j + 1 .. L + 1 : Ends(k, e)') <=> (\E k \in j + 1 .. L : Ends(k, e))
    BY <2>1, <1>3
  <2>3. (\E k \in 1 .. L + 1 : Ends(k, e)') <=> (\E k \in 1 .. L : Ends(k, e))
    BY <2>2, <1>1
  <2>4. GoneAt(L + 1, e) <=>
          /\ reader.entity[e] # NoTemplate => \E k \in 1 .. L : Ends(k, e)
          /\ \A j \in 1 .. L : Builds(j, e) => \E k \in j + 1 .. L : Ends(k, e)
    BY <1>1 DEF GoneAt
  <2>5. (\A j \in 1 .. L + 1 : Builds(j, e)' => \E k \in j + 1 .. L + 1 : Ends(k, e)')
          <=> (\A j \in 1 .. L : Builds(j, e) => \E k \in j + 1 .. L : Ends(k, e))
    BY <2>1, <2>2, <1>1, <1>3
  <2>. QED BY <2>3, <2>4, <2>5, <1>1, <1>6, <1>9
<1>. QED BY <1>7, <1>8, <1>9

-----------------------------------------------------------------------------
(* A block is read *)

LEMMA ReadIs ==
  ASSUME TypeOK, channel # << >>, channel' = Tail(channel)
  PROVE  /\ Len(channel) \in Nat \ {0}
         /\ Len(channel') = Len(channel) - 1
         /\ \A i \in 1 .. Len(channel) - 1 : channel'[i] = channel[i + 1]
         /\ Head(channel) = channel[1]
<1>1. channel \in Seq(Block)
  BY DEF TypeOK
<1>. QED BY <1>1

\* What block 1 tells of is known to the reader once it is read, and every other
\* block is one place nearer.
LEMMA SyncedAtRead ==
  ASSUME TypeOK, channel # << >>, channel' = Tail(channel),
         reader'.synced = SyncedAt(2),
         NEW i \in 1 .. Len(channel)
  PROVE  SyncedAt(i)' = SyncedAt(i + 1)
<1>1. \A j \in 1 .. i - 1 : channel'[j] = channel[j + 1]
  BY ReadIs
<1>2. \A j \in 1 .. i - 1 : Defines(j)' <=> Defines(j + 1)
  BY <1>1 DEF Defines
<1>3. ASSUME NEW c \in Component
      PROVE  (\E j \in 1 .. i - 1 : Defines(j)' /\ c \in Elements(Parts[channel'[j].name]))
             <=> (\E j \in 2 .. i : Defines(j) /\ c \in Elements(Parts[channel[j].name]))
  <2>1. \A j \in 1 .. i - 1 : (Defines(j)' /\ c \in Elements(Parts[channel'[j].name]))
          <=> (Defines(j + 1) /\ c \in Elements(Parts[channel[j + 1].name]))
    BY <1>1, <1>2
  <2>2. \A j \in 2 .. i : j - 1 \in 1 .. i - 1 /\ (j - 1) + 1 = j
    OBVIOUS
  <2>3. \A j \in 1 .. i - 1 : j + 1 \in 2 .. i
    OBVIOUS
  <2>. QED BY <2>1, <2>2, <2>3
<1>4. SyncedAt(i)' = reader'.synced \cup
        {c \in Component : \E j \in 1 .. i - 1 : Defines(j)' /\ c \in Elements(Parts[channel'[j].name])}
  BY DEF SyncedAt, Elements, Defines
<1>5. SyncedAt(2) = reader.synced \cup
        {c \in Component : \E j \in 1 .. 1 : Defines(j) /\ c \in Elements(Parts[channel[j].name])}
  BY DEF SyncedAt
<1>6. SyncedAt(i + 1) = reader.synced \cup
        {c \in Component : \E j \in 1 .. i : Defines(j) /\ c \in Elements(Parts[channel[j].name])}
  BY DEF SyncedAt
<1>. HIDE DEF SyncedAt
<1>7. \A c \in Component :
        (\E j \in 1 .. i : Defines(j) /\ c \in Elements(Parts[channel[j].name])) <=>
          \/ \E j \in 1 .. 1 : Defines(j) /\ c \in Elements(Parts[channel[j].name])
          \/ \E j \in 2 .. i : Defines(j) /\ c \in Elements(Parts[channel[j].name])
  OBVIOUS
<1>. QED BY <1>3, <1>4, <1>5, <1>6, <1>7

LEMMA GoneAtRead ==
  ASSUME TypeOK, channel # << >>, channel' = Tail(channel),
         NEW e \in Entity,
         reader'.entity[e] = NoTemplate <=>
           ~Builds(1, e) /\ (Ends(1, e) \/ reader.entity[e] = NoTemplate),
         NEW i \in 1 .. Len(channel)
  PROVE  GoneAt(i, e)' <=> GoneAt(i + 1, e)
<1>1. \A j \in 1 .. i - 1 : (Builds(j, e)' <=> Builds(j + 1, e)) /\ (Ends(j, e)' <=> Ends(j + 1, e))
  BY ReadIs DEF Builds, Ends
<1>2. i \in Nat \ {0}
  BY ReadIs
<1>3. \A j \in 0 .. i - 1 : (\E k \in j + 1 .. i - 1 : Ends(k, e)')
        <=> (\E k \in j + 2 .. i : Ends(k, e))
  <2>. TAKE j \in 0 .. i - 1
  <2>1. \A k \in j + 1 .. i - 1 : k \in 1 .. i - 1 /\ k + 1 \in j + 2 .. i
    BY <1>2
  <2>2. \A k \in j + 2 .. i : k - 1 \in j + 1 .. i - 1 /\ k - 1 \in 1 .. i - 1 /\ (k - 1) + 1 = k
    BY <1>2
  <2>3. ASSUME NEW k \in j + 1 .. i - 1, Ends(k, e)' PROVE \E l \in j + 2 .. i : Ends(l, e)
    BY <2>1, <2>3, <1>1
  <2>4. ASSUME NEW k \in j + 2 .. i, Ends(k, e) PROVE \E l \in j + 1 .. i - 1 : Ends(l, e)'
    <3>1. Ends(k - 1, e)'
      BY <2>2, <2>4, <1>1
    <3>. QED BY <3>1, <2>2
  <2>. QED BY <2>3, <2>4
<1>4. GoneAt(i, e)' <=>
        /\ reader'.entity[e] # NoTemplate => \E k \in 1 .. i - 1 : Ends(k, e)'
        /\ \A j \in 1 .. i - 1 : Builds(j, e)' => \E k \in j + 1 .. i - 1 : Ends(k, e)'
  BY DEF GoneAt, Builds, Ends
<1>5. GoneAt(i + 1, e) <=>
        /\ reader.entity[e] # NoTemplate => \E k \in 1 .. i : Ends(k, e)
        /\ \A j \in 1 .. i : Builds(j, e) => \E k \in j + 1 .. i : Ends(k, e)
  BY <1>2 DEF GoneAt
<1>6. (\A j \in 1 .. i - 1 : Builds(j, e)' => \E k \in j + 1 .. i - 1 : Ends(k, e)')
        <=> (\A j \in 2 .. i : Builds(j, e) => \E k \in j + 1 .. i : Ends(k, e))
  <2>1. \A j \in 1 .. i - 1 : (Builds(j, e)' <=> Builds(j + 1, e))
          /\ ((\E k \in j + 1 .. i - 1 : Ends(k, e)') <=> (\E k \in (j + 1) + 1 .. i : Ends(k, e)))
    <3>. TAKE j \in 1 .. i - 1
    <3>1. (j + 1) + 1 = j + 2 /\ j \in 0 .. i - 1
      BY <1>2
    <3>. QED BY <3>1, <1>1, <1>3
  <2>2. \A j \in 2 .. i : j - 1 \in 1 .. i - 1 /\ (j - 1) + 1 = j
    BY <1>2
  <2>3. \A j \in 1 .. i - 1 : j + 1 \in 2 .. i
    BY <1>2
  <2>. QED BY <2>1, <2>2, <2>3
<1>7. (\E k \in 1 .. i - 1 : Ends(k, e)') <=> (\E k \in 2 .. i : Ends(k, e))
  <2>1. 0 \in 0 .. i - 1 /\ 0 + 1 = 1 /\ 0 + 2 = 2
    BY <1>2
  <2>. QED BY <2>1, <1>3
<1>8. (\E k \in 1 .. i : Ends(k, e)) <=> Ends(1, e) \/ \E k \in 2 .. i : Ends(k, e)
  BY <1>2
<1>9. (\A j \in 1 .. i : Builds(j, e) => \E k \in j + 1 .. i : Ends(k, e)) <=>
        /\ Builds(1, e) => \E k \in 2 .. i : Ends(k, e)
        /\ \A j \in 2 .. i : Builds(j, e) => \E k \in j + 1 .. i : Ends(k, e)
  BY <1>2
<1>10. ~(Builds(1, e) /\ Ends(1, e))
  BY DEF Builds, Ends
<1>. QED BY <1>4, <1>5, <1>6, <1>7, <1>8, <1>9, <1>10

-----------------------------------------------------------------------------
(* Steps of the writer *)

PartsTyped == \A m \in Template : Parts[m] \in Seq(Component)

LEMMA PartsAre == PartsTyped
BY SyncAssumption DEF PartsTyped

LEMMA Kept ==
  ASSUME TypeOK, NEW b, channel' = Append(channel, b), NEW L \in Nat, L = Len(channel)
  PROVE  /\ Len(channel') = L + 1 /\ Unread = 1 .. L /\ Unread' = 1 .. L + 1
         /\ \A i \in 1 .. L : /\ channel'[i] = channel[i]
                              /\ Defines(i)' <=> Defines(i)
                              /\ Refers(i)' <=> Refers(i)
         /\ channel'[L + 1] = b
         /\ Defines(L + 1)' <=> b.op = "construct" /\ b.name # NoTemplate
         /\ Refers(L + 1)' <=> b.op = "construct" /\ b.name = NoTemplate
<1>1. /\ Len(channel') = L + 1
      /\ \A i \in 1 .. L : channel'[i] = channel[i]
      /\ channel'[L + 1] = b
  BY SentIs DEF Unread
<1>2. Unread = 1 .. L /\ Unread' = 1 .. L + 1
  BY <1>1 DEF Unread
<1>3. \A i \in 1 .. L : (Defines(i)' <=> Defines(i)) /\ (Refers(i)' <=> Refers(i))
  BY <1>1 DEF Defines, Refers
<1>4. /\ Defines(L + 1)' <=> b.op = "construct" /\ b.name # NoTemplate
      /\ Refers(L + 1)' <=> b.op = "construct" /\ b.name = NoTemplate
  BY <1>1 DEF Defines, Refers
<1>. QED BY <1>1, <1>2, <1>3, <1>4

\* A block that defines nothing.
LEMMA NoDefinitionSent ==
  ASSUME IInv, NEW b, channel' = Append(channel, b), UNCHANGED reader,
         ~(b.op = "construct" /\ b.name # NoTemplate),
         writer'.index = writer.index, writer'.count = writer.count,
         writer'.synced = writer.synced
  PROVE  Indexed' /\ InOrder' /\ Synced'
<1>0. TypeOK
  BY DEF IInv
<1>1. PICK L \in Nat : L = Len(channel)
  BY <1>0, SentIs
<1>2. /\ Len(channel') = L + 1 /\ Unread = 1 .. L /\ Unread' = 1 .. L + 1
      /\ \A i \in 1 .. L : channel'[i] = channel[i] /\ (Defines(i)' <=> Defines(i))
      /\ ~Defines(L + 1)'
  BY <1>0, <1>1, Kept
<1>3. \A i \in 1 .. L + 1 : Defines(i)' => i \in 1 .. L /\ Defines(i) /\ channel'[i] = channel[i]
  <2>. SUFFICES ASSUME NEW i \in 1 .. L + 1, Defines(i)' PROVE i # L + 1
    BY <1>2
  <2>. QED BY <1>2
<1>4. Indexed'
  BY DEF IInv, Indexed, TablesAgree
<1>5. InOrder'
  <2>1. \A i \in Unread' : Defines(i)' =>
          /\ writer'.index[channel'[i].name] = channel'[i].index
          /\ channel'[i].index > Len(reader'.names)
    BY <1>2, <1>3 DEF IInv, InOrder
  <2>2. \A i, j \in Unread' : Defines(i)' /\ Defines(j)' /\ i < j
          => channel'[i].index < channel'[j].index
    BY <1>2, <1>3 DEF IInv, InOrder
  <2>3. \A k \in Len(reader'.names) + 1 .. writer'.count :
          \E i \in Unread' : Defines(i)' /\ channel'[i].index = k
    <3>. SUFFICES ASSUME NEW k \in Len(reader.names) + 1 .. writer.count
                  PROVE  \E i \in Unread' : Defines(i)' /\ channel'[i].index = k
      OBVIOUS
    <3>1. PICK i \in Unread : Defines(i) /\ channel[i].index = k
      BY DEF IInv, InOrder
    <3>. QED BY <3>1, <1>2
  <2>. QED BY <2>1, <2>2, <2>3 DEF InOrder, Defines
<1>6. Synced'
  <2>1. \A i \in 1 .. L + 1 : SyncedAt(i)' = SyncedAt(i)
    BY <1>0, <1>1, SyncedAtSent
  <2>2. SyncedAt(L + 2)' = SyncedAt(L + 1)
    <3>1. \A c \in Component :
            (\E j \in 1 .. L + 1 : Defines(j)' /\ c \in Elements(Parts[channel'[j].name]))
            <=> (\E j \in 1 .. L : Defines(j) /\ c \in Elements(Parts[channel[j].name]))
      BY <1>2, <1>3
    <3>2. SyncedAt(L + 2)' = reader.synced \cup {c \in Component :
            \E j \in 1 .. L + 1 : Defines(j)' /\ c \in Elements(Parts[channel'[j].name])}
      <4>1. (L + 2) - 1 = L + 1 /\ reader' = reader
        OBVIOUS
      <4>. QED BY <4>1 DEF SyncedAt
    <3>3. SyncedAt(L + 1) = reader.synced \cup {c \in Component :
            \E j \in 1 .. L : Defines(j) /\ c \in Elements(Parts[channel[j].name])}
      BY DEF SyncedAt
    <3>. QED BY <3>1, <3>2, <3>3
  <2>3. \A i \in Unread' : Defines(i)' => DescribedAt(i)'
    <3>. SUFFICES ASSUME NEW i \in 1 .. L, Defines(i) PROVE DescribedAt(i)'
      BY <1>2, <1>3
    <3>1. DescribedAt(i) /\ channel'[i] = channel[i] /\ SyncedAt(i)' = SyncedAt(i)
      BY <1>2, <2>1 DEF IInv, Synced
    <3>. QED BY <3>1 DEF DescribedAt
  <2>4. writer.synced = SyncedAt(L + 1)
    BY <1>1 DEF IInv, Synced
  <2>5. writer'.synced = SyncedAt(L + 2)'
    BY <2>2, <2>4
  <2>6. \A m \in Template : writer'.index[m] # 0 => Elements(Parts[m]) \subseteq writer'.synced
    BY DEF IInv, Synced
  <2>7. writer'.synced = SyncedAt(Len(channel) + 1)'
    <3>1. SyncedAt(Len(channel) + 1)' = SyncedAt(L + 2)'
      BY <1>2 DEF SyncedAt
    <3>. QED BY <2>5, <3>1
  <2>. QED BY <2>3, <2>6, <2>7 DEF Synced, Elements
<1>. QED BY <1>4, <1>5, <1>6

\* Blocks already sent stay as they are, whatever follows them.
LEMMA AliveKept ==
  ASSUME IInv, NEW b, channel' = Append(channel, b), UNCHANGED reader,
         NEW L \in Nat, L = Len(channel), NEW i \in 1 .. L
  PROVE  /\ Defines(i)' => GoneAt(i, channel[i].entity)'
         /\ channel'[i].op = "replicate" =>
              ~GoneAt(i, channel[i].entity)' /\ channel'[i].part \in SyncedAt(i)'
<1>0. TypeOK /\ i \in Unread
  BY DEF IInv, Unread
<1>1. channel'[i] = channel[i] /\ (Defines(i)' <=> Defines(i))
  BY <1>0, Kept
<1>2. channel[i].entity \in Entity
  BY <1>0, BlocksTyped DEF Unread
<1>3. GoneAt(i, channel[i].entity)' <=> GoneAt(i, channel[i].entity)
  <2>. SUFFICES ASSUME NEW e \in Entity, e = channel[i].entity
                PROVE  GoneAt(i, channel[i].entity)' <=> GoneAt(i, e)
    BY <1>2
  <2>1. GoneAt(i, e)' <=> GoneAt(i, e)
    BY <1>0, GoneAtSent DEF Unread
  <2>2. GoneAt(i, channel[i].entity)' <=> GoneAt(i, e)'
    BY <1>1 DEF GoneAt, Builds, Ends
  <2>. QED BY <2>1, <2>2
<1>4. SyncedAt(i)' = SyncedAt(i)
  BY <1>0, SyncedAtSent DEF Unread
<1>. QED BY <1>0, <1>1, <1>3, <1>4 DEF IInv, Alive

LEMMA ResolvedSent ==
  ASSUME IInv, NEW b, channel' = Append(channel, b), UNCHANGED reader,
         b.op = "construct" /\ b.name = NoTemplate =>
           \/ b.index <= Len(reader.names)
           \/ \E j \in Unread : Defines(j) /\ channel[j].index = b.index
  PROVE  Resolved'
<1>0. TypeOK
  BY DEF IInv
<1>1. PICK L \in Nat : L = Len(channel)
  BY <1>0, SentIs
<1>2. /\ Unread = 1 .. L /\ Unread' = 1 .. L + 1 /\ channel'[L + 1] = b
      /\ \A i \in 1 .. L : /\ channel'[i] = channel[i]
                           /\ Defines(i)' <=> Defines(i)
                           /\ Refers(i)' <=> Refers(i)
      /\ Refers(L + 1)' <=> b.op = "construct" /\ b.name = NoTemplate
  BY <1>0, <1>1, Kept
<1>. SUFFICES ASSUME NEW i \in 1 .. L + 1, Refers(i)'
              PROVE  \/ channel'[i].index <= Len(reader.names)
                     \/ \E j \in 1 .. i - 1 : Defines(j)' /\ channel'[j].index = channel'[i].index
  BY <1>2 DEF Resolved, Refers, Defines
<1>3. CASE i = L + 1
  BY <1>1, <1>2, <1>3
<1>4. CASE i \in 1 .. L
  <2>1. \/ channel[i].index <= Len(reader.names)
        \/ \E j \in 1 .. i - 1 : Defines(j) /\ channel[j].index = channel[i].index
    BY <1>2, <1>4 DEF IInv, Resolved
  <2>. QED BY <1>1, <2>1, <1>2, <1>4
<1>. QED BY <1>1, <1>3, <1>4

\* The block says of its entity what the writer's table says.
LEMMA AliveSent ==
  ASSUME IInv, NEW b \in Block, channel' = Append(channel, b), UNCHANGED reader,
         \A e \in Entity : writer'.entity[e] = NoTemplate <=>
           \/ b.op = "destroy" /\ b.entity = e
           \/ writer.entity[e] = NoTemplate /\ ~(b.op = "construct" /\ b.entity = e),
         b.op = "construct" /\ b.name # NoTemplate => writer.entity[b.entity] = NoTemplate,
         b.op = "replicate" => writer.entity[b.entity] # NoTemplate /\ b.part \in writer.synced
  PROVE  Alive'
<1>0. TypeOK /\ b.entity \in Entity
  BY DEF IInv, Block
<1>1. PICK L \in Nat : L = Len(channel)
  BY <1>0, SentIs
<1>2. /\ Len(channel') = L + 1 /\ Unread = 1 .. L /\ Unread' = 1 .. L + 1 /\ channel'[L + 1] = b
      /\ Defines(L + 1)' <=> b.op = "construct" /\ b.name # NoTemplate
  BY <1>0, <1>1, Kept
<1>3. \A e \in Entity : writer'.entity[e] = NoTemplate <=> GoneAt(Len(channel) + 1, e)'
  <2>. SUFFICES ASSUME NEW e \in Entity
                PROVE  writer'.entity[e] = NoTemplate <=> GoneAt(Len(channel) + 1, e)'
    OBVIOUS
  <2>1. GoneAt(L + 2, e)' <=>
           \/ b.op = "destroy" /\ b.entity = e
           \/ GoneAt(L + 1, e) /\ ~(b.op = "construct" /\ b.entity = e)
    BY <1>0, <1>1, GoneAfterSent
  <2>2. writer.entity[e] = NoTemplate <=> GoneAt(L + 1, e)
    BY <1>1 DEF IInv, Alive
  <2>3. GoneAt(Len(channel) + 1, e)' <=> GoneAt(L + 2, e)'
    <3>1. (Len(channel') + 1) - 1 = (L + 2) - 1
      BY <1>2
    <3>. QED BY <3>1 DEF GoneAt
  <2>. QED BY <2>1, <2>2, <2>3
<1>4. \A e \in Entity : GoneAt(L + 1, e)' <=> writer.entity[e] = NoTemplate
  BY <1>0, <1>1, GoneAtSent DEF IInv, Alive
<1>5. SyncedAt(L + 1)' = writer.synced
  BY <1>0, <1>1, SyncedAtSent DEF IInv, Synced
<1>6. GoneAt(L + 1, channel[L + 1].entity)' <=> GoneAt(L + 1, b.entity)'
  BY <1>2 DEF GoneAt, Builds, Ends
<1>7. ASSUME NEW i \in 1 .. L + 1
      PROVE  /\ Defines(i)' => GoneAt(i, channel[i].entity)'
             /\ channel'[i].op = "replicate" =>
                  ~GoneAt(i, channel[i].entity)' /\ channel'[i].part \in SyncedAt(i)'
  <2>1. CASE i = L + 1
    BY <2>1, <1>0, <1>2, <1>4, <1>5, <1>6
  <2>2. CASE i \in 1 .. L
    BY <2>2, <1>1, AliveKept
  <2>. QED BY <1>1, <2>1, <2>2
<1>. QED BY <1>2, <1>3, <1>7 DEF Alive, Defines

\* The block gives its entity the template the writer has for it.
LEMMA SameTemplateSent ==
  ASSUME IInv, NEW b \in Block, channel' = Append(channel, b), UNCHANGED reader,
         \A e \in Entity : writer'.entity[e] # NoTemplate =>
           /\ writer'.index[writer'.entity[e]] # 0
           /\ IF b.op = "construct" /\ b.entity = e
              THEN /\ writer'.index[writer'.entity[e]] = b.index
                   /\ writer.entity[e] \in {NoTemplate, writer'.entity[e]}
              ELSE writer'.entity[e] = writer.entity[e],
         \A m \in Template : writer.index[m] # 0 => writer'.index[m] = writer.index[m]
  PROVE  SameTemplate'
<1>0. TypeOK
  BY DEF IInv
<1>1. PICK L \in Nat : L = Len(channel)
  BY <1>0, SentIs
<1>2. /\ Len(channel') = L + 1 /\ Unread = 1 .. L /\ Unread' = 1 .. L + 1 /\ channel'[L + 1] = b
      /\ \A i \in 1 .. L : channel'[i] = channel[i]
  BY <1>0, <1>1, Kept
<1>. SUFFICES ASSUME NEW e \in Entity, writer'.entity[e] # NoTemplate
              PROVE  /\ reader.entity[e] # NoTemplate /\ (\A k \in 1 .. L + 1 : ~Ends(k, e)')
                          => reader.entity[e] = writer'.entity[e]
                     /\ \A j \in 1 .. L + 1 :
                          Builds(j, e)' /\ (\A k \in j + 1 .. L + 1 : ~Ends(k, e)')
                            => writer'.index[writer'.entity[e]] = channel'[j].index
  BY <1>2 DEF SameTemplate, Ends, Builds
<1>3. \A j \in 1 .. L : (Builds(j, e)' <=> Builds(j, e)) /\ (Ends(j, e)' <=> Ends(j, e))
  BY <1>2 DEF Builds, Ends
<1>4. writer.entity[e] = NoTemplate =>
        /\ reader.entity[e] # NoTemplate => \E k \in 1 .. L : Ends(k, e)
        /\ \A j \in 1 .. L : Builds(j, e) => \E k \in j + 1 .. L : Ends(k, e)
  <2>1. writer.entity[e] = NoTemplate => GoneAt(L + 1, e)
    BY <1>1 DEF IInv, Alive
  <2>2. (L + 1) - 1 = L
    OBVIOUS
  <2>. QED BY <2>1, <2>2 DEF GoneAt
<1>5. writer.entity[e] # NoTemplate =>
        /\ writer.entity[e] = writer'.entity[e]
        /\ writer'.index[writer'.entity[e]] = writer.index[writer.entity[e]]
  <2>1. writer.entity[e] \in Template \cup {NoTemplate}
    BY <1>0 DEF TypeOK
  <2>2. writer.entity[e] # NoTemplate => writer.index[writer.entity[e]] # 0
    BY DEF IInv, SameTemplate
  <2>. QED BY <2>1, <2>2
<1>6. writer.entity[e] # NoTemplate =>
        /\ reader.entity[e] # NoTemplate /\ (\A k \in 1 .. L : ~Ends(k, e))
             => reader.entity[e] = writer.entity[e]
        /\ \A j \in 1 .. L : Builds(j, e) /\ (\A k \in j + 1 .. L : ~Ends(k, e))
             => writer.index[writer.entity[e]] = channel[j].index
  BY <1>1, <1>2 DEF IInv, SameTemplate
<1>7. reader.entity[e] # NoTemplate /\ (\A k \in 1 .. L + 1 : ~Ends(k, e)')
        => reader.entity[e] = writer'.entity[e]
  BY <1>3, <1>4, <1>5, <1>6
<1>8. ASSUME NEW j \in 1 .. L + 1, Builds(j, e)', \A k \in j + 1 .. L + 1 : ~Ends(k, e)'
      PROVE  writer'.index[writer'.entity[e]] = channel'[j].index
  <2>1. CASE j = L + 1
    <3>1. b.op = "construct" /\ b.entity = e
      BY <1>2, <1>8, <2>1 DEF Builds
    <3>. QED BY <3>1, <1>2, <2>1
  <2>2. CASE j \in 1 .. L
    <3>1. Builds(j, e) /\ \A k \in j + 1 .. L : ~Ends(k, e)
      BY <1>3, <1>8, <2>2
    <3>. QED BY <3>1, <1>2, <1>4, <1>5, <1>6, <2>2
  <2>. QED BY <1>1, <2>1, <2>2
<1>. QED BY <1>7, <1>8

WriterType == [index : [Template -> Nat], count : Nat, synced : SUBSET Component,
               entity : [Entity -> Template \cup {NoTemplate}]]

LEMMA SentTyped ==
  ASSUME TypeOK, NEW b \in Block, Send(b), writer' \in WriterType
  PROVE  TypeOK'
<1>1. channel' \in Seq(Block)
  <2>1. channel \in Seq(Block)
    BY DEF TypeOK
  <2>. QED BY <2>1 DEF Send
<1>2. written' \in 0 .. MaxBlocks
  <2>1. written \in 0 .. MaxBlocks /\ MaxBlocks \in Nat
    BY SyncAssumption DEF TypeOK
  <2>2. written < MaxBlocks /\ written' = written + 1
    BY DEF Send
  <2>. QED BY <2>1, <2>2
<1>3. reader' = reader /\ fault' = fault
  BY DEF Send
<1>. QED BY <1>1, <1>2, <1>3 DEF TypeOK, WriterType, Block

LEMMA ReplicateKeeps ==
  ASSUME IInv, NEW e \in Entity, NEW p \in Component, Replicate(e, p)
  PROVE  IInv'
<1> DEFINE b == [op |-> "replicate", entity |-> e, part |-> p]
<1>1. b \in Block /\ b.op = "replicate" /\ b.entity = e /\ b.part = p
  BY DEF Block
<1>2. Send(b) /\ channel' = Append(channel, b) /\ UNCHANGED <<reader, fault>> /\ writer' = writer
  BY DEF Replicate, Send
<1>3. writer.entity[e] # NoTemplate /\ p \in writer.synced
  <2>1. writer.entity[e] \in Template
    BY DEF Replicate, IInv, TypeOK
  <2>2. writer.index[writer.entity[e]] # 0
    BY <2>1, SyncAssumption DEF IInv, SameTemplate
  <2>. QED BY <2>1, <2>2, SyncAssumption DEF Replicate, IInv, Synced
<1>. HIDE DEF b
<1>4. TypeOK'
  <2>1. writer \in WriterType
    BY DEF IInv, TypeOK, WriterType
  <2>. QED BY <2>1, <1>1, <1>2, SentTyped DEF IInv
<1>5. Indexed' /\ InOrder' /\ Synced'
  BY <1>1, <1>2, NoDefinitionSent
<1>6. Resolved'
  BY <1>1, <1>2, ResolvedSent
<1>7. Alive'
  BY <1>1, <1>2, <1>3, AliveSent
<1>8. SameTemplate'
  <2>1. \A f \in Entity : writer.entity[f] # NoTemplate => writer.index[writer.entity[f]] # 0
    BY DEF IInv, SameTemplate
  <2>. QED BY <2>1, <1>1, <1>2, SameTemplateSent
<1>9. NeverLost'
  BY <1>2 DEF IInv, NeverLost
<1>. QED BY <1>4, <1>5, <1>6, <1>7, <1>8, <1>9 DEF IInv

LEMMA DestroyKeeps ==
  ASSUME IInv, NEW e \in Entity, Destroy(e)
  PROVE  IInv'
<1> DEFINE b == [op |-> "destroy", entity |-> e]
<1>1. b \in Block /\ b.op = "destroy" /\ b.entity = e
  BY DEF Block
<1>2. Send(b) /\ channel' = Append(channel, b) /\ UNCHANGED <<reader, fault>>
  BY DEF Destroy, Send
<1>3. /\ writer \in WriterType /\ writer' \in WriterType
      /\ writer'.index = writer.index /\ writer'.count = writer.count
      /\ writer'.synced = writer.synced
      /\ \A f \in Entity : writer'.entity[f] = IF f = e THEN NoTemplate ELSE writer.entity[f]
  <2>1. writer \in WriterType
    BY DEF IInv, TypeOK, WriterType
  <2>2. writer' = [writer EXCEPT !.entity[e] = NoTemplate]
    BY DEF Destroy
  <2>. QED BY <2>1, <2>2 DEF WriterType
<1>. HIDE DEF b
<1>4. TypeOK'
  BY <1>1, <1>2, <1>3, SentTyped DEF IInv
<1>5. Indexed' /\ InOrder' /\ Synced'
  BY <1>1, <1>2, <1>3, NoDefinitionSent
<1>6. Resolved'
  BY <1>1, <1>2, ResolvedSent
<1>7. Alive'
  BY <1>1, <1>2, <1>3, AliveSent
<1>8. SameTemplate'
  <2>1. \A f \in Entity : writer.entity[f] # NoTemplate => writer.index[writer.entity[f]] # 0
    BY DEF IInv, SameTemplate
  <2>. QED BY <2>1, <1>1, <1>2, <1>3, SameTemplateSent
<1>9. NeverLost'
  BY <1>2 DEF IInv, NeverLost
<1>. QED BY <1>4, <1>5, <1>6, <1>7, <1>8, <1>9 DEF IInv

LEMMA ReferenceKeeps ==
  ASSUME IInv, NEW e \in Entity, NEW m \in Template, Construct(e, m), ~Retemplates,
         writer.index[m] # 0
  PROVE  IInv'
<1> DEFINE b == [op |-> "construct", entity |-> e, index |-> writer.index[m],
                 name |-> NoTemplate, described |-> << >>]
<1>0. writer \in WriterType /\ writer.entity[e] \in {NoTemplate, m}
  BY DEF IInv, TypeOK, WriterType, Construct
<1>1. /\ b \in Block /\ b.op = "construct" /\ b.entity = e /\ b.name = NoTemplate
      /\ b.index = writer.index[m]
  <2>1. << >> \in Seq([part : Component, hashed : BOOLEAN]) /\ writer.index[m] \in Nat \ {0}
    BY <1>0 DEF WriterType
  <2>. QED BY <2>1 DEF Block
<1>2. Send(b) /\ channel' = Append(channel, b) /\ UNCHANGED <<reader, fault>>
  BY DEF Construct, Send
<1>3. /\ writer' \in WriterType
      /\ writer'.index = writer.index /\ writer'.count = writer.count
      /\ writer'.synced = writer.synced
      /\ \A f \in Entity : writer'.entity[f] = IF f = e THEN m ELSE writer.entity[f]
  <2>1. writer' = [writer EXCEPT !.entity[e] = m]
    BY DEF Construct
  <2>. QED BY <2>1, <1>0 DEF WriterType
<1>. HIDE DEF b
<1>4. TypeOK'
  BY <1>1, <1>2, <1>3, SentTyped DEF IInv
<1>5. Indexed' /\ InOrder' /\ Synced'
  BY <1>1, <1>2, <1>3, NoDefinitionSent
<1>6. Resolved'
  <2>1. writer.index[m] \in Nat /\ writer.index[m] <= writer.count /\ Len(reader.names) \in Nat
        /\ writer.count \in Nat
    <3>1. writer.index[m] \in Nat /\ writer.count \in Nat
      BY <1>0 DEF WriterType
    <3>2. reader.names \in Seq(Template)
      BY DEF IInv, TypeOK
    <3>3. writer.index[m] <= writer.count
      BY DEF IInv, Indexed
    <3>. QED BY <3>1, <3>2, <3>3
  <2>2. writer.index[m] <= Len(reader.names)
        \/ writer.index[m] \in Len(reader.names) + 1 .. writer.count
    BY <2>1
  <2>3. \A k \in Len(reader.names) + 1 .. writer.count :
          \E j \in Unread : Defines(j) /\ channel[j].index = k
    BY DEF IInv, InOrder
  <2>. QED BY <2>2, <2>3, <1>1, <1>2, ResolvedSent
<1>7. Alive'
  BY <1>0, <1>1, <1>2, <1>3, SyncAssumption, AliveSent
<1>8. SameTemplate'
  <2>1. \A f \in Entity : writer.entity[f] # NoTemplate => writer.index[writer.entity[f]] # 0
    BY DEF IInv, SameTemplate
  <2>. QED BY <2>1, <1>0, <1>1, <1>2, <1>3, SameTemplateSent
<1>9. NeverLost'
  BY <1>2 DEF IInv, NeverLost
<1>. QED BY <1>4, <1>5, <1>6, <1>7, <1>8, <1>9 DEF IInv

LEMMA DefinitionKeeps ==
  ASSUME IInv, NEW e \in Entity, NEW m \in Template, Construct(e, m), ~Retemplates,
         writer.index[m] = 0
  PROVE  IInv'
<1> DEFINE n == writer.count + 1
           b == [op |-> "construct", entity |-> e, index |-> n,
                 name |-> m, described |-> Described(m)]
<1>0. /\ TypeOK /\ writer \in WriterType /\ n \in Nat \ {0}
      /\ m # NoTemplate /\ Parts[m] \in Seq(Component)
      /\ reader.names \in Seq(Template)
  <2>1. TypeOK /\ writer \in WriterType /\ reader.names \in Seq(Template)
    BY DEF IInv, TypeOK, WriterType
  <2>2. writer.count \in Nat
    BY <2>1 DEF WriterType
  <2>. QED BY <2>1, <2>2, SyncAssumption
<1>1. /\ b \in Block /\ b.op = "construct" /\ b.entity = e /\ b.name = m
      /\ b.index = n /\ b.described = Described(m)
  <2>1. Described(m) \in Seq([part : Component, hashed : BOOLEAN])
    <3>1. Len(Parts[m]) \in Nat /\ \A i \in 1 .. Len(Parts[m]) : Parts[m][i] \in Component
      BY <1>0
    <3>. QED BY <3>1 DEF Described
  <2>. QED BY <2>1, <1>0 DEF Block
<1>2. Send(b) /\ channel' = Append(channel, b) /\ UNCHANGED <<reader, fault>>
  BY DEF Construct, Send
<1>3. /\ writer' \in WriterType
      /\ \A k \in Template : writer'.index[k] = IF k = m THEN n ELSE writer.index[k]
      /\ writer'.count = n
      /\ writer'.synced = writer.synced \cup Elements(Parts[m])
      /\ \A f \in Entity : writer'.entity[f] = IF f = e THEN m ELSE writer.entity[f]
  <2>1. writer' = [index  |-> [writer.index EXCEPT ![m] = n],
                   count  |-> n,
                   synced |-> writer.synced \cup Elements(Parts[m]),
                   entity |-> [writer.entity EXCEPT ![e] = m]]
    BY DEF Construct
  <2>2. Elements(Parts[m]) \subseteq Component
    BY <1>0 DEF Elements
  <2>. QED BY <2>1, <2>2, <1>0 DEF WriterType
<1>4. writer.entity[e] = NoTemplate
  <2>1. writer.entity[e] \in {NoTemplate, m}
    BY DEF Construct
  <2>2. writer.entity[e] # NoTemplate => writer.index[writer.entity[e]] # 0
    BY DEF IInv, SameTemplate
  <2>. QED BY <2>1, <2>2
<1>5. PICK L \in Nat : L = Len(channel)
  BY <1>0, SentIs
<1>6. /\ Len(channel') = L + 1 /\ Unread = 1 .. L /\ Unread' = 1 .. L + 1 /\ channel'[L + 1] = b
      /\ \A i \in 1 .. L : channel'[i] = channel[i] /\ (Defines(i)' <=> Defines(i))
      /\ Defines(L + 1)'
  BY <1>0, <1>1, <1>2, <1>5, Kept
<1>7. \A i \in 1 .. L : Defines(i) =>
        /\ channel[i].name \in Template \ {m}
        /\ channel[i].index \in Nat
        /\ channel[i].index <= writer.count
  <2>. SUFFICES ASSUME NEW i \in 1 .. L, Defines(i)
                PROVE  /\ channel[i].name \in Template \ {m}
                       /\ channel[i].index \in Nat
                       /\ channel[i].index <= writer.count
    OBVIOUS
  <2>1. channel[i] \in Block
    BY <1>0, <1>5, BlocksTyped
  <2>2. channel[i].name \in Template /\ channel[i].index \in Nat \ {0}
    BY <2>1 DEF Defines, Block
  <2>3. writer.index[channel[i].name] = channel[i].index
    BY <1>6 DEF IInv, InOrder
  <2>4. writer.index[channel[i].name] <= writer.count
    BY <2>2 DEF IInv, Indexed
  <2>. QED BY <2>2, <2>3, <2>4
<1>8. writer.count \in Nat /\ writer.count < n /\ \A k \in Template : writer.index[k] \in Nat
  BY <1>0 DEF WriterType
<1>. HIDE DEF b, n
<1>9. TypeOK'
  BY <1>0, <1>1, <1>2, <1>3, SentTyped
<1>10. Indexed'
  <2>1. \A k \in Template : writer.index[k] <= writer.count
    BY DEF IInv, Indexed
  <2>2. \A k \in Template : writer'.index[k] <= writer'.count
    BY <2>1, <1>0, <1>3, <1>8
  <2>3. \A k, l \in Template : writer'.index[k] = writer'.index[l] /\ writer'.index[k] # 0 => k = l
    <3>1. \A k \in Template : writer.index[k] # n
      <4>. SUFFICES ASSUME NEW k \in Template PROVE writer.index[k] # n
        OBVIOUS
      <4>1. writer.index[k] \in Nat /\ writer.index[k] <= writer.count /\ n \in Nat
        BY <2>1, <1>0, <1>8
      <4>. QED BY <4>1, <1>8
    <3>2. \A k, l \in Template : writer.index[k] = writer.index[l] /\ writer.index[k] # 0 => k = l
      BY DEF IInv, Indexed
    <3>. QED BY <3>1, <3>2, <1>3
  <2>4. Len(reader.parts) = Len(reader.names) /\ Len(reader.names) <= writer.count
    BY DEF IInv, Indexed
  <2>5. Len(reader.names) <= n
    <3>1. Len(reader.names) \in Nat
      BY <1>0
    <3>. QED BY <3>1, <2>4, <1>0, <1>8
  <2>6. TablesAgree'
    <3>. SUFFICES ASSUME NEW i \in 1 .. Len(reader.names)
                  PROVE  /\ writer'.index[reader.names[i]] = i
                         /\ reader.parts[i] = Parts[reader.names[i]]
      BY <1>2 DEF TablesAgree
    <3>1. writer.index[reader.names[i]] = i /\ reader.parts[i] = Parts[reader.names[i]]
      BY DEF IInv, Indexed, TablesAgree
    <3>2. reader.names[i] \in Template /\ i # 0
      BY <1>0
    <3>. QED BY <3>1, <3>2, <1>3
  <2>. QED BY <2>2, <2>3, <2>4, <2>5, <2>6, <1>2, <1>3 DEF Indexed
<1>11. InOrder'
  <2>1. Len(reader.names) \in Nat /\ Len(reader.names) < n
    <3>1. Len(reader.names) \in Nat
      BY <1>0
    <3>2. Len(reader.names) <= writer.count
      BY DEF IInv, Indexed
    <3>. QED BY <3>1, <3>2, <1>0, <1>8
  <2>2. ASSUME NEW i \in 1 .. L + 1, Defines(i)'
        PROVE  /\ writer'.index[channel'[i].name] = channel'[i].index
               /\ channel'[i].index > Len(reader.names)
    <3>1. CASE i = L + 1
      BY <3>1, <2>1, <1>0, <1>1, <1>3, <1>6
    <3>2. CASE i \in 1 .. L
      <4>1. Defines(i) /\ channel'[i] = channel[i]
        BY <3>2, <2>2, <1>6
      <4>2. writer.index[channel[i].name] = channel[i].index /\ channel[i].index > Len(reader.names)
        BY <4>1, <3>2, <1>6 DEF IInv, InOrder
      <4>. QED BY <4>1, <4>2, <3>2, <1>3, <1>7
    <3>. QED BY <3>1, <3>2, <1>5
  <2>3. ASSUME NEW i \in 1 .. L + 1, NEW j \in 1 .. L + 1, Defines(i)', Defines(j)', i < j
        PROVE  channel'[i].index < channel'[j].index
    <3>1. i \in 1 .. L /\ Defines(i) /\ channel'[i] = channel[i]
      BY <2>3, <1>5, <1>6
    <3>2. CASE j = L + 1
      <4>1. channel[i].index \in Nat /\ channel[i].index <= writer.count
        BY <3>1, <1>7
      <4>. QED BY <4>1, <3>1, <3>2, <1>0, <1>1, <1>6, <1>8
    <3>3. CASE j \in 1 .. L
      BY <3>1, <3>3, <2>3, <1>6 DEF IInv, InOrder
    <3>. QED BY <3>2, <3>3, <1>5
  <2>4. ASSUME NEW k \in Len(reader.names) + 1 .. n
        PROVE  \E i \in 1 .. L + 1 : Defines(i)' /\ channel'[i].index = k
    <3>1. CASE k = n
      BY <3>1, <1>1, <1>5, <1>6
    <3>2. CASE k \in Len(reader.names) + 1 .. writer.count
      <4>1. PICK i \in 1 .. L : Defines(i) /\ channel[i].index = k
        BY <3>2, <1>6 DEF IInv, InOrder
      <4>. QED BY <4>1, <1>5, <1>6
    <3>3. n = writer.count + 1
      BY DEF n
    <3>. QED BY <3>1, <3>2, <3>3, <2>1, <1>8
  <2>. QED BY <2>2, <2>3, <2>4, <1>2, <1>3, <1>6 DEF InOrder, Defines
<1>12. Resolved'
  BY <1>0, <1>1, <1>2, ResolvedSent
<1>13. Synced'
  <2>1. \A i \in 1 .. L + 1 : SyncedAt(i)' = SyncedAt(i)
    BY <1>0, <1>2, <1>5, SyncedAtSent
  <2>2. writer.synced = SyncedAt(L + 1)
    BY <1>5 DEF IInv, Synced
  <2>3. SyncedAt(L + 2)' = SyncedAt(L + 1) \cup Elements(Parts[m])
    <3>1. SyncedAt(L + 2)' = reader.synced \cup {c \in Component :
            \E j \in 1 .. L + 1 : Defines(j)' /\ c \in Elements(Parts[channel'[j].name])}
      <4>1. (L + 2) - 1 = L + 1 /\ reader' = reader
        BY <1>2
      <4>. QED BY <4>1 DEF SyncedAt
    <3>2. SyncedAt(L + 1) = reader.synced \cup {c \in Component :
            \E j \in 1 .. L : Defines(j) /\ c \in Elements(Parts[channel[j].name])}
      BY DEF SyncedAt
    <3>3. ASSUME NEW c \in Component
          PROVE  (\E j \in 1 .. L + 1 : Defines(j)' /\ c \in Elements(Parts[channel'[j].name]))
                 <=> \/ \E j \in 1 .. L : Defines(j) /\ c \in Elements(Parts[channel[j].name])
                     \/ c \in Elements(Parts[m])
      <4>1. \A j \in 1 .. L + 1 : j \in 1 .. L \/ j = L + 1
        BY <1>5
      <4>. QED BY <4>1, <1>1, <1>5, <1>6
    <3>4. Elements(Parts[m]) \subseteq Component
      BY <1>0 DEF Elements
    <3>. QED BY <3>1, <3>2, <3>3, <3>4
  <2>4. ASSUME NEW i \in 1 .. L + 1, Defines(i)' PROVE DescribedAt(i)'
    <3>1. CASE i = L + 1
      <4>1. channel'[i].name = m /\ channel'[i].described = Described(m)
        BY <3>1, <1>1, <1>6
      <4>2. SyncedAt(i)' = writer.synced
        BY <3>1, <2>1, <2>2, <1>5
      <4>3. /\ Len(Described(m)) = Len(Parts[m])
            /\ \A c \in 1 .. Len(Parts[m]) :
                 /\ Described(m)[c].part = Parts[m][c]
                 /\ Described(m)[c].hashed <=> Parts[m][c] \notin writer.synced
        <5>1. Len(Parts[m]) \in Nat
          BY <1>0
        <5>2. Len(Described(m)) = Len(Parts[m])
          BY <5>1 DEF Described
        <5>3. ASSUME NEW c \in 1 .. Len(Parts[m])
              PROVE  /\ Described(m)[c].part = Parts[m][c]
                     /\ Described(m)[c].hashed <=> Parts[m][c] \notin writer.synced
          BY DEF Described
        <5>. QED BY <5>2, <5>3
      <4>. QED BY <4>1, <4>2, <4>3 DEF DescribedAt
    <3>2. CASE i \in 1 .. L
      <4>1. Defines(i) /\ channel'[i] = channel[i] /\ SyncedAt(i)' = SyncedAt(i)
        BY <3>2, <2>1, <2>4, <1>6
      <4>2. DescribedAt(i)
        BY <4>1, <3>2, <1>6 DEF IInv, Synced
      <4>. QED BY <4>1, <4>2 DEF DescribedAt
    <3>. QED BY <3>1, <3>2, <1>5
  <2>5. writer'.synced = SyncedAt(Len(channel) + 1)'
    <3>1. SyncedAt(Len(channel) + 1)' = SyncedAt(L + 2)'
      BY <1>6 DEF SyncedAt
    <3>. QED BY <3>1, <2>2, <2>3, <1>3
  <2>6. \A k \in Template : writer'.index[k] # 0 => Elements(Parts[k]) \subseteq writer'.synced
    BY <1>3 DEF IInv, Synced
  <2>. QED BY <2>4, <2>5, <2>6, <1>6 DEF Synced, Defines, Elements
<1>14. Alive'
  BY <1>0, <1>1, <1>2, <1>3, <1>4, AliveSent
<1>15. SameTemplate'
  <2>1. \A f \in Entity : writer.entity[f] # NoTemplate => writer.index[writer.entity[f]] # 0
    BY DEF IInv, SameTemplate
  <2>2. \A f \in Entity : writer.entity[f] \in Template \cup {NoTemplate}
    BY <1>0 DEF WriterType
  <2>. QED BY <2>1, <2>2, <1>0, <1>1, <1>2, <1>3, <1>4, SameTemplateSent
<1>16. NeverLost'
  BY <1>2 DEF IInv, NeverLost
<1>. QED BY <1>9, <1>10, <1>11, <1>12, <1>13, <1>14, <1>15, <1>16 DEF IInv

-----------------------------------------------------------------------------
(* Steps of the reader *)

ReaderType == [names : Seq(Template), parts : Seq(Seq(Component)),
               synced : SUBSET Component, entity : [Entity -> Template \cup {NoTemplate}]]

\* The first definition to come is that of the next index.
LEMMA NextDefinition ==
  ASSUME IInv, channel # << >>, Defines(1)
  PROVE  /\ channel[1].index = Len(reader.names) + 1
         /\ channel[1].name \in Template
         /\ writer.index[channel[1].name] = channel[1].index
         /\ channel[1].index <= writer.count
         /\ DescribedAt(1) /\ SyncedAt(1) = reader.synced
<1>0. /\ TypeOK /\ 1 \in Unread /\ Len(reader.names) \in Nat /\ writer.count \in Nat
      /\ Len(channel) \in Nat
  <2>1. channel \in Seq(Block) /\ reader.names \in Seq(Template) /\ writer.count \in Nat /\ TypeOK
    BY DEF IInv, TypeOK
  <2>. QED BY <2>1 DEF Unread
<1>1. channel[1].name \in Template /\ channel[1].index \in Nat
  <2>1. channel[1] \in Block
    BY <1>0, BlocksTyped DEF Unread
  <2>. QED BY <2>1 DEF Block, Defines
<1>2. writer.index[channel[1].name] = channel[1].index /\ channel[1].index > Len(reader.names)
  BY <1>0 DEF IInv, InOrder
<1>3. writer.index[channel[1].name] <= writer.count
  BY <1>1 DEF IInv, Indexed
<1>4. channel[1].index = Len(reader.names) + 1
  <2>1. Len(reader.names) + 1 \in Len(reader.names) + 1 .. writer.count
    BY <1>0, <1>1, <1>2, <1>3
  <2>2. PICK i \in Unread : Defines(i) /\ channel[i].index = Len(reader.names) + 1
    BY <2>1 DEF IInv, InOrder
  <2>3. i # 1 => channel[1].index < channel[i].index
    <3>1. i # 1 => 1 < i
      BY <1>0 DEF Unread
    <3>. QED BY <3>1, <2>2, <1>0 DEF IInv, InOrder
  <2>. QED BY <2>2, <2>3, <1>0, <1>1, <1>2
<1>5. DescribedAt(1)
  BY <1>0 DEF IInv, Synced
<1>6. SyncedAt(1) = reader.synced
  BY DEF SyncedAt
<1>. QED BY <1>1, <1>2, <1>3, <1>4, <1>5, <1>6

LEMMA DescribedMoved ==
  ASSUME NEW i, NEW j, channel'[i] = channel[j], SyncedAt(i)' = SyncedAt(j), DescribedAt(j)
  PROVE  DescribedAt(i)'
BY DEF DescribedAt

LEMMA GoneAtItsEntity ==
  ASSUME NEW i, NEW e, channel'[i].entity = e
  PROVE  GoneAt(i, channel[i].entity)' <=> GoneAt(i, e)'
BY DEF GoneAt, Builds, Ends

\* A reader that learns the definition in a block, if it has one, and enters or
\* removes the block's entity keeps up with the writer.
LEMMA ReadKeeps ==
  ASSUME IInv, channel # << >>, channel' = Tail(channel), UNCHANGED <<writer, written>>,
         fault' = "none", reader' \in ReaderType,
         reader'.names = IF Defines(1) THEN Append(reader.names, channel[1].name)
                         ELSE reader.names,
         reader'.parts = IF Defines(1) THEN Append(reader.parts, Parts[channel[1].name])
                         ELSE reader.parts,
         reader'.synced = SyncedAt(2),
         \A e \in Entity : reader'.entity[e] = NoTemplate <=>
           ~Builds(1, e) /\ (Ends(1, e) \/ reader.entity[e] = NoTemplate),
         \A e \in Entity : reader'.entity[e] # NoTemplate =>
           \/ reader'.entity[e] = reader.entity[e]
           \/ /\ Builds(1, e)
              /\ writer.index[reader'.entity[e]] = channel[1].index
  PROVE  IInv'
<1>0. TypeOK /\ channel \in Seq(Block) /\ writer \in WriterType /\ reader \in ReaderType
  BY DEF IInv, TypeOK, WriterType, ReaderType
<1>1. PICK L \in Nat \ {0} : L = Len(channel)
  BY <1>0, ReadIs
<1>2. /\ Len(channel') = L - 1 /\ Unread = 1 .. L /\ Unread' = 1 .. L - 1
      /\ \A i \in 1 .. L - 1 : channel'[i] = channel[i + 1] /\ i + 1 \in 1 .. L
  BY <1>0, <1>1, ReadIs DEF Unread
<1>3. \A i \in 1 .. L - 1 : /\ Defines(i)' <=> Defines(i + 1)
                            /\ Refers(i)' <=> Refers(i + 1)
                            /\ \A e : /\ Builds(i, e)' <=> Builds(i + 1, e)
                                      /\ Ends(i, e)' <=> Ends(i + 1, e)
  BY <1>2 DEF Defines, Refers, Builds, Ends
<1>4. \A j \in 2 .. L : j - 1 \in 1 .. L - 1 /\ (j - 1) + 1 = j
  BY <1>1
<1>5. PICK N \in Nat : N = Len(reader.names)
  <2>1. reader.names \in Seq(Template)
    BY <1>0 DEF ReaderType
  <2>. QED BY <2>1
<1>6. PICK M \in Nat : /\ M = Len(reader'.names) /\ M = IF Defines(1) THEN N + 1 ELSE N
                       /\ Defines(1) => channel[1].index = M
  <2>1. reader.names \in Seq(Template)
    BY <1>0 DEF ReaderType
  <2>. QED BY <2>1, <1>5, NextDefinition
<1>7. TypeOK'
  <2>1. channel' \in Seq(Block)
    BY <1>0
  <2>2. fault' \in {"none", "misread", "not monotonic", "no object", "not synced"}
    OBVIOUS
  <2>. QED BY <2>1, <2>2 DEF IInv, TypeOK, ReaderType, Block
<1>8. \A i \in Unread : Defines(i) => channel[i].index \in Nat
  <2>1. \A i \in Unread : channel[i] \in Block
    BY <1>0, BlocksTyped DEF Unread
  <2>. QED BY <2>1 DEF Block, Defines
<1>9. writer.count \in Nat /\ \A m \in Template : writer.index[m] \in Nat
  BY <1>0 DEF WriterType
<1>10. Indexed'
  <2>1. Len(reader'.parts) = Len(reader'.names)
    <3>1. reader.parts \in Seq(Seq(Component)) /\ reader.names \in Seq(Template)
      BY <1>0 DEF ReaderType
    <3>2. Len(reader.parts) = Len(reader.names)
      BY DEF IInv, Indexed
    <3>3. CASE Defines(1)
      BY <3>1, <3>2, <3>3, NextDefinition
    <3>4. CASE ~Defines(1)
      BY <3>2, <3>4
    <3>. QED BY <3>3, <3>4
  <2>2. M <= writer.count
    <3>1. N <= writer.count
      BY <1>5 DEF IInv, Indexed
    <3>. QED BY <3>1, <1>6, NextDefinition
  <2>3. TablesAgree'
    <3>. SUFFICES ASSUME NEW i \in 1 .. M
                  PROVE  /\ writer.index[reader'.names[i]] = i
                         /\ reader'.parts[i] = Parts[reader'.names[i]]
      BY <1>6 DEF TablesAgree
    <3>0. reader.parts \in Seq(Seq(Component)) /\ reader.names \in Seq(Template)
      BY <1>0 DEF ReaderType
    <3>1. CASE i \in 1 .. N
      <4>1. writer.index[reader.names[i]] = i /\ reader.parts[i] = Parts[reader.names[i]]
        BY <3>1, <1>5 DEF IInv, Indexed, TablesAgree
      <4>2. Len(reader.parts) = N
        BY <1>5 DEF IInv, Indexed
      <4>3. reader'.names[i] = reader.names[i] /\ reader'.parts[i] = reader.parts[i]
        BY <4>2, <3>0, <3>1, <1>5
      <4>. QED BY <4>1, <4>3
    <3>2. CASE i = N + 1 /\ Defines(1)
      <4>1. Len(reader.parts) = N
        BY <1>5 DEF IInv, Indexed
      <4>2. reader'.names[i] = channel[1].name /\ reader'.parts[i] = Parts[channel[1].name]
        BY <4>1, <3>0, <3>2, <1>5
      <4>. QED BY <4>2, <3>2, <1>5, NextDefinition
    <3>3. M = N \/ (M = N + 1 /\ Defines(1))
      BY <1>6
    <3>4. i \in 1 .. N \/ (i = N + 1 /\ Defines(1))
      BY <3>3, <1>5
    <3>. QED BY <3>1, <3>2, <3>4
  <2>. QED BY <2>1, <2>2, <2>3, <1>6 DEF IInv, Indexed
<1>11. InOrder'
  <2>1. ASSUME NEW i \in 1 .. L - 1, Defines(i)'
        PROVE  /\ writer.index[channel'[i].name] = channel'[i].index
               /\ channel'[i].index > M
    <3>1. Defines(i + 1) /\ channel'[i] = channel[i + 1] /\ i + 1 \in Unread
      BY <2>1, <1>2, <1>3
    <3>2. writer.index[channel[i + 1].name] = channel[i + 1].index /\ channel[i + 1].index > N
      BY <3>1, <1>5 DEF IInv, InOrder
    <3>3. Defines(1) => channel[1].index < channel[i + 1].index
      <4>1. 1 \in Unread /\ 1 < i + 1
        BY <1>1, <1>2
      <4>. QED BY <4>1, <3>1 DEF IInv, InOrder
    <3>. QED BY <3>1, <3>2, <3>3, <1>6
  <2>2. \A i, j \in 1 .. L - 1 : Defines(i)' /\ Defines(j)' /\ i < j
          => channel'[i].index < channel'[j].index
    <3>. SUFFICES ASSUME NEW i \in 1 .. L - 1, NEW j \in 1 .. L - 1, Defines(i + 1), Defines(j + 1),
                         i + 1 < j + 1
                  PROVE  channel[i + 1].index < channel[j + 1].index
      BY <1>2, <1>3
    <3>. QED BY <1>2 DEF IInv, InOrder
  <2>3. ASSUME NEW k \in M + 1 .. writer.count
        PROVE  \E i \in 1 .. L - 1 : Defines(i)' /\ channel'[i].index = k
    <3>1. k \in N + 1 .. writer.count
      BY <1>5, <1>6, <1>9
    <3>2. PICK j \in Unread : Defines(j) /\ channel[j].index = k
      BY <3>1, <1>5 DEF IInv, InOrder
    <3>3. j \in 2 .. L
      <4>1. j # 1
        BY <3>2, <1>6
      <4>. QED BY <4>1, <1>1, <1>2
    <3>. QED BY <3>2, <3>3, <1>2, <1>3, <1>4
  <2>. QED BY <2>1, <2>2, <2>3, <1>2, <1>6 DEF InOrder, Defines
<1>12. Resolved'
  <2>. SUFFICES ASSUME NEW i \in 1 .. L - 1, Refers(i)'
                PROVE  \/ channel'[i].index <= M
                       \/ \E j \in 1 .. i - 1 : Defines(j)' /\ channel'[j].index = channel'[i].index
    BY <1>2, <1>6 DEF Resolved, Refers, Defines
  <2>1. Refers(i + 1) /\ channel'[i] = channel[i + 1] /\ i + 1 \in Unread /\ (i + 1) - 1 = i
    BY <1>2, <1>3
  <2>2. channel[i + 1].index \in Nat
    <3>1. channel[i + 1] \in Block
      BY <2>1, <1>0, BlocksTyped DEF Unread
    <3>. QED BY <3>1, <2>1 DEF Block, Refers
  <2>3. \/ channel[i + 1].index <= N
        \/ \E j \in 1 .. i : Defines(j) /\ channel[j].index = channel[i + 1].index
    BY <2>1, <1>5 DEF IInv, Resolved
  <2>4. CASE channel[i + 1].index <= N
    <3>1. N <= M
      BY <1>5, <1>6
    <3>2. channel[i + 1].index <= M
      BY <3>1, <2>2, <2>4, <1>5, <1>6
    <3>. QED BY <3>2, <2>1
  <2>5. ASSUME NEW j \in 1 .. i, Defines(j), channel[j].index = channel[i + 1].index
        PROVE  \/ channel[i + 1].index <= M
               \/ \E k \in 1 .. i - 1 : Defines(k)' /\ channel'[k].index = channel[i + 1].index
    <3>1. CASE j = 1
      BY <2>5, <3>1, <1>6
    <3>2. CASE j \in 2 .. i
      <4>1. j - 1 \in 1 .. i - 1 /\ j \in 2 .. L
        BY <3>2, <1>1
      <4>2. j - 1 \in 1 .. L - 1 /\ (j - 1) + 1 = j
        BY <4>1, <1>4
      <4>. QED BY <4>1, <4>2, <2>5, <1>2, <1>3
    <3>3. j = 1 \/ j \in 2 .. i
      BY <1>1
    <3>. QED BY <3>1, <3>2, <3>3
  <2>. QED BY <2>1, <2>3, <2>4, <2>5
<1>13. \A i \in 1 .. L : SyncedAt(i)' = SyncedAt(i + 1)
  BY <1>0, <1>1, SyncedAtRead
<1>14. \A i \in 1 .. L : \A e \in Entity : GoneAt(i, e)' <=> GoneAt(i + 1, e)
  BY <1>0, <1>1, GoneAtRead
<1>15. Synced'
  <2>1. ASSUME NEW i \in 1 .. L - 1, Defines(i)' PROVE DescribedAt(i)'
    <3>1. Defines(i + 1) /\ channel'[i] = channel[i + 1] /\ i + 1 \in Unread /\ i \in 1 .. L
      BY <2>1, <1>1, <1>2, <1>3
    <3>2. DescribedAt(i + 1) /\ SyncedAt(i)' = SyncedAt(i + 1)
      BY <3>1, <1>13 DEF IInv, Synced
    <3>. QED BY <3>1, <3>2, DescribedMoved
  <2>2. writer.synced = SyncedAt(Len(channel) + 1)'
    <3>1. writer.synced = SyncedAt(L + 1)
      BY <1>1 DEF IInv, Synced
    <3>2. SyncedAt(L)' = SyncedAt(L + 1)
      BY <1>1, <1>13
    <3>3. SyncedAt(Len(channel) + 1)' = SyncedAt(L)'
      <4>1. (Len(channel') + 1) - 1 = L - 1
        BY <1>1, <1>2
      <4>. QED BY <4>1 DEF SyncedAt
    <3>. QED BY <3>1, <3>2, <3>3
  <2>. QED BY <2>1, <2>2, <1>2 DEF IInv, Synced, Defines, Elements
<1>16. Alive'
  <2>1. ASSUME NEW e \in Entity
        PROVE  writer.entity[e] = NoTemplate <=> GoneAt(Len(channel) + 1, e)'
    <3>1. writer.entity[e] = NoTemplate <=> GoneAt(L + 1, e)
      BY <1>1 DEF IInv, Alive
    <3>2. GoneAt(L, e)' <=> GoneAt(L + 1, e)
      BY <1>1, <1>14
    <3>3. GoneAt(Len(channel) + 1, e)' <=> GoneAt(L, e)'
      <4>1. (Len(channel') + 1) - 1 = L - 1
        BY <1>1, <1>2
      <4>. QED BY <4>1 DEF GoneAt
    <3>. QED BY <3>1, <3>2, <3>3
  <2>2. ASSUME NEW i \in 1 .. L - 1
        PROVE  /\ Defines(i)' => GoneAt(i, channel[i].entity)'
               /\ channel'[i].op = "replicate" =>
                    ~GoneAt(i, channel[i].entity)' /\ channel'[i].part \in SyncedAt(i)'
    <3>1. channel'[i] = channel[i + 1] /\ i + 1 \in Unread /\ i \in 1 .. L
      BY <1>1, <1>2
    <3>2. channel[i + 1].entity \in Entity
      BY <3>1, <1>0, BlocksTyped DEF Unread
    <3>3. GoneAt(i, channel[i].entity)' <=> GoneAt(i + 1, channel[i + 1].entity)
      <4>. SUFFICES ASSUME NEW e \in Entity, e = channel[i + 1].entity
                    PROVE  GoneAt(i, channel[i].entity)' <=> GoneAt(i + 1, e)
        BY <3>2
      <4>1. GoneAt(i, e)' <=> GoneAt(i + 1, e)
        BY <3>1, <1>14
      <4>2. GoneAt(i, channel[i].entity)' <=> GoneAt(i, e)'
        <5>1. channel'[i].entity = e
          BY <3>1
        <5>. QED BY <5>1, GoneAtItsEntity
      <4>. QED BY <4>1, <4>2
    <3>4. /\ Defines(i + 1) => GoneAt(i + 1, channel[i + 1].entity)
          /\ channel[i + 1].op = "replicate" =>
               ~GoneAt(i + 1, channel[i + 1].entity) /\ channel[i + 1].part \in SyncedAt(i + 1)
      BY <3>1 DEF IInv, Alive
    <3>. QED BY <3>1, <3>3, <3>4, <1>3, <1>13
  <2>. QED BY <2>1, <2>2, <1>2 DEF Alive, Defines
<1>17. SameTemplate'
  <2>0. \A e \in Entity : writer.entity[e] # NoTemplate => writer.index[writer.entity[e]] # 0
    BY DEF IInv, SameTemplate
  <2>. SUFFICES ASSUME NEW e \in Entity, writer.entity[e] # NoTemplate
                PROVE  /\ reader'.entity[e] # NoTemplate /\ (\A k \in 1 .. L - 1 : ~Ends(k, e)')
                            => reader'.entity[e] = writer.entity[e]
                       /\ \A j \in 1 .. L - 1 :
                            Builds(j, e)' /\ (\A k \in j + 1 .. L - 1 : ~Ends(k, e)')
                              => writer.index[writer.entity[e]] = channel'[j].index
    BY <2>0, <1>2 DEF SameTemplate, Ends, Builds
  <2>1. writer.index[writer.entity[e]] # 0
    BY <2>0
  <2>2. ASSUME reader'.entity[e] # NoTemplate, \A k \in 1 .. L - 1 : ~Ends(k, e)'
        PROVE  reader'.entity[e] = writer.entity[e]
    <3>1. \A k \in 2 .. L : ~Ends(k, e)
      BY <2>2, <1>3, <1>4
    <3>2. CASE Builds(1, e) /\ writer.index[reader'.entity[e]] = channel[1].index
      <4>1. writer.index[writer.entity[e]] = channel[1].index
        <5>1. 1 \in Unread /\ \A k \in 1 + 1 .. Len(channel) : ~Ends(k, e)
          BY <3>1, <1>1, <1>2
        <5>. QED BY <5>1, <3>2 DEF IInv, SameTemplate
      <4>2. writer.entity[e] \in Template /\ reader'.entity[e] \in Template
        BY <2>2, <1>0 DEF WriterType, ReaderType
      <4>. QED BY <4>1, <4>2, <3>2, <2>1 DEF IInv, Indexed
    <3>3. CASE reader'.entity[e] = reader.entity[e]
                /\ ~(Builds(1, e) /\ writer.index[reader'.entity[e]] = channel[1].index)
      <4>1. ~Ends(1, e)
        <5>1. ~(Builds(1, e) /\ Ends(1, e))
          BY DEF Builds, Ends
        <5>2. Builds(1, e) \/ ~Ends(1, e)
          BY <2>2
        <5>. QED BY <5>1, <5>2
      <4>2. \A k \in Unread : ~Ends(k, e)
        BY <4>1, <3>1, <1>1, <1>2
      <4>. QED BY <4>2, <3>3, <2>2 DEF IInv, SameTemplate
    <3>. QED BY <3>2, <3>3, <2>2
  <2>3. ASSUME NEW j \in 1 .. L - 1, Builds(j, e)', \A k \in j + 1 .. L - 1 : ~Ends(k, e)'
        PROVE  writer.index[writer.entity[e]] = channel'[j].index
    <3>1. Builds(j + 1, e) /\ channel'[j] = channel[j + 1] /\ j + 1 \in Unread
      BY <2>3, <1>2, <1>3
    <3>2. \A k \in (j + 1) + 1 .. Len(channel) : ~Ends(k, e)
      <4>. SUFFICES ASSUME NEW k \in (j + 1) + 1 .. L PROVE ~Ends(k, e)
        BY <1>1
      <4>1. k \in 2 .. L /\ k - 1 \in j + 1 .. L - 1
        BY <1>1
      <4>. QED BY <4>1, <2>3, <1>3, <1>4
    <3>. QED BY <3>1, <3>2 DEF IInv, SameTemplate
  <2>. QED BY <2>2, <2>3
<1>18. NeverLost'
  BY DEF NeverLost
<1>. QED BY <1>7, <1>10, <1>11, <1>12, <1>15, <1>16, <1>17, <1>18 DEF IInv

\* What block 1 adds to the components the reader knows.
LEMMA SyncedAtSecond ==
  ASSUME IInv, channel # << >>
  PROVE  /\ Defines(1) => SyncedAt(2) = reader.synced \cup Elements(Parts[channel[1].name])
         /\ ~Defines(1) => SyncedAt(2) = reader.synced
<1>1. SyncedAt(2) = reader.synced \cup
        {c \in Component : \E j \in 1 .. 1 : Defines(j) /\ c \in Elements(Parts[channel[j].name])}
  BY DEF SyncedAt
<1>2. Defines(1) => Elements(Parts[channel[1].name]) \subseteq Component
  <2>1. Defines(1) => Parts[channel[1].name] \in Seq(Component)
    BY NextDefinition, SyncAssumption
  <2>. QED BY <2>1 DEF Elements
<1>3. \A j \in 1 .. 1 : j = 1
  OBVIOUS
<1>4. 1 \in 1 .. 1
  OBVIOUS
<1>. HIDE DEF SyncedAt, Defines, Elements
<1>. QED BY <1>1, <1>2, <1>3, <1>4

LEMMA ReaderTyped == ASSUME IInv PROVE reader \in ReaderType
BY DEF IInv, TypeOK, ReaderType

LEMMA HeadTyped ==
  ASSUME IInv, channel # << >>
  PROVE  /\ Head(channel) = channel[1] /\ channel[1] \in Block /\ channel[1].entity \in Entity
         /\ 1 \in Unread
<1>1. TypeOK /\ channel \in Seq(Block)
  BY DEF IInv, TypeOK
<1>2. 1 \in 1 .. Len(channel) /\ Head(channel) = channel[1]
  BY <1>1
<1>. QED BY <1>1, <1>2, BlocksTyped DEF Unread

\* A block that is skipped defines nothing: its entity would not be there.
LEMMA SkipConstructKeeps ==
  ASSUME IInv, SkipConstruct
  PROVE  IInv'
<1>1. /\ channel # << >> /\ channel' = Tail(channel) /\ UNCHANGED <<writer, written, reader>>
      /\ fault' = "none" /\ Head(channel).op = "construct"
      /\ reader.entity[Head(channel).entity] # NoTemplate
  BY DEF SkipConstruct, Receive, IInv, NeverLost
<1>2. ~Defines(1)
  <2>1. Defines(1) => GoneAt(1, channel[1].entity)
    BY <1>1, HeadTyped DEF IInv, Alive
  <2>2. ~GoneAt(1, channel[1].entity)
    BY <1>1, HeadTyped DEF GoneAt
  <2>. QED BY <2>1, <2>2
<1>3. \A e \in Entity : (Builds(1, e) <=> e = channel[1].entity) /\ ~Ends(1, e)
  BY <1>1, HeadTyped DEF Builds, Ends
<1>4. \A e \in Entity : reader.entity[e] = NoTemplate <=>
        ~Builds(1, e) /\ (Ends(1, e) \/ reader.entity[e] = NoTemplate)
  BY <1>1, <1>3, HeadTyped
<1>5. reader \in ReaderType /\ reader.synced = SyncedAt(2)
  BY <1>1, <1>2, ReaderTyped, SyncedAtSecond
<1>. QED BY <1>1, <1>2, <1>4, <1>5, ReadKeeps

\* A reference is known, and a definition the next one, described as the reader
\* expects it.
LEMMA NoTemplateFault ==
  ASSUME IInv, channel # << >>, channel[1].op = "construct"
  PROVE  TemplateFault(channel[1]) = "none"
<1>1. reader.names \in Seq(Template) /\ Len(reader.names) \in Nat
  <2>1. reader.names \in Seq(Template)
    BY ReaderTyped DEF ReaderType
  <2>. QED BY <2>1
<1>2. CASE channel[1].name = NoTemplate
  <2>1. channel[1].index <= Len(reader.names)
    <3>1. Refers(1) /\ 1 \in Unread
      BY <1>2, HeadTyped DEF Refers
    <3>2. ~\E j \in 1 .. 1 - 1 : Defines(j) /\ channel[j].index = channel[1].index
      OBVIOUS
    <3>. QED BY <3>1, <3>2 DEF IInv, Resolved
  <2>. QED BY <2>1, <1>2 DEF TemplateFault
<1>3. CASE channel[1].name # NoTemplate
  <2>1. Defines(1)
    BY <1>3 DEF Defines
  <2>2. channel[1].index = Len(reader.names) + 1
    BY <2>1, NextDefinition
  <2>3. DescriptionsMatch(channel[1])
    <3>1. DescribedAt(1) /\ SyncedAt(1) = reader.synced
      BY <2>1, NextDefinition
    <3>. QED BY <3>1 DEF DescribedAt, DescriptionsMatch
  <2>4. ~(channel[1].index <= Len(reader.names))
    BY <2>2, <1>1
  <2>. QED BY <2>2, <2>3, <2>4, <1>3 DEF TemplateFault
<1>. QED BY <1>2, <1>3

LEMMA ReadConstructKeeps ==
  ASSUME IInv, ReadConstruct
  PROVE  IInv'
<1> DEFINE block == channel[1]
           learned == Learned(block)
<1>1. /\ channel # << >> /\ channel' = Tail(channel) /\ UNCHANGED <<writer, written>>
      /\ block.op = "construct" /\ reader.entity[block.entity] = NoTemplate
      /\ fault' = TemplateFault(block)
      /\ fault' = "none" => reader' = [learned EXCEPT !.entity[block.entity] = learned.names[block.index]]
  BY HeadTyped DEF ReadConstruct, Receive
<1>2. fault' = "none"
  BY <1>1, NoTemplateFault
<1>3. reader \in ReaderType /\ block \in Block /\ block.entity \in Entity
  BY <1>1, ReaderTyped, HeadTyped
<1>4. /\ learned \in ReaderType
      /\ learned.names = IF Defines(1) THEN Append(reader.names, block.name) ELSE reader.names
      /\ learned.parts = IF Defines(1) THEN Append(reader.parts, Parts[block.name]) ELSE reader.parts
      /\ learned.synced = SyncedAt(2)
      /\ learned.entity = reader.entity
  <2>1. CASE ~Defines(1)
    <3>1. learned = reader
      BY <2>1, <1>1 DEF Learned, Defines
    <3>. QED BY <3>1, <2>1, <1>1, <1>3, SyncedAtSecond
  <2>2. CASE Defines(1)
    <3>1. block.name \in Template /\ Parts[block.name] \in Seq(Component)
      BY <2>2, <1>1, NextDefinition, SyncAssumption
    <3>2. /\ Len(block.described) = Len(Parts[block.name])
          /\ \A i \in 1 .. Len(block.described) : block.described[i].part = Parts[block.name][i]
      <4>1. DescribedAt(1)
        BY <2>2, <1>1, NextDefinition
      <4>. QED BY <4>1 DEF DescribedAt
    <3>3. [i \in 1 .. Len(block.described) |-> block.described[i].part] = Parts[block.name]
      BY <3>1, <3>2
    <3>4. {block.described[i].part : i \in 1 .. Len(block.described)} = Elements(Parts[block.name])
      BY <3>2 DEF Elements
    <3>5. learned = [reader EXCEPT
                       !.names  = Append(@, block.name),
                       !.parts  = Append(@, Parts[block.name]),
                       !.synced = @ \cup Elements(Parts[block.name])]
      BY <2>2, <3>3, <3>4 DEF Learned, Defines
    <3>6. reader.synced \cup Elements(Parts[block.name]) = SyncedAt(2)
      BY <2>2, <1>1, SyncedAtSecond
    <3>7. Elements(Parts[block.name]) \subseteq Component
      BY <3>1 DEF Elements
    <3>8. /\ Append(reader.names, block.name) \in Seq(Template)
          /\ Append(reader.parts, Parts[block.name]) \in Seq(Seq(Component))
          /\ reader.synced \cup Elements(Parts[block.name]) \in SUBSET Component
      BY <3>1, <3>7, <1>3 DEF ReaderType
    <3>. HIDE DEF learned, block
    <3>9. /\ learned \in ReaderType
          /\ learned.names = Append(reader.names, block.name)
          /\ learned.parts = Append(reader.parts, Parts[block.name])
          /\ learned.synced = reader.synced \cup Elements(Parts[block.name])
          /\ learned.entity = reader.entity
      BY <3>5, <3>8, <1>3 DEF ReaderType
    <3>. QED BY <3>6, <3>9, <2>2
  <2>. QED BY <2>1, <2>2
<1>5. block.index \in 1 .. Len(learned.names) /\ writer.index[learned.names[block.index]] = block.index
  <2>0. reader.names \in Seq(Template) /\ Len(reader.names) \in Nat /\ block.index \in Nat \ {0}
    <3>1. reader.names \in Seq(Template)
      BY <1>3 DEF ReaderType
    <3>. QED BY <3>1, <1>1, <1>3 DEF Block
  <2>1. CASE Defines(1)
    <3>1. /\ block.index = Len(reader.names) + 1 /\ block.name \in Template
          /\ writer.index[block.name] = block.index
      BY <2>1, <1>1, NextDefinition
    <3>. QED BY <3>1, <2>0, <2>1, <1>4
  <2>2. CASE ~Defines(1)
    <3>1. Refers(1) /\ 1 \in Unread
      BY <2>2, <1>1, HeadTyped DEF Refers, Defines
    <3>2. block.index <= Len(reader.names)
      <4>1. ~\E j \in 1 .. 1 - 1 : Defines(j) /\ channel[j].index = channel[1].index
        OBVIOUS
      <4>. QED BY <3>1, <4>1 DEF IInv, Resolved
    <3>3. writer.index[reader.names[block.index]] = block.index
      BY <3>2, <2>0 DEF IInv, Indexed, TablesAgree
    <3>. QED BY <3>2, <3>3, <2>0, <2>2, <1>4
  <2>. QED BY <2>1, <2>2
<1>. HIDE DEF learned
<1>6. learned.names[block.index] \in Template
  <2>1. learned.names \in Seq(Template)
    BY <1>4 DEF ReaderType
  <2>. QED BY <2>1, <1>5
<1>7. /\ reader' \in ReaderType
      /\ reader'.names = learned.names /\ reader'.parts = learned.parts
      /\ reader'.synced = learned.synced
      /\ \A e \in Entity : reader'.entity[e] =
           IF e = block.entity THEN learned.names[block.index] ELSE reader.entity[e]
  <2>1. reader' = [learned EXCEPT !.entity[block.entity] = learned.names[block.index]]
    BY <1>1, <1>2
  <2>2. learned \in ReaderType /\ learned.entity = reader.entity
    BY <1>4
  <2>. HIDE DEF block
  <2>. QED BY <2>1, <2>2, <1>3, <1>6 DEF ReaderType
<1>8. \A e \in Entity : (Builds(1, e) <=> e = block.entity) /\ ~Ends(1, e)
  BY <1>1 DEF Builds, Ends
<1>9. learned.names[block.index] # NoTemplate
  BY <1>6, SyncAssumption
<1>10. \A e \in Entity : reader'.entity[e] = NoTemplate <=>
        ~Builds(1, e) /\ (Ends(1, e) \/ reader.entity[e] = NoTemplate)
  BY <1>7, <1>8, <1>9
<1>11. \A e \in Entity : reader'.entity[e] # NoTemplate =>
           \/ reader'.entity[e] = reader.entity[e]
           \/ /\ Builds(1, e)
              /\ writer.index[reader'.entity[e]] = channel[1].index
  BY <1>5, <1>7, <1>8
<1>. QED BY <1>1, <1>2, <1>4, <1>7, <1>10, <1>11, ReadKeeps

LEMMA ReadReplicateKeeps ==
  ASSUME IInv, ReadReplicate
  PROVE  IInv'
<1>1. /\ channel # << >> /\ channel' = Tail(channel) /\ UNCHANGED <<writer, written, reader>>
      /\ channel[1].op = "replicate"
      /\ fault' = IF reader.entity[channel[1].entity] = NoTemplate THEN "no object"
                  ELSE IF channel[1].part \notin reader.synced THEN "not synced"
                  ELSE "none"
  BY HeadTyped DEF ReadReplicate, Receive
<1>2. fault' = "none"
  <2>1. ~GoneAt(1, channel[1].entity) /\ channel[1].part \in SyncedAt(1)
    BY <1>1, HeadTyped DEF IInv, Alive
  <2>2. reader.entity[channel[1].entity] # NoTemplate
    BY <2>1 DEF GoneAt
  <2>3. SyncedAt(1) = reader.synced
    BY DEF SyncedAt
  <2>. QED BY <1>1, <2>1, <2>2, <2>3
<1>3. ~Defines(1) /\ \A e \in Entity : ~Builds(1, e) /\ ~Ends(1, e)
  BY <1>1 DEF Defines, Builds, Ends
<1>4. reader \in ReaderType /\ reader.synced = SyncedAt(2)
  BY <1>1, <1>3, ReaderTyped, SyncedAtSecond
<1>. QED BY <1>1, <1>2, <1>3, <1>4, ReadKeeps

LEMMA ReadDestroyKeeps ==
  ASSUME IInv, ReadDestroy
  PROVE  IInv'
<1>1. /\ channel # << >> /\ channel' = Tail(channel) /\ UNCHANGED <<writer, written>>
      /\ channel[1].op = "destroy" /\ fault' = "none"
      /\ reader' = [reader EXCEPT !.entity[channel[1].entity] = NoTemplate]
  BY HeadTyped DEF ReadDestroy, Receive, IInv, NeverLost
<1>2. reader \in ReaderType /\ channel[1].entity \in Entity
  BY <1>1, ReaderTyped, HeadTyped
<1>3. /\ reader' \in ReaderType
      /\ reader'.names = reader.names /\ reader'.parts = reader.parts
      /\ reader'.synced = reader.synced
      /\ \A e \in Entity : reader'.entity[e] =
           IF e = channel[1].entity THEN NoTemplate ELSE reader.entity[e]
  BY <1>1, <1>2 DEF ReaderType
<1>4. ~Defines(1) /\ \A e \in Entity : ~Builds(1, e) /\ (Ends(1, e) <=> e = channel[1].entity)
  BY <1>1 DEF Defines, Builds, Ends
<1>5. reader.synced = SyncedAt(2)
  BY <1>1, <1>4, SyncedAtSecond
<1>. QED BY <1>1, <1>3, <1>4, <1>5, ReadKeeps

-----------------------------------------------------------------------------
(* Theorems *)

LEMMA InitInv == ASSUME Init PROVE IInv
<1>1. channel = << >> /\ Len(channel) = 0 /\ Unread = {}
  BY DEF Init, Unread
<1>2. TypeOK
  <2>1. << >> \in Seq(Block) /\ << >> \in Seq(Template) /\ << >> \in Seq(Seq(Component))
    OBVIOUS
  <2>2. 0 \in 0 .. MaxBlocks
    BY SyncAssumption
  <2>. QED BY <2>1, <2>2 DEF Init, TypeOK
<1>3. Indexed
  BY DEF Init, Indexed, TablesAgree
<1>4. InOrder /\ Resolved
  BY <1>1 DEF Init, InOrder, Resolved
<1>5. Synced
  <2>1. SyncedAt(1) = {}
    BY DEF Init, SyncedAt
  <2>. QED BY <1>1, <2>1 DEF Init, Synced
<1>6. Alive
  <2>1. \A e \in Entity : GoneAt(1, e)
    BY DEF Init, GoneAt
  <2>. QED BY <1>1, <2>1 DEF Init, Alive
<1>7. SameTemplate /\ NeverLost
  BY DEF Init, SameTemplate, NeverLost
<1>. QED BY <1>2, <1>3, <1>4, <1>5, <1>6, <1>7 DEF IInv

LEMMA StutterKeeps ==
  ASSUME IInv, UNCHANGED vars
  PROVE  IInv'
<1>1. UNCHANGED <<writer, channel, written, reader, fault>>
  BY DEF vars
<1>2. TypeOK'
  BY <1>1 DEF IInv, TypeOK, Block
<1>3. Indexed' /\ NeverLost'
  BY <1>1 DEF IInv, Indexed, TablesAgree, NeverLost
<1>4. InOrder' /\ Resolved'
  BY <1>1 DEF IInv, InOrder, Resolved, Unread, Defines, Refers
<1>5. \A i : SyncedAt(i)' = SyncedAt(i)
  BY <1>1 DEF SyncedAt, Defines
<1>6. \A i, e : GoneAt(i, e)' <=> GoneAt(i, e)
  BY <1>1 DEF GoneAt, Builds, Ends
<1>7. Synced'
  <2>1. \A i \in Unread : Defines(i) => DescribedAt(i)'
    BY <1>1, <1>5, DescribedMoved DEF IInv, Synced
  <2>. QED BY <1>1, <1>5, <2>1 DEF IInv, Synced, Unread, Defines
<1>8. Alive'
  BY <1>1, <1>5, <1>6 DEF IInv, Alive, Unread, Defines
<1>9. SameTemplate'
  BY <1>1 DEF IInv, SameTemplate, Unread, Builds, Ends
<1>. QED BY <1>2, <1>3, <1>4, <1>7, <1>8, <1>9 DEF IInv

LEMMA StepKeeps ==
  ASSUME IInv, ~Retemplates, [Next]_vars
  PROVE  IInv'
<1>1. ASSUME NEW e \in Entity, NEW m \in Template, Construct(e, m) PROVE IInv'
  BY <1>1, ReferenceKeeps, DefinitionKeeps
<1>2. CASE UNCHANGED vars
  BY <1>2, StutterKeeps
<1>. QED BY <1>1, <1>2, ReplicateKeeps, DestroyKeeps, SkipConstructKeeps, ReadConstructKeeps,
       ReadReplicateKeeps, ReadDestroyKeeps DEF Next

\* Unless the server gives a living entity another template, the blocks between the
\* two ends are what the reader needs next, in order (serializeConstruction against
\* deserializeTemplate, Connection.cpp:182-547).
THEOREM SyncInvariant == ASSUME ~Retemplates PROVE Spec => []IInv
<1>1. Init => IInv
  BY InitInv
<1>2. IInv /\ [Next]_vars => IInv'
  BY StepKeeps
<1>. QED BY <1>1, <1>2, PTL DEF Spec

\* The tables of both ends and the blocks between them keep their types.
THEOREM TypeCorrect == ASSUME ~Retemplates PROVE Spec => []TypeOK
<1>1. IInv => TypeOK
  BY DEF IInv
<1>. QED BY <1>1, SyncInvariant, PTL

\* The assertions of the reader never fail and it takes no byte for another
\* (Connection.cpp:195, 206, 240, 599), for any templates and any stream.
THEOREM StreamNeverLost == ASSUME ~Retemplates PROVE Spec => []NeverLost
<1>1. IInv => NeverLost
  BY DEF IInv
<1>. QED BY <1>1, SyncInvariant, PTL

\* The reader's tables are a prefix of the writer's (syncReadTemplate and
\* syncReadComponent against serializeConstruction).
THEOREM TablesAlwaysAgree == ASSUME ~Retemplates PROVE Spec => []TablesAgree
<1>1. IInv => TablesAgree
  BY DEF IInv, Indexed
<1>. QED BY <1>1, SyncInvariant, PTL

\* A stream read to its end leaves both ends with the same templates, components and
\* entities.
THEOREM ReaderCatchesUp == ASSUME ~Retemplates PROVE Spec => []CaughtUp
<1>1. ASSUME IInv, channel = << >>
      PROVE  /\ Len(reader.names) = writer.count
             /\ reader.synced = writer.synced
             /\ reader.entity = writer.entity
  <2>1. Len(channel) = 0 /\ Unread = {}
    BY <1>1 DEF Unread
  <2>2. reader \in ReaderType /\ writer \in WriterType
    BY <1>1 DEF IInv, TypeOK, ReaderType, WriterType
  <2>3. Len(reader.names) = writer.count
    <3>1. reader.names \in Seq(Template) /\ writer.count \in Nat
      BY <2>2 DEF ReaderType, WriterType
    <3>2. Len(reader.names) <= writer.count
      BY <1>1 DEF IInv, Indexed
    <3>3. ~\E k \in Len(reader.names) + 1 .. writer.count : TRUE
      BY <1>1, <2>1 DEF IInv, InOrder
    <3>4. Len(reader.names) < writer.count => writer.count \in Len(reader.names) + 1 .. writer.count
      BY <3>1
    <3>. QED BY <3>1, <3>2, <3>3, <3>4
  <2>4. reader.synced = writer.synced
    <3>1. writer.synced = SyncedAt(1) /\ SyncedAt(1) = reader.synced
      BY <1>1, <2>1 DEF IInv, Synced, SyncedAt
    <3>. QED BY <3>1
  <2>5. ASSUME NEW e \in Entity PROVE reader.entity[e] = writer.entity[e]
    <3>1. writer.entity[e] = NoTemplate <=> GoneAt(1, e)
      BY <1>1, <2>1 DEF IInv, Alive
    <3>2. GoneAt(1, e) <=> reader.entity[e] = NoTemplate
      BY DEF GoneAt
    <3>3. writer.entity[e] # NoTemplate /\ reader.entity[e] # NoTemplate
            => reader.entity[e] = writer.entity[e]
      BY <1>1, <2>1 DEF IInv, SameTemplate
    <3>. QED BY <3>1, <3>2, <3>3
  <2>6. reader.entity = writer.entity
    BY <2>2, <2>5 DEF ReaderType, WriterType
  <2>. QED BY <2>3, <2>4, <2>6
<1>2. IInv => CaughtUp
  BY <1>1 DEF CaughtUp
<1>. QED BY <1>2, SyncInvariant, PTL
=============================================================================
