-------------------------- MODULE ParseReplayProofs --------------------------
(***************************************************************************)
(* Readers and the parsers that drive them, for any number of them and any *)
(* recordings.                                                             *)
(*                                                                         *)
(* When the calls of getData and afterParse do not overlap, the count of   *)
(* readers is exact and a reader never sees data that is missing or half   *)
(* read.  DataHeld is not inductive: it says nothing of a thread between   *)
(* two steps of a call.  Between says what such a thread knows, and Alone  *)
(* that there is at most one.                                              *)
(*                                                                         *)
(* However the calls overlap, a parser parses the packets of the files in  *)
(* order (ReadInv relates what was parsed to the reader's place), and the  *)
(* objects of a unit get what was recorded for them (QueueInv relates the  *)
(* queue and the unit's data to what was parsed).                          *)
(***************************************************************************)
EXTENDS ParseReplay, FiniteSetTheorems, SequenceTheorems, NaturalsInduction,
        WellFoundedInduction, TLAPS

-----------------------------------------------------------------------------
(* Readers, one getData or afterParse at a time *)

\* At most one thread is inside getData or afterParse.
Alone == \A r, u \in Reader : step[r] \in Inside /\ step[u] \in Inside => r = u

\* What a thread in the middle of a call relies on.
Between ==
  /\ \A r \in Reader :
       /\ step[r] \in {"counting", "releasing"} => counted[r] = refCount[at[r].segment]
       /\ step[r] = "releasing" => counted[r] > 0
  /\ \A r \in Reader : step[r] = "load" => zlibData[at[r].segment] = "none"
  /\ \A s \in DOMAIN recording :
       zlibData[s] = "sized" => \E r \in Reader : at[r].segment = s /\ step[r] = "sized"

IInv == ReaderTypeOK /\ Alone /\ Between /\ DataHeld /\ AfterParseCounted

-----------------------------------------------------------------------------
(* Counting holders *)

LEMMA HoldersFinite ==
  ASSUME NEW s
  PROVE  IsFiniteSet(Holders(s)) /\ Cardinality(Holders(s)) \in Nat
<1>1. IsFiniteSet(Reader)
  BY ReaderAssumption
<1>2. Holders(s) \subseteq Reader
  BY DEF Holders
<1>. QED BY <1>1, <1>2, FS_Subset, FS_CardinalityType

\* A thread that starts to hold a file adds one to its holders.
LEMMA HolderAdded ==
  ASSUME NEW S, NEW T, NEW r, IsFiniteSet(S), r \notin S, T = S \cup {r}
  PROVE  Cardinality(T) = Cardinality(S) + 1
BY FS_AddElement

\* One that stops takes one away.
LEMMA HolderRemoved ==
  ASSUME NEW S, NEW T, NEW r, IsFiniteSet(S), r \in S, T = S \ {r}
  PROVE  Cardinality(T) = Cardinality(S) - 1
BY FS_RemoveElement

-----------------------------------------------------------------------------

LEMMA InitIInv == ReaderInit => IInv
<1>. SUFFICES ASSUME ReaderInit PROVE IInv
  OBVIOUS
<1>. USE DEF ReaderInit
<1>1. ReaderTypeOK
  BY ReaderAssumption DEF ReaderTypeOK, Place, Start, Steps
<1>2. Alone /\ Between /\ AfterParseCounted
  BY DEF Alone, Between, Inside, AfterParseCounted
<1>3. ASSUME NEW s \in DOMAIN recording PROVE Holders(s) = {}
  BY DEF Holders, Holding
<1>4. DataHeld
  BY <1>3, FS_EmptySet DEF DataHeld, CountExact, DroppedWithLast, WholeWhenRead
<1>. QED BY <1>1, <1>2, <1>4 DEF IInv

\* A thread that holds a file is counted.
LEMMA Counted ==
  ASSUME IInv, NEW r \in Reader, step[r] \in Holding
  PROVE  refCount[at[r].segment] > 0
<1>1. r \in Holders(at[r].segment)
  BY DEF Holders
<1>2. Cardinality(Holders(at[r].segment)) > 0
  BY <1>1, HoldersFinite, FS_EmptySet
<1>. QED
  BY <1>2, HoldersFinite DEF IInv, ReaderTypeOK, Place, DataHeld, CountExact

-----------------------------------------------------------------------------
(* Steps that do not change who holds a file *)

LEMMA OpenFailsKeeps ==
  ASSUME IInv, Serialised, NEW r \in Reader, OpenFails(r)
  PROVE  IInv'
<1>. USE DEF OpenFails, Goto, files
<1>1. ReaderTypeOK'
  BY DEF IInv, ReaderTypeOK, Steps, Place, Between
<1>2. Alone'
  BY DEF IInv, ReaderTypeOK, Alone, Inside, Free
<1>3. Between'
  BY <1>1 DEF IInv, ReaderTypeOK, Place, Between, Alone, Inside, Free
<1>4. \A s : Holders(s)' = Holders(s)
  BY DEF IInv, ReaderTypeOK, Place, Holders, Holding
<1>5. CountExact'
  BY <1>4 DEF IInv, DataHeld, CountExact
<1>6. DroppedWithLast' /\ WholeWhenRead'
  BY <1>1, <1>3 DEF IInv, ReaderTypeOK, Place, DataHeld, DroppedWithLast, WholeWhenRead,
     Between, Alone, Inside
<1>7. AfterParseCounted'
  BY DEF IInv, ReaderTypeOK, AfterParseCounted
<1>. QED BY <1>1, <1>2, <1>3, <1>5, <1>6, <1>7 DEF IInv, DataHeld

LEMMA ReadCountKeeps ==
  ASSUME IInv, Serialised, NEW r \in Reader, ReadCount(r)
  PROVE  IInv'
<1>. USE DEF ReadCount, Goto, files
<1>1. ReaderTypeOK'
  BY DEF IInv, ReaderTypeOK, Steps, Place, Between
<1>2. Alone'
  BY DEF IInv, ReaderTypeOK, Alone, Inside, Free
<1>3. Between'
  BY <1>1 DEF IInv, ReaderTypeOK, Place, Between, Alone, Inside, Free
<1>4. \A s : Holders(s)' = Holders(s)
  BY DEF IInv, ReaderTypeOK, Place, Holders, Holding
<1>5. CountExact'
  BY <1>4 DEF IInv, DataHeld, CountExact
<1>6. DroppedWithLast' /\ WholeWhenRead'
  BY <1>1, <1>3 DEF IInv, ReaderTypeOK, Place, DataHeld, DroppedWithLast, WholeWhenRead,
     Between, Alone, Inside
<1>7. AfterParseCounted'
  BY DEF IInv, ReaderTypeOK, AfterParseCounted
<1>. QED BY <1>1, <1>2, <1>3, <1>5, <1>6, <1>7 DEF IInv, DataHeld

LEMMA LookForDataKeeps ==
  ASSUME IInv, Serialised, NEW r \in Reader, LookForData(r)
  PROVE  IInv'
<1>. USE DEF LookForData, Goto, files
<1>1. ReaderTypeOK'
  BY DEF IInv, ReaderTypeOK, Steps, Place, Between
<1>2. Alone'
  BY DEF IInv, ReaderTypeOK, Alone, Inside, Free
<1>3. Between'
  BY <1>1 DEF IInv, ReaderTypeOK, Place, Between, Alone, Inside, Free
<1>4. \A s : Holders(s)' = Holders(s)
  BY DEF IInv, ReaderTypeOK, Place, Holders, Holding
<1>5. CountExact'
  BY <1>4 DEF IInv, DataHeld, CountExact
<1>6. DroppedWithLast' /\ WholeWhenRead'
  BY <1>1, <1>3, Counted DEF IInv, ReaderTypeOK, Place, DataHeld, DroppedWithLast, WholeWhenRead,
     Between, Alone, Inside, Holding
<1>7. AfterParseCounted'
  BY DEF IInv, ReaderTypeOK, AfterParseCounted
<1>. QED BY <1>1, <1>2, <1>3, <1>5, <1>6, <1>7 DEF IInv, DataHeld

LEMMA ResizeDataKeeps ==
  ASSUME IInv, Serialised, NEW r \in Reader, ResizeData(r)
  PROVE  IInv'
<1>. USE DEF ResizeData, Goto, files
<1>1. ReaderTypeOK'
  BY DEF IInv, ReaderTypeOK, Steps, Place, Between
<1>2. Alone'
  BY DEF IInv, ReaderTypeOK, Alone, Inside, Free
<1>3. Between'
  BY <1>1 DEF IInv, ReaderTypeOK, Place, Between, Alone, Inside, Free
<1>4. \A s : Holders(s)' = Holders(s)
  BY DEF IInv, ReaderTypeOK, Place, Holders, Holding
<1>5. CountExact'
  BY <1>4 DEF IInv, DataHeld, CountExact
<1>6. DroppedWithLast' /\ WholeWhenRead'
  <2>1. step[r] = "load" /\ refCount[at[r].segment] > 0 /\ at[r].segment \in DOMAIN recording
    <3>1. step[r] = "load"
      OBVIOUS
    <3>2. refCount[at[r].segment] > 0
      BY <3>1, Counted DEF Holding
    <3>3. at[r].segment \in DOMAIN recording
      BY ReaderAssumption DEF IInv, ReaderTypeOK, Place
    <3>. QED BY <3>1, <3>2, <3>3
  <2>2. DroppedWithLast'
    BY <2>1 DEF IInv, ReaderTypeOK, DataHeld, DroppedWithLast
  <2>3. ASSUME NEW u \in Reader,
               step'[u] \in {"construct", "reading", "release", "releasing"}
        PROVE  zlibData'[at'[u].segment] = "full"
    <3>1. u # r /\ step'[u] = step[u] /\ at' = at
      BY <2>1, <2>3 DEF IInv, ReaderTypeOK
    <3>2. zlibData[at[u].segment] = "full" /\ zlibData[at[r].segment] = "none"
      BY <2>1, <2>3, <3>1 DEF IInv, DataHeld, WholeWhenRead, Between
    <3>. QED BY <3>1, <3>2 DEF IInv, ReaderTypeOK
  <2>. QED BY <2>2, <2>3 DEF WholeWhenRead
<1>7. AfterParseCounted'
  BY DEF IInv, ReaderTypeOK, AfterParseCounted
<1>. QED BY <1>1, <1>2, <1>3, <1>5, <1>6, <1>7 DEF IInv, DataHeld

LEMMA ReadDataKeeps ==
  ASSUME IInv, Serialised, NEW r \in Reader, ReadData(r)
  PROVE  IInv'
<1>. USE DEF ReadData, Goto, files
<1>1. ReaderTypeOK'
  BY DEF IInv, ReaderTypeOK, Steps, Place, Between
<1>2. Alone'
  BY DEF IInv, ReaderTypeOK, Alone, Inside, Free
<1>3. Between'
  BY <1>1 DEF IInv, ReaderTypeOK, Place, Between, Alone, Inside, Free
<1>4. \A s : Holders(s)' = Holders(s)
  BY DEF IInv, ReaderTypeOK, Place, Holders, Holding
<1>5. CountExact'
  BY <1>4 DEF IInv, DataHeld, CountExact
<1>6. DroppedWithLast' /\ WholeWhenRead'
  <2>1. step[r] = "sized" /\ refCount[at[r].segment] > 0 /\ at[r].segment \in DOMAIN recording
    <3>1. step[r] = "sized"
      OBVIOUS
    <3>2. refCount[at[r].segment] > 0
      BY <3>1, Counted DEF Holding
    <3>3. at[r].segment \in DOMAIN recording
      BY ReaderAssumption DEF IInv, ReaderTypeOK, Place
    <3>. QED BY <3>1, <3>2, <3>3
  <2>2. DroppedWithLast'
    BY <2>1 DEF IInv, ReaderTypeOK, DataHeld, DroppedWithLast
  <2>3. ASSUME NEW u \in Reader,
               step'[u] \in {"construct", "reading", "release", "releasing"}
        PROVE  zlibData'[at'[u].segment] = "full"
    <3>1. CASE u = r
      BY <2>1, <3>1 DEF IInv, ReaderTypeOK
    <3>2. CASE u # r
      BY <2>3, <3>2 DEF IInv, ReaderTypeOK, Place, DataHeld, WholeWhenRead
    <3>. QED BY <3>1, <3>2
  <2>. QED BY <2>2, <2>3 DEF WholeWhenRead
<1>7. AfterParseCounted'
  BY DEF IInv, ReaderTypeOK, AfterParseCounted
<1>. QED BY <1>1, <1>2, <1>3, <1>5, <1>6, <1>7 DEF IInv, DataHeld

LEMMA ConstructKeeps ==
  ASSUME IInv, Serialised, NEW r \in Reader, Construct(r)
  PROVE  IInv'
<1>. USE DEF Construct, Goto, files
<1>1. ReaderTypeOK'
  BY DEF IInv, ReaderTypeOK, Steps, Place, Between
<1>2. Alone'
  BY DEF IInv, ReaderTypeOK, Alone, Inside, Free
<1>3. Between'
  BY <1>1 DEF IInv, ReaderTypeOK, Place, Between, Alone, Inside, Free
<1>4. \A s : Holders(s)' = Holders(s)
  BY DEF IInv, ReaderTypeOK, Place, Holders, Holding
<1>5. CountExact'
  BY <1>4 DEF IInv, DataHeld, CountExact
<1>6. DroppedWithLast' /\ WholeWhenRead'
  BY <1>1, <1>3 DEF IInv, ReaderTypeOK, Place, DataHeld, DroppedWithLast, WholeWhenRead,
     Between, Alone, Inside
<1>7. AfterParseCounted'
  BY DEF IInv, ReaderTypeOK, AfterParseCounted
<1>. QED BY <1>1, <1>2, <1>3, <1>5, <1>6, <1>7 DEF IInv, DataHeld

LEMMA EndOfSegmentKeeps ==
  ASSUME IInv, Serialised, NEW r \in Reader, EndOfSegment(r)
  PROVE  IInv'
<1>. USE DEF EndOfSegment, Goto, files
<1>0. at[r] \in Place /\ [at[r] EXCEPT !.closing = at[r].retry] \in Place
  BY DEF IInv, ReaderTypeOK, Place
<1>p. Place' = Place
  BY DEF Place
<1>1. ReaderTypeOK'
  BY <1>0, <1>p DEF IInv, ReaderTypeOK, Steps, Between
<1>2. Alone'
  BY DEF IInv, ReaderTypeOK, Alone, Inside, Free
<1>3. Between'
  BY <1>1 DEF IInv, ReaderTypeOK, Place, Between, Alone, Inside, Free
<1>4. \A s : Holders(s)' = Holders(s)
  BY DEF IInv, ReaderTypeOK, Place, Holders, Holding
<1>5. CountExact'
  BY <1>4 DEF IInv, DataHeld, CountExact
<1>6. DroppedWithLast' /\ WholeWhenRead'
  <2>1. DroppedWithLast'
    BY DEF IInv, DataHeld, DroppedWithLast
  <2>2. at' = [at EXCEPT ![r] = [at[r] EXCEPT !.closing = at[r].retry]]
    OBVIOUS
  <2>3. \A u \in Reader : at'[u].segment = at[u].segment
    BY <1>0, <2>2 DEF IInv, ReaderTypeOK, Place
  <2>. QED BY <2>1, <2>3 DEF IInv, ReaderTypeOK, DataHeld, WholeWhenRead
<1>7. AfterParseCounted'
  BY DEF IInv, ReaderTypeOK, AfterParseCounted
<1>. QED BY <1>1, <1>2, <1>3, <1>5, <1>6, <1>7 DEF IInv, DataHeld

LEMMA ReadPacketKeeps ==
  ASSUME IInv, Serialised, NEW r \in Reader, ReadPacket(r)
  PROVE  IInv'
<1>. USE DEF ReadPacket, Goto, files
<1>. PICK more \in BOOLEAN : Deliver(r, more)
  OBVIOUS
<1>a. at[r] \in Place /\ step[r] = "reading"
  BY DEF IInv, ReaderTypeOK, HasPacket
<1>b. TimeOf(r) \in Nat
  <2>1. at[r].next \in 1 .. Len(Segment(r)) /\ at[r].segment \in DOMAIN recording
    BY <1>a, ReaderAssumption DEF IInv, ReaderTypeOK, HasPacket, Segment, Place
  <2>2. Segment(r)[at[r].next].time \in Nat
    BY <2>1, ReaderAssumption DEF IInv, ReaderTypeOK, Segment
  <2>. QED BY <1>a, <2>2 DEF TimeOf, Place
<1>. PICK place : place = Past(r, more)
  OBVIOUS
<1>c. at' = [at EXCEPT ![r] = place]
  BY DEF Deliver
<1>d. place \in Place /\ place.segment = at[r].segment
  <2>1. at[r].next + 1 \in Nat \ {0}
    BY <1>a DEF Place
  <2>3. (~more) \in BOOLEAN
    BY Zenon
  <2>2. place = [at[r] EXCEPT !.next = at[r].next + 1, !.time = TimeOf(r), !.retry = FALSE,
                              !.closing = ~more]
    BY DEF Past
  <2>4. at[r] \in Place
    BY <1>a
  <2>. QED BY <1>b, <2>1, <2>2, <2>3, <2>4 DEF Place
<1>e. step' = step \/ step' = [step EXCEPT ![r] = "release"]
  BY DEF Deliver
<1>p. Place' = Place
  BY DEF Place
<1>1. ReaderTypeOK'
  BY <1>c, <1>d, <1>e, <1>p DEF IInv, ReaderTypeOK, Steps
<1>s. \A u \in Reader : at'[u].segment = at[u].segment
  BY <1>c, <1>d DEF IInv, ReaderTypeOK
<1>2. Alone'
  BY <1>a, <1>e DEF IInv, ReaderTypeOK, Alone, Inside
<1>3. Between'
  BY <1>a, <1>e, <1>s DEF IInv, ReaderTypeOK, Between
<1>4. \A s : Holders(s)' = Holders(s)
  BY <1>a, <1>e, <1>s DEF IInv, ReaderTypeOK, Holders, Holding
<1>5. CountExact'
  BY <1>4 DEF IInv, DataHeld, CountExact
<1>6. DroppedWithLast' /\ WholeWhenRead'
  BY <1>a, <1>e, <1>s DEF IInv, ReaderTypeOK, DataHeld, DroppedWithLast, WholeWhenRead
<1>7. AfterParseCounted'
  BY <1>e DEF IInv, ReaderTypeOK, AfterParseCounted
<1>. QED BY <1>1, <1>2, <1>3, <1>5, <1>6, <1>7 DEF IInv, DataHeld

-----------------------------------------------------------------------------
(* Steps by which a thread comes to hold a file, or stops *)

LEMMA StoreCountKeeps ==
  ASSUME IInv, Serialised, NEW r \in Reader, StoreCount(r)
  PROVE  IInv'
<1>. USE DEF StoreCount, Goto
<1>. DEFINE seg == at[r].segment
<1>0. seg \in DOMAIN recording /\ counted[r] = refCount[seg] /\ refCount[seg] \in Nat
  <2>1. seg \in DOMAIN recording
    BY ReaderAssumption DEF IInv, ReaderTypeOK, Place
  <2>. QED BY <2>1 DEF IInv, ReaderTypeOK, Between
<1>1. ReaderTypeOK'
  BY <1>0 DEF IInv, ReaderTypeOK, Steps, Place
<1>2. Alone'
  BY DEF IInv, ReaderTypeOK, Alone, Inside
<1>3. Between'
  BY <1>0 DEF IInv, ReaderTypeOK, Between, Alone, Inside
<1>4. r \notin Holders(seg) /\ Holders(seg)' = Holders(seg) \cup {r}
  BY DEF IInv, ReaderTypeOK, Holders, Holding
<1>5. \A s \in DOMAIN recording : s # seg => Holders(s)' = Holders(s)
  BY DEF IInv, ReaderTypeOK, Holders, Holding
<1>6. Cardinality(Holders(seg))' = Cardinality(Holders(seg)) + 1
  BY <1>4, HoldersFinite, HolderAdded, Zenon
<1>7. CountExact'
  <2>. SUFFICES ASSUME NEW s \in DOMAIN recording
                PROVE  refCount'[s] = Cardinality(Holders(s))' + failed[s]
    BY DEF CountExact
  <2>0. refCount[s] = Cardinality(Holders(s)) + failed[s] /\ failed[s] \in Nat
    BY DEF IInv, ReaderTypeOK, DataHeld, CountExact
  <2>1. CASE s = seg
    BY <1>0, <1>6, <2>0, <2>1, HoldersFinite DEF IInv, ReaderTypeOK
  <2>2. CASE s # seg
    BY <1>5, <2>0, <2>2 DEF IInv, ReaderTypeOK
  <2>. QED BY <2>1, <2>2
<1>8. DroppedWithLast' /\ WholeWhenRead'
  BY <1>0 DEF IInv, ReaderTypeOK, DataHeld, DroppedWithLast, WholeWhenRead
<1>9. AfterParseCounted'
  BY DEF IInv, ReaderTypeOK, AfterParseCounted
<1>. QED BY <1>1, <1>2, <1>3, <1>7, <1>8, <1>9 DEF IInv, DataHeld

LEMMA ConstructFailsKeeps ==
  ASSUME IInv, Serialised, NEW r \in Reader, ConstructFails(r)
  PROVE  IInv'
<1>. USE DEF ConstructFails, Goto
<1>. DEFINE seg == at[r].segment
<1>0. seg \in DOMAIN recording /\ failed[seg] \in Nat
  BY ReaderAssumption DEF IInv, ReaderTypeOK, Place
<1>1. ReaderTypeOK'
  BY <1>0 DEF IInv, ReaderTypeOK, Steps, Place
<1>2. Alone'
  BY DEF IInv, ReaderTypeOK, Alone, Inside
<1>3. Between'
  BY <1>0 DEF IInv, ReaderTypeOK, Between
<1>4. r \in Holders(seg) /\ Holders(seg)' = Holders(seg) \ {r}
  BY DEF IInv, ReaderTypeOK, Holders, Holding
<1>5. \A s \in DOMAIN recording : s # seg => Holders(s)' = Holders(s)
  BY DEF IInv, ReaderTypeOK, Holders, Holding
<1>6. Cardinality(Holders(seg))' = Cardinality(Holders(seg)) - 1
  BY <1>4, HoldersFinite, HolderRemoved, Zenon
<1>7. CountExact'
  <2>. SUFFICES ASSUME NEW s \in DOMAIN recording
                PROVE  refCount[s] = Cardinality(Holders(s))' + failed'[s]
    BY DEF CountExact
  <2>0. refCount[s] = Cardinality(Holders(s)) + failed[s] /\ failed[s] \in Nat
    BY DEF IInv, ReaderTypeOK, DataHeld, CountExact
  <2>1. CASE s = seg
    BY <1>0, <1>6, <2>0, <2>1, HoldersFinite DEF IInv, ReaderTypeOK
  <2>2. CASE s # seg
    BY <1>5, <2>0, <2>2 DEF IInv, ReaderTypeOK
  <2>. QED BY <2>1, <2>2
<1>8. DroppedWithLast' /\ WholeWhenRead'
  BY <1>0 DEF IInv, ReaderTypeOK, DataHeld, DroppedWithLast, WholeWhenRead
<1>9. AfterParseCounted'
  BY DEF IInv, ReaderTypeOK, AfterParseCounted
<1>. QED BY <1>1, <1>2, <1>3, <1>7, <1>8, <1>9 DEF IInv, DataHeld

LEMMA BeginReleaseKeeps ==
  ASSUME IInv, Serialised, NEW r \in Reader, BeginRelease(r)
  PROVE  IInv'
<1>. USE DEF Goto, files
<1>0. refCount[at[r].segment] > 0 /\ refCount[at[r].segment] \in Nat
  BY Counted, ReaderAssumption DEF BeginRelease, Holding, IInv, ReaderTypeOK, Place
<1>a. /\ step[r] = "release" /\ step' = [step EXCEPT ![r] = "releasing"]
      /\ counted' = [counted EXCEPT ![r] = refCount[at[r].segment]]
      /\ Free(r)
      /\ UNCHANGED <<recording, streaming, at, refCount, zlibData, failed>>
  BY <1>0 DEF BeginRelease
<1>1. ReaderTypeOK'
  BY <1>0, <1>a DEF IInv, ReaderTypeOK, Steps, Place
<1>2. Alone'
  BY <1>a DEF IInv, ReaderTypeOK, Alone, Inside, Free
<1>3. Between'
  BY <1>0, <1>a DEF IInv, ReaderTypeOK, Between
<1>4. \A s : Holders(s)' = Holders(s)
  BY <1>a DEF IInv, ReaderTypeOK, Holders, Holding
<1>5. CountExact'
  BY <1>4, <1>a DEF IInv, DataHeld, CountExact
<1>6. DroppedWithLast' /\ WholeWhenRead'
  BY <1>a DEF IInv, ReaderTypeOK, DataHeld, DroppedWithLast, WholeWhenRead
<1>7. AfterParseCounted'
  BY <1>a DEF IInv, ReaderTypeOK, AfterParseCounted
<1>. QED BY <1>1, <1>2, <1>3, <1>5, <1>6, <1>7 DEF IInv, DataHeld

LEMMA EndReleaseKeeps ==
  ASSUME IInv, Serialised, NEW r \in Reader, EndRelease(r)
  PROVE  IInv'
<1>. USE DEF Goto
<1>. PICK seg : seg = at[r].segment
  OBVIOUS
<1>0. /\ seg \in DOMAIN recording /\ at[r] \in Place /\ step[r] = "releasing"
      /\ counted[r] = refCount[seg] /\ refCount[seg] \in Nat /\ refCount[seg] > 0
  <2>1. seg \in DOMAIN recording
    BY ReaderAssumption DEF IInv, ReaderTypeOK, Place
  <2>. QED BY <2>1 DEF IInv, ReaderTypeOK, Between, EndRelease
<1>a. /\ refCount' = [refCount EXCEPT ![seg] = refCount[seg] - 1]
      /\ zlibData' = [zlibData EXCEPT ![seg] = IF refCount[seg] = 1 THEN "none" ELSE @]
      /\ UNCHANGED <<recording, streaming, counted, failed>>
  BY <1>0 DEF EndRelease
<1>b. PICK where \in {"ended", "count"}, place \in Place :
        step' = [step EXCEPT ![r] = where] /\ at' = [at EXCEPT ![r] = place]
  <2>1. CASE Done(r)
    BY <1>0, <2>1 DEF EndRelease, IInv, ReaderTypeOK
  <2>2. CASE ~Done(r)
    <3>1. seg + 1 \in 1 .. Len(recording)
      BY <1>0, <2>2, ReaderAssumption DEF Done, IInv, ReaderTypeOK, Place
    <3>2. Start \in Place
      BY <3>1, <1>0 DEF Start, Place
    <3>3. Advanced(r) \in Place
      BY <3>1, <3>2 DEF Advanced, Place
    <3>. QED BY <2>2, <3>3 DEF EndRelease
  <2>. QED BY <2>1, <2>2
<1>p. Place' = Place
  BY <1>a DEF Place
<1>1. ReaderTypeOK'
  BY <1>0, <1>a, <1>b, <1>p DEF IInv, ReaderTypeOK, Steps
<1>2. Alone'
  BY <1>b DEF IInv, ReaderTypeOK, Alone, Inside
<1>3. Between'
  BY SMTT(30), <1>0, <1>a, <1>b DEF IInv, ReaderTypeOK, Place, Between, Alone, Inside
<1>c. /\ step'[r] \notin Holding
      /\ \A u \in Reader : u # r => at'[u] = at[u] /\ step'[u] = step[u]
  BY <1>b DEF IInv, ReaderTypeOK, Holding
<1>4. r \in Holders(seg) /\ Holders(seg)' = Holders(seg) \ {r}
  BY <1>0, <1>c, Zenon DEF Holders, Holding
<1>5. \A s \in DOMAIN recording : s # seg => Holders(s)' = Holders(s)
  BY <1>c, Zenon DEF Holders
<1>6. Cardinality(Holders(seg))' = Cardinality(Holders(seg)) - 1
  BY <1>4, HoldersFinite, HolderRemoved, Zenon
<1>7. CountExact'
  <2>. SUFFICES ASSUME NEW s \in DOMAIN recording
                PROVE  refCount'[s] = Cardinality(Holders(s))' + failed[s]
    BY <1>a DEF CountExact
  <2>0. refCount[s] = Cardinality(Holders(s)) + failed[s] /\ failed[s] \in Nat
    BY DEF IInv, ReaderTypeOK, DataHeld, CountExact
  <2>1. CASE s = seg
    <3>1. refCount'[seg] = refCount[seg] - 1
      BY <1>0, <1>a DEF IInv, ReaderTypeOK
    <3>2. Cardinality(Holders(seg)) \in Nat
      BY HoldersFinite
    <3>. QED BY <1>6, <2>0, <2>1, <3>1, <3>2
  <2>2. CASE s # seg
    BY <1>5, <1>a, <2>0, <2>2 DEF IInv, ReaderTypeOK
  <2>. QED BY <2>1, <2>2
<1>8. DroppedWithLast'
  BY <1>0, <1>a DEF IInv, ReaderTypeOK, DataHeld, DroppedWithLast
<1>9. WholeWhenRead'
  <2>. SUFFICES ASSUME NEW u \in Reader,
                       step'[u] \in {"construct", "reading", "release", "releasing"}
                PROVE  zlibData'[at'[u].segment] = "full"
    BY DEF WholeWhenRead
  <2>1. /\ u # r /\ at'[u] = at[u] /\ step'[u] = step[u]
        /\ zlibData[at[u].segment] = "full" /\ at[u].segment \in DOMAIN recording
    BY <1>b, ReaderAssumption DEF IInv, ReaderTypeOK, DataHeld, WholeWhenRead, Place
  <2>2. CASE at[u].segment # seg
    BY <1>a, <2>1, <2>2 DEF IInv, ReaderTypeOK
  <2>3. CASE at[u].segment = seg
    <3>1. u \in Holders(seg)'
      BY <1>4, <2>1, <2>3 DEF Holders, Holding
    <3>2. Cardinality(Holders(seg))' > 0
      BY <1>4, <3>1, HoldersFinite, FS_RemoveElement, FS_EmptySet, FS_CardinalityType, FS_Subset
    <3>3. failed[seg] \in Nat /\ refCount[seg] = Cardinality(Holders(seg)) + failed[seg]
      BY <1>0 DEF IInv, ReaderTypeOK, DataHeld, CountExact
    <3>4. refCount[seg] # 1
      BY <1>6, <3>2, <3>3, HoldersFinite
    <3>. QED BY <1>0, <1>a, <2>1, <2>3, <3>4 DEF IInv, ReaderTypeOK
  <2>. QED BY <2>2, <2>3
<1>10. AfterParseCounted'
  BY <1>b DEF IInv, ReaderTypeOK, AfterParseCounted
<1>. QED BY <1>1, <1>2, <1>3, <1>7, <1>8, <1>9, <1>10 DEF IInv, DataHeld

-----------------------------------------------------------------------------

LEMMA StutterKeeps ==
  ASSUME IInv, UNCHANGED readerVars
  PROVE  IInv'
<1>. USE DEF readerVars, files
<1>1. ReaderTypeOK' /\ Alone' /\ Between' /\ AfterParseCounted'
  BY DEF IInv, ReaderTypeOK, Place, Alone, Between, AfterParseCounted
<1>2. \A s : Holders(s)' = Holders(s)
  BY DEF Holders
<1>3. DataHeld'
  BY <1>2 DEF IInv, DataHeld, CountExact, DroppedWithLast, WholeWhenRead
<1>. QED BY <1>1, <1>3 DEF IInv

LEMMA StepKeeps ==
  ASSUME IInv, Serialised, [ReaderNext]_readerVars
  PROVE  IInv'
<1>1. ASSUME NEW r \in Reader, FileStep(r) PROVE IInv'
  BY <1>1, OpenFailsKeeps, ReadCountKeeps, StoreCountKeeps, LookForDataKeeps,
     ResizeDataKeeps, ReadDataKeeps, ConstructKeeps, ConstructFailsKeeps,
     EndOfSegmentKeeps, BeginReleaseKeeps, EndReleaseKeeps DEF FileStep
<1>. QED BY <1>1, ReadPacketKeeps, StutterKeeps DEF ReaderNext

\* The invariant holds of any number of threads whose calls do not overlap.
THEOREM ReaderInvariant == ASSUME Serialised PROVE ReaderSpec => []IInv
<1>1. ReaderInit => IInv
  BY InitIInv
<1>2. IInv /\ [ReaderNext]_readerVars => IInv'
  BY StepKeeps
<1>. QED BY <1>1, <1>2, PTL DEF ReaderSpec

\* getData and afterParse, one call at a time: the count of readers of a file is
\* exact, its data goes with the last one and is whole while one reads it.
THEOREM DataHeldAlways == ASSUME Serialised PROVE ReaderSpec => []DataHeld
<1>1. IInv => DataHeld
  BY DEF IInv
<1>. QED BY <1>1, ReaderInvariant, PTL

\* afterParse, one call at a time: its assertion that ref_count > 0 never fails, which
\* the overlapping calls of two threads make false.
THEOREM AfterParseNeverAsserts == ASSUME Serialised PROVE ReaderSpec => []AfterParseCounted
<1>1. IInv => AfterParseCounted
  BY DEF IInv
<1>. QED BY <1>1, ReaderInvariant, PTL

-----------------------------------------------------------------------------
(* Parsers are readers *)

\* A parser's step is a step of its reader, which gives it a packet and goes on
\* unless the packet ended the replay.
LEMMA StepReads ==
  ASSUME [Next]_vars
  PROVE  [ReaderNext]_readerVars
<1>1. ASSUME NEW p \in Parser, ParseNext(p) PROVE ReaderNext
  <2>1. \E more \in BOOLEAN : Deliver(p, more)
    <3>1. (Segment(p)[at[p].next].type # "end") \in BOOLEAN
      BY Zenon
    <3>. QED BY <1>1, <3>1, Zenon DEF ParseNext
  <2>2. ReadPacket(p)
    BY <1>1, <2>1 DEF ParseNext, ReadPacket
  <2>. QED BY <2>2, ParserAssumption DEF ReaderNext
<1>2. ASSUME NEW p \in Parser, FileStep(p) PROVE ReaderNext
  BY <1>2, ParserAssumption DEF ReaderNext
<1>3. CASE UNCHANGED vars
  BY <1>3 DEF vars
<1>. QED BY <1>1, <1>2, <1>3 DEF Next, Step

\* LoadFromReader drives getNextPacket, load_replay, getData and afterParse only as
\* ReplayReader describes: every run of the parsers is a run of its readers.
THEOREM ParsersAreReaders == Spec => ReaderSpec
<1>1. Init => ReaderInit
  BY DEF Init
<1>. QED BY <1>1, StepReads, PTL DEF Spec, ReaderSpec

\* While any number of threads parse one replay, one getData or afterParse at a time,
\* the data of a file is counted exactly, kept whole while it is read and dropped
\* with its last reader.
THEOREM DataHeldWhileParsing == ASSUME Serialised PROVE Spec => []DataHeld
BY ParsersAreReaders, DataHeldAlways, PTL

\* ... and the assertion of afterParse never fails.
THEOREM ParsersNeverAssert == ASSUME Serialised PROVE Spec => []AfterParseCounted
BY ParsersAreReaders, AfterParseNeverAsserts, PTL

-----------------------------------------------------------------------------
(* Sequences: induction, FlattenSeq and Kept *)

Less == {ij \in Nat \X Nat : ij[1] < ij[2]}

LowestOf(S) == CHOOSE x \in S : \A y \in S : x <= y

LEMMA LeastNat ==
  ASSUME NEW S \in SUBSET Nat, S # {}
  PROVE  LowestOf(S) \in S /\ \A y \in S : LowestOf(S) <= y
<1>1. IsWellFoundedOn(Less, Nat)
  BY NatLessThanWellFounded, Zenon DEF OpToRel, Less
<1>2. PICK x \in S : \A y \in S : ~(<<y, x>> \in Less)
  BY <1>1, WFMin, Zenon
<1>3. \A y \in S : ~(y < x)
  BY <1>2 DEF Less
<1>4. \A y \in S : x <= y
  BY <1>3
<1>. QED BY <1>4, Zenon DEF LowestOf

LEMMA NatInduct ==
  ASSUME NEW S \in SUBSET Nat, 0 \in S, \A n \in S : n + 1 \in S
  PROVE  S = Nat
<1> DEFINE rest == Nat \ S
           low == LowestOf(rest)
<1>1. ASSUME rest # {} PROVE FALSE
  <2>1. low \in rest /\ \A y \in rest : low <= y
    <3>. HIDE DEF low
    <3>. QED BY <1>1, LeastNat DEF low
  <2>. HIDE DEF low
  <2>2. low \in Nat /\ low # 0 /\ low \notin S
    BY <2>1
  <2>3. low - 1 \in Nat /\ low - 1 \notin rest
    BY <2>1, <2>2
  <2>4. low - 1 \in S /\ (low - 1) + 1 = low
    BY <2>2, <2>3
  <2>. QED BY <2>2, <2>4
<1>. QED BY <1>1

LEMMA ConcatThree ==
  ASSUME NEW S
  PROVE  \A a, b, c \in Seq(S) : (a \o b) \o c = a \o (b \o c)
BY ConcatAssociative

LEMMA ConcatAppend ==
  ASSUME NEW S, NEW s \in Seq(S), NEW t \in Seq(S), NEW x \in S
  PROVE  s \o Append(t, x) = Append(s \o t, x)
<1>1. <<x>> \in Seq(S) /\ s \o t \in Seq(S)
  BY ConcatProperties
<1>2. Append(t, x) = t \o <<x>> /\ Append(s \o t, x) = (s \o t) \o <<x>>
  BY <1>1, AppendIsConcat
<1>. QED BY <1>1, <1>2, ConcatAssociative

LEMMA SubSeqAppend ==
  ASSUME NEW S, NEW s \in Seq(S), NEW n \in 1 .. Len(s)
  PROVE  /\ SubSeq(s, 1, n - 1) \in Seq(S) /\ s[n] \in S
         /\ SubSeq(s, 1, n) = Append(SubSeq(s, 1, n - 1), s[n])
<1>1. Len(s) \in Nat /\ \A i \in 1 .. Len(s) : s[i] \in S
  BY LenProperties, ElementOfSeq
<1>2. SubSeq(s, 1, n) = SubSeq(s, 1, n - 1) \o << s[n] >>
  BY <1>1, SubSeqRecursiveSecond
<1>3. SubSeq(s, 1, n - 1) \in Seq(S)
  BY <1>1, SubSeqProperties
<1>. QED BY <1>1, <1>2, <1>3, AppendIsConcat

\* A set that has the empty sequence and, with a sequence, any longer by one element
\* has all sequences.
LEMMA SeqInduct ==
  ASSUME NEW S, NEW I \in SUBSET Seq(S), << >> \in I,
         \A s \in I, x \in S : Append(s, x) \in I
  PROVE  I = Seq(S)
<1> DEFINE N == {n \in Nat : \A s \in Seq(S) : Len(s) = n => s \in I}
<1>1. 0 \in N
  BY EmptySeq
<1>2. ASSUME NEW n \in N PROVE n + 1 \in N
  <2>. SUFFICES ASSUME NEW s \in Seq(S), Len(s) = n + 1 PROVE s \in I
    OBVIOUS
  <2>1. s # << >>
    BY EmptySeq
  <2>2. PICK t \in Seq(S), x \in S : s = Append(t, x)
    BY <2>1, SequenceEmptyOrAppend
  <2>3. Len(t) \in Nat /\ Len(s) = Len(t) + 1
    BY <2>2, LenProperties, AppendProperties
  <2>4. Len(t) = n
    BY <2>3
  <2>. QED BY <2>2, <2>4
<1>3. N = Nat
  <2>. HIDE DEF N
  <2>1. N \in SUBSET Nat
    BY DEF N
  <2>. QED BY <1>1, <1>2, <2>1, NatInduct
<1>. QED BY <1>3, LenProperties

\* The loop of FlattenSeq, for the first n sequences of ss.
Flattened(ss, f, n) == [i \in 1 .. n |-> IF i = 1 THEN ss[i] ELSE f[i - 1] \o ss[i]]

Flat(ss) == CHOOSE f : f = Flattened(ss, f, Len(ss))

LEMMA FlatDefined ==
  ASSUME NEW ss, Len(ss) \in Nat
  PROVE  Flat(ss) = Flattened(ss, Flat(ss), Len(ss))
<1> DEFINE N == {n \in Nat : \E f : f = Flattened(ss, f, n)}
<1>1. 0 \in N
  <2> DEFINE f == [i \in 1 .. 0 |-> i]
  <2>1. f = Flattened(ss, f, 0)
    BY DEF Flattened
  <2>. HIDE DEF f
  <2>. QED BY <2>1
<1>2. ASSUME NEW n \in N PROVE n + 1 \in N
  <2>1. PICK f : f = Flattened(ss, f, n)
    OBVIOUS
  <2> DEFINE top == IF n + 1 = 1 THEN ss[n + 1] ELSE f[n] \o ss[n + 1]
             g == [i \in 1 .. n + 1 |-> IF i = n + 1 THEN top ELSE f[i]]
  <2>2. ASSUME NEW i \in 1 .. n + 1
        PROVE  g[i] = IF i = 1 THEN ss[i] ELSE g[i - 1] \o ss[i]
    <3>1. CASE i = n + 1
      <4>. HIDE DEF top
      <4>1. g[i] = top
        BY <3>1
      <4>2. i # 1 => i - 1 \in 1 .. n + 1 /\ i - 1 # n + 1 /\ i - 1 = n
        BY <3>1
      <4>3. i # 1 => g[i - 1] = f[n]
        BY <4>2
      <4>. QED BY <3>1, <4>1, <4>3 DEF top
    <3>2. CASE i # n + 1
      <4>1. i \in 1 .. n /\ (i # 1 => i - 1 \in 1 .. n)
        BY <3>2
      <4>2. g[i] = f[i] /\ (i # 1 => g[i - 1] = f[i - 1])
        <5>. HIDE DEF top
        <5>. QED BY <3>2, <4>1
      <4>3. f[i] = IF i = 1 THEN ss[i] ELSE f[i - 1] \o ss[i]
        BY <2>1, <4>1 DEF Flattened
      <4>. QED BY <4>2, <4>3
    <3>. QED BY <3>1, <3>2
  <2>3. g = [i \in 1 .. n + 1 |-> g[i]]
    OBVIOUS
  <2>. HIDE DEF g
  <2>4. g = Flattened(ss, g, n + 1)
    BY <2>2, <2>3 DEF Flattened
  <2>. QED BY <2>4
<1>3. N = Nat
  <2>. HIDE DEF N
  <2>1. N \in SUBSET Nat
    BY DEF N
  <2>. QED BY <1>1, <1>2, <2>1, NatInduct
<1>4. \E f : f = Flattened(ss, f, Len(ss))
  BY <1>3
<1>. QED BY <1>4, Zenon DEF Flat

LEMMA FlatSteps ==
  ASSUME NEW ss, Len(ss) \in Nat
  PROVE  \A i \in 1 .. Len(ss) :
           Flat(ss)[i] = IF i = 1 THEN ss[i] ELSE Flat(ss)[i - 1] \o ss[i]
<1> DEFINE f == Flat(ss)
<1>1. f = [i \in 1 .. Len(ss) |-> IF i = 1 THEN ss[i] ELSE f[i - 1] \o ss[i]]
  BY FlatDefined, Zenon DEF Flattened
<1>. HIDE DEF f
<1>2. \A i \in 1 .. Len(ss) : f[i] = IF i = 1 THEN ss[i] ELSE f[i - 1] \o ss[i]
  BY <1>1, Zenon
<1>. QED BY <1>2 DEF f

LEMMA FlattenIsFlat ==
  ASSUME NEW ss, Len(ss) \in Nat, Len(ss) # 0
  PROVE  FlattenSeq(ss) = Flat(ss)[Len(ss)]
BY DEF FlattenSeq, Flat, Flattened

\* Sequences that begin alike are flattened alike.
LEMMA FlatAlike ==
  ASSUME NEW ss, NEW tt, Len(ss) \in Nat, Len(tt) \in Nat,
         NEW n \in Nat, n <= Len(ss), n <= Len(tt), \A i \in 1 .. n : ss[i] = tt[i]
  PROVE  \A i \in 1 .. n : Flat(ss)[i] = Flat(tt)[i]
<1> DEFINE N == {i \in Nat : i \in 1 .. n => Flat(ss)[i] = Flat(tt)[i]}
<1>1. 0 \in N
  OBVIOUS
<1>2. ASSUME NEW i \in N PROVE i + 1 \in N
  <2>. SUFFICES ASSUME i + 1 \in 1 .. n PROVE Flat(ss)[i + 1] = Flat(tt)[i + 1]
    OBVIOUS
  <2>1. i + 1 \in 1 .. Len(ss) /\ i + 1 \in 1 .. Len(tt) /\ (i + 1) - 1 = i
        /\ (i + 1 # 1 => i \in 1 .. n)
    OBVIOUS
  <2>2. ss[i + 1] = tt[i + 1]
    OBVIOUS
  <2>3. Flat(ss)[i + 1] = IF i + 1 = 1 THEN ss[i + 1] ELSE Flat(ss)[i] \o ss[i + 1]
    BY <2>1, FlatSteps
  <2>4. Flat(tt)[i + 1] = IF i + 1 = 1 THEN tt[i + 1] ELSE Flat(tt)[i] \o tt[i + 1]
    BY <2>1, FlatSteps
  <2>5. i + 1 # 1 => Flat(ss)[i] = Flat(tt)[i]
    BY <2>1
  <2>. QED BY <2>2, <2>3, <2>4, <2>5
<1>3. N = Nat
  <2>. HIDE DEF N
  <2>1. N \in SUBSET Nat
    BY DEF N
  <2>. QED BY <1>1, <1>2, <2>1, NatInduct
<1>. QED BY <1>3

LEMMA FlattenAppend ==
  ASSUME NEW S, NEW ss \in Seq(Seq(S)), NEW x \in Seq(S)
  PROVE  FlattenSeq(Append(ss, x)) = FlattenSeq(ss) \o x
<1> DEFINE n == Len(ss)
           tt == Append(ss, x)
<1>1. n \in Nat /\ Len(tt) = n + 1 /\ tt[n + 1] = x /\ \A i \in 1 .. n : ss[i] = tt[i]
  BY LenProperties, AppendProperties
<1>2. CASE ss = << >>
  <2>1. n = 0 /\ FlattenSeq(ss) = << >>
    BY <1>2 DEF FlattenSeq
  <2>2. << >> \o x = x
    BY ConcatEmptySeq
  <2>. HIDE DEF n, tt
  <2>. Len(tt) = 1 /\ Len(tt) \in Nat /\ Len(tt) # 0
    BY <1>1, <2>1
  <2>3. Flat(tt)[1] = tt[1]
    <3>1. 1 \in 1 .. Len(tt)
      OBVIOUS
    <3>2. \A i \in 1 .. Len(tt) : Flat(tt)[i] = IF i = 1 THEN tt[i] ELSE Flat(tt)[i - 1] \o tt[i]
      BY FlatSteps, Zenon
    <3>. QED BY <3>1, <3>2, Zenon
  <2>4. FlattenSeq(tt) = Flat(tt)[1]
    BY FlattenIsFlat
  <2>. QED BY <1>1, <2>1, <2>2, <2>3, <2>4 DEF tt
<1>3. CASE ss # << >>
  <2>1. n # 0
    BY <1>3, EmptySeq
  <2>. HIDE DEF n, tt
  <2>a. Len(ss) = n /\ Len(tt) = n + 1 /\ n \in Nat /\ n + 1 \in Nat
    BY <1>1 DEF n
  <2>b. n # 0 /\ n + 1 # 0 /\ n + 1 # 1 /\ (n + 1) - 1 = n
        /\ n \in 1 .. n /\ n + 1 \in 1 .. n + 1
    BY <2>1, <2>a
  <2>2. Flat(ss)[n] = Flat(tt)[n]
    <3>1. \A i \in 1 .. n : Flat(ss)[i] = Flat(tt)[i]
      <4>1. /\ Len(ss) \in Nat /\ Len(tt) \in Nat /\ n \in Nat
            /\ n <= Len(ss) /\ n <= Len(tt)
        BY <2>a
      <4>2. \A i \in 1 .. n : ss[i] = tt[i]
        BY <1>1
      <4>. QED BY <4>1, <4>2, FlatAlike, Zenon
    <3>. QED BY <2>b, <3>1
  <2>3. Flat(tt)[n + 1] = Flat(tt)[n] \o tt[n + 1]
    <3>1. Flat(tt)[n + 1] = IF n + 1 = 1 THEN tt[n + 1] ELSE Flat(tt)[(n + 1) - 1] \o tt[n + 1]
      BY <2>a, <2>b, FlatSteps, Zenon
    <3>. QED BY <2>b, <3>1
  <2>4. FlattenSeq(tt) = Flat(tt)[n + 1]
    BY <2>a, <2>b, FlattenIsFlat, Zenon
  <2>5. FlattenSeq(ss) = Flat(ss)[n]
    BY <2>a, <2>b, FlattenIsFlat, Zenon
  <2>. QED BY <1>1, <2>2, <2>3, <2>4, <2>5 DEF tt
<1>. QED BY <1>2, <1>3

LEMMA FlattenEmpty == FlattenSeq(<< >>) = << >>
BY DEF FlattenSeq

LEMMA FlattenType ==
  ASSUME NEW S, NEW ss \in Seq(Seq(S))
  PROVE  FlattenSeq(ss) \in Seq(S)
<1> DEFINE I == {tt \in Seq(Seq(S)) : FlattenSeq(tt) \in Seq(S)}
<1>1. << >> \in I
  BY FlattenEmpty, EmptySeq
<1>2. ASSUME NEW tt \in I, NEW x \in Seq(S) PROVE Append(tt, x) \in I
  <2>1. FlattenSeq(Append(tt, x)) = FlattenSeq(tt) \o x
    BY FlattenAppend
  <2>. QED BY <2>1, AppendProperties, ConcatProperties
<1>3. I = Seq(Seq(S))
  <2>. HIDE DEF I
  <2>1. I \in SUBSET Seq(Seq(S))
    BY DEF I
  <2>. QED BY <1>1, <1>2, <2>1, SeqInduct
<1>. QED BY <1>3

-----------------------------------------------------------------------------
(* What of a sequence is in a set *)

LEMMA KeptEmpty ==
  ASSUME NEW A
  PROVE  Kept(<< >>, A) = << >>
<1> DEFINE parts == [i \in DOMAIN << >> |-> IF << >>[i] \in A THEN << << >>[i] >> ELSE << >>]
<1>1. parts = << >>
  OBVIOUS
<1>. QED BY <1>1, FlattenEmpty DEF Kept

LEMMA KeptAppend ==
  ASSUME NEW S, NEW s \in Seq(S), NEW x \in S, NEW A
  PROVE  Kept(Append(s, x), A) = Kept(s, A) \o (IF x \in A THEN <<x>> ELSE << >>)
<1> DEFINE t == Append(s, x)
           n == Len(s)
           last == IF x \in A THEN <<x>> ELSE << >>
           parts == [i \in DOMAIN s |-> IF s[i] \in A THEN <<s[i]>> ELSE << >>]
           more == [i \in DOMAIN t |-> IF t[i] \in A THEN <<t[i]>> ELSE << >>]
<1>1. n \in Nat /\ DOMAIN s = 1 .. n /\ DOMAIN t = 1 .. n + 1 /\ t[n + 1] = x
      /\ (\A i \in 1 .. n : t[i] = s[i] /\ s[i] \in S)
  BY LenProperties, AppendProperties, ElementOfSeq
<1>. HIDE DEF t, n
<1>2. last \in Seq(S) /\ \A i \in 1 .. n : (IF s[i] \in A THEN <<s[i]>> ELSE << >>) \in Seq(S)
  BY <1>1
<1>3. parts \in Seq(Seq(S)) /\ Len(parts) = n
  BY <1>1, <1>2
<1>4. more \in Seq(Seq(S)) /\ Len(more) = n + 1
  <2>1. \A i \in 1 .. n + 1 : (IF t[i] \in A THEN <<t[i]>> ELSE << >>) \in Seq(S)
    BY <1>1, <1>2
  <2>2. more = [i \in 1 .. n + 1 |-> IF t[i] \in A THEN <<t[i]>> ELSE << >>]
    BY <1>1, Zenon
  <2>. HIDE DEF more
  <2>3. n + 1 \in Nat
    BY <1>1
  <2>4. more \in [1 .. n + 1 -> Seq(S)] /\ DOMAIN more = 1 .. n + 1
    BY <2>1, <2>2, Zenon
  <2>5. more \in Seq(Seq(S))
    BY <2>3, <2>4, SeqDef
  <2>. QED BY <2>3, <2>4, <2>5, LenProperties
<1>5. \A i \in 1 .. n : more[i] = parts[i]
  BY <1>1
<1>6. more[n + 1] = last
  BY <1>1
<1>7. more = Append(parts, last)
  <2>. HIDE DEF parts, more, last
  <2>1. /\ Append(parts, last) \in Seq(Seq(S)) /\ Len(Append(parts, last)) = n + 1
        /\ Append(parts, last)[n + 1] = last
        /\ \A i \in 1 .. n : Append(parts, last)[i] = parts[i]
    BY <1>2, <1>3, AppendProperties
  <2>2. \A i \in 1 .. n + 1 : more[i] = Append(parts, last)[i]
    BY <1>1, <1>5, <1>6, <2>1
  <2>. QED BY <1>4, <2>1, <2>2, SeqEqual
<1>8. Kept(t, A) = FlattenSeq(more) /\ Kept(s, A) = FlattenSeq(parts)
  BY DEF Kept
<1>. HIDE DEF parts, more, last
<1>9. FlattenSeq(Append(parts, last)) = FlattenSeq(parts) \o last
  BY <1>2, <1>3, FlattenAppend
<1>. QED BY <1>7, <1>8, <1>9 DEF t, last

LEMMA KeptType ==
  ASSUME NEW S, NEW s \in Seq(S), NEW A
  PROVE  Kept(s, A) \in Seq(S)
<1> DEFINE I == {t \in Seq(S) : Kept(t, A) \in Seq(S)}
<1>1. << >> \in I
  BY KeptEmpty, EmptySeq
<1>2. ASSUME NEW t \in I, NEW x \in S PROVE Append(t, x) \in I
  <2> DEFINE last == IF x \in A THEN <<x>> ELSE << >>
  <2>1. last \in Seq(S)
    OBVIOUS
  <2>. HIDE DEF last
  <2>2. Kept(Append(t, x), A) = Kept(t, A) \o last
    BY KeptAppend DEF last
  <2>. QED BY <2>1, <2>2, AppendProperties, ConcatProperties
<1>3. I = Seq(S)
  <2>. HIDE DEF I
  <2>1. I \in SUBSET Seq(S)
    BY DEF I
  <2>. QED BY <1>1, <1>2, <2>1, SeqInduct
<1>. QED BY <1>3

\* x, if it is in A.
One(x, A) == IF x \in A THEN <<x>> ELSE << >>

LEMMA KeptOneMore ==
  ASSUME NEW S, NEW s \in Seq(S), NEW x \in S, NEW A
  PROVE  One(x, A) \in Seq(S) /\ Kept(Append(s, x), A) = Kept(s, A) \o One(x, A)
BY SMTT(30), KeptAppend DEF One

Splits(s, u, A) == Kept(s \o u, A) = Kept(s, A) \o Kept(u, A)

LEMMA SplitsMore ==
  ASSUME NEW S, NEW s \in Seq(S), NEW u \in Seq(S), NEW x \in S, NEW A, Splits(s, u, A)
  PROVE  Splits(s, Append(u, x), A)
<1> DEFINE su == s \o u
           ks == Kept(s, A)
           ku == Kept(u, A)
           last == One(x, A)
<1>1. ks \in Seq(S) /\ ku \in Seq(S) /\ last \in Seq(S)
  BY KeptType, KeptOneMore
<1>2. su \in Seq(S)
  BY ConcatProperties
<1>3. s \o Append(u, x) = Append(su, x)
  BY ConcatAppend
<1>4. Kept(Append(u, x), A) = ku \o last
  BY KeptOneMore
<1>5. Kept(su, A) = ks \o ku
  BY DEF Splits
<1>. HIDE DEF su, ks, ku, last
<1>6. Kept(Append(su, x), A) = Kept(su, A) \o last
  BY <1>2, KeptOneMore DEF last
<1>7. (ks \o ku) \o last = ks \o (ku \o last)
  BY <1>1
<1>8. Kept(s \o Append(u, x), A) = ks \o (ku \o last)
  BY <1>3, <1>5, <1>6, <1>7, Zenon
<1>. QED BY <1>4, <1>8, Zenon DEF Splits, ks

LEMMA KeptConcat ==
  ASSUME NEW S, NEW s \in Seq(S), NEW t \in Seq(S), NEW A
  PROVE  Kept(s \o t, A) = Kept(s, A) \o Kept(t, A)
<1> DEFINE I == {u \in Seq(S) : Splits(s, u, A)}
<1>1. << >> \in I
  <2>1. s \o << >> = s /\ Kept(s, A) \o << >> = Kept(s, A)
    BY KeptType, ConcatEmptySeq
  <2>. QED BY <2>1, KeptEmpty, EmptySeq DEF Splits
<1>2. ASSUME NEW u \in I, NEW x \in S PROVE Append(u, x) \in I
  <2>1. Append(u, x) \in Seq(S)
    BY AppendProperties
  <2>2. Splits(s, Append(u, x), A)
    BY SplitsMore
  <2>. QED BY <2>1, <2>2
<1>3. I = Seq(S)
  <2>. HIDE DEF I
  <2>1. I \in SUBSET Seq(S)
    BY DEF I
  <2>. QED BY <1>1, <1>2, <2>1, SeqInduct
<1>. QED BY <1>3 DEF Splits

-----------------------------------------------------------------------------
(* The reflection data of packets, and what a reflection packet does *)

MpiTypeOK ==
  /\ kind \in [Parser -> [Entity -> Kind]]
  /\ queued \in [Parser -> [Entity -> Seq(Reflectable)]]
  /\ applied \in [Parser -> [Entity -> Seq(Reflectable)]]

LEMMA DataOfType ==
  ASSUME NEW x \in Packet
  PROVE  DataOf(x) \in Seq(Reflectable)
BY EmptySeq DEF Packet, DataOf

LEMMA DataForEmpty ==
  ASSUME NEW e
  PROVE  DataFor(<< >>, e) = << >>
<1> DEFINE parts == [i \in DOMAIN << >> |-> DataOf(<< >>[i])]
<1>1. parts = << >>
  OBVIOUS
<1>. QED BY <1>1, FlattenEmpty, KeptEmpty DEF DataFor

LEMMA DataForAppend ==
  ASSUME NEW ps \in Seq(Packet), NEW x \in Packet, NEW e
  PROVE  /\ DataFor(ps, e) \in Seq(Reflectable)
         /\ DataFor(Append(ps, x), e) = DataFor(ps, e) \o Kept(DataOf(x), For(e))
<1> DEFINE t == Append(ps, x)
           n == Len(ps)
           last == DataOf(x)
           parts == [i \in DOMAIN ps |-> DataOf(ps[i])]
           more == [i \in DOMAIN t |-> DataOf(t[i])]
<1>1. n \in Nat /\ DOMAIN ps = 1 .. n /\ DOMAIN t = 1 .. n + 1 /\ t[n + 1] = x
      /\ (\A i \in 1 .. n : t[i] = ps[i] /\ ps[i] \in Packet) /\ n + 1 \in Nat
  BY LenProperties, AppendProperties, ElementOfSeq
<1>2. last \in Seq(Reflectable) /\ \A i \in 1 .. n + 1 : DataOf(t[i]) \in Seq(Reflectable)
  <2>1. \A i \in 1 .. n + 1 : t[i] \in Packet
    <3>. HIDE DEF t, n
    <3>. QED BY <1>1
  <2>. QED BY <2>1, DataOfType
<1>. HIDE DEF t, n, last
<1>3. /\ parts \in Seq(Seq(Reflectable)) /\ Len(parts) = n
      /\ more \in Seq(Seq(Reflectable)) /\ Len(more) = n + 1
  <2>1. \A i \in 1 .. n : DataOf(ps[i]) \in Seq(Reflectable)
    <3>1. \A i \in 1 .. n : i \in 1 .. n + 1 /\ t[i] = ps[i]
      BY <1>1
    <3>. QED BY <1>2, <3>1
  <2>2. parts \in [1 .. n -> Seq(Reflectable)] /\ DOMAIN parts = 1 .. n
    BY <1>1, <2>1, Zenon
  <2>3. more \in [1 .. n + 1 -> Seq(Reflectable)] /\ DOMAIN more = 1 .. n + 1
    BY <1>1, <1>2, Zenon
  <2>. HIDE DEF parts, more
  <2>4. parts \in Seq(Seq(Reflectable)) /\ more \in Seq(Seq(Reflectable))
    BY <1>1, <2>2, <2>3, SeqDef
  <2>. QED BY <1>1, <2>2, <2>3, <2>4, LenProperties
<1>4. (\A i \in 1 .. n : more[i] = parts[i]) /\ more[n + 1] = last
  BY <1>1 DEF last
<1>5. more = Append(parts, last)
  <2>. HIDE DEF parts, more
  <2>1. /\ Append(parts, last) \in Seq(Seq(Reflectable)) /\ Len(Append(parts, last)) = n + 1
        /\ Append(parts, last)[n + 1] = last
        /\ \A i \in 1 .. n : Append(parts, last)[i] = parts[i]
    BY <1>2, <1>3, AppendProperties
  <2>2. \A i \in 1 .. n + 1 : more[i] = Append(parts, last)[i]
    BY <1>1, <1>4, <2>1
  <2>. QED BY <1>3, <2>1, <2>2, SeqEqual
<1>6. /\ DataFor(t, e) = Kept(FlattenSeq(more), For(e))
      /\ DataFor(ps, e) = Kept(FlattenSeq(parts), For(e))
  BY DEF DataFor
<1>. HIDE DEF parts, more
<1>7. FlattenSeq(Append(parts, last)) = FlattenSeq(parts) \o last
      /\ FlattenSeq(parts) \in Seq(Reflectable)
  BY <1>2, <1>3, FlattenAppend, FlattenType
<1>8. Kept(FlattenSeq(parts) \o last, For(e)) =
        Kept(FlattenSeq(parts), For(e)) \o Kept(last, For(e))
  BY <1>2, <1>7, KeptConcat
<1>9. DataFor(ps, e) \in Seq(Reflectable)
  BY <1>6, <1>7, KeptType
<1>. QED BY <1>5, <1>6, <1>7, <1>8, <1>9 DEF t, last

\* What is given to the objects of the unit e, and what is added to the queue of e.
GivenTo(p, e, rs) ==
  IF kind[p][e] \in Unit THEN applied[p][e] \o Kept(Kept(rs, For(e)), Taken(kind[p][e]))
  ELSE applied[p][e]

QueuedFor(p, e, rs) ==
  IF kind[p][e] \in Unit THEN queued[p][e] ELSE queued[p][e] \o Kept(rs, For(e))

ReflectedBy(p, rs) ==
  [kind |-> kind[p],
   queued |-> [e \in Entity |-> QueuedFor(p, e, rs)],
   applied |-> [e \in Entity |-> GivenTo(p, e, rs)]]

LEMMA ReflectedNone ==
  ASSUME MpiTypeOK, NEW p \in Parser
  PROVE  ReflectedBy(p, << >>) = State(p)
<1>1. queued[p] \in [Entity -> Seq(Reflectable)] /\ applied[p] \in [Entity -> Seq(Reflectable)]
  BY DEF MpiTypeOK
<1>2. ASSUME NEW e \in Entity
      PROVE  QueuedFor(p, e, << >>) = queued[p][e] /\ GivenTo(p, e, << >>) = applied[p][e]
  <2>1. queued[p][e] \o << >> = queued[p][e] /\ applied[p][e] \o << >> = applied[p][e]
    BY <1>1, ConcatEmptySeq
  <2>. QED BY <2>1, KeptEmpty DEF QueuedFor, GivenTo
<1>3. [e \in Entity |-> QueuedFor(p, e, << >>)] = queued[p]
      /\ [e \in Entity |-> GivenTo(p, e, << >>)] = applied[p]
  BY <1>1, <1>2
<1>. QED BY <1>3 DEF ReflectedBy, State

LEMMA ReflectedOne ==
  ASSUME MpiTypeOK, NEW p \in Parser, NEW rs \in Seq(Reflectable), NEW r \in Reflectable
  PROVE  Reflected(ReflectedBy(p, rs), r) = ReflectedBy(p, Append(rs, r))
<1> DEFINE more == Append(rs, r)
           k == kind[p]
           one(e) == IF r \in For(e) THEN <<r>> ELSE << >>
<1>1. r.entity \in Entity
  BY DEF Reflectable
<1>2. ASSUME NEW e \in Entity
      PROVE  /\ Kept(more, For(e)) = Kept(rs, For(e)) \o one(e)
             /\ Kept(rs, For(e)) \in Seq(Reflectable)
             /\ one(e) = IF e = r.entity THEN <<r>> ELSE << >>
             /\ queued[p][e] \in Seq(Reflectable) /\ applied[p][e] \in Seq(Reflectable)
  <2>1. Kept(more, For(e)) = Kept(rs, For(e)) \o one(e)
    BY KeptAppend
  <2>2. Kept(rs, For(e)) \in Seq(Reflectable)
    BY KeptType
  <2>3. one(e) = IF e = r.entity THEN <<r>> ELSE << >>
    BY DEF For
  <2>4. queued[p][e] \in Seq(Reflectable) /\ applied[p][e] \in Seq(Reflectable)
    BY DEF MpiTypeOK
  <2>. QED BY <2>1, <2>2, <2>3, <2>4
<1>. HIDE DEF more, one
<1>3. ASSUME NEW e \in Entity
      PROVE  QueuedFor(p, e, more) =
               IF e = r.entity /\ k[e] \notin Unit THEN Append(QueuedFor(p, e, rs), r)
               ELSE QueuedFor(p, e, rs)
  <2> DEFINE q == queued[p][e]
             ks == Kept(rs, For(e))
  <2>1. q \in Seq(Reflectable) /\ ks \in Seq(Reflectable) /\ <<r>> \in Seq(Reflectable)
    BY <1>2
  <2>. HIDE DEF q, ks
  <2>2. q \o (ks \o <<r>>) = (q \o ks) \o <<r>> /\ ks \o << >> = ks /\ q \o ks \in Seq(Reflectable)
    BY <2>1, ConcatAssociative, ConcatEmptySeq, ConcatProperties
  <2>3. Append(q \o ks, r) = (q \o ks) \o <<r>>
    BY <2>2, AppendIsConcat
  <2>. QED BY <1>2, <2>2, <2>3 DEF QueuedFor, q, ks
<1>4. ASSUME NEW e \in Entity
      PROVE  GivenTo(p, e, more) =
               IF e = r.entity /\ k[e] \in Unit /\ r \in Taken(k[e])
               THEN Append(GivenTo(p, e, rs), r)
               ELSE GivenTo(p, e, rs)
  <2> DEFINE a == applied[p][e]
             ks == Kept(rs, For(e))
             taken == Taken(k[e])
             kt == Kept(ks, taken)
  <2>1. a \in Seq(Reflectable) /\ ks \in Seq(Reflectable) /\ <<r>> \in Seq(Reflectable)
    BY <1>2
  <2>2. kt \in Seq(Reflectable)
    BY <2>1, KeptType
  <2>3. a \o kt \in Seq(Reflectable) /\ ks \o << >> = ks /\ kt \o << >> = kt
    <3>. HIDE DEF a, ks, taken, kt
    <3>1. a \o kt \in Seq(Reflectable)
      BY <2>1, <2>2, ConcatProperties, Zenon
    <3>2. ks \o << >> = ks /\ kt \o << >> = kt
      BY <2>1, <2>2, ConcatEmptySeq, Zenon
    <3>. QED BY <3>1, <3>2
  <2>4. Append(a \o kt, r) = a \o (kt \o <<r>>)
    <3>. HIDE DEF a, ks, taken, kt
    <3>1. Append(a \o kt, r) = (a \o kt) \o <<r>>
      BY <2>3, AppendIsConcat
    <3>2. (a \o kt) \o <<r>> = a \o (kt \o <<r>>)
      BY <2>1, <2>2
    <3>. QED BY <3>1, <3>2
  <2>5. ks \o <<r>> = Append(ks, r)
    <3>. HIDE DEF a, ks, taken, kt
    <3>. QED BY <2>1, AppendIsConcat
  <2>6. Kept(Append(ks, r), taken) = kt \o (IF r \in taken THEN <<r>> ELSE << >>)
    <3>. HIDE DEF ks, taken
    <3>. QED BY <2>1, KeptAppend
  <2>7. Kept(more, For(e)) = IF e = r.entity THEN Append(ks, r) ELSE ks
    <3>. HIDE DEF kt
    <3>. QED BY <1>2, <2>3, <2>5
  <2>8. GivenTo(p, e, rs) = IF k[e] \in Unit THEN a \o kt ELSE a
    BY DEF GivenTo
  <2>9. GivenTo(p, e, more) = IF k[e] \in Unit THEN a \o Kept(Kept(more, For(e)), taken) ELSE a
    BY DEF GivenTo
  <2>. HIDE DEF a, ks, taken, kt
  <2>10. Kept(Kept(more, For(e)), taken) =
           IF e = r.entity /\ r \in taken THEN kt \o <<r>> ELSE kt
    BY <2>3, <2>6, <2>7 DEF kt
  <2>. QED BY <2>4, <2>8, <2>9, <2>10 DEF taken
<1>5. Takes(k[r.entity], r.object) <=> r \in Taken(k[r.entity])
  BY DEF Taken
<1>6. Taken(k[r.entity]) # {} => k[r.entity] \in Unit
  BY DEF Taken, Takes, Unit
<1> DEFINE qs == [e \in Entity |-> QueuedFor(p, e, rs)]
           as == [e \in Entity |-> GivenTo(p, e, rs)]
           qm == [e \in Entity |-> QueuedFor(p, e, more)]
           am == [e \in Entity |-> GivenTo(p, e, more)]
           st == ReflectedBy(p, rs)
<1>7. st = [kind |-> k, queued |-> qs, applied |-> as]
      /\ ReflectedBy(p, more) = [kind |-> k, queued |-> qm, applied |-> am]
  BY DEF ReflectedBy
<1>8. qm = IF k[r.entity] \notin Unit THEN [qs EXCEPT ![r.entity] = Append(@, r)] ELSE qs
  BY <1>1, <1>3
<1>9. am = IF r \in Taken(k[r.entity]) THEN [as EXCEPT ![r.entity] = Append(@, r)] ELSE as
  BY <1>1, <1>4, <1>6
<1>. HIDE DEF qs, as, qm, am, st, k
<1>10. Reflected(st, r) = IF k[r.entity] \notin Unit
                          THEN [st EXCEPT !.queued[r.entity] = Append(@, r)]
                          ELSE IF r \in Taken(k[r.entity])
                          THEN [st EXCEPT !.applied[r.entity] = Append(@, r)]
                          ELSE st
  BY <1>5, <1>7 DEF Reflected
<1>11. Reflected(st, r) = [kind |-> k, queued |-> qm, applied |-> am]
  <2>1. CASE k[r.entity] \notin Unit
    <3>1. r \notin Taken(k[r.entity])
      BY <1>6, <2>1
    <3>2. st.queued = qs
      BY <1>7
    <3>3. Reflected(st, r) = [st EXCEPT !.queued = [qs EXCEPT ![r.entity] = Append(@, r)]]
      BY <1>10, <2>1, <3>2
    <3>. QED BY <1>7, <1>8, <1>9, <2>1, <3>1, <3>3
  <2>2. CASE k[r.entity] \in Unit /\ r \in Taken(k[r.entity])
    <3>2. st.applied = as
      BY <1>7
    <3>3. Reflected(st, r) = [st EXCEPT !.applied = [as EXCEPT ![r.entity] = Append(@, r)]]
      BY <1>10, <2>2, <3>2
    <3>. QED BY <1>7, <1>8, <1>9, <2>2, <3>3
  <2>3. CASE k[r.entity] \in Unit /\ r \notin Taken(k[r.entity])
    BY <1>7, <1>8, <1>9, <1>10, <2>3
  <2>. QED BY <2>1, <2>2, <2>3
<1>. QED BY <1>7, <1>11 DEF st, more, k

\* The loop of deserializeReflectables.
Reflecting(p, rs, f) ==
  [n \in 0 .. Len(rs) |-> IF n = 0 THEN State(p) ELSE Reflected(f[n - 1], rs[n])]

LEMMA ReflectDoes ==
  ASSUME MpiTypeOK, NEW p \in Parser, NEW rs \in Seq(Reflectable)
  PROVE  Reflect(p, rs) <=> Become(p, ReflectedBy(p, rs))
<1> DEFINE m == Len(rs)
           g == [n \in 0 .. m |-> ReflectedBy(p, SubSeq(rs, 1, n))]
           f == CHOOSE h : h = Reflecting(p, rs, h)
<1>1. m \in Nat /\ \A n \in 1 .. m : rs[n] \in Reflectable
  BY LenProperties, ElementOfSeq
<1>2. ASSUME NEW n \in 1 .. m
      PROVE  SubSeq(rs, 1, n - 1) \in Seq(Reflectable)
             /\ SubSeq(rs, 1, n) = Append(SubSeq(rs, 1, n - 1), rs[n])
  BY SubSeqAppend
<1>3. g[0] = State(p)
  <2>1. SubSeq(rs, 1, 0) = << >>
    BY SubSeqEmpty
  <2>2. g[0] = ReflectedBy(p, SubSeq(rs, 1, 0))
    BY <1>1
  <2>. QED BY <2>1, <2>2, ReflectedNone
<1>4. ASSUME NEW n \in 1 .. m PROVE g[n] = Reflected(g[n - 1], rs[n])
  <2>1. g[n] = ReflectedBy(p, SubSeq(rs, 1, n)) /\ g[n - 1] = ReflectedBy(p, SubSeq(rs, 1, n - 1))
    BY <1>1
  <2>. HIDE DEF g, m
  <2>. QED BY <1>1, <1>2, <2>1, ReflectedOne
<1>5. g = Reflecting(p, rs, g)
  <2>1. g = [n \in 0 .. m |-> g[n]]
    OBVIOUS
  <2>. HIDE DEF g
  <2>2. \A n \in 0 .. m : g[n] = IF n = 0 THEN State(p) ELSE Reflected(g[n - 1], rs[n])
    BY <1>1, <1>3, <1>4
  <2>. QED BY <2>1, <2>2 DEF Reflecting
<1>6. f = Reflecting(p, rs, f)
  <2>. HIDE DEF g
  <2>. QED BY <1>5, Zenon
<1>. HIDE DEF f, g
<1>7. \A n \in 0 .. m : f[n] = IF n = 0 THEN State(p) ELSE Reflected(f[n - 1], rs[n])
  <2>1. f = [n \in 0 .. m |-> IF n = 0 THEN State(p) ELSE Reflected(f[n - 1], rs[n])]
    BY <1>6, Zenon DEF Reflecting
  <2>. QED BY <2>1, Zenon
<1>. HIDE DEF m
<1> DEFINE N == {n \in Nat : n \in 0 .. m => f[n] = g[n]}
<1>8. 0 \in N
  BY <1>1, <1>3, <1>7
<1>9. ASSUME NEW n \in N PROVE n + 1 \in N
  <2>. SUFFICES ASSUME n + 1 \in 0 .. m PROVE f[n + 1] = g[n + 1]
    OBVIOUS
  <2>1. n \in 0 .. m /\ n + 1 \in 1 .. m /\ n + 1 # 0 /\ (n + 1) - 1 = n
    BY <1>1
  <2>2. f[n] = g[n]
    BY <2>1
  <2>3. f[n + 1] = Reflected(f[n], rs[n + 1])
    BY <1>7, <2>1
  <2>4. g[n + 1] = Reflected(g[n], rs[n + 1])
    BY <1>4, <2>1
  <2>. QED BY <2>2, <2>3, <2>4
<1>10. N = Nat
  <2>. HIDE DEF N
  <2>1. N \in SUBSET Nat
    BY DEF N
  <2>. QED BY <1>8, <1>9, <2>1, NatInduct
<1>11. f[m] = g[m]
  BY <1>1, <1>10
<1>12. g[m] = ReflectedBy(p, rs)
  <2>1. SubSeq(rs, 1, m) = rs
    BY SubSeqFull DEF m
  <2>2. g[m] = ReflectedBy(p, SubSeq(rs, 1, m))
    BY <1>1 DEF g, m
  <2>. QED BY <2>1, <2>2
<1>13. Reflect(p, rs) <=> Become(p, f[m])
  BY Zenon DEF Reflect, Reflecting, f, m
<1>. QED BY <1>11, <1>12, <1>13

-----------------------------------------------------------------------------
(* What a reader gives: Given *)

LEMMA FlattenFurther ==
  ASSUME NEW S, NEW ss \in Seq(Seq(S)), NEW m \in 0 .. Len(ss), NEW n \in m .. Len(ss)
  PROVE  \E u \in Seq(S) :
           FlattenSeq(SubSeq(ss, 1, n)) = FlattenSeq(SubSeq(ss, 1, m)) \o u
<1> DEFINE F(i) == FlattenSeq(SubSeq(ss, 1, i))
           N == {d \in Nat : m + d <= Len(ss) => \E u \in Seq(S) : F(m + d) = F(m) \o u}
<1>0. Len(ss) \in Nat
  BY LenProperties
<1>6. \A a, b, c \in Seq(S) : (a \o b) \o c = a \o (b \o c)
  BY ConcatThree
<1>1. ASSUME NEW i \in 0 .. Len(ss) PROVE SubSeq(ss, 1, i) \in Seq(Seq(S)) /\ F(i) \in Seq(S)
  <2>1. SubSeq(ss, 1, i) \in Seq(Seq(S))
    <3>1. \A j \in 1 .. i : ss[j] \in Seq(S)
      BY <1>0, ElementOfSeq
    <3>. QED BY <1>0, <3>1, SubSeqProperties
  <2>. QED BY <2>1, FlattenType
<1>2. 0 \in N
  <2>1. F(m) \in Seq(S) /\ << >> \in Seq(S)
    BY <1>1, EmptySeq
  <2>2. m + 0 = m
    BY <1>0
  <2>. HIDE DEF F
  <2>3. F(m) = F(m) \o << >>
    BY <2>1, ConcatEmptySeq
  <2>. QED BY <2>1, <2>2, <2>3
<1>3. ASSUME NEW d \in N PROVE d + 1 \in N
  <2>0. d + 1 \in Nat
    OBVIOUS
  <2>. SUFFICES ASSUME m + (d + 1) <= Len(ss)
                PROVE  \E u \in Seq(S) : F(m + (d + 1)) = F(m) \o u
    <3>. HIDE DEF F
    <3>. QED BY <2>0
  <2> DEFINE i == m + (d + 1)
  <2>1. i \in 1 .. Len(ss) /\ i - 1 = m + d /\ m + d <= Len(ss) /\ i \in 0 .. Len(ss)
    BY <1>0
  <2>2. PICK u \in Seq(S) : F(i - 1) = F(m) \o u
    BY <2>1
  <2>. HIDE DEF i
  <2>3. F(i) = F(i - 1) \o ss[i] /\ ss[i] \in Seq(S)
    <3>1. SubSeq(ss, 1, i) = Append(SubSeq(ss, 1, i - 1), ss[i])
          /\ SubSeq(ss, 1, i - 1) \in Seq(Seq(S)) /\ ss[i] \in Seq(S)
      BY <2>1, SubSeqAppend
    <3>. QED BY <3>1, FlattenAppend
  <2>4. F(m) \in Seq(S)
    BY <1>1
  <2>. HIDE DEF F
  <2>5. F(i) = F(m) \o (u \o ss[i]) /\ u \o ss[i] \in Seq(S)
    <3> DEFINE f == F(m)
               x == ss[i]
    <3>1. f \in Seq(S) /\ x \in Seq(S) /\ F(i) = (f \o u) \o x
      BY <2>2, <2>3, <2>4
    <3>. HIDE DEF f, x
    <3>2. (f \o u) \o x = f \o (u \o x) /\ u \o x \in Seq(S)
      BY <1>6, <3>1, ConcatProperties
    <3>. QED BY <3>1, <3>2 DEF f, x
  <2>. QED BY <2>5 DEF i
<1>4. N = Nat
  <2>. HIDE DEF N
  <2>1. N \in SUBSET Nat
    BY DEF N
  <2>. QED BY <1>2, <1>3, <2>1, NatInduct
<1>. HIDE DEF F
<1>5. n - m \in Nat /\ m + (n - m) = n /\ n <= Len(ss)
  BY <1>0
<1>7. n - m \in N
  BY <1>4, <1>5
<1>8. \E u \in Seq(S) : F(n) = F(m) \o u
  BY <1>5, <1>7
<1>. QED BY <1>8 DEF F

\* A sequence up to its first end marker.
UpToEnd(all) ==
  LET ends == {i \in DOMAIN all : IsEnd(all[i])}
  IN  IF ends = {} THEN all
      ELSE SubSeq(all, 1, CHOOSE i \in ends : \A j \in ends : i <= j)

LEMMA UpToEndBegins ==
  ASSUME NEW S, NEW done \in Seq(S), NEW rest \in Seq(S), NEW all, all = done \o rest,
         \A i \in 1 .. Len(done) : IsEnd(done[i]) => i = Len(done)
  PROVE  /\ IsPrefix(done, UpToEnd(all))
         /\ (Len(done) > 0 /\ IsEnd(done[Len(done)])) => done = UpToEnd(all)
         /\ rest = << >> => done = UpToEnd(all)
<1> DEFINE n == Len(done)
           m == Len(all)
           ends == {i \in DOMAIN all : IsEnd(all[i])}
           low == LowestOf(ends)
<1>1. /\ n \in Nat /\ m \in Nat /\ n <= m /\ all \in Seq(S) /\ DOMAIN all = 1 .. m
      /\ \A i \in 1 .. n : all[i] = done[i]
      /\ rest = << >> => m = n /\ all = done
  <2>1. n \in Nat /\ Len(rest) \in Nat /\ all \in Seq(S) /\ m = n + Len(rest)
        /\ \A i \in 1 .. n + Len(rest) : all[i] = IF i <= n THEN done[i] ELSE rest[i - n]
    BY LenProperties, ConcatProperties
  <2>2. rest = << >> => all = done
    BY ConcatEmptySeq
  <2>. QED BY <2>1, <2>2, LenProperties
<1>2. UpToEnd(all) = IF ends = {} THEN all ELSE SubSeq(all, 1, low)
  BY Zenon DEF UpToEnd, LowestOf
<1>3. ends # {} => low \in ends /\ \A i \in ends : low <= i
  <2>1. ends \in SUBSET Nat
    BY <1>1
  <2>. HIDE DEF ends
  <2>. QED BY <2>1, LeastNat
<1>4. \A i \in ends : i \in 1 .. m /\ n <= i
  <2>. SUFFICES ASSUME NEW i \in ends, i < n PROVE FALSE
    BY <1>1
  <2>1. i \in 1 .. n /\ IsEnd(done[i])
    BY <1>1
  <2>. QED BY <1>1, <2>1
<1>5. n > 0 /\ IsEnd(done[n]) => n \in ends
  BY <1>1
<1>. HIDE DEF ends, low, m
<1>6. ASSUME NEW k \in n .. m
      PROVE  /\ SubSeq(all, 1, k) \in Seq(S) /\ Len(SubSeq(all, 1, k)) = k
             /\ \A i \in 1 .. k : SubSeq(all, 1, k)[i] = all[i]
  <2>1. \A i \in 1 .. k : all[i] \in S
    BY <1>1, ElementOfSeq DEF m
  <2>. HIDE DEF n
  <2>2. /\ SubSeq(all, 1, k) \in Seq(S)
        /\ Len(SubSeq(all, 1, k)) = IF 1 <= k THEN k - 1 + 1 ELSE 0
        /\ \A i \in 1 .. k - 1 + 1 : SubSeq(all, 1, k)[i] = all[1 + i - 1]
    BY <1>1, <2>1, SubSeqProperties
  <2>. QED BY <1>1, <2>2
<1>7. ASSUME NEW k \in n .. m
      PROVE  IsPrefix(done, SubSeq(all, 1, k)) /\ (k = n => done = SubSeq(all, 1, k))
  <2> DEFINE t == SubSeq(all, 1, k)
  <2>1. t \in Seq(S) /\ Len(t) = k /\ \A i \in 1 .. n : t[i] = done[i] /\ done[i] \in S
    BY <1>1, <1>6, ElementOfSeq
  <2>. HIDE DEF t
  <2>2. SubSeq(t, 1, n) = done
    <3>1. /\ SubSeq(t, 1, n) \in Seq(S)
          /\ Len(SubSeq(t, 1, n)) = IF 1 <= n THEN n - 1 + 1 ELSE 0
          /\ \A i \in 1 .. n - 1 + 1 : SubSeq(t, 1, n)[i] = t[1 + i - 1]
      BY <1>1, <2>1, SubSeqProperties
    <3>. QED BY <1>1, <2>1, <3>1, SeqEqual
  <2>3. SubSeq(done, 1, n) = done
    BY SubSeqFull
  <2>4. IsPrefix(done, t)
    <3>1. n <= Len(t)
      BY <1>1, <2>1
    <3>2. SubSeq(done, 1, n) = SubSeq(t, 1, n)
      BY <2>2, <2>3
    <3>. QED BY <3>1, <3>2 DEF IsPrefix
  <2>5. k = n => done = t
    BY <2>1, SeqEqual
  <2>. QED BY <2>4, <2>5 DEF t
<1>8. SubSeq(all, 1, m) = all
  BY <1>1, SubSeqFull DEF m
<1>9. CASE ends = {}
  <2>1. UpToEnd(all) = all /\ ~(n > 0 /\ IsEnd(done[n]))
    BY <1>2, <1>5, <1>9
  <2>2. m \in n .. m /\ (rest = << >> => m = n)
    BY <1>1
  <2>3. IsPrefix(done, all) /\ (rest = << >> => done = all)
    BY <1>1, <1>7, <1>8, <2>2
  <2>. QED BY <2>1, <2>3
<1>10. CASE ends # {}
  <2>1. UpToEnd(all) = SubSeq(all, 1, low) /\ low \in n .. m
    BY <1>1, <1>2, <1>3, <1>4, <1>10
  <2>2. n > 0 /\ IsEnd(done[n]) => low = n
    BY <1>1, <1>3, <1>5, <2>1
  <2>3. rest = << >> => low = n
    BY <1>1, <2>1
  <2>. QED BY <1>7, <2>1, <2>2, <2>3
<1>. QED BY <1>9, <1>10

LEMMA PacketConcat ==
  \A a, b, c \in Seq(Packet) : (a \o b) \o c = a \o (b \o c)
BY ConcatThree

\* A reader that is past the packets before the n-th of file s, and has met no file
\* without a packet, has given what begins Given.
LEMMA GivenBegins ==
  ASSUME NEW rec \in Seq(Seq(Packet)), NEW s \in 1 .. Len(rec), NEW n \in 1 .. Len(rec[s]) + 1,
         \A t \in 2 .. s - 1 : rec[t] # << >>,
         NEW done, done = FlattenSeq(SubSeq(rec, 1, s - 1)) \o SubSeq(rec[s], 1, n - 1),
         \A i \in 1 .. Len(done) : IsEnd(done[i]) => i = Len(done)
  PROVE  /\ IsPrefix(done, Given(rec))
         /\ (Len(done) > 0 /\ IsEnd(done[Len(done)])) => done = Given(rec)
         /\ (n = Len(rec[s]) + 1 /\ (s = Len(rec) \/ (s > 1 /\ rec[s] = << >>)))
              => done = Given(rec)
<1> DEFINE m == Len(rec)
           empty == {t \in 2 .. m : rec[t] = << >>}
           last == IF empty = {} THEN m ELSE LowestOf(empty)
           all == FlattenSeq(SubSeq(rec, 1, last))
           file == rec[s]
           before == FlattenSeq(SubSeq(rec, 1, s - 1))
           here == SubSeq(file, 1, n - 1)
           after == SubSeq(file, n, Len(file))
<1>1. Given(rec) = UpToEnd(all)
  BY Zenon DEF Given, UpToEnd, LowestOf
<1>2. m \in Nat /\ file \in Seq(Packet) /\ Len(file) \in Nat /\ s \in 1 .. m /\ s \in Nat
  BY LenProperties, ElementOfSeq
<1>3. last \in s .. m /\ ((s > 1 /\ rec[s] = << >>) => last = s)
  <2>1. CASE empty = {}
    BY <1>2, <2>1
  <2>2. CASE empty # {}
    <3>1. empty \in SUBSET Nat
      OBVIOUS
    <3>2. \A t \in empty : s <= t /\ t <= m
      <4>. SUFFICES ASSUME NEW t \in empty, t < s PROVE FALSE
        BY <1>2
      <4>. QED BY <1>2
    <3>3. (s > 1 /\ rec[s] = << >>) => s \in empty
      BY <1>2
    <3>. HIDE DEF empty
    <3>4. LowestOf(empty) \in empty /\ \A t \in empty : LowestOf(empty) <= t
      BY <2>2, <3>1, LeastNat
    <3>5. LowestOf(empty) \in Nat /\ last = LowestOf(empty)
      BY <2>2, <3>1, <3>4
    <3>. QED BY <1>2, <3>2, <3>3, <3>4, <3>5
  <2>. QED BY <2>1, <2>2
<1>. HIDE DEF empty, last
<1>4. PICK u \in Seq(Packet) : all = FlattenSeq(SubSeq(rec, 1, s)) \o u
  <2>1. s \in 0 .. Len(rec) /\ last \in s .. Len(rec)
    BY <1>2, <1>3
  <2>. QED BY <2>1, FlattenFurther
<1>5. FlattenSeq(SubSeq(rec, 1, s)) = before \o file /\ before \in Seq(Packet)
  <2>1. /\ SubSeq(rec, 1, s) = Append(SubSeq(rec, 1, s - 1), rec[s])
        /\ SubSeq(rec, 1, s - 1) \in Seq(Seq(Packet))
    BY SubSeqAppend
  <2>. QED BY <1>2, <2>1, FlattenAppend, FlattenType
<1>6. last = s => all = before \o file
  BY <1>5
<1>7. here \in Seq(Packet) /\ after \in Seq(Packet) /\ here \o after = file
      /\ (n = Len(file) + 1 => after = << >>)
  <2>1. \A i \in 1 .. Len(file) : file[i] \in Packet
    BY <1>2, ElementOfSeq
  <2>. HIDE DEF file
  <2>2. n \in 1 .. Len(file) + 1 /\ n \in Int /\ n - 1 \in Int /\ Len(file) \in Int
    BY <1>2 DEF file
  <2>3. (\A i \in 1 .. n - 1 : file[i] \in Packet) /\ (\A i \in n .. Len(file) : file[i] \in Packet)
    BY <1>2, <2>1, <2>2
  <2>4. here \in Seq(Packet) /\ after \in Seq(Packet)
    BY <2>2, <2>3, SubSeqProperties
  <2>5. here \o after = SubSeq(file, 1, Len(file))
    <3>1. 1 \in 1 .. Len(file) + 1 /\ n - 1 \in 1 - 1 .. Len(file)
          /\ Len(file) \in n - 1 .. Len(file) /\ (n - 1) + 1 = n
      BY <1>2, <2>2
    <3>2. SubSeq(file, 1, n - 1) \o SubSeq(file, (n - 1) + 1, Len(file)) =
            SubSeq(file, 1, Len(file))
      BY <1>2, <3>1, ConcatAdjacentSubSeq
    <3>. QED BY <3>1, <3>2
  <2>6. SubSeq(file, 1, Len(file)) = file
    BY <1>2, SubSeqFull
  <2>7. n = Len(file) + 1 => after = << >>
    <3>1. n = Len(file) + 1 => Len(file) < n
      BY <2>2
    <3>. QED BY <2>2, <3>1, SubSeqEmpty
  <2>. QED BY <2>4, <2>5, <2>6, <2>7
<1> DEFINE rest == after \o u
<1>. HIDE DEF all, before, here, after, file
<1>8. done = before \o here /\ done \in Seq(Packet)
  <2>1. done = before \o here
    BY DEF before, here, file
  <2>2. before \o here \in Seq(Packet)
    BY <1>5, <1>7, ConcatProperties, Zenon
  <2>. QED BY <2>1, <2>2
<1>9. before \o file = done \o after
  <2>1. (before \o here) \o after = before \o (here \o after)
    BY PacketConcat, <1>5, <1>7
  <2>. QED BY <1>7, <1>8, <2>1
<1>10. all = done \o rest /\ rest \in Seq(Packet)
  <2>1. all = (done \o after) \o u
    BY <1>4, <1>5, <1>9
  <2>2. (done \o after) \o u = done \o (after \o u) /\ after \o u \in Seq(Packet)
    BY PacketConcat, <1>7, <1>8, ConcatProperties
  <2>. QED BY <2>1, <2>2 DEF rest
<1>. HIDE DEF rest
<1>11. /\ IsPrefix(done, Given(rec))
       /\ (Len(done) > 0 /\ IsEnd(done[Len(done)])) => done = Given(rec)
  BY <1>1, <1>8, <1>10, UpToEndBegins
<1>12. ASSUME n = Len(rec[s]) + 1, s = Len(rec) \/ (s > 1 /\ rec[s] = << >>)
       PROVE  done = Given(rec)
  <2>1. last = s
    BY <1>2, <1>3, <1>12
  <2>2. all = done \o << >> /\ << >> \in Seq(Packet)
    BY <1>6, <1>7, <1>9, <1>12, <2>1, EmptySeq DEF file
  <2>. QED BY <1>1, <1>8, <2>2, UpToEndBegins
<1>. QED BY <1>11, <1>12

-----------------------------------------------------------------------------
(* Where a parser is in the files *)

ReadTypeOK ==
  /\ recording \in Recordings
  /\ step \in [Reader -> Steps]
  /\ at \in [Reader -> Place]
  /\ parsed \in [Parser -> Seq(Packet)]

\* The reader of a file is deleted, or was.
Leaving == {"release", "releasing", "ended", "asserted"}

\* Packets of the files before, and of the file read.
Behind(p) == FlattenSeq(SubSeq(recording, 1, at[p].segment - 1))
Passed(p) == SubSeq(recording[at[p].segment], 1, at[p].next - 1)

\* A parser has parsed the packets before its place, and knows the time of the last.
InPlace(p) ==
  LET file == recording[at[p].segment]
  IN  /\ at[p].next <= Len(file) + 1
      /\ parsed[p] = Behind(p) \o Passed(p)
      /\ at[p].next > 1 => at[p].time = file[at[p].next - 1].time
      /\ at[p].retry <=> (at[p].segment > 1 /\ at[p].next = 1)
      /\ \A s \in 2 .. at[p].segment - 1 : recording[s] # << >>

\* Why a parser leaves a file: for good at an end marker or a file without a packet,
\* else at the end of the file.
LeavesWell(p) ==
  LET done == parsed[p]
      file == recording[at[p].segment]
  IN  /\ \A i \in 1 .. Len(done) : IsEnd(done[i]) => i = Len(done) /\ at[p].closing
      /\ at[p].closing =>
           /\ step[p] \in Leaving
           /\ \/ Len(done) > 0 /\ IsEnd(done[Len(done)])
              \/ at[p].segment > 1 /\ file = << >>
      /\ (step[p] \in Leaving /\ ~at[p].closing) => (at[p].next = Len(file) + 1 /\ ~at[p].retry)
      /\ step[p] = "ended" => at[p].closing \/ at[p].segment = Len(recording)

ReadInv == ReadTypeOK /\ \A p \in Parser : InPlace(p) /\ LeavesWell(p)

-----------------------------------------------------------------------------
(* A parser's place and what it has parsed *)

LEMMA Recorded ==
  ASSUME recording \in Recordings
  PROVE  /\ recording \in Seq(Seq(Packet)) /\ Len(recording) \in Nat \ {0}
         /\ \A s \in 1 .. Len(recording) :
              recording[s] \in Seq(Packet) /\ Len(recording[s]) \in Nat
<1>1. recording \in Seq(Seq(Packet)) /\ Len(recording) \in Nat \ {0}
  BY PacketAssumption, ReaderAssumption
<1>2. ASSUME NEW s \in 1 .. Len(recording)
      PROVE  recording[s] \in Seq(Packet) /\ Len(recording[s]) \in Nat
  <2>1. recording[s] \in Seq(Packet)
    BY <1>1, ElementOfSeq
  <2>. QED BY <2>1, LenProperties
<1>. QED BY <1>1, <1>2

\* A place in a recording.
LEMMA Placed ==
  ASSUME ReadTypeOK, NEW p \in Parser
  PROVE  /\ at[p] \in Place /\ at[p].segment \in 1 .. Len(recording) /\ at[p].segment \in Nat
         /\ at[p].next \in Nat \ {0} /\ at[p].time \in Nat
         /\ at[p].retry \in BOOLEAN /\ at[p].closing \in BOOLEAN
         /\ recording[at[p].segment] \in Seq(Packet) /\ Len(recording[at[p].segment]) \in Nat
         /\ parsed[p] \in Seq(Packet) /\ Len(parsed[p]) \in Nat /\ step[p] \in Steps
<1>1. at[p] \in Place /\ step[p] \in Steps /\ parsed[p] \in Seq(Packet)
  BY ParserAssumption DEF ReadTypeOK
<1>2. /\ at[p].segment \in 1 .. Len(recording) /\ at[p].next \in Nat \ {0} /\ at[p].time \in Nat
      /\ at[p].retry \in BOOLEAN /\ at[p].closing \in BOOLEAN
  BY <1>1 DEF Place
<1>3. at[p].segment \in Nat
  BY <1>2, Recorded DEF ReadTypeOK
<1>4. recording[at[p].segment] \in Seq(Packet) /\ Len(recording[at[p].segment]) \in Nat
  BY <1>2, Recorded DEF ReadTypeOK
<1>5. Len(parsed[p]) \in Nat
  BY <1>1, LenProperties
<1>. QED BY <1>1, <1>2, <1>3, <1>4, <1>5

LEMMA InitRead == Init => ReadInv
<1>. SUFFICES ASSUME Init PROVE ReadInv
  OBVIOUS
<1>1. /\ recording \in Recordings /\ step = [r \in Reader |-> "count"]
      /\ at = [r \in Reader |-> Start] /\ parsed = [p \in Parser |-> << >>]
  BY DEF Init, ReaderInit
<1>2. ReadTypeOK
  <2>1. Start \in Place
    BY <1>1, Recorded DEF Start, Place
  <2>2. << >> \in Seq(Packet)
    BY EmptySeq
  <2>. QED BY <1>1, <2>1, <2>2 DEF ReadTypeOK, Steps
<1>3. ASSUME NEW p \in Parser PROVE InPlace(p) /\ LeavesWell(p)
  <2>1. at[p] = Start /\ step[p] = "count" /\ parsed[p] = << >> /\ Len(<< >>) = 0
    BY <1>1, ParserAssumption, EmptySeq
  <2>2. at[p].segment = 1 /\ at[p].next = 1 /\ at[p].retry = FALSE /\ at[p].closing = FALSE
    BY <2>1 DEF Start
  <2>3. Behind(p) = << >> /\ Passed(p) = << >>
    <3>1. at[p].segment - 1 = 0 /\ at[p].next - 1 = 0
      BY <2>2
    <3>2. SubSeq(recording, 1, 0) = << >> /\ SubSeq(recording[at[p].segment], 1, 0) = << >>
      BY SubSeqEmpty
    <3>. QED BY <3>1, <3>2, FlattenEmpty DEF Behind, Passed
  <2>4. InPlace(p)
    <3>1. << >> \o << >> = << >>
      BY EmptySeq, ConcatEmptySeq
    <3>2. \A s \in 2 .. at[p].segment - 1 : recording[s] # << >>
      BY <2>2
    <3>3. at[p].next <= Len(recording[at[p].segment]) + 1
      BY <1>2, <2>2, Placed
    <3>. QED BY <2>1, <2>2, <2>3, <3>1, <3>2, <3>3 DEF InPlace
  <2>5. LeavesWell(p)
    BY <2>1, <2>2 DEF LeavesWell, Leaving
  <2>. QED BY <2>4, <2>5
<1>. QED BY <1>2, <1>3 DEF ReadInv

\* A parser that does not move.
LEMMA Stays ==
  ASSUME NEW p \in Parser, InPlace(p), LeavesWell(p), recording' = recording,
         at'[p] = at[p], parsed'[p] = parsed[p],
         step'[p] \in Leaving <=> step[p] \in Leaving,
         step'[p] = "ended" => step[p] = "ended"
  PROVE  InPlace(p)' /\ LeavesWell(p)'
<1>1. Behind(p)' = Behind(p) /\ Passed(p)' = Passed(p)
  BY DEF Behind, Passed
<1>. QED BY <1>1 DEF InPlace, LeavesWell

\* Reader r goes on to w without moving in its file.
Quiet(r, w) ==
  /\ recording' = recording /\ at' = at /\ parsed' = parsed
  /\ step' = [step EXCEPT ![r] = w]
  /\ w \in Steps /\ w # "ended"
  /\ w \in Leaving <=> step[r] \in Leaving

LEMMA QuietReads ==
  ASSUME ReadInv, NEW r \in Reader, NEW w, Quiet(r, w)
  PROVE  ReadInv'
<1>1. ReadTypeOK'
  BY DEF ReadInv, ReadTypeOK, Quiet, Place
<1>2. ASSUME NEW p \in Parser PROVE InPlace(p)' /\ LeavesWell(p)'
  <2>1. step'[p] = IF p = r THEN w ELSE step[p]
    BY ParserAssumption DEF ReadInv, ReadTypeOK, Quiet
  <2>2. (step'[p] \in Leaving <=> step[p] \in Leaving) /\ (step'[p] = "ended" => step[p] = "ended")
    BY <2>1 DEF Quiet
  <2>. QED BY <2>2, Stays DEF ReadInv, Quiet
<1>. QED BY <1>1, <1>2 DEF ReadInv

LEMMA QuietSteps ==
  ASSUME ReadInv, NEW r \in Reader, parsed' = parsed,
         \/ OpenFails(r) \/ ReadCount(r) \/ StoreCount(r) \/ LookForData(r) \/ ResizeData(r)
         \/ ReadData(r) \/ Construct(r) \/ ConstructFails(r) \/ BeginRelease(r)
  PROVE  ReadInv'
<1>. USE DEF Goto, Quiet, Steps, Leaving
<1>1. CASE OpenFails(r)
  <2>1. Quiet(r, "threw")
    BY <1>1 DEF OpenFails
  <2>. QED BY <2>1, QuietReads
<1>2. CASE ReadCount(r)
  <2>1. Quiet(r, "counting")
    BY <1>2 DEF ReadCount
  <2>. QED BY <2>1, QuietReads
<1>3. CASE StoreCount(r)
  <2>1. Quiet(r, "look")
    BY <1>3 DEF StoreCount
  <2>. QED BY <2>1, QuietReads
<1>4. CASE LookForData(r)
  <2>1. Quiet(r, "load") \/ Quiet(r, "construct")
    BY <1>4 DEF LookForData
  <2>. QED BY <2>1, QuietReads
<1>5. CASE ResizeData(r)
  <2>1. Quiet(r, "sized")
    BY <1>5 DEF ResizeData
  <2>. QED BY <2>1, QuietReads
<1>6. CASE ReadData(r)
  <2>1. Quiet(r, "construct")
    BY <1>6 DEF ReadData
  <2>. QED BY <2>1, QuietReads
<1>7. CASE Construct(r)
  <2>1. Quiet(r, "reading")
    BY <1>7 DEF Construct
  <2>. QED BY <2>1, QuietReads
<1>8. CASE ConstructFails(r)
  <2>1. Quiet(r, "threw")
    BY <1>8 DEF ConstructFails
  <2>. QED BY <2>1, QuietReads
<1>9. CASE BeginRelease(r)
  <2>1. Quiet(r, "releasing") \/ Quiet(r, "asserted")
    BY <1>9 DEF BeginRelease
  <2>. QED BY <2>1, QuietReads
<1>. QED BY <1>1, <1>2, <1>3, <1>4, <1>5, <1>6, <1>7, <1>8, <1>9

\* The parsers other than r are where they were.
LEMMA OthersStay ==
  ASSUME ReadInv, NEW r \in Parser, recording' = recording,
         NEW w, step' = [step EXCEPT ![r] = w] \/ step' = step,
         NEW a, at' = [at EXCEPT ![r] = a],
         NEW d, parsed' = [parsed EXCEPT ![r] = d] \/ parsed' = parsed,
         InPlace(r)' /\ LeavesWell(r)'
  PROVE  \A p \in Parser : InPlace(p)' /\ LeavesWell(p)'
<1>1. SUFFICES ASSUME NEW p \in Parser, p # r PROVE InPlace(p)' /\ LeavesWell(p)'
  OBVIOUS
<1>2. at'[p] = at[p] /\ step'[p] = step[p] /\ parsed'[p] = parsed[p]
  BY <1>1, ParserAssumption DEF ReadInv, ReadTypeOK
<1>. QED BY <1>2, Stays DEF ReadInv

LEMMA EndOfSegmentReads ==
  ASSUME ReadInv, NEW r \in Parser, EndOfSegment(r), parsed' = parsed
  PROVE  ReadInv'
<1> DEFINE a == [at[r] EXCEPT !.closing = at[r].retry]
<1>1. ReadTypeOK /\ InPlace(r) /\ LeavesWell(r)
  BY DEF ReadInv
<1>2. /\ step[r] = "reading" /\ at[r].next > Len(recording[at[r].segment])
      /\ at' = [at EXCEPT ![r] = a] /\ step' = [step EXCEPT ![r] = "release"]
      /\ recording' = recording
  BY DEF EndOfSegment, Segment, Goto
<1>3. /\ a \in Place /\ a.segment = at[r].segment /\ a.next = at[r].next /\ a.time = at[r].time
      /\ a.retry = at[r].retry /\ a.closing = at[r].retry
  BY <1>1, Placed DEF Place
<1>. HIDE DEF a
<1>4. at'[r] = a /\ step'[r] = "release"
  BY <1>1, <1>2, ParserAssumption DEF ReadTypeOK
<1>5. ReadTypeOK'
  BY <1>1, <1>2, <1>3 DEF ReadTypeOK, Place, Steps
<1>6. InPlace(r)'
  <2>1. Behind(r)' = Behind(r) /\ Passed(r)' = Passed(r)
    BY <1>2, <1>3, <1>4 DEF Behind, Passed
  <2>. QED BY <1>1, <1>2, <1>3, <1>4, <2>1 DEF InPlace
<1>7. LeavesWell(r)'
  <2> DEFINE n == Len(recording[at[r].segment])
  <2>1. at[r].next = n + 1
    BY <1>1, <1>2, Placed DEF InPlace
  <2>2. at[r].retry => at[r].segment > 1 /\ recording[at[r].segment] = << >>
    <3>1. at[r].retry => at[r].segment > 1 /\ n = 0
      BY <1>1, <2>1, Placed DEF InPlace
    <3>2. recording[at[r].segment] # << >> => n # 0
      BY <1>1, Placed, EmptySeq
    <3>. QED BY <3>1, <3>2
  <2>3. \A i \in 1 .. Len(parsed[r]) : ~IsEnd(parsed[r][i])
    BY <1>1, <1>2 DEF LeavesWell, Leaving
  <2>. HIDE DEF n
  <2>. QED BY <1>2, <1>3, <1>4, <2>1, <2>2, <2>3 DEF LeavesWell, Leaving, n
<1>8. \A p \in Parser : InPlace(p)' /\ LeavesWell(p)'
  BY <1>2, <1>6, <1>7, OthersStay
<1>. QED BY <1>5, <1>8 DEF ReadInv

LEMMA EndReleaseReads ==
  ASSUME ReadInv, NEW r \in Parser, EndRelease(r), parsed' = parsed
  PROVE  ReadInv'
<1>1. ReadTypeOK /\ InPlace(r) /\ LeavesWell(r) /\ r \in Reader
  BY ParserAssumption DEF ReadInv
<1>2. step[r] = "releasing" /\ recording' = recording
  BY DEF EndRelease
<1>3. CASE Done(r)
  <2>1. at' = at /\ step' = [step EXCEPT ![r] = "ended"]
    BY <1>3 DEF EndRelease, Goto
  <2>2. step'[r] = "ended"
    BY <1>1, <2>1 DEF ReadTypeOK
  <2>3. ReadTypeOK'
    BY <1>1, <1>2, <2>1 DEF ReadTypeOK, Place, Steps
  <2>4. InPlace(r)'
    <3>1. Behind(r)' = Behind(r) /\ Passed(r)' = Passed(r)
      BY <1>2, <2>1 DEF Behind, Passed
    <3>. QED BY <1>1, <1>2, <2>1, <3>1 DEF InPlace
  <2>5. LeavesWell(r)'
    BY <1>1, <1>2, <1>3, <2>1, <2>2 DEF LeavesWell, Leaving, Done
  <2>6. at' = [at EXCEPT ![r] = at[r]]
    BY <1>1, <2>1 DEF ReadTypeOK
  <2>7. \A p \in Parser : InPlace(p)' /\ LeavesWell(p)'
    BY <1>2, <2>1, <2>4, <2>5, <2>6, OthersStay
  <2>. QED BY <2>3, <2>7 DEF ReadInv
<1>4. CASE ~Done(r)
  <2> DEFINE a == Advanced(r)
             s == at[r].segment
             file == recording[s]
  <2>1. at' = [at EXCEPT ![r] = a] /\ step' = [step EXCEPT ![r] = "count"]
    BY <1>4 DEF EndRelease, Goto
  <2>2. ~at[r].closing /\ s # Len(recording)
    BY <1>4 DEF Done
  <2>3. s \in 1 .. Len(recording) /\ s \in Nat /\ Len(recording) \in Nat
        /\ s + 1 \in 1 .. Len(recording) /\ s + 1 \in Nat
    BY <1>1, <2>2, Placed, Recorded DEF ReadTypeOK
  <2>4. a.segment = s + 1 /\ a.next = 1 /\ a.time = 0 /\ a.retry = TRUE /\ a.closing = FALSE
    BY DEF Advanced, Start
  <2>5. a \in Place
    <3>1. a = [Start EXCEPT !.segment = s + 1, !.retry = TRUE]
      BY DEF Advanced
    <3>2. Start = [segment |-> 1, next |-> 1, time |-> 0, retry |-> FALSE, closing |-> FALSE]
      BY DEF Start
    <3>. HIDE DEF a, s
    <3>3. a = [segment |-> s + 1, next |-> 1, time |-> 0, retry |-> TRUE, closing |-> FALSE]
      BY <3>1, <3>2
    <3>. QED BY <2>3, <3>3 DEF Place
  <2>. HIDE DEF a, s
  <2>6. at'[r] = a /\ step'[r] = "count"
    BY <1>1, <2>1 DEF ReadTypeOK
  <2>7. ReadTypeOK'
    BY <1>1, <1>2, <2>1, <2>5 DEF ReadTypeOK, Place, Steps
  <2>8. at[r].next = Len(file) + 1 /\ ~at[r].retry
    BY <1>1, <1>2, <2>2 DEF LeavesWell, Leaving, s
  <2>9. file \in Seq(Packet) /\ Len(file) \in Nat
    BY <1>1, Placed DEF s
  <2>10. Behind(r) \o Passed(r) = Behind(r)' \o Passed(r)'
    <3>1. Passed(r) = file
      <4>1. at[r].next - 1 = Len(file)
        BY <2>8, <2>9
      <4>2. SubSeq(file, 1, Len(file)) = file
        BY <2>9, SubSeqFull
      <4>. QED BY <4>1, <4>2 DEF Passed, s
    <3>2. Passed(r)' = << >>
      <4>1. Passed(r)' = SubSeq(recording[s + 1], 1, 1 - 1)
        BY <1>2, <2>4, <2>6 DEF Passed
      <4>. QED BY <4>1, SubSeqEmpty
    <3>3. Behind(r)' = FlattenSeq(SubSeq(recording, 1, s))
      <4>1. (s + 1) - 1 = s
        BY <2>3
      <4>. QED BY <1>2, <2>4, <2>6, <4>1 DEF Behind
    <3>4. Behind(r) = FlattenSeq(SubSeq(recording, 1, s - 1))
      BY DEF Behind, s
    <3>5. /\ SubSeq(recording, 1, s) = Append(SubSeq(recording, 1, s - 1), file)
          /\ SubSeq(recording, 1, s - 1) \in Seq(Seq(Packet))
      BY <1>1, <2>3, Recorded, SubSeqAppend DEF ReadTypeOK
    <3>6. Behind(r)' = Behind(r) \o file /\ Behind(r) \in Seq(Packet)
      BY <2>9, <3>3, <3>4, <3>5, FlattenAppend, FlattenType
    <3>7. Behind(r)' \in Seq(Packet)
      BY <2>9, <3>6, ConcatProperties
    <3>. QED BY <3>1, <3>2, <3>6, <3>7, ConcatEmptySeq
  <2>11. \A t \in 2 .. s : recording[t] # << >>
    <3>1. \A t \in 2 .. s - 1 : recording[t] # << >>
      BY <1>1 DEF InPlace, s
    <3>2. s > 1 => file # << >>
      <4>1. s > 1 => at[r].next # 1
        BY <1>1, <2>8 DEF InPlace, s
      <4>2. s > 1 => Len(file) # 0
        BY <2>8, <4>1
      <4>. QED BY <4>2, EmptySeq
    <3>. QED BY <2>3, <3>1, <3>2
  <2>. HIDE DEF file
  <2>12. InPlace(r)'
    <3>1. recording[s + 1] \in Seq(Packet) /\ 1 <= Len(recording[s + 1]) + 1
      BY <1>1, <2>3, Recorded DEF ReadTypeOK
    <3>2. a.segment - 1 = s /\ a.segment > 1 /\ ~(a.next > 1)
      BY <2>3, <2>4
    <3>3. parsed'[r] = Behind(r)' \o Passed(r)'
      BY <1>1, <2>10 DEF InPlace
    <3>. QED BY <1>2, <2>4, <2>6, <2>11, <3>1, <3>2, <3>3 DEF InPlace
  <2>13. LeavesWell(r)'
    <3>1. \A i \in 1 .. Len(parsed[r]) : ~IsEnd(parsed[r][i])
      BY <1>1, <2>2 DEF LeavesWell
    <3>. QED BY <2>4, <2>6, <3>1 DEF LeavesWell, Leaving
  <2>14. \A p \in Parser : InPlace(p)' /\ LeavesWell(p)'
    BY <1>2, <2>1, <2>12, <2>13, OthersStay
  <2>. QED BY <2>7, <2>14 DEF ReadInv
<1>. QED BY <1>3, <1>4

\* A packet has the time it is given, when the reader knows that of the packet before.
LEMMA TimeKnown ==
  ASSUME ReadTypeOK, NEW p \in Parser, InPlace(p), HasPacket(p)
  PROVE  /\ Segment(p)[at[p].next] \in Packet
         /\ TimeOf(p) = Segment(p)[at[p].next].time
<1> DEFINE file == recording[at[p].segment]
           n == at[p].next
<1>1. file \in Seq(Packet) /\ n \in 1 .. Len(file)
  BY Placed DEF HasPacket, Segment
<1>2. file[n] \in Packet
  BY <1>1, ElementOfSeq
<1>3. n = 1 \/ at[p].time = file[n - 1].time
  BY <1>1, Placed DEF InPlace
<1>. QED BY <1>2, <1>3 DEF TimeOf, Timed, Segment

LEMMA ParseReads ==
  ASSUME ReadInv, NEW p \in Parser, ParseNext(p)
  PROVE  /\ ReadInv'
         /\ Segment(p)[at[p].next] \in Packet
         /\ parsed' = [parsed EXCEPT ![p] = Append(parsed[p], Segment(p)[at[p].next])]
<1> DEFINE s == at[p].segment
           file == recording[s]
           n == at[p].next
           packet == file[n]
           more == packet.type # "end"
           a == Past(p, more)
<1>1. ReadTypeOK /\ InPlace(p) /\ LeavesWell(p) /\ p \in Reader
  BY ParserAssumption DEF ReadInv
<1>2. /\ HasPacket(p) /\ Deliver(p, more) /\ recording' = recording
      /\ parsed' = [parsed EXCEPT ![p] = Append(parsed[p], [packet EXCEPT !.time = TimeOf(p)])]
  BY <1>1 DEF ParseNext, Segment, ReadTypeOK
<1>3. packet \in Packet /\ TimeOf(p) = packet.time /\ Segment(p)[at[p].next] = packet
  BY <1>1, <1>2, TimeKnown DEF Segment
<1>4. s \in 1 .. Len(recording) /\ s \in Nat /\ file \in Seq(Packet) /\ Len(file) \in Nat
      /\ n \in 1 .. Len(file) /\ n \in Nat /\ step[p] = "reading"
  BY <1>1, <1>2, Placed DEF HasPacket, Segment
<1>5. [packet EXCEPT !.time = TimeOf(p)] = packet /\ packet.time \in Nat
  <2>. HIDE DEF packet
  <2>1. packet.time \in Nat
    BY <1>3 DEF Packet
  <2>2. [packet EXCEPT !.time = packet.time] = packet
    BY <1>3 DEF Packet
  <2>. QED BY <1>3, <2>1, <2>2
<1>6. parsed' = [parsed EXCEPT ![p] = Append(parsed[p], packet)]
  BY <1>2, <1>5
<1>7. /\ a \in Place /\ a.segment = s /\ a.next = n + 1 /\ a.time = packet.time /\ a.retry = FALSE
      /\ a.closing = ~more
  <2>1. a = [at[p] EXCEPT !.next = @ + 1, !.time = TimeOf(p), !.retry = FALSE, !.closing = ~more]
    BY DEF Past
  <2>2. at[p] \in Place
    BY <1>1, Placed
  <2>3. (~more) \in BOOLEAN
    OBVIOUS
  <2>4. n + 1 \in Nat \ {0} /\ TimeOf(p) \in Nat
    BY <1>3, <1>4, <1>5
  <2> DEFINE m == n + 1
             closing == ~more
             time == TimeOf(p)
  <2>5. a = [at[p] EXCEPT !.next = m, !.time = time, !.retry = FALSE, !.closing = closing]
    BY <2>1
  <2>6. m \in Nat \ {0} /\ time \in Nat /\ closing \in BOOLEAN
    BY <2>3, <2>4
  <2>. HIDE DEF packet, more, a, m, closing, time
  <2>7. a \in Place /\ a.segment = s /\ a.next = m /\ a.time = time /\ a.retry = FALSE
        /\ a.closing = closing
    BY <2>2, <2>5, <2>6 DEF Place
  <2>. QED BY <1>3, <2>7 DEF m, time, closing
<1>8. /\ at' = [at EXCEPT ![p] = a]
      /\ step' = IF more THEN step ELSE [step EXCEPT ![p] = "release"]
  BY <1>2 DEF Deliver, Goto
<1>. HIDE DEF a
<1>9. /\ at'[p] = a /\ step'[p] = (IF more THEN "reading" ELSE "release")
      /\ parsed'[p] = Append(parsed[p], packet)
  BY <1>1, <1>4, <1>6, <1>8, ParserAssumption DEF ReadTypeOK
<1>. HIDE DEF packet, more
<1>10. parsed[p] \in Seq(Packet) /\ Len(parsed[p]) \in Nat
  BY <1>1, Placed
<1>11. /\ parsed'[p] \in Seq(Packet) /\ Len(parsed'[p]) = Len(parsed[p]) + 1
       /\ (\A i \in 1 .. Len(parsed[p]) : parsed'[p][i] = parsed[p][i])
       /\ parsed'[p][Len(parsed[p]) + 1] = packet
  BY <1>3, <1>9, <1>10, AppendProperties
<1>12. ReadTypeOK'
  <2>1. parsed' \in [Parser -> Seq(Packet)]
    BY <1>1, <1>6, <1>9, <1>11 DEF ReadTypeOK
  <2>2. step' \in [Reader -> Steps] /\ at' \in [Reader -> Place]
    BY <1>1, <1>7, <1>8 DEF ReadTypeOK, Steps
  <2>. QED BY <1>1, <1>2, <2>1, <2>2 DEF ReadTypeOK, Place
<1>13. InPlace(p)'
  <2>1. Behind(p)' = Behind(p) /\ Behind(p) \in Seq(Packet)
    <3>1. Behind(p)' = Behind(p)
      BY <1>2, <1>7, <1>9 DEF Behind
    <3>2. SubSeq(recording, 1, s - 1) \in Seq(Seq(Packet))
      BY <1>1, <1>4, Recorded, SubSeqAppend DEF ReadTypeOK
    <3>. QED BY <3>1, <3>2, FlattenType DEF Behind
  <2>2. Passed(p)' = Append(Passed(p), packet) /\ Passed(p) \in Seq(Packet)
    <3>1. (n + 1) - 1 = n
      BY <1>4
    <3>2. Passed(p)' = SubSeq(file, 1, n)
      BY <1>2, <1>7, <1>9, <3>1 DEF Passed
    <3>. QED BY <1>4, <3>2, SubSeqAppend DEF Passed, packet
  <2>3. parsed'[p] = Behind(p)' \o Passed(p)'
    <3>1. Behind(p) \o Append(Passed(p), packet) = Append(Behind(p) \o Passed(p), packet)
      BY <1>3, <2>1, <2>2, ConcatAppend
    <3>2. parsed[p] = Behind(p) \o Passed(p)
      BY <1>1 DEF InPlace
    <3>. QED BY <1>9, <2>1, <2>2, <3>1, <3>2
  <2>4. a.next <= Len(file) + 1 /\ a.next - 1 = n /\ a.next # 1
    BY <1>4, <1>7
  <2>. QED BY <1>1, <1>2, <1>7, <1>9, <2>3, <2>4 DEF InPlace, packet
<1>14. LeavesWell(p)'
  <2>1. \A i \in 1 .. Len(parsed[p]) : ~IsEnd(parsed[p][i])
    BY <1>1, <1>4 DEF LeavesWell, Leaving
  <2>2. IsEnd(packet) <=> ~more
    BY DEF IsEnd, more
  <2>3. \A i \in 1 .. Len(parsed'[p]) : IsEnd(parsed'[p][i]) => i = Len(parsed'[p]) /\ ~more
    <3>. SUFFICES ASSUME NEW i \in 1 .. Len(parsed'[p]), IsEnd(parsed'[p][i])
                  PROVE  i = Len(parsed'[p]) /\ ~more
      OBVIOUS
    <3>1. CASE i \in 1 .. Len(parsed[p])
      BY <1>11, <2>1, <3>1
    <3>2. CASE i = Len(parsed[p]) + 1
      BY <1>11, <2>2, <3>2
    <3>. QED BY <1>10, <1>11, <3>1, <3>2
  <2>4. ~more => Len(parsed'[p]) > 0 /\ IsEnd(parsed'[p][Len(parsed'[p])])
    BY <1>10, <1>11, <2>2
  <2>. HIDE DEF file
  <2>. QED BY <1>7, <1>9, <2>3, <2>4 DEF LeavesWell, Leaving
<1>15. \A q \in Parser : InPlace(q)' /\ LeavesWell(q)'
  BY <1>2, <1>6, <1>8, <1>13, <1>14, OthersStay
<1>. QED BY <1>3, <1>6, <1>12, <1>15 DEF ReadInv, packet

LEMMA StepKeepsRead ==
  ASSUME ReadInv, [Next]_vars
  PROVE  ReadInv'
<1>1. ASSUME NEW p \in Parser, ParseNext(p) PROVE ReadInv'
  BY <1>1, ParseReads
<1>2. ASSUME NEW p \in Parser, FileStep(p), UNCHANGED parsed PROVE ReadInv'
  BY <1>2, ParserAssumption, QuietSteps, EndOfSegmentReads, EndReleaseReads DEF FileStep
<1>3. CASE UNCHANGED vars
  <2>1. UNCHANGED <<recording, step, at, parsed>>
    BY <1>3 DEF vars, readerVars
  <2>2. ReadTypeOK'
    BY <2>1 DEF ReadInv, ReadTypeOK, Place
  <2>3. \A p \in Parser : InPlace(p)' /\ LeavesWell(p)'
    BY <2>1, Stays DEF ReadInv
  <2>. QED BY <2>2, <2>3 DEF ReadInv
<1>. QED BY <1>1, <1>2, <1>3 DEF Next, Step

THEOREM ReadInvariant == Spec => []ReadInv
BY InitRead, StepKeepsRead, PTL DEF Spec

\* A parser parses the packets of the files in order, each once and with its recorded
\* time, and all of them unless its reader threw: for any files, any number of
\* parsers and any overlap of their calls.
THEOREM ReadInOrderAlways == Spec => []ReadInOrder
<1>1. ASSUME ReadInv, NEW p \in Parser
      PROVE  /\ IsPrefix(parsed[p], Given(recording))
             /\ step[p] = "ended" => parsed[p] = Given(recording)
  <2> DEFINE s == at[p].segment
             n == at[p].next
             done == parsed[p]
  <2>1. ReadTypeOK /\ InPlace(p) /\ LeavesWell(p)
    BY <1>1 DEF ReadInv
  <2>2. recording \in Seq(Seq(Packet))
    BY <2>1, Recorded DEF ReadTypeOK
  <2>3. /\ s \in 1 .. Len(recording) /\ n \in 1 .. Len(recording[s]) + 1
        /\ Len(recording[s]) \in Nat /\ recording[s] \in Seq(Packet)
    BY <2>1, Placed DEF InPlace
  <2>4. /\ \A t \in 2 .. s - 1 : recording[t] # << >>
        /\ done = FlattenSeq(SubSeq(recording, 1, s - 1)) \o SubSeq(recording[s], 1, n - 1)
    BY <2>1 DEF InPlace, Behind, Passed
  <2>5. \A i \in 1 .. Len(done) : IsEnd(done[i]) => i = Len(done)
    BY <2>1 DEF LeavesWell
  <2>6. step[p] = "ended" =>
          \/ Len(done) > 0 /\ IsEnd(done[Len(done)])
          \/ n = Len(recording[s]) + 1 /\ (s = Len(recording) \/ (s > 1 /\ recording[s] = << >>))
    <3>1. recording[s] = << >> => n = Len(recording[s]) + 1
      BY <2>3, EmptySeq
    <3>. QED BY <2>1, <3>1 DEF LeavesWell, Leaving
  <2>. HIDE DEF s, n, done
  <2>7. /\ IsPrefix(done, Given(recording))
        /\ (Len(done) > 0 /\ IsEnd(done[Len(done)])) => done = Given(recording)
        /\ (n = Len(recording[s]) + 1 /\ (s = Len(recording) \/ (s > 1 /\ recording[s] = << >>)))
              => done = Given(recording)
    BY <2>2, <2>3, <2>4, <2>5, GivenBegins
  <2>. QED BY <2>6, <2>7 DEF done
<1>2. ReadInv => ReadInOrder
  BY <1>1 DEF ReadInOrder
<1>. QED BY <1>2, ReadInvariant, PTL

-----------------------------------------------------------------------------
(* What a parser has of an entity's data *)

\* The data recorded for e since it was last a unit.
Recent(done, e) == DataFor(SubSeq(done, Since(done, e), Len(done)), e)

\* The last of the creations and destructions of e that done[1 .. i] has is a creation.
There(done, e, i) ==
  \E j \in 1 .. i : Creates(done[j], e) /\ \A k \in j + 1 .. i : ~Destroys(done[k], e)

\* ... and makes it a unit.
IsUnit(done, e, i) ==
  \E j \in 1 .. i : MakesUnit(done, e, j) /\ \A k \in j + 1 .. i : ~Destroys(done[k], e)

\* The history of e says what kind it has, and its data waits in the queue or was
\* given to the unit.
DataKept(p, e) ==
  LET n == Len(parsed[p])
  IN  /\ Since(parsed[p], e) \in 1 .. n + 1
      /\ kind[p][e] # "absent" <=> There(parsed[p], e, n)
      /\ kind[p][e] \in Unit <=> IsUnit(parsed[p], e, n)
      /\ IF kind[p][e] \in Unit
         THEN /\ queued[p][e] = << >>
              /\ applied[p][e] = Kept(Recent(parsed[p], e), Taken(kind[p][e]))
         ELSE queued[p][e] = Recent(parsed[p], e)

QueueInv == MpiTypeOK /\ \A p \in Parser, e \in Entity : DataKept(p, e)

LEMMA Longer ==
  ASSUME NEW done \in Seq(Packet), NEW x \in Packet, NEW more, more = Append(done, x),
         NEW n, n = Len(done)
  PROVE  /\ n \in Nat /\ more \in Seq(Packet) /\ Len(more) = n + 1
         /\ DOMAIN done = 1 .. n /\ DOMAIN more = 1 .. n + 1
         /\ more[n + 1] = x /\ \A i \in 1 .. n : more[i] = done[i]
BY LenProperties, AppendProperties

\* A packet that creates or destroys an entity does not do both.
LEMMA OneKind ==
  ASSUME NEW x \in Packet, NEW e
  PROVE  ~(Creates(x, e) /\ Destroys(x, e))
BY DEF Creates, Destroys

LEMMA ThereLater ==
  ASSUME NEW done \in Seq(Packet), NEW x \in Packet, NEW e, NEW more, more = Append(done, x),
         NEW n, n = Len(done)
  PROVE  There(more, e, n + 1) <=> Creates(x, e) \/ (There(done, e, n) /\ ~Destroys(x, e))
<1>1. n \in Nat /\ more[n + 1] = x /\ \A i \in 1 .. n : more[i] = done[i]
  BY Longer
<1>2. ASSUME Creates(x, e) PROVE There(more, e, n + 1)
  <2>1. n + 1 \in 1 .. n + 1 /\ Creates(more[n + 1], e)
        /\ \A k \in (n + 1) + 1 .. n + 1 : ~Destroys(more[k], e)
    BY <1>1, <1>2
  <2>. QED BY <2>1 DEF There
<1>3. ASSUME There(done, e, n), ~Destroys(x, e) PROVE There(more, e, n + 1)
  <2>1. PICK j \in 1 .. n : Creates(done[j], e) /\ \A k \in j + 1 .. n : ~Destroys(done[k], e)
    BY <1>3 DEF There
  <2>2. j \in 1 .. n + 1 /\ Creates(more[j], e) /\ \A k \in j + 1 .. n + 1 : ~Destroys(more[k], e)
    <3>1. \A k \in j + 1 .. n + 1 : k = n + 1 \/ (k \in j + 1 .. n /\ k \in 1 .. n)
      BY <1>1
    <3>. QED BY <1>1, <1>3, <2>1, <3>1
  <2>. QED BY <2>2 DEF There
<1>4. ASSUME There(more, e, n + 1), ~Creates(x, e) PROVE There(done, e, n) /\ ~Destroys(x, e)
  <2>1. PICK j \in 1 .. n + 1 :
          Creates(more[j], e) /\ \A k \in j + 1 .. n + 1 : ~Destroys(more[k], e)
    BY <1>4 DEF There
  <2>2. j # n + 1
    BY <1>1, <1>4, <2>1
  <2>3. j \in 1 .. n /\ n + 1 \in j + 1 .. n + 1
    BY <1>1, <2>2
  <2>4. ~Destroys(x, e)
    BY <1>1, <2>1, <2>3
  <2>5. Creates(done[j], e) /\ \A k \in j + 1 .. n : ~Destroys(done[k], e)
    <3>1. \A k \in j + 1 .. n : k \in j + 1 .. n + 1 /\ k \in 1 .. n
      BY <1>1, <2>3
    <3>. QED BY <1>1, <2>1, <2>3, <3>1
  <2>. QED BY <2>3, <2>4, <2>5 DEF There
<1>. QED BY <1>2, <1>3, <1>4

\* What a packet did is not changed by the packets after it.
LEMMA MakesUnitBefore ==
  ASSUME NEW done \in Seq(Packet), NEW x \in Packet, NEW e, NEW more, more = Append(done, x),
         NEW n, n = Len(done), NEW i \in 1 .. n
  PROVE  MakesUnit(more, e, i) <=> MakesUnit(done, e, i)
<1>1. n \in Nat /\ \A k \in 1 .. n : more[k] = done[k]
  BY Longer
<1>2. (\A j \in 1 .. i - 1 : j \in 1 .. n /\ \A k \in j + 1 .. i - 1 : k \in 1 .. n)
  BY <1>1
<1>. QED BY <1>1, <1>2 DEF MakesUnit

LEMMA MakesUnitNow ==
  ASSUME NEW done \in Seq(Packet), NEW x \in Packet, NEW e, NEW more, more = Append(done, x),
         NEW n, n = Len(done)
  PROVE  MakesUnit(more, e, n + 1) <=> Creates(x, e) /\ x.kind \in Unit /\ ~There(done, e, n)
<1>1. n \in Nat /\ more[n + 1] = x /\ \A k \in 1 .. n : more[k] = done[k]
  BY Longer
<1>2. (n + 1) - 1 = n /\ \A j \in 1 .. n : \A k \in j + 1 .. n : k \in 1 .. n
  BY <1>1
<1>. QED BY <1>1, <1>2 DEF MakesUnit, There

LEMMA EndsUnitBefore ==
  ASSUME NEW done \in Seq(Packet), NEW x \in Packet, NEW e, NEW more, more = Append(done, x),
         NEW n, n = Len(done), NEW i \in 1 .. n
  PROVE  EndsUnit(more, e, i) <=> EndsUnit(done, e, i)
<1>1. n \in Nat /\ \A k \in 1 .. n : more[k] = done[k]
  BY Longer
<1>2. \A j \in 1 .. i - 1 : j \in 1 .. n /\ \A k \in j + 1 .. i - 1 : k \in 1 .. n
  BY <1>1
<1>3. \A j \in 1 .. i - 1 : MakesUnit(more, e, j) <=> MakesUnit(done, e, j)
  BY <1>2, MakesUnitBefore
<1>. QED BY <1>1, <1>2, <1>3 DEF EndsUnit

LEMMA EndsUnitNow ==
  ASSUME NEW done \in Seq(Packet), NEW x \in Packet, NEW e, NEW more, more = Append(done, x),
         NEW n, n = Len(done)
  PROVE  EndsUnit(more, e, n + 1) <=> Destroys(x, e) /\ IsUnit(done, e, n)
<1>1. n \in Nat /\ more[n + 1] = x /\ \A k \in 1 .. n : more[k] = done[k]
  BY Longer
<1>2. (n + 1) - 1 = n /\ \A j \in 1 .. n : \A k \in j + 1 .. n : k \in 1 .. n
  BY <1>1
<1>3. \A j \in 1 .. n : MakesUnit(more, e, j) <=> MakesUnit(done, e, j)
  BY MakesUnitBefore
<1>. QED BY <1>1, <1>2, <1>3 DEF EndsUnit, IsUnit

LEMMA IsUnitLater ==
  ASSUME NEW done \in Seq(Packet), NEW x \in Packet, NEW e, NEW more, more = Append(done, x),
         NEW n, n = Len(done)
  PROVE  IsUnit(more, e, n + 1) <=>
           MakesUnit(more, e, n + 1) \/ (IsUnit(done, e, n) /\ ~Destroys(x, e))
<1>1. n \in Nat /\ more[n + 1] = x /\ \A i \in 1 .. n : more[i] = done[i]
  BY Longer
<1>2. \A j \in 1 .. n : MakesUnit(more, e, j) <=> MakesUnit(done, e, j)
  BY MakesUnitBefore
<1>3. ASSUME MakesUnit(more, e, n + 1) PROVE IsUnit(more, e, n + 1)
  <2>1. n + 1 \in 1 .. n + 1 /\ \A k \in (n + 1) + 1 .. n + 1 : ~Destroys(more[k], e)
    BY <1>1
  <2>. QED BY <1>3, <2>1 DEF IsUnit
<1>4. ASSUME IsUnit(done, e, n), ~Destroys(x, e) PROVE IsUnit(more, e, n + 1)
  <2>1. PICK j \in 1 .. n : MakesUnit(done, e, j) /\ \A k \in j + 1 .. n : ~Destroys(done[k], e)
    BY <1>4 DEF IsUnit
  <2>2. j \in 1 .. n + 1 /\ \A k \in j + 1 .. n + 1 : ~Destroys(more[k], e)
    <3>1. \A k \in j + 1 .. n + 1 : k = n + 1 \/ (k \in j + 1 .. n /\ k \in 1 .. n)
      BY <1>1
    <3>. QED BY <1>1, <1>4, <2>1, <3>1
  <2>. QED BY <1>2, <2>1, <2>2 DEF IsUnit
<1>5. ASSUME IsUnit(more, e, n + 1), ~MakesUnit(more, e, n + 1)
      PROVE  IsUnit(done, e, n) /\ ~Destroys(x, e)
  <2>1. PICK j \in 1 .. n + 1 :
          MakesUnit(more, e, j) /\ \A k \in j + 1 .. n + 1 : ~Destroys(more[k], e)
    BY <1>5 DEF IsUnit
  <2>2. j \in 1 .. n /\ n + 1 \in j + 1 .. n + 1
    BY <1>1, <1>5, <2>1
  <2>3. ~Destroys(x, e)
    BY <1>1, <2>1, <2>2
  <2>4. \A k \in j + 1 .. n : ~Destroys(done[k], e)
    <3>1. \A k \in j + 1 .. n : k \in j + 1 .. n + 1 /\ k \in 1 .. n
      BY <1>1, <2>2
    <3>. QED BY <1>1, <2>1, <3>1
  <2>. QED BY <1>2, <2>1, <2>2, <2>3, <2>4 DEF IsUnit
<1>. QED BY <1>3, <1>4, <1>5

LEMMA SinceLater ==
  ASSUME NEW done \in Seq(Packet), NEW x \in Packet, NEW e, NEW more, more = Append(done, x),
         NEW n, n = Len(done)
  PROVE  Since(more, e) = IF EndsUnit(more, e, n + 1) THEN n + 1 ELSE Since(done, e)
<1> DEFINE old == {i \in DOMAIN done : EndsUnit(done, e, i)}
           new == {i \in DOMAIN more : EndsUnit(more, e, i)}
<1>1. n \in Nat /\ DOMAIN done = 1 .. n /\ DOMAIN more = 1 .. n + 1
  BY Longer
<1>2. \A i \in 1 .. n : EndsUnit(more, e, i) <=> EndsUnit(done, e, i)
  BY EndsUnitBefore
<1>3. CASE EndsUnit(more, e, n + 1)
  <2>1. n + 1 \in new /\ \A j \in new : j <= n + 1 /\ j \in Nat
    BY <1>1, <1>3
  <2>. HIDE DEF new
  <2> DEFINE top == CHOOSE i \in new : \A j \in new : j <= i
  <2>2. top \in new /\ \A j \in new : j <= top
    BY <2>1
  <2>. HIDE DEF top
  <2>3. top = n + 1
    BY <1>1, <2>1, <2>2
  <2>4. Since(more, e) = top
    BY <2>1, Zenon DEF Since, new, top
  <2>. QED BY <1>3, <2>3, <2>4
<1>4. CASE ~EndsUnit(more, e, n + 1)
  <2>1. new = old
    BY <1>1, <1>2, <1>4
  <2>2. /\ Since(more, e) = IF new = {} THEN 1 ELSE CHOOSE i \in new : \A j \in new : j <= i
        /\ Since(done, e) = IF old = {} THEN 1 ELSE CHOOSE i \in old : \A j \in old : j <= i
    BY Zenon DEF Since
  <2>. HIDE DEF new, old
  <2>3. Since(more, e) = Since(done, e)
    BY <2>1, <2>2
  <2>. QED BY <1>4, <2>3
<1>. QED BY <1>3, <1>4

LEMMA RecentLater ==
  ASSUME NEW done \in Seq(Packet), NEW x \in Packet, NEW e, NEW more, more = Append(done, x),
         NEW n, n = Len(done), Since(done, e) \in 1 .. n + 1
  PROVE  /\ Since(more, e) \in 1 .. (n + 1) + 1
         /\ Recent(done, e) \in Seq(Reflectable)
         /\ Recent(more, e) = IF EndsUnit(more, e, n + 1) THEN << >>
                              ELSE Recent(done, e) \o Kept(DataOf(x), For(e))
<1>1. /\ n \in Nat /\ more \in Seq(Packet) /\ Len(more) = n + 1 /\ more[n + 1] = x
      /\ \A i \in 1 .. n : more[i] = done[i] /\ done[i] \in Packet
  BY Longer, ElementOfSeq
<1>2. ASSUME NEW m \in 1 .. n + 1
      PROVE  SubSeq(done, m, n) \in Seq(Packet)
             /\ SubSeq(more, m, n + 1) = Append(SubSeq(done, m, n), x)
  <2> DEFINE s == SubSeq(done, m, n)
             t == SubSeq(more, m, n + 1)
             l == (n + 1) - m
  <2>1. m \in Int /\ n \in Int /\ n + 1 \in Int /\ l \in Nat /\ n - m + 1 = l
        /\ (n + 1) - m + 1 = l + 1
    BY <1>1
  <2>2. (\A i \in m .. n : done[i] \in Packet) /\ (\A i \in m .. n + 1 : more[i] \in Packet)
    <3>1. \A i \in m .. n + 1 : i = n + 1 \/ i \in 1 .. n
      BY <1>1
    <3>2. \A i \in m .. n : i \in 1 .. n
      BY <1>1
    <3>. QED BY <1>1, <3>1, <3>2
  <2>3. s \in Seq(Packet) /\ Len(s) = (IF m <= n THEN n - m + 1 ELSE 0)
        /\ \A i \in 1 .. n - m + 1 : s[i] = done[m + i - 1]
    BY <2>1, <2>2, SubSeqProperties
  <2>4. t \in Seq(Packet) /\ Len(t) = (IF m <= n + 1 THEN (n + 1) - m + 1 ELSE 0)
        /\ \A i \in 1 .. (n + 1) - m + 1 : t[i] = more[m + i - 1]
    BY <2>1, <2>2, SubSeqProperties
  <2>. HIDE DEF s, t
  <2>5. Len(s) = l /\ Len(t) = l + 1
    BY <1>1, <2>1, <2>3, <2>4
  <2>6. /\ Append(s, x) \in Seq(Packet) /\ Len(Append(s, x)) = l + 1
        /\ Append(s, x)[l + 1] = x /\ \A i \in 1 .. l : Append(s, x)[i] = s[i]
    BY <2>3, <2>5, AppendProperties
  <2>7. \A i \in 1 .. l + 1 : t[i] = Append(s, x)[i]
    <3>. SUFFICES ASSUME NEW i \in 1 .. l + 1 PROVE t[i] = Append(s, x)[i]
      OBVIOUS
    <3>1. t[i] = more[m + i - 1]
      BY <2>1, <2>4
    <3>2. CASE i = l + 1
      <4>1. m + i - 1 = n + 1
        BY <1>1, <3>2
      <4>. QED BY <1>1, <2>6, <3>1, <3>2, <4>1
    <3>3. CASE i \in 1 .. l
      <4>1. m + i - 1 \in 1 .. n
        BY <1>1, <3>3
      <4>2. s[i] = done[m + i - 1]
        BY <2>1, <2>3, <3>3
      <4>. QED BY <1>1, <2>6, <3>1, <3>3, <4>1, <4>2
    <3>4. i = l + 1 \/ i \in 1 .. l
      <4>. HIDE DEF l
      <4>. QED BY <2>1
    <3>. QED BY <3>2, <3>3, <3>4
  <2>8. t = Append(s, x)
    BY <2>4, <2>5, <2>6, <2>7, SeqEqual
  <2>. QED BY <2>3, <2>8 DEF s, t
<1>3. Recent(done, e) \in Seq(Reflectable)
      /\ DataFor(SubSeq(more, Since(done, e), n + 1), e) =
           Recent(done, e) \o Kept(DataOf(x), For(e))
  <2> DEFINE m == Since(done, e)
             s == SubSeq(done, m, n)
  <2>1. m \in 1 .. n + 1
    OBVIOUS
  <2>2. Recent(done, e) = DataFor(s, e)
    BY DEF Recent
  <2>. HIDE DEF m
  <2>3. s \in Seq(Packet) /\ SubSeq(more, m, n + 1) = Append(s, x)
    BY <1>2, <2>1
  <2>. HIDE DEF s
  <2>4. DataFor(s, e) \in Seq(Reflectable)
        /\ DataFor(Append(s, x), e) = DataFor(s, e) \o Kept(DataOf(x), For(e))
    BY <2>3, DataForAppend
  <2>. QED BY <2>2, <2>3, <2>4 DEF m
<1>4. CASE EndsUnit(more, e, n + 1)
  <2>1. Since(more, e) = n + 1
    BY <1>4, SinceLater
  <2>2. SubSeq(done, n + 1, n) = << >>
    BY <1>1, SubSeqEmpty
  <2>3. SubSeq(more, n + 1, n + 1) = Append(<< >>, x) /\ << >> \in Seq(Packet)
    <3>1. n + 1 \in 1 .. n + 1
      BY <1>1
    <3>. QED BY <1>2, <2>2, <3>1
  <2>4. DataFor(Append(<< >>, x), e) = << >> \o Kept(DataOf(x), For(e))
    BY <2>3, DataForAppend, DataForEmpty
  <2>5. DataOf(x) = << >>
    BY <1>4, EndsUnitNow DEF Destroys, DataOf
  <2>6. << >> \o << >> = << >>
    BY ConcatEmptySeq, EmptySeq
  <2>7. Recent(more, e) = << >>
    BY <1>1, <2>1, <2>3, <2>4, <2>5, <2>6, KeptEmpty DEF Recent
  <2>. QED BY <1>1, <1>3, <1>4, <2>1, <2>7
<1>5. CASE ~EndsUnit(more, e, n + 1)
  <2>1. Since(more, e) = Since(done, e)
    BY <1>5, SinceLater
  <2>. QED BY <1>1, <1>3, <1>5, <2>1 DEF Recent
<1>. QED BY <1>4, <1>5

\* What a packet does to the data of an entity.
Effect(p, e, x) ==
  /\ Creates(x, e) /\ kind[p][e] = "absent" =>
       /\ kind'[p][e] = x.kind
       /\ queued'[p][e] = IF x.kind \in Unit THEN << >> ELSE queued[p][e]
       /\ x.kind \in Unit => applied'[p][e] = Kept(queued[p][e], Taken(x.kind))
  /\ Destroys(x, e) => kind'[p][e] = "absent" /\ queued'[p][e] = queued[p][e]
  /\ ~(Creates(x, e) /\ kind[p][e] = "absent") /\ ~Destroys(x, e) =>
       /\ kind'[p][e] = kind[p][e]
       /\ queued'[p][e] = QueuedFor(p, e, DataOf(x))
       /\ applied'[p][e] = GivenTo(p, e, DataOf(x))

\* A packet changes the entities of the parser that parses it only.
Others(p) ==
  \E k \in [Entity -> Kind], q, a \in [Entity -> Seq(Reflectable)] :
    /\ kind' = [kind EXCEPT ![p] = k]
    /\ queued' = [queued EXCEPT ![p] = q]
    /\ applied' = [applied EXCEPT ![p] = a]

LEMMA NoDataNothing ==
  ASSUME MpiTypeOK, NEW p \in Parser, NEW e \in Entity
  PROVE  QueuedFor(p, e, << >>) = queued[p][e] /\ GivenTo(p, e, << >>) = applied[p][e]
<1>1. queued[p][e] \in Seq(Reflectable) /\ applied[p][e] \in Seq(Reflectable)
  BY DEF MpiTypeOK
<1>2. queued[p][e] \o << >> = queued[p][e] /\ applied[p][e] \o << >> = applied[p][e]
  BY <1>1, ConcatEmptySeq
<1>. QED BY <1>2, KeptEmpty DEF QueuedFor, GivenTo

LEMMA UnchangedEffect ==
  ASSUME MpiTypeOK, NEW p \in Parser, NEW x \in Packet, UNCHANGED mpiVars,
         x.type = "end" \/ (x.type = "create" /\ kind[p][x.entity] # "absent")
  PROVE  Others(p) /\ \A e \in Entity : Effect(p, e, x)
<1>1. kind' = kind /\ queued' = queued /\ applied' = applied
  BY DEF mpiVars
<1>2. Others(p)
  <2>1. /\ kind = [kind EXCEPT ![p] = kind[p]] /\ queued = [queued EXCEPT ![p] = queued[p]]
        /\ applied = [applied EXCEPT ![p] = applied[p]]
    BY DEF MpiTypeOK
  <2>2. kind[p] \in [Entity -> Kind] /\ queued[p] \in [Entity -> Seq(Reflectable)]
        /\ applied[p] \in [Entity -> Seq(Reflectable)]
    BY DEF MpiTypeOK
  <2>3. /\ kind' = [kind EXCEPT ![p] = kind[p]] /\ queued' = [queued EXCEPT ![p] = queued[p]]
        /\ applied' = [applied EXCEPT ![p] = applied[p]]
    BY <1>1, <2>1
  <2>. QED BY <2>2, <2>3, Zenon DEF Others
<1>3. /\ DataOf(x) = << >>
      /\ \A e \in Entity : ~Destroys(x, e) /\ ~(Creates(x, e) /\ kind[p][e] = "absent")
  BY DEF DataOf, Destroys, Creates
<1>. QED BY <1>1, <1>2, <1>3, NoDataNothing DEF Effect

LEMMA CreateEffect ==
  ASSUME MpiTypeOK, NEW p \in Parser, NEW x \in Packet, x.type = "create",
         kind[p][x.entity] = "absent", Become(p, Appeared(State(p), x.entity, x.kind))
  PROVE  Others(p) /\ \A e \in Entity : Effect(p, e, x)
<1> DEFINE c == x.entity
           k == x.kind
           new == IF k \in Unit THEN Kept(queued[p][c], Taken(k)) ELSE << >>
           left == IF k \in Unit THEN << >> ELSE queued[p][c]
           ks == [kind[p] EXCEPT ![c] = k]
           qs == [queued[p] EXCEPT ![c] = left]
           as == [applied[p] EXCEPT ![c] = new]
           st == Appeared(State(p), c, k)
<1>1. c \in Entity /\ k \in Kind
  BY DEF Packet
<1>2. kind[p] \in [Entity -> Kind] /\ queued[p] \in [Entity -> Seq(Reflectable)]
      /\ applied[p] \in [Entity -> Seq(Reflectable)]
  BY DEF MpiTypeOK
<1>3. new \in Seq(Reflectable) /\ left \in Seq(Reflectable)
  BY <1>1, <1>2, KeptType, EmptySeq
<1>4. st.kind = ks /\ st.queued = qs /\ st.applied = as
  <2>1. State(p).kind = kind[p] /\ State(p).queued = queued[p] /\ State(p).applied = applied[p]
        /\ State(p) = [kind |-> kind[p], queued |-> queued[p], applied |-> applied[p]]
    BY DEF State
  <2>2. st = [State(p) EXCEPT !.kind[c] = k, !.applied[c] = new, !.queued[c] = left]
    BY <1>1, <1>2, <2>1 DEF Appeared
  <2>. HIDE DEF new, left, c, k, st
  <2>. QED BY <2>1, <2>2
<1>. HIDE DEF st
<1>5. /\ kind' = [kind EXCEPT ![p] = ks] /\ queued' = [queued EXCEPT ![p] = qs]
      /\ applied' = [applied EXCEPT ![p] = as]
  BY <1>4, Zenon DEF Become, st
<1>6. kind'[p] = ks /\ queued'[p] = qs /\ applied'[p] = as
  BY <1>5 DEF MpiTypeOK
<1>. HIDE DEF new, left
<1>7. ks \in [Entity -> Kind] /\ qs \in [Entity -> Seq(Reflectable)]
      /\ as \in [Entity -> Seq(Reflectable)]
  BY <1>1, <1>2, <1>3
<1>8. Others(p)
  <2>. HIDE DEF ks, qs, as
  <2>. QED BY <1>5, <1>7, Zenon DEF Others
<1>9. ASSUME NEW e \in Entity PROVE Effect(p, e, x)
  <2>1. DataOf(x) = << >> /\ ~Destroys(x, e) /\ (Creates(x, e) <=> e = c)
    BY DEF DataOf, Destroys, Creates
  <2>2. CASE e = c
    <3>1. ks[e] = k /\ qs[e] = left /\ as[e] = new
      BY <1>1, <1>2, <2>2
    <3>. HIDE DEF ks, qs, as
    <3>. QED BY <1>6, <2>1, <2>2, <3>1 DEF Effect, new, left
  <2>3. CASE e # c
    <3>1. ks[e] = kind[p][e] /\ qs[e] = queued[p][e] /\ as[e] = applied[p][e]
      BY <1>2, <2>3
    <3>. HIDE DEF ks, qs, as, c
    <3>. QED BY <1>6, <2>1, <2>3, <3>1, NoDataNothing DEF Effect
  <2>. QED BY <2>2, <2>3
<1>. QED BY <1>8, <1>9

LEMMA DestroyEffect ==
  ASSUME MpiTypeOK, NEW p \in Parser, NEW x \in Packet, x.type = "destroy",
         DestroyEntity(p, x.entity)
  PROVE  Others(p) /\ \A e \in Entity : Effect(p, e, x)
<1> DEFINE c == x.entity
           ks == [kind[p] EXCEPT ![c] = "absent"]
           as == [applied[p] EXCEPT ![c] = << >>]
<1>1. c \in Entity
  BY DEF Packet
<1>2. kind[p] \in [Entity -> Kind] /\ queued[p] \in [Entity -> Seq(Reflectable)]
      /\ applied[p] \in [Entity -> Seq(Reflectable)]
  BY DEF MpiTypeOK
<1>3. /\ kind' = [kind EXCEPT ![p] = ks] /\ applied' = [applied EXCEPT ![p] = as]
      /\ queued' = queued
  BY DEF DestroyEntity
<1>4. kind'[p] = ks /\ applied'[p] = as
  BY <1>3 DEF MpiTypeOK
<1>5. ks \in [Entity -> Kind] /\ as \in [Entity -> Seq(Reflectable)]
  BY <1>1, <1>2, EmptySeq DEF Kind
<1>6. Others(p)
  <2>1. queued' = [queued EXCEPT ![p] = queued[p]]
    BY <1>3 DEF MpiTypeOK
  <2>. HIDE DEF ks, as
  <2>. QED BY <1>2, <1>3, <1>5, <2>1, Zenon DEF Others
<1>7. ASSUME NEW e \in Entity PROVE Effect(p, e, x)
  <2>1. DataOf(x) = << >> /\ ~Creates(x, e) /\ (Destroys(x, e) <=> e = c)
    BY DEF DataOf, Destroys, Creates
  <2>2. ks[e] = (IF e = c THEN "absent" ELSE kind[p][e]) /\ (e # c => as[e] = applied[p][e])
    BY <1>2
  <2>. HIDE DEF ks, as, c
  <2>. QED BY <1>3, <1>4, <2>1, <2>2, NoDataNothing DEF Effect
<1>. QED BY <1>6, <1>7

LEMMA ReflectEffect ==
  ASSUME MpiTypeOK, NEW p \in Parser, NEW x \in Packet, x.type = "reflect",
         Reflect(p, x.data)
  PROVE  Others(p) /\ \A e \in Entity : Effect(p, e, x)
<1> DEFINE rs == DataOf(x)
           qs == [e \in Entity |-> QueuedFor(p, e, rs)]
           as == [e \in Entity |-> GivenTo(p, e, rs)]
           st == ReflectedBy(p, rs)
<1>1. rs = x.data /\ rs \in Seq(Reflectable)
  BY DataOfType DEF DataOf
<1>2. kind[p] \in [Entity -> Kind] /\ queued[p] \in [Entity -> Seq(Reflectable)]
      /\ applied[p] \in [Entity -> Seq(Reflectable)]
  BY DEF MpiTypeOK
<1>3. st.kind = kind[p] /\ st.queued = qs /\ st.applied = as
  BY DEF ReflectedBy
<1>. HIDE DEF rs, st
<1>4. Become(p, st)
  BY <1>1, ReflectDoes DEF st
<1>5. /\ kind' = [kind EXCEPT ![p] = kind[p]] /\ queued' = [queued EXCEPT ![p] = qs]
      /\ applied' = [applied EXCEPT ![p] = as]
  BY <1>3, <1>4, Zenon DEF Become
<1>6. kind'[p] = kind[p] /\ queued'[p] = qs /\ applied'[p] = as
  BY <1>5 DEF MpiTypeOK
<1>7. ASSUME NEW e \in Entity
      PROVE  QueuedFor(p, e, rs) \in Seq(Reflectable) /\ GivenTo(p, e, rs) \in Seq(Reflectable)
  <2>1. Kept(rs, For(e)) \in Seq(Reflectable)
    BY <1>1, KeptType
  <2>2. Kept(Kept(rs, For(e)), Taken(kind[p][e])) \in Seq(Reflectable)
    BY <2>1, KeptType
  <2>. QED BY <1>2, <2>1, <2>2, ConcatProperties DEF QueuedFor, GivenTo
<1>8. qs \in [Entity -> Seq(Reflectable)] /\ as \in [Entity -> Seq(Reflectable)]
  BY <1>7
<1>9. Others(p)
  <2>. HIDE DEF qs, as
  <2>. QED BY <1>2, <1>5, <1>8, Zenon DEF Others
<1>10. ASSUME NEW e \in Entity PROVE Effect(p, e, x)
  <2>1. ~Creates(x, e) /\ ~Destroys(x, e)
    BY DEF Destroys, Creates
  <2>2. qs[e] = QueuedFor(p, e, rs) /\ as[e] = GivenTo(p, e, rs)
    OBVIOUS
  <2>. HIDE DEF qs, as
  <2>. QED BY <1>6, <2>1, <2>2 DEF Effect, rs
<1>. QED BY <1>9, <1>10

LEMMA ApplyEffect ==
  ASSUME MpiTypeOK, NEW p \in Parser, NEW x \in Packet, Apply(p, x)
  PROVE  Others(p) /\ \A e \in Entity : Effect(p, e, x)
<1>1. x.type \in {"create", "destroy", "reflect", "end"}
  BY DEF Packet
<1>2. CASE x.type = "create"
  <2>1. CreateEntity(p, x.entity, x.kind)
    BY <1>2, Zenon DEF Apply
  <2>2. CASE kind[p][x.entity] = "absent"
    <3>1. Become(p, Appeared(State(p), x.entity, x.kind))
      BY <2>1, <2>2, Zenon DEF CreateEntity
    <3>. QED BY <1>2, <2>2, <3>1, CreateEffect
  <2>3. CASE kind[p][x.entity] # "absent"
    <3>1. UNCHANGED mpiVars
      BY <2>1, <2>3, Zenon DEF CreateEntity
    <3>. QED BY <1>2, <2>3, <3>1, UnchangedEffect
  <2>. QED BY <2>2, <2>3
<1>3. CASE x.type = "destroy"
  <2>1. DestroyEntity(p, x.entity)
    BY <1>3 DEF Apply
  <2>. QED BY <1>3, <2>1, DestroyEffect
<1>4. CASE x.type = "reflect"
  <2>1. Reflect(p, x.data)
    BY <1>4 DEF Apply
  <2>. QED BY <1>4, <2>1, ReflectEffect
<1>5. CASE x.type = "end"
  <2>1. UNCHANGED mpiVars
    BY <1>5 DEF Apply
  <2>. QED BY <1>5, <2>1, UnchangedEffect
<1>. QED BY <1>1, <1>2, <1>3, <1>4, <1>5

\* The data of an entity after a packet.
LEMMA PacketKeepsData ==
  ASSUME MpiTypeOK, NEW p \in Parser, NEW e \in Entity, NEW x \in Packet,
         parsed[p] \in Seq(Packet), parsed'[p] = Append(parsed[p], x),
         DataKept(p, e), Effect(p, e, x)
  PROVE  DataKept(p, e)'
<1> DEFINE done == parsed[p]
           more == parsed'[p]
           n == Len(done)
           k == kind[p][e]
           new == kind'[p][e]
           ds == Recent(done, e)
           rs == Kept(DataOf(x), For(e))
<1>1. done \in Seq(Packet) /\ more = Append(done, x) /\ n \in Nat /\ Len(more) = n + 1
  BY Longer
<1>2. /\ Since(done, e) \in 1 .. n + 1
      /\ k # "absent" <=> There(done, e, n)
      /\ k \in Unit <=> IsUnit(done, e, n)
      /\ k \in Unit => queued[p][e] = << >> /\ applied[p][e] = Kept(ds, Taken(k))
      /\ k \notin Unit => queued[p][e] = ds
  BY DEF DataKept
<1>3. /\ Since(more, e) \in 1 .. (n + 1) + 1
      /\ ds \in Seq(Reflectable)
      /\ Recent(more, e) = IF Destroys(x, e) /\ IsUnit(done, e, n) THEN << >> ELSE ds \o rs
  <2>1. EndsUnit(more, e, n + 1) <=> Destroys(x, e) /\ IsUnit(done, e, n)
    BY <1>1, EndsUnitNow
  <2>2. /\ Since(more, e) \in 1 .. (n + 1) + 1
        /\ Recent(done, e) \in Seq(Reflectable)
        /\ Recent(more, e) = IF EndsUnit(more, e, n + 1) THEN << >> ELSE Recent(done, e) \o rs
    <3>. HIDE DEF done, more
    <3>. QED BY <1>1, <1>2, RecentLater
  <2>. QED BY <2>1, <2>2
<1>4. There(more, e, n + 1) <=> Creates(x, e) \/ (There(done, e, n) /\ ~Destroys(x, e))
  BY <1>1, ThereLater
<1>5. IsUnit(more, e, n + 1) <=>
        \/ Creates(x, e) /\ x.kind \in Unit /\ ~There(done, e, n)
        \/ IsUnit(done, e, n) /\ ~Destroys(x, e)
  BY <1>1, IsUnitLater, MakesUnitNow
<1>6. ~(Creates(x, e) /\ Destroys(x, e))
  BY OneKind
<1>7. x.type # "reflect" => ds \o rs = ds
  <2>1. x.type # "reflect" => rs = << >>
    BY KeptEmpty DEF DataOf
  <2>. QED BY <1>3, <2>1, ConcatEmptySeq
<1>8. "absent" \notin Unit
  BY DEF Unit
<1>. SUFFICES /\ new # "absent" <=> There(more, e, n + 1)
              /\ new \in Unit <=> IsUnit(more, e, n + 1)
              /\ new \in Unit => /\ queued'[p][e] = << >>
                                 /\ applied'[p][e] = Kept(Recent(more, e), Taken(new))
              /\ new \notin Unit => queued'[p][e] = Recent(more, e)
  BY <1>1, <1>3 DEF DataKept
<1>9. CASE Creates(x, e) /\ k = "absent"
  <2>1. /\ new = x.kind
        /\ queued'[p][e] = IF x.kind \in Unit THEN << >> ELSE queued[p][e]
        /\ x.kind \in Unit => applied'[p][e] = Kept(queued[p][e], Taken(x.kind))
    BY <1>9 DEF Effect
  <2>2. x.type = "create" /\ x.kind # "absent"
    BY <1>9 DEF Creates, Packet
  <2>3. Recent(more, e) = ds
    BY <1>3, <1>6, <1>7, <1>9, <2>2
  <2>. HIDE DEF done, more, n, k, new, ds, rs
  <2>4. There(more, e, n + 1) /\ ~There(done, e, n) /\ ~IsUnit(done, e, n) /\ queued[p][e] = ds
    BY <1>2, <1>4, <1>8, <1>9
  <2>. QED BY <1>5, <1>9, <2>1, <2>2, <2>3, <2>4
<1>10. CASE Destroys(x, e)
  <2>1. new = "absent" /\ queued'[p][e] = queued[p][e]
    BY <1>10 DEF Effect
  <2>2. x.type # "reflect"
    BY <1>10 DEF Destroys
  <2>. HIDE DEF done, more, n, k, new, ds, rs
  <2>3. ~There(more, e, n + 1) /\ ~IsUnit(more, e, n + 1)
    BY <1>4, <1>5, <1>6, <1>10
  <2>4. queued[p][e] = Recent(more, e)
    BY <1>2, <1>3, <1>7, <1>10, <2>2
  <2>. QED BY <1>8, <2>1, <2>3, <2>4
<1>11. CASE ~(Creates(x, e) /\ k = "absent") /\ ~Destroys(x, e)
  <2>1. /\ new = k
        /\ queued'[p][e] = (IF k \in Unit THEN queued[p][e] ELSE queued[p][e] \o rs)
        /\ k \in Unit => applied'[p][e] = applied[p][e] \o Kept(rs, Taken(k))
    BY <1>11 DEF Effect, QueuedFor, GivenTo
  <2>2. rs \in Seq(Reflectable)
    BY DataOfType, KeptType
  <2>. HIDE DEF done, more, n, k, new, ds, rs
  <2>3. Recent(more, e) = ds \o rs
    BY <1>3, <1>11
  <2>4. Kept(ds \o rs, Taken(k)) = Kept(ds, Taken(k)) \o Kept(rs, Taken(k))
    BY <1>3, <2>2, KeptConcat
  <2>5. /\ There(more, e, n + 1) <=> There(done, e, n)
        /\ IsUnit(more, e, n + 1) <=> IsUnit(done, e, n)
    BY <1>2, <1>4, <1>5, <1>11
  <2>. QED BY <1>2, <2>1, <2>3, <2>4, <2>5
<1>. QED BY <1>9, <1>10, <1>11

LEMMA InitQueue == Init => QueueInv
<1>. SUFFICES ASSUME Init PROVE QueueInv
  OBVIOUS
<1>1. /\ kind = [p \in Parser |-> [e \in Entity |-> "absent"]]
      /\ queued = [p \in Parser |-> [e \in Entity |-> << >>]]
      /\ applied = [p \in Parser |-> [e \in Entity |-> << >>]]
      /\ parsed = [p \in Parser |-> << >>]
  BY DEF Init, MpiInit
<1>2. MpiTypeOK
  BY <1>1, EmptySeq DEF MpiTypeOK, Kind
<1>3. ASSUME NEW p \in Parser, NEW e \in Entity PROVE DataKept(p, e)
  <2>1. parsed[p] = << >> /\ kind[p][e] = "absent" /\ queued[p][e] = << >> /\ Len(<< >>) = 0
    BY <1>1, EmptySeq
  <2>2. Since(<< >>, e) = 1
    <3>1. {i \in DOMAIN << >> : EndsUnit(<< >>, e, i)} = {}
      OBVIOUS
    <3>. QED BY <3>1, Zenon DEF Since
  <2>3. ~There(<< >>, e, 0) /\ ~IsUnit(<< >>, e, 0)
    BY DEF There, IsUnit
  <2>4. Recent(<< >>, e) = << >>
    <3>1. SubSeq(<< >>, 1, 0) = << >>
      BY SubSeqEmpty
    <3>. QED BY <2>1, <2>2, <3>1, DataForEmpty DEF Recent
  <2>5. "absent" \notin Unit
    BY DEF Unit
  <2>. QED BY <2>1, <2>2, <2>3, <2>4, <2>5 DEF DataKept
<1>. QED BY <1>2, <1>3 DEF QueueInv

\* An entity whose data and packets stay the same.
LEMMA DataStays ==
  ASSUME NEW p \in Parser, NEW e \in Entity, DataKept(p, e), parsed'[p] = parsed[p],
         kind'[p] = kind[p], queued'[p] = queued[p], applied'[p] = applied[p]
  PROVE  DataKept(p, e)'
BY DEF DataKept

LEMMA StepKeepsQueue ==
  ASSUME ReadInv, QueueInv, [Next]_vars
  PROVE  QueueInv'
<1>1. MpiTypeOK /\ ReadTypeOK
  BY DEF QueueInv, ReadInv
<1>2. ASSUME NEW p \in Parser, ParseNext(p) PROVE QueueInv'
  <2> DEFINE x == Segment(p)[at[p].next]
  <2>1. x \in Packet /\ parsed' = [parsed EXCEPT ![p] = Append(parsed[p], x)]
    BY <1>2, ParseReads
  <2>2. Apply(p, x)
    BY <1>2, Zenon DEF ParseNext
  <2>. HIDE DEF x
  <2>3. Others(p) /\ \A e \in Entity : Effect(p, e, x)
    BY <1>1, <2>1, <2>2, ApplyEffect
  <2>4. PICK k \in [Entity -> Kind], q, a \in [Entity -> Seq(Reflectable)] :
          /\ kind' = [kind EXCEPT ![p] = k] /\ queued' = [queued EXCEPT ![p] = q]
          /\ applied' = [applied EXCEPT ![p] = a]
    BY <2>3 DEF Others
  <2>5. ASSUME NEW e \in Entity PROVE DataKept(p, e)'
    <3>1. parsed[p] \in Seq(Packet) /\ parsed'[p] = Append(parsed[p], x)
      BY <1>1, <2>1 DEF ReadTypeOK
    <3>. QED BY <1>1, <2>1, <2>3, <3>1, PacketKeepsData DEF QueueInv
  <2>6. ASSUME NEW r \in Parser, r # p
        PROVE  parsed'[r] = parsed[r] /\ kind'[r] = kind[r] /\ queued'[r] = queued[r]
               /\ applied'[r] = applied[r]
    BY <1>1, <2>1, <2>4, <2>6 DEF MpiTypeOK, ReadTypeOK
  <2>7. ASSUME NEW r \in Parser, r # p, NEW e \in Entity PROVE DataKept(r, e)'
    BY <2>6, <2>7, DataStays DEF QueueInv
  <2>8. MpiTypeOK'
    BY <1>1, <2>4 DEF MpiTypeOK
  <2>. QED BY <2>5, <2>7, <2>8 DEF QueueInv
<1>3. ASSUME NEW p \in Parser, FileStep(p), UNCHANGED <<mpiVars, parsed>> PROVE QueueInv'
  <2>1. UNCHANGED <<kind, queued, applied, parsed>>
    BY <1>3 DEF mpiVars
  <2>. QED BY <2>1, DataStays DEF QueueInv, MpiTypeOK
<1>4. CASE UNCHANGED vars
  <2>1. UNCHANGED <<kind, queued, applied, parsed>>
    BY <1>4 DEF vars, mpiVars
  <2>. QED BY <2>1, DataStays DEF QueueInv, MpiTypeOK
<1>. QED BY <1>2, <1>3, <1>4 DEF Next, Step

THEOREM QueueInvariant == Spec => []QueueInv
<1>1. Init => QueueInv
  BY InitQueue
<1>2. ReadInv /\ QueueInv /\ [Next]_vars => QueueInv'
  BY StepKeepsQueue
<1>. QED BY <1>1, <1>2, ReadInvariant, PTL DEF Spec

\* What the objects of a unit are given is what was recorded for them since the
\* entity last stopped being a unit, in order: for any recordings.
THEOREM AppliedInOrderAlways == Spec => []AppliedInOrder
<1>1. ASSUME QueueInv, NEW p \in Parser, NEW e \in Entity, kind[p][e] \in Unit
      PROVE  applied[p][e] =
               Kept(DataFor(SubSeq(parsed[p], Since(parsed[p], e), Len(parsed[p])), e),
                    {r \in Reflectable : /\ kind[p][e] # "modelless"
                                         /\ r.object \in {"weapons", kind[p][e]}})
  <2> DEFINE k == kind[p][e]
             set == {r \in Reflectable : k # "modelless" /\ r.object \in {"weapons", k}}
  <2>1. Taken(k) = set
    BY <1>1 DEF Taken, Takes, Unit
  <2>2. applied[p][e] = Kept(Recent(parsed[p], e), Taken(k))
    BY <1>1 DEF QueueInv, DataKept
  <2>. HIDE DEF set
  <2>3. applied[p][e] = Kept(Recent(parsed[p], e), set)
    BY <2>1, <2>2
  <2>. QED BY <2>3 DEF set, Recent
<1>2. QueueInv => AppliedInOrder
  BY <1>1 DEF AppliedInOrder
<1>. QED BY <1>2, QueueInvariant, PTL
=============================================================================
