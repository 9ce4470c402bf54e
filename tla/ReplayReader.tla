----------------------------- MODULE ReplayReader -----------------------------
(***************************************************************************)
(* Readers of one ServerReplay, each in a thread of its own: a             *)
(* ServerReplayReader goes through the files of the replay with a reader   *)
(* per file, which decompresses the file's data at once or as it goes.     *)
(* The data of a file (FileReplayData) is loaded for the first reader that *)
(* needs it and dropped after the last: ref_count, without a lock.         *)
(*                                                                         *)
(* Serialised says that the callers let no two getData or afterParse calls *)
(* overlap, as a program that reads in one thread does.                    *)
(*                                                                         *)
(* A packet carries its time unless it has that of the packet before it in *)
(* the file.  What packets mean is left to the module that extends this.   *)
(***************************************************************************)
EXTENDS Integers, Sequences, FiniteSets

CONSTANTS
  Reader,     \* threads
  Recordings, \* what the files may hold: sequences of segments of packets
  Serialised

ASSUME ReaderAssumption ==
  /\ IsFiniteSet(Reader)
  /\ \A rec \in Recordings :
       /\ Len(rec) \in Nat \ {0} /\ DOMAIN rec = 1 .. Len(rec)
       /\ \A s \in DOMAIN rec :
            /\ Len(rec[s]) \in Nat
            /\ \A i \in 1 .. Len(rec[s]) : rec[s][i].time \in Nat
  /\ Serialised \in BOOLEAN

VARIABLES
  recording, \* replay_files
  streaming, \* getCompressedReplayReader was called, not getReplayReader
  step,      \* where each thread is
  counted,   \* the value of ref_count a thread works with
  at,        \* a reader's replay_index and place in that file
  refCount,  \* ref_count of each file
  zlibData,  \* zlib_data of each file: none, sized or full
  failed     \* readers of each file whose constructor threw

files      == <<refCount, zlibData, failed>>
readerVars == <<recording, streaming, step, counted, at, files>>

Start == [segment |-> 1, next |-> 1, time |-> 0, retry |-> FALSE, closing |-> FALSE]

ReaderInit ==
  /\ recording \in Recordings
  /\ streaming \in [Reader -> BOOLEAN]
  /\ step = [r \in Reader |-> "count"]
  /\ counted = [r \in Reader |-> 0]
  /\ at = [r \in Reader |-> Start]
  /\ refCount = [s \in DOMAIN recording |-> 0]
  /\ zlibData = [s \in DOMAIN recording |-> "none"]
  /\ failed = [s \in DOMAIN recording |-> 0]

Goto(r, where) == step' = [step EXCEPT ![r] = where]

Inside == {"counting", "look", "load", "sized", "releasing"}

Free(r) == Serialised => \A u \in Reader \ {r} : step[u] \notin Inside

-----------------------------------------------------------------------------
(* getReplayReader and getData, at the start of a file's reader *)

\* The file is not a valid replay.
OpenFails(r) ==
  /\ step[r] = "count"
  /\ Goto(r, "threw")
  /\ UNCHANGED <<recording, streaming, counted, at, files>>

\* ref_count++: the value is read ...
ReadCount(r) ==
  /\ step[r] = "count"
  /\ Free(r)
  /\ counted' = [counted EXCEPT ![r] = refCount[at[r].segment]]
  /\ Goto(r, "counting")
  /\ UNCHANGED <<recording, streaming, at, files>>

\* ... and stored.
StoreCount(r) ==
  /\ step[r] = "counting"
  /\ refCount' = [refCount EXCEPT ![at[r].segment] = counted[r] + 1]
  /\ Goto(r, "look")
  /\ UNCHANGED <<recording, streaming, counted, at, zlibData, failed>>

\* The data is there, or must be loaded.
LookForData(r) ==
  /\ step[r] = "look"
  /\ Goto(r, IF zlibData[at[r].segment] = "none" THEN "load" ELSE "construct")
  /\ UNCHANGED <<recording, streaming, counted, at, files>>

\* zlib_data.resize: there is data now, not yet that of the file.
ResizeData(r) ==
  /\ step[r] = "load"
  /\ zlibData' = [zlibData EXCEPT ![at[r].segment] = "sized"]
  /\ Goto(r, "sized")
  /\ UNCHANGED <<recording, streaming, counted, at, refCount, failed>>

ReadData(r) ==
  /\ step[r] = "sized"
  /\ zlibData' = [zlibData EXCEPT ![at[r].segment] = "full"]
  /\ Goto(r, "construct")
  /\ UNCHANGED <<recording, streaming, counted, at, refCount, failed>>

-----------------------------------------------------------------------------
(* The reader of a file *)

Construct(r) ==
  /\ step[r] = "construct"
  /\ streaming[r] \/ zlibData[at[r].segment] = "full"
  /\ Goto(r, "reading")
  /\ UNCHANGED <<recording, streaming, counted, at, files>>

\* FullDecompressReplayReader throws when the data does not decompress into twice
\* the expected size.  Its destructor, and so afterParse, never runs.
ConstructFails(r) ==
  /\ step[r] = "construct"
  /\ ~streaming[r]
  /\ failed' = [failed EXCEPT ![at[r].segment] = @ + 1]
  /\ Goto(r, "threw")
  /\ UNCHANGED <<recording, streaming, counted, at, refCount, zlibData>>

Segment(r) == recording[at[r].segment]

HasPacket(r) == step[r] = "reading" /\ at[r].next <= Len(Segment(r))

\* Whether packet i of a segment is written with its time.
Timed(segment, i) == i = 1 \/ segment[i].time # segment[i - 1].time

\* Mutant of TimeOf: the last time read is not kept.
TimeOfForgotten(r) ==
  IF Timed(Segment(r), at[r].next) THEN Segment(r)[at[r].next].time ELSE 0

\* The time a reader gives the next packet: the one it carries, or the last.
TimeOf(r) ==
  IF Timed(Segment(r), at[r].next) THEN Segment(r)[at[r].next].time ELSE at[r].time

\* A reader's place after its next packet.
Past(r, more) ==
  [at[r] EXCEPT !.next = @ + 1, !.time = TimeOf(r), !.retry = FALSE, !.closing = ~more]

\* getNextPacket has a packet: the caller goes on, or is done with the reader.
Deliver(r, more) ==
  /\ at' = [at EXCEPT ![r] = Past(r, more)]
  /\ IF more THEN UNCHANGED step ELSE Goto(r, "release")

\* getNextPacket at the end of a file: the file's reader is deleted, and when this
\* call has already moved to a new file it fails.
EndOfSegment(r) ==
  /\ step[r] = "reading"
  /\ at[r].next > Len(Segment(r))
  /\ at' = [at EXCEPT ![r].closing = at[r].retry]
  /\ Goto(r, "release")
  /\ UNCHANGED <<recording, streaming, counted, files>>

-----------------------------------------------------------------------------
(* afterParse, when the reader of a file is deleted *)

\* G_ASSERT(ref_count > 0), and ref_count-- ...
BeginRelease(r) ==
  LET count == refCount[at[r].segment]
  IN  /\ step[r] = "release"
      /\ Free(r)
      /\ counted' = [counted EXCEPT ![r] = count]
      /\ Goto(r, IF count > 0 THEN "releasing" ELSE "asserted")
      /\ UNCHANGED <<recording, streaming, at, files>>

\* load_replay goes to the next file, if there is one.
Advanced(r) == [Start EXCEPT !.segment = at[r].segment + 1, !.retry = TRUE]

Done(r) == at[r].closing \/ at[r].segment = Len(recording)

\* Mutant of EndRelease: the data is dropped with the first reader.
EndReleaseEager(r) ==
  LET s == at[r].segment
  IN  /\ step[r] = "releasing"
      /\ refCount' = [refCount EXCEPT ![s] = counted[r] - 1]
      /\ zlibData' = [zlibData EXCEPT ![s] = "none"]
      /\ IF Done(r) THEN Goto(r, "ended") /\ UNCHANGED at
         ELSE Goto(r, "count") /\ at' = [at EXCEPT ![r] = Advanced(r)]
      /\ UNCHANGED <<recording, streaming, counted, failed>>

\* Mutant of EndRelease: the count is tested before it is lowered.
EndReleaseLate(r) ==
  LET s == at[r].segment
  IN  /\ step[r] = "releasing"
      /\ refCount' = [refCount EXCEPT ![s] = counted[r] - 1]
      /\ zlibData' = [zlibData EXCEPT ![s] = IF counted[r] = 0 THEN "none" ELSE @]
      /\ IF Done(r) THEN Goto(r, "ended") /\ UNCHANGED at
         ELSE Goto(r, "count") /\ at' = [at EXCEPT ![r] = Advanced(r)]
      /\ UNCHANGED <<recording, streaming, counted, failed>>

\* ... and the data goes with the last reader.
EndRelease(r) ==
  LET s == at[r].segment
  IN  /\ step[r] = "releasing"
      /\ refCount' = [refCount EXCEPT ![s] = counted[r] - 1]
      /\ zlibData' = [zlibData EXCEPT ![s] = IF counted[r] = 1 THEN "none" ELSE @]
      /\ IF Done(r) THEN Goto(r, "ended") /\ UNCHANGED at
         ELSE Goto(r, "count") /\ at' = [at EXCEPT ![r] = Advanced(r)]
      /\ UNCHANGED <<recording, streaming, counted, failed>>

-----------------------------------------------------------------------------

FileStep(r) ==
  \/ OpenFails(r) \/ ReadCount(r) \/ StoreCount(r) \/ LookForData(r)
  \/ ResizeData(r) \/ ReadData(r) \/ Construct(r) \/ ConstructFails(r) \/ EndOfSegment(r)
  \/ BeginRelease(r) \/ EndRelease(r)

\* A caller that reads as far as it likes.
ReadPacket(r) ==
  /\ HasPacket(r)
  /\ \E more \in BOOLEAN : Deliver(r, more)
  /\ UNCHANGED <<recording, streaming, counted, files>>

Finished(r) == step[r] \in {"ended", "threw", "asserted"}

ReaderNext == \E r \in Reader : FileStep(r) \/ ReadPacket(r)

ReaderSpec == ReaderInit /\ [][ReaderNext]_readerVars

-----------------------------------------------------------------------------
(* Properties *)

Steps == {"count", "counting", "look", "load", "sized", "construct", "reading", "release",
          "releasing", "ended", "threw", "asserted"}

Place == [segment : 1 .. Len(recording), next : Nat \ {0}, time : Nat,
          retry : BOOLEAN, closing : BOOLEAN]

\* Types of the variables.
ReaderTypeOK ==
  /\ recording \in Recordings
  /\ streaming \in [Reader -> BOOLEAN]
  /\ step \in [Reader -> Steps]
  /\ counted \in [Reader -> Nat]
  /\ at \in [Reader -> Place]
  /\ refCount \in [DOMAIN recording -> Nat]
  /\ zlibData \in [DOMAIN recording -> {"none", "sized", "full"}]
  /\ failed \in [DOMAIN recording -> Nat]

\* The steps in which a reader has a reference to the data of its file.
Holding == {"look", "load", "sized", "construct", "reading", "release", "releasing"}

Holders(s) == {r \in Reader : at[r].segment = s /\ step[r] \in Holding}

CountExact ==
  \A s \in DOMAIN recording : refCount[s] = Cardinality(Holders(s)) + failed[s]

DroppedWithLast ==
  \A s \in DOMAIN recording : refCount[s] = 0 => zlibData[s] = "none"

WholeWhenRead ==
  \A r \in Reader :
    step[r] \in {"construct", "reading", "release", "releasing"} =>
      zlibData[at[r].segment] = "full"

\* ref_count is the number of readers of a file, plus those whose constructor threw;
\* the data goes with the last of them and is whole while one reads it (getData and
\* afterParse of readers in several threads, one at a time).
DataHeld == CountExact /\ DroppedWithLast /\ WholeWhenRead

\* The assertion of afterParse, that somebody counts as a reader (ref_count > 0),
\* never fails.
AfterParseCounted == \A r \in Reader : step[r] # "asserted"
=============================================================================
