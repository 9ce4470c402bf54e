----------------------------- MODULE Reliability -----------------------------
(***************************************************************************)
(* ReliabilitySystem of a Connection: the sender keeps a record of every   *)
(* packet until an acknowledgement or a timeout decides it; the receiver   *)
(* acknowledges, after every replication packet, the last one it has and   *)
(* which of the AckBits before it arrived.  Sequence numbers wrap.         *)
(*                                                                         *)
(* The network loses, delays, reorders and repeats packets and             *)
(* acknowledgements: whatever is in it may arrive at any time, any number  *)
(* of times or never.  What the wrapped numbers need of it is stated with  *)
(* Window: whatever is alive is less than Window packets old.              *)
(*                                                                         *)
(* This is the contract of the class.  update, packetSent and processAck   *)
(* have no caller in the repository: a client that receives packets and    *)
(* acknowledges them (CNetwork::onPacket) never trims its queue, and once  *)
(* that spans half the numbers nothing here speaks of it.                  *)
(*                                                                         *)
(* Packets are numbered 1, 2, ... without wrapping; a packet's number is   *)
(* known to the model only, the code sees Seqno of it.  Queues and bits    *)
(* are kept as the packets they stand for.  A timeout is the time left.    *)
(***************************************************************************)
EXTENDS Integers, Sequences, SequencesExt

CONSTANTS
  SeqCount,      \* values of sequence_t
  FirstSeq,      \* initial_seq
  AckBits,       \* bits of ack_bits_t
  HistoryDepth,  \* SEQ_HISTORY_DEPTH
  LostThreshold, \* nlost_threshold
  Timeouts,      \* timeout_ms
  Window,        \* how old a packet, record or acknowledgement may get
  Packets        \* bound: packets sent

HalfMax == (SeqCount - 1) \div 2

ASSUME ReliabilityAssumption ==
  /\ SeqCount \in Nat /\ SeqCount >= 4 /\ SeqCount % 2 = 0
  /\ FirstSeq \in 0 .. SeqCount - 1
  /\ AckBits \in Nat \ {0}
  /\ HistoryDepth \in Nat /\ HistoryDepth >= AckBits
  /\ LostThreshold \in Nat \ {0}
  /\ Timeouts \subseteq Nat
  /\ Window \in Nat \ {0} /\ Window + HistoryDepth <= HalfMax
  /\ Packets \in Nat

VARIABLES
  sent,     \* packets sent: localSequence is Seqno(sent + 1)
  pending,  \* pendingAcks
  inFlight, \* packets in the network
  received, \* packets that ever arrived
  queue,    \* receivedQueue
  acks,     \* acknowledgements in the network
  acked     \* packets reported acknowledged

vars == <<sent, pending, inFlight, received, queue, acks, acked>>

Packet == 1 .. Packets

-----------------------------------------------------------------------------
(* Sequence numbers *)

Seqno(n) == (FirstSeq + n - 1) % SeqCount

\* Mutant of IsSeqGt: the numbers are compared as they are.
IsSeqGtPlain(s, t) == s > t

\* is_seq_gt
IsSeqGt(s, t) ==
  \/ s > t /\ s - t <= HalfMax
  \/ t > s /\ t - s > HalfMax

\* seq_diff
SeqDiff(big, small) ==
  IF big >= small THEN big - small ELSE SeqCount - small + big

\* The bit of an acknowledgement of ack that stands for s.
BitOf(ack, s) == SeqDiff((ack + SeqCount - 1) % SeqCount, s)

-----------------------------------------------------------------------------
(* The receiver *)

\* The lowest of some indices of q, or Len(q) + 1.
Lowest(q, indices) == Min(indices \cup {Len(q) + 1})

\* Where vector_set looks for s: the binary search finds the first entry that is
\* not before s, as long as LessSeq orders the queue.
LowerBound(q, s) == Lowest(q, {i \in 1 .. Len(q) : ~IsSeqGt(s, Seqno(q[i]))})

\* packetReceived
Inserted(q, n) ==
  LET i == LowerBound(q, Seqno(n))
  IN  IF i <= Len(q) /\ ~IsSeqGt(Seqno(q[i]), Seqno(n)) THEN q
      ELSE InsertAt(q, i, n)

\* update: the entries before the first that is after minSeq are dropped.
Trimmed(q) ==
  LET minSeq == (Seqno(Last(q)) + SeqCount - (HistoryDepth + 1)) % SeqCount
  IN  SubSeq(q, Lowest(q, {i \in 1 .. Len(q) : IsSeqGt(Seqno(q[i]), minSeq)}), Len(q))

\* Mutant of AckData: the bits are counted by position in the queue.
AckDataPositions(q) ==
  [ack  |-> Seqno(Last(q)),
   bits |-> {b \in 0 .. AckBits - 1 : b + 1 < Len(q)}]

\* genLastSeqAckData: from the back, until an entry is too old for the bits.
AckData(q) ==
  LET last   == Seqno(Last(q))
      Bit(i) == BitOf(last, Seqno(q[i]))
  IN  [ack  |-> last,
       bits |-> {Bit(i) : i \in {i \in 1 .. Len(q) - 1 :
                                  \A j \in i .. Len(q) - 1 : Bit(j) < AckBits}}]

-----------------------------------------------------------------------------
(* The sender *)

Record(n, missing, timeLeft) == [packet |-> n, nMissing |-> missing, timeLeft |-> timeLeft]

\* What processAck does with a record.
Verdict(r, a) ==
  LET s == Seqno(r.packet)
      b == BitOf(a.ack, s)
  IN  IF s = a.ack THEN "acked"
      ELSE IF IsSeqGt(s, a.ack) \/ b >= AckBits THEN "keep"
      ELSE IF b \in a.bits THEN "acked"
      ELSE IF r.nMissing + 1 >= LostThreshold THEN "lost" ELSE "missing"

PacketsOf(records) == {r.packet : r \in records}

-----------------------------------------------------------------------------
(* The network and the two ends *)

Init ==
  /\ sent = 0
  /\ pending = {}
  /\ inFlight = {}
  /\ received = {}
  /\ queue = << >>
  /\ acks = {}
  /\ acked = {}

\* What is alive when the next packet has been sent; what the receiver may still
\* have in its queue.
Fresh(n)      == n + Window > sent + 1
Remembered(n) == n + Window + HistoryDepth > sent + 1

\* packetSent.  The guards are what the wrapped numbers need: a record is decided
\* before it is too old, the receiver has got a packet of the window, and it calls
\* update before an entry of its queue is too old to be compared.
Send ==
  /\ sent < Packets
  /\ \A r \in pending : Fresh(r.packet)
  /\ queue # << >> => Fresh(Last(queue))
  /\ \A i \in 1 .. Len(queue) : Remembered(queue[i])
  /\ \E timeout \in Timeouts : pending' = pending \cup {Record(sent + 1, 0, timeout)}
  /\ sent' = sent + 1
  /\ inFlight' = {n \in inFlight : Fresh(n)} \cup {sent + 1}
  /\ received' = {n \in received : Remembered(n)}
  /\ acks' = {a \in acks : Fresh(a.packet)}
  /\ acked' = {n \in acked : Remembered(n)}
  /\ UNCHANGED queue

\* onPacket of a client with a peer: readReplicationPacket records the packet, then
\* writeLastRecvdPacketAcks answers it.
Arrive(n) ==
  /\ n \in inFlight
  /\ queue' = Inserted(queue, n)
  /\ received' = received \cup {n}
  /\ acks' = acks \cup {[data |-> AckData(queue'), packet |-> Last(queue')]}
  /\ UNCHANGED <<sent, pending, inFlight, acked>>

\* processAck
ProcessAck(a) ==
  LET Are(v) == {r \in pending : Verdict(r, a.data) = v}
  IN  /\ a \in acks
      /\ pending' = Are("keep")
                    \cup {Record(r.packet, r.nMissing + 1, r.timeLeft) : r \in Are("missing")}
      /\ acked' = acked \cup PacketsOf(Are("acked"))
      /\ UNCHANGED <<sent, inFlight, received, queue, acks>>

Tick ==
  /\ \E r \in pending : r.timeLeft > 0
  /\ pending' = {IF r.timeLeft > 0 THEN Record(r.packet, r.nMissing, r.timeLeft - 1)
                 ELSE r : r \in pending}
  /\ UNCHANGED <<sent, inFlight, received, queue, acks, acked>>

\* Mutant of UpdateSender: only what an acknowledgement has missed is timed out.
UpdateSenderMissed ==
  LET expired == {r \in pending : r.timeLeft = 0 /\ r.nMissing > 0}
  IN  /\ expired # {}
      /\ pending' = pending \ expired
      /\ UNCHANGED <<sent, inFlight, received, queue, acks, acked>>

\* update at the sender: what has timed out is lost.
UpdateSender ==
  LET expired == {r \in pending : r.timeLeft = 0}
  IN  /\ expired # {}
      /\ pending' = pending \ expired
      /\ UNCHANGED <<sent, inFlight, received, queue, acks, acked>>

\* update at the receiver
UpdateReceiver ==
  /\ queue # << >>
  /\ Trimmed(queue) # queue
  /\ queue' = Trimmed(queue)
  /\ UNCHANGED <<sent, pending, inFlight, received, acks, acked>>

Next ==
  \/ Send \/ Tick \/ UpdateSender \/ UpdateReceiver
  \/ \E n \in inFlight : Arrive(n)
  \/ \E a \in acks : ProcessAck(a)

Spec == Init /\ [][Next]_vars

\* Time passes and the sender calls update.
FairSpec == Spec /\ WF_vars(Tick) /\ WF_vars(UpdateSender)

-----------------------------------------------------------------------------
(* Properties *)

AckType == [data : [ack : 0 .. SeqCount - 1, bits : SUBSET (0 .. AckBits - 1)],
            packet : Packet]

\* Types of the variables.
TypeOK ==
  /\ sent \in 0 .. Packets
  /\ pending \subseteq [packet : 1 .. sent, nMissing : 0 .. LostThreshold - 1, timeLeft : Nat]
  /\ inFlight \subseteq 1 .. sent
  /\ received \subseteq 1 .. sent
  /\ queue \in Seq(1 .. sent)
  /\ acks \subseteq AckType
  /\ acked \subseteq 1 .. sent

\* A packet reported acknowledged did arrive, whatever became of the numbers and of
\* late, repeated or lost acknowledgements (processAck against genLastSeqAckData).
AckedWasReceived == acked \subseteq received

\* An acknowledgement made now names the newest packet that arrived and exactly
\* those of the AckBits before it that arrived, also after late packets, a wrap and
\* an update (packetReceived, update and genLastSeqAckData).
AcksExact ==
  queue # << >> =>
    LET newest == CHOOSE n \in received : \A m \in received : m <= n
    IN  AckData(queue) =
          [ack  |-> Seqno(newest),
           bits |-> {b \in 0 .. AckBits - 1 : newest - 1 - b \in received}]

\* Every packet is reported, acknowledged or lost, even one too old for the bits of
\* every later acknowledgement (processAck passes it over, update does not), if the
\* sender calls update.
EveryPacketReported ==
  \A n \in Packet : n \in PacketsOf(pending) ~> n \notin PacketsOf(pending)
=============================================================================
