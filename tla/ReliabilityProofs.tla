--------------------------- MODULE ReliabilityProofs ---------------------------
(***************************************************************************)
(* For any width of the sequence numbers, any window that fits it and any  *)
(* number of packets: an acknowledgement tells exactly which packets       *)
(* arrived, and only packets that arrived are reported acknowledged.       *)
(*                                                                         *)
(* The proof takes the wrapped numbers back to packets: Stands says which  *)
(* packet a number stands for, and numbers of packets at most HalfMax      *)
(* apart compare as the packets do.                                        *)
(***************************************************************************)
EXTENDS Reliability, SequenceTheorems, NaturalsInduction, WellFoundedInduction, TLAPS

-----------------------------------------------------------------------------
(* Arithmetic modulo SeqCount *)

LEMMA Half ==
  /\ HalfMax \in Nat /\ SeqCount = 2 * HalfMax + 2 /\ SeqCount \in Nat /\ SeqCount >= 4
  /\ FirstSeq \in 0 .. SeqCount - 1 /\ AckBits \in Nat /\ AckBits >= 1 /\ HistoryDepth \in Nat
  /\ Window \in Nat /\ Window >= 1 /\ AckBits <= HistoryDepth /\ Window + HistoryDepth <= HalfMax
BY ReliabilityAssumption DEF HalfMax

LEMMA Times ==
  ASSUME NEW d \in Int
  PROVE  /\ SeqCount * d \in Int
         /\ d >= 1 => SeqCount * d >= SeqCount
         /\ d <= -1 => SeqCount * d <= -SeqCount
         /\ d = 0 => SeqCount * d = 0
<1>0. SeqCount \in Nat /\ SeqCount >= 4
  BY Half
<1>1. SeqCount * d \in Int
  BY <1>0
<1>2. d >= 1 => SeqCount * d >= SeqCount
  BY <1>0
<1>3. d <= -1 => SeqCount * d <= -SeqCount
  BY <1>0
<1>4. d = 0 => SeqCount * d = 0
  BY <1>0
<1>. QED BY <1>1, <1>2, <1>3, <1>4

LEMMA TimesMinus ==
  ASSUME NEW c \in Int, NEW d \in Int
  PROVE  SeqCount * c - SeqCount * d = SeqCount * (c - d)
BY Half

LEMMA ModIs ==
  ASSUME NEW x \in Nat
  PROVE  x % SeqCount \in 0 .. SeqCount - 1 /\ \E k \in Int : x = SeqCount * k + (x % SeqCount)
<1>0. SeqCount \in Nat /\ SeqCount >= 4
  BY Half
<1>1. x % SeqCount \in 0 .. SeqCount - 1
  BY <1>0
<1>2. x = SeqCount * (x \div SeqCount) + (x % SeqCount)
  BY <1>0
<1>3. x \div SeqCount \in Int
  BY <1>0, SMTT(30)
<1>. QED BY <1>1, <1>2, <1>3

\* s is the sequence number of packet x, which may be before the first.
Stands(s, x) ==
  s \in 0 .. SeqCount - 1 /\ \E k \in Int : FirstSeq + x - 1 = SeqCount * k + s

LEMMA SeqnoStands ==
  ASSUME NEW n \in Nat \ {0}
  PROVE  Stands(Seqno(n), n)
<1>. DEFINE x == FirstSeq + n - 1
<1>1. x \in Nat
  BY Half
<1>. HIDE DEF x
<1>2. x % SeqCount \in 0 .. SeqCount - 1 /\ \E k \in Int : x = SeqCount * k + (x % SeqCount)
  BY <1>1, ModIs, Zenon
<1>. QED BY <1>2, Zenon DEF Stands, Seqno, x

\* A number d below that of a packet stands for the packet d before it.
LEMMA BeforeStands ==
  ASSUME NEW s, NEW x \in Int, Stands(s, x), NEW d \in 0 .. SeqCount
  PROVE  Stands((s + SeqCount - d) % SeqCount, x - d)
<1>0. s \in Nat /\ s + SeqCount - d \in Nat /\ SeqCount \in Nat /\ FirstSeq \in Nat
  BY Half DEF Stands
<1>1. PICK k \in Int : FirstSeq + x - 1 = SeqCount * k + s
  BY DEF Stands
<1>2. PICK l \in Int : s + SeqCount - d = SeqCount * l + ((s + SeqCount - d) % SeqCount)
  BY <1>0, ModIs
<1>. DEFINE t == (s + SeqCount - d) % SeqCount
            j == k - 1 + l
<1>3. t \in 0 .. SeqCount - 1
  BY <1>0, ModIs
<1>. HIDE DEF t
<1>b. s + SeqCount - d = SeqCount * l + t
  BY <1>2, Zenon DEF t
<1>c. SeqCount * k \in Int /\ SeqCount * l \in Int
  BY Times
<1>4. FirstSeq + (x - d) - 1 = SeqCount * k - SeqCount + SeqCount * l + t
  BY <1>0, <1>1, <1>b, <1>c, <1>3
<1>5. SeqCount * k - SeqCount + SeqCount * l = SeqCount * j
  BY <1>0
<1>6. j \in Int
  OBVIOUS
<1>7. FirstSeq + (x - d) - 1 = SeqCount * j + t
  BY <1>4, <1>5
<1>. QED BY <1>3, <1>6, <1>7 DEF Stands, t

\* How far apart two numbers are, up to a lap.
LEMMA Apart ==
  ASSUME NEW s, NEW t, NEW x \in Int, NEW y \in Int, Stands(s, x), Stands(t, y)
  PROVE  \E j \in Int : x - y = SeqCount * j + (s - t)
<1>1. PICK k \in Int : FirstSeq + x - 1 = SeqCount * k + s
  BY DEF Stands
<1>2. PICK l \in Int : FirstSeq + y - 1 = SeqCount * l + t
  BY DEF Stands
<1>3. s \in Int /\ t \in Int /\ FirstSeq \in Int
  BY Half DEF Stands
<1>4. x - y = (SeqCount * k - SeqCount * l) + (s - t)
  BY <1>1, <1>2, <1>3, Times
<1>5. x - y = SeqCount * (k - l) + (s - t)
  BY <1>4, TimesMinus
<1>. QED BY <1>5

\* is_seq_gt compares packets that are at most HalfMax apart.
LEMMA GtCompares ==
  ASSUME NEW s, NEW t, NEW x \in Int, NEW y \in Int, Stands(s, x), Stands(t, y),
         x - y <= HalfMax, y - x <= HalfMax
  PROVE  IsSeqGt(s, t) <=> x > y
<1>1. PICK j \in Int : x - y = SeqCount * j + (s - t)
  BY Apart
<1>2. s \in 0 .. SeqCount - 1 /\ t \in 0 .. SeqCount - 1
  BY DEF Stands
<1>3. j >= 1 \/ j <= -1 \/ j = 0
  OBVIOUS
<1>4. j >= 1 => SeqCount * j >= SeqCount
  BY Times
<1>5. j <= -1 => SeqCount * j <= -SeqCount
  BY Times
<1>6. j = 0 => SeqCount * j = 0
  BY Times
<1>7. SeqCount * j \in Int
  BY Times
<1>8. ~(SeqCount * j >= SeqCount) \/ ~(s - t >= 0)
  BY <1>1, <1>2, <1>7, Half
<1>. DEFINE p == SeqCount * j
<1>9. x - y = p + (s - t) /\ p \in Int /\ (p >= SeqCount \/ p <= -SeqCount \/ p = 0)
  BY <1>1, <1>3, <1>4, <1>5, <1>6, <1>7
<1>. HIDE DEF p
<1>10. /\ HalfMax \in Nat /\ SeqCount = 2 * HalfMax + 2
  BY Half
<1>. QED BY <1>2, <1>9, <1>10 DEF IsSeqGt

\* The bit of a packet in the acknowledgement of a later one.
LEMMA BitIs ==
  ASSUME NEW x \in Nat \ {0}, NEW y \in Nat \ {0}, y < x, x - y <= HalfMax
  PROVE  BitOf(Seqno(x), Seqno(y)) = x - 1 - y
<1>. DEFINE s == (Seqno(x) + SeqCount - 1) % SeqCount
            t == Seqno(y)
<1>1. Stands(s, x - 1) /\ Stands(t, y)
  <2>1. Stands(Seqno(x), x) /\ Stands(t, y) /\ 1 \in 0 .. SeqCount
    BY SeqnoStands, Half
  <2>. QED BY <2>1, BeforeStands
<1>. HIDE DEF s, t
<1>2. PICK j \in Int : (x - 1) - y = SeqCount * j + (s - t)
  BY <1>1, Apart
<1>3. s \in 0 .. SeqCount - 1 /\ t \in 0 .. SeqCount - 1
  BY <1>1 DEF Stands
<1>. DEFINE p == SeqCount * j
<1>4. /\ p \in Int
      /\ j >= 1 => p >= SeqCount
      /\ j <= -1 => p <= -SeqCount
      /\ j = 0 => p = 0
      /\ j = 1 => p = SeqCount
      /\ j >= 2 => p >= 2 * SeqCount
  <2>1. j = 1 => p = SeqCount
    BY Half
  <2>2. j >= 2 => SeqCount * (j - 1) >= SeqCount
    BY Times
  <2>3. SeqCount * (j - 1) = p - SeqCount
    BY Half
  <2>. QED BY <2>1, <2>2, <2>3, Times, Half
<1>5. (x - 1) - y = p + (s - t)
  BY <1>2
<1>. HIDE DEF p
<1>6. j \in {0, 1} /\ (j = 0 => p = 0) /\ (j = 1 => p = SeqCount)
  BY <1>3, <1>4, <1>5, Half
<1>7. SeqDiff(s, t) = x - 1 - y
  BY <1>3, <1>5, <1>6, Half DEF SeqDiff
<1>. QED BY <1>7 DEF BitOf, s, t

\* Packets less than half a lap apart have numbers of their own.
LEMMA SeqnoUnique ==
  ASSUME NEW x \in Nat \ {0}, NEW y \in Nat \ {0}, Seqno(x) = Seqno(y),
         x - y <= HalfMax, y - x <= HalfMax
  PROVE  x = y
<1>1. Stands(Seqno(x), x) /\ Stands(Seqno(y), y)
  BY SeqnoStands
<1>2. (IsSeqGt(Seqno(x), Seqno(y)) <=> x > y) /\ (IsSeqGt(Seqno(y), Seqno(x)) <=> y > x)
  BY <1>1, GtCompares
<1>3. ~IsSeqGt(Seqno(x), Seqno(x))
  BY <1>1, Half DEF IsSeqGt, Stands
<1>. QED BY <1>2, <1>3
-----------------------------------------------------------------------------
(* Queues: in order of packets, and what insertion and trimming make of them *)

Less == {m \in Nat \X Nat : m[1] < m[2]}

LEMMA LeastNat ==
  ASSUME NEW S \in SUBSET Nat, S # {}
  PROVE  Min(S) \in S /\ \A y \in S : Min(S) <= y
<1>1. IsWellFoundedOn(Less, Nat)
  BY NatLessThanWellFounded, Zenon DEF OpToRel, Less
<1>2. PICK x \in S : \A y \in S : ~(<<y, x>> \in Less)
  BY <1>1, WFMin, Zenon
<1>3. \A y \in S : ~(y < x)
  BY <1>2 DEF Less
<1>4. \A y \in S : x <= y
  BY <1>3
<1>. QED BY <1>4, Zenon DEF Min

LEMMA LowestIs ==
  ASSUME NEW q, Len(q) \in Nat, NEW I, I \subseteq 1 .. Len(q)
  PROVE  /\ Lowest(q, I) \in I \cup {Len(q) + 1}
         /\ \A i \in 1 .. Lowest(q, I) - 1 : i \notin I
         /\ Lowest(q, I) \in 1 .. Len(q) + 1
<1>. DEFINE S == I \cup {Len(q) + 1}
            low == Min(S)
<1>1. low \in S /\ \A y \in S : low <= y
  <2>1. S \subseteq Nat /\ S # {}
    <3>1. Len(q) + 1 \in Nat /\ 1 .. Len(q) \subseteq Nat
      OBVIOUS
    <3>. QED BY <3>1, Zenon
  <2>. HIDE DEF S
  <2>. QED BY <2>1, LeastNat
<1>2. Lowest(q, I) = low
  BY DEF Lowest
<1>. HIDE DEF low
<1>. QED BY <1>1, <1>2

Entries(q) == {q[i] : i \in 1 .. Len(q)}

Ordered(q) ==
  /\ q \in Seq(Nat \ {0})
  /\ \A i, j \in 1 .. Len(q) : i < j => q[i] < q[j]

LEMMA OrderedFacts ==
  ASSUME NEW q, Ordered(q)
  PROVE  /\ Len(q) \in Nat /\ DOMAIN q = 1 .. Len(q)
         /\ \A i \in 1 .. Len(q) : q[i] \in Nat \ {0} /\ q[i] \in Entries(q)
         /\ q # << >> => /\ Len(q) \in 1 .. Len(q) /\ Last(q) = q[Len(q)] /\ Last(q) \in Entries(q)
                         /\ \A i \in 1 .. Len(q) : q[i] <= Last(q)
<1>1. Len(q) \in Nat /\ DOMAIN q = 1 .. Len(q)
  BY LenProperties DEF Ordered
<1>2. \A i \in 1 .. Len(q) : q[i] \in Nat \ {0} /\ q[i] \in Entries(q)
  BY ElementOfSeq DEF Ordered, Entries
<1>3. ASSUME q # << >>
      PROVE  /\ Len(q) \in 1 .. Len(q) /\ Last(q) = q[Len(q)] /\ Last(q) \in Entries(q)
             /\ \A i \in 1 .. Len(q) : q[i] <= Last(q)
  <2>1. Len(q) \in Nat \ {0}
    BY <1>3, EmptySeq DEF Ordered
  <2>2. Len(q) \in 1 .. Len(q) /\ Last(q) = q[Len(q)]
    BY <2>1 DEF Last
  <2>3. \A i \in 1 .. Len(q) : q[i] <= q[Len(q)]
    <3>. TAKE i \in 1 .. Len(q)
    <3>1. i < Len(q) \/ i = Len(q)
      BY <2>1
    <3>. QED BY <1>2, <2>2, <3>1 DEF Ordered
  <2>. QED BY <1>2, <2>2, <2>3
<1>. QED BY <1>1, <1>2, <1>3

LEMMA InsertAtEntries ==
  ASSUME NEW S, NEW q \in Seq(S), NEW e \in S, NEW i \in 1 .. Len(q) + 1
  PROVE  /\ InsertAt(q, i, e) \in Seq(S)
         /\ Len(InsertAt(q, i, e)) = Len(q) + 1
         /\ \A j \in 1 .. Len(q) + 1 :
              InsertAt(q, i, e)[j] = IF j < i THEN q[j] ELSE IF j = i THEN e ELSE q[j - 1]
<1>0. Len(q) \in Nat /\ \A j \in 1 .. Len(q) : q[j] \in S
  BY LenProperties, ElementOfSeq
<1>. DEFINE a == SubSeq(q, 1, i - 1)
            b == SubSeq(q, i, Len(q))
            c == a \o <<e>>
<1>1. a \in Seq(S) /\ Len(a) = i - 1 /\ \A j \in 1 .. i - 1 : a[j] = q[j]
  <2>1. \A j \in 1 .. i - 1 : q[j] \in S
    BY <1>0
  <2>2. /\ a \in Seq(S) /\ Len(a) = IF 1 <= i - 1 THEN (i - 1) - 1 + 1 ELSE 0
        /\ \A j \in 1 .. (i - 1) - 1 + 1 : a[j] = q[1 + j - 1]
    BY <2>1, SubSeqProperties
  <2>. HIDE DEF a
  <2>. QED BY <2>2
<1>2. b \in Seq(S) /\ Len(b) = Len(q) - i + 1 /\ \A j \in 1 .. Len(q) - i + 1 : b[j] = q[i + j - 1]
  <2>1. \A j \in i .. Len(q) : q[j] \in S
    BY <1>0
  <2>2. /\ b \in Seq(S) /\ Len(b) = IF i <= Len(q) THEN Len(q) - i + 1 ELSE 0
        /\ \A j \in 1 .. Len(q) - i + 1 : b[j] = q[i + j - 1]
    BY <1>0, <2>1, SubSeqProperties
  <2>. HIDE DEF b
  <2>. QED BY <1>0, <2>2
<1>. HIDE DEF a, b
<1>3. c \in Seq(S) /\ Len(c) = i /\ \A j \in 1 .. i : c[j] = IF j < i THEN q[j] ELSE e
  <2>1. <<e>> \in Seq(S) /\ Len(<<e>>) = 1 /\ <<e>>[1] = e
    OBVIOUS
  <2>2. /\ c \in Seq(S) /\ Len(c) = Len(a) + 1
        /\ \A j \in 1 .. Len(a) + 1 : c[j] = IF j <= Len(a) THEN a[j] ELSE <<e>>[j - Len(a)]
    BY <1>1, <2>1, ConcatProperties
  <2>. HIDE DEF c
  <2>. QED BY <1>1, <2>1, <2>2
<1>. HIDE DEF c
<1>4. /\ c \o b \in Seq(S) /\ Len(c \o b) = Len(c) + Len(b)
      /\ \A j \in 1 .. Len(c) + Len(b) : (c \o b)[j] = IF j <= Len(c) THEN c[j] ELSE b[j - Len(c)]
  BY <1>2, <1>3, ConcatProperties
<1>5. InsertAt(q, i, e) = c \o b
  BY DEF InsertAt, a, b, c
<1>. DEFINE r == InsertAt(q, i, e)
<1>6. r \in Seq(S) /\ Len(r) = Len(q) + 1
  BY <1>0, <1>2, <1>3, <1>4, <1>5
<1>7. \A j \in 1 .. Len(q) + 1 : r[j] = IF j <= i THEN c[j] ELSE b[j - i]
  BY <1>0, <1>2, <1>3, <1>4, <1>5
<1>. HIDE DEF r
<1>8. ASSUME NEW j \in 1 .. Len(q) + 1
      PROVE  r[j] = IF j < i THEN q[j] ELSE IF j = i THEN e ELSE q[j - 1]
  <2>1. CASE j <= i
    BY <1>3, <1>7, <2>1
  <2>2. CASE j > i
    <3>1. j - i \in 1 .. Len(q) - i + 1 /\ i + (j - i) - 1 = j - 1
      BY <1>0, <2>2
    <3>. QED BY <1>2, <1>7, <2>2, <3>1
  <2>. QED BY <2>1, <2>2
<1>. QED BY <1>6, <1>8 DEF r

\* Every packet of q is at most HalfMax from x.
Near(q, x) == \A i \in 1 .. Len(q) : q[i] - x <= HalfMax /\ x - q[i] <= HalfMax

\* packetReceived enters a packet once, in its place.
LEMMA InsertedIs ==
  ASSUME NEW q, Ordered(q), NEW n \in Nat \ {0}, Near(q, n),
         NEW r, r = Inserted(q, n)
  PROVE  Ordered(r) /\ Entries(r) = Entries(q) \cup {n}
<1>. DEFINE I == {j \in 1 .. Len(q) : ~IsSeqGt(Seqno(n), Seqno(q[j]))}
            i == Lowest(q, I)
<1>0. Len(q) \in Nat /\ \A j \in 1 .. Len(q) : q[j] \in Nat \ {0}
  BY OrderedFacts
<1>1. \A j \in 1 .. Len(q) : /\ IsSeqGt(Seqno(n), Seqno(q[j])) <=> n > q[j]
                             /\ IsSeqGt(Seqno(q[j]), Seqno(n)) <=> q[j] > n
  BY <1>0, SeqnoStands, GtCompares DEF Near
<1>2. /\ i \in I \cup {Len(q) + 1} /\ i \in 1 .. Len(q) + 1
      /\ \A j \in 1 .. i - 1 : j \notin I
  BY <1>0, LowestIs
<1>3. i = LowerBound(q, Seqno(n))
  BY DEF LowerBound
<1>. HIDE DEF i
<1>4. (i <= Len(q) => n <= q[i]) /\ \A j \in 1 .. i - 1 : q[j] < n
  BY <1>0, <1>1, <1>2
<1>5. CASE i <= Len(q) /\ ~IsSeqGt(Seqno(q[i]), Seqno(n))
  <2>1. r = q
    BY <1>3, <1>5 DEF Inserted
  <2>2. q[i] = n
    BY <1>0, <1>1, <1>2, <1>4, <1>5
  <2>. QED BY <1>2, <1>5, <2>1, <2>2 DEF Entries
<1>6. CASE ~(i <= Len(q) /\ ~IsSeqGt(Seqno(q[i]), Seqno(n)))
  <2>1. r = InsertAt(q, i, n)
    BY <1>3, <1>6 DEF Inserted
  <2>2. i <= Len(q) => n < q[i]
    BY <1>0, <1>1, <1>2, <1>6
  <2>3. /\ r \in Seq(Nat \ {0}) /\ Len(r) = Len(q) + 1
        /\ \A j \in 1 .. Len(q) + 1 :
             r[j] = IF j < i THEN q[j] ELSE IF j = i THEN n ELSE q[j - 1]
    <3>1. q \in Seq(Nat \ {0})
      BY DEF Ordered
    <3>. DEFINE S == Nat \ {0}
    <3>2. q \in Seq(S) /\ n \in S /\ i \in 1 .. Len(q) + 1
      BY <1>2, <3>1
    <3>. HIDE DEF S
    <3>3. /\ r \in Seq(S) /\ Len(r) = Len(q) + 1
          /\ \A j \in 1 .. Len(q) + 1 :
               r[j] = IF j < i THEN q[j] ELSE IF j = i THEN n ELSE q[j - 1]
      BY <2>1, <3>2, InsertAtEntries
    <3>. QED BY <3>3 DEF S
  <2>4. \A j \in i .. Len(q) : n < q[j]
    <3>. TAKE j \in i .. Len(q)
    <3>1. i \in 1 .. Len(q) /\ j \in 1 .. Len(q) /\ (i = j \/ i < j)
      BY <1>0, <1>2
    <3>2. q[i] <= q[j]
      BY <1>0, <3>1 DEF Ordered
    <3>. QED BY <1>0, <2>2, <3>1, <3>2
  <2>5. \A j \in 1 .. Len(q) : \A k \in 1 .. Len(q) : j < k => q[j] < q[k]
    BY DEF Ordered
  <2>6. Ordered(r)
    <3>. SUFFICES ASSUME NEW j \in 1 .. Len(q) + 1, NEW k \in 1 .. Len(q) + 1, j < k
                  PROVE  r[j] < r[k]
      BY <2>3 DEF Ordered
    <3>1. CASE k < i
      <4>1. j \in 1 .. Len(q) /\ k \in 1 .. Len(q) /\ j < i
        BY <1>0, <1>2, <3>1
      <4>. QED BY <2>3, <2>5, <3>1, <4>1
    <3>2. CASE k = i
      <4>1. j \in 1 .. i - 1
        BY <1>2, <3>2
      <4>. QED BY <1>4, <2>3, <3>2, <4>1
    <3>3. CASE k > i
      <4>1. k - 1 \in 1 .. Len(q) /\ k - 1 \in i .. Len(q) /\ r[k] = q[k - 1]
        BY <1>0, <1>2, <2>3, <3>3
      <4>2. CASE j < i
        <5>1. j \in 1 .. i - 1 /\ r[j] = q[j] /\ q[j] < n
          BY <1>2, <1>4, <2>3, <4>2
        <5>2. n < q[k - 1] /\ q[j] \in Nat /\ q[k - 1] \in Nat
          BY <1>0, <1>2, <2>4, <4>1, <4>2
        <5>. QED BY <4>1, <5>1, <5>2
      <4>3. CASE j = i
        BY <2>3, <2>4, <4>1, <4>3
      <4>4. CASE j > i
        <5>1. j - 1 \in 1 .. Len(q) /\ j - 1 < k - 1 /\ r[j] = q[j - 1]
          BY <1>0, <1>2, <2>3, <4>4
        <5>. QED BY <2>5, <4>1, <5>1
      <4>. QED BY <1>2, <4>2, <4>3, <4>4
    <3>. QED BY <1>2, <3>1, <3>2, <3>3
  <2>7. Entries(r) \subseteq Entries(q) \cup {n}
    <3>. SUFFICES ASSUME NEW j \in 1 .. Len(q) + 1 PROVE r[j] \in Entries(q) \cup {n}
      BY <2>3 DEF Entries
    <3>1. j < i => j \in 1 .. Len(q)
      BY <1>0, <1>2
    <3>2. j > i => j - 1 \in 1 .. Len(q)
      BY <1>0, <1>2
    <3>. QED BY <1>2, <2>3, <3>1, <3>2 DEF Entries
  <2>8. Entries(q) \cup {n} \subseteq Entries(r)
    <3>1. ASSUME NEW j \in 1 .. Len(q) PROVE q[j] \in Entries(r)
      <4>1. j \in 1 .. Len(r) /\ j + 1 \in 1 .. Len(r) /\ (j + 1) - 1 = j
        BY <1>0, <2>3
      <4>2. CASE j < i
        BY <2>3, <4>1, <4>2 DEF Entries
      <4>3. CASE j >= i
        <5>1. ~(j + 1 < i) /\ j + 1 # i
          BY <1>2, <4>3
        <5>. QED BY <2>3, <4>1, <5>1 DEF Entries
      <4>. QED BY <1>2, <4>2, <4>3
    <3>2. n \in Entries(r)
      BY <1>2, <2>3 DEF Entries
    <3>. QED BY <3>1, <3>2 DEF Entries
  <2>. QED BY <2>6, <2>7, <2>8
<1>. QED BY <1>5, <1>6

\* update drops what is more than HistoryDepth before the last.
LEMMA TrimmedIs ==
  ASSUME NEW q, Ordered(q), q # << >>, Near(q, Last(q) - (HistoryDepth + 1)),
         NEW r, r = Trimmed(q)
  PROVE  /\ Ordered(r) /\ r # << >> /\ Last(r) = Last(q) /\ Entries(r) \subseteq Entries(q)
         /\ \A x \in Entries(q) : x + HistoryDepth >= Last(q) => x \in Entries(r)
<1>. DEFINE minSeq == (Seqno(Last(q)) + SeqCount - (HistoryDepth + 1)) % SeqCount
            I == {j \in 1 .. Len(q) : IsSeqGt(Seqno(q[j]), minSeq)}
            i == Lowest(q, I)
            low == Last(q) - (HistoryDepth + 1)
<1>0. /\ Len(q) \in Nat /\ Len(q) \in 1 .. Len(q) /\ Last(q) = q[Len(q)] /\ Last(q) \in Nat \ {0}
      /\ \A j \in 1 .. Len(q) : q[j] \in Nat \ {0} /\ q[j] <= Last(q)
  BY OrderedFacts
<1>1. Stands(minSeq, low)
  <2>1. HistoryDepth + 1 \in 0 .. SeqCount
    BY Half
  <2>2. Stands(Seqno(Last(q)), Last(q))
    BY <1>0, SeqnoStands
  <2>. QED BY <1>0, <2>1, <2>2, BeforeStands
<1>. HIDE DEF minSeq
<1>2. low \in Int
  BY <1>0, Half
<1>3. \A j \in 1 .. Len(q) : IsSeqGt(Seqno(q[j]), minSeq) <=> q[j] > low
  <2>. TAKE j \in 1 .. Len(q)
  <2>1. Stands(Seqno(q[j]), q[j]) /\ q[j] - low <= HalfMax /\ low - q[j] <= HalfMax /\ q[j] \in Int
    BY <1>0, SeqnoStands DEF Near
  <2>. HIDE DEF low
  <2>. QED BY <1>1, <1>2, <2>1, GtCompares
<1>4. /\ i \in I \cup {Len(q) + 1} /\ i \in 1 .. Len(q) + 1
      /\ \A j \in 1 .. i - 1 : j \notin I
  BY <1>0, LowestIs
<1>5. r = SubSeq(q, i, Len(q))
  BY DEF Trimmed, minSeq
<1>. HIDE DEF i
<1>6. i <= Len(q)
  <2>1. Len(q) \in I
    BY <1>0, <1>3, Half
  <2>. QED BY <1>0, <1>4, <2>1
<1>7. /\ r \in Seq(Nat \ {0}) /\ Len(r) = Len(q) - i + 1
      /\ \A j \in 1 .. Len(q) - i + 1 : r[j] = q[i + j - 1]
  <2>1. i \in Int /\ \A j \in i .. Len(q) : q[j] \in Nat \ {0}
    BY <1>0, <1>4
  <2>2. /\ r \in Seq(Nat \ {0}) /\ Len(r) = IF i <= Len(q) THEN Len(q) - i + 1 ELSE 0
        /\ \A j \in 1 .. Len(q) - i + 1 : r[j] = q[i + j - 1]
    BY <1>0, <1>5, <2>1, SubSeqProperties
  <2>. QED BY <1>6, <2>2
<1>8. Ordered(r)
  <2>. SUFFICES ASSUME NEW j \in 1 .. Len(r), NEW k \in 1 .. Len(r), j < k PROVE r[j] < r[k]
    BY <1>7 DEF Ordered
  <2>1. i + j - 1 \in 1 .. Len(q) /\ i + k - 1 \in 1 .. Len(q) /\ i + j - 1 < i + k - 1
    BY <1>0, <1>4, <1>7
  <2>. QED BY <1>7, <2>1 DEF Ordered
<1>9. Len(r) >= 1 /\ i + Len(r) - 1 = Len(q)
  BY <1>0, <1>4, <1>6, <1>7
<1>10. r # << >>
  BY <1>7, <1>9, EmptySeq
<1>11. Last(r) = Last(q)
  <2>1. Len(r) \in 1 .. Len(q) - i + 1
    BY <1>0, <1>4, <1>6, <1>7
  <2>. QED BY <1>0, <1>7, <1>9, <2>1 DEF Last
<1>12. Entries(r) \subseteq Entries(q)
  <2>. SUFFICES ASSUME NEW j \in 1 .. Len(r) PROVE r[j] \in Entries(q)
    BY DEF Entries
  <2>1. i + j - 1 \in 1 .. Len(q)
    BY <1>0, <1>4, <1>7
  <2>. QED BY <1>7, <2>1 DEF Entries
<1>13. ASSUME NEW k \in 1 .. Len(q), q[k] + HistoryDepth >= Last(q) PROVE q[k] \in Entries(r)
  <2>1. q[k] > low
    BY <1>0, <1>13, Half
  <2>2. ~(k \in 1 .. i - 1)
    BY <1>3, <1>4, <2>1
  <2>3. k - i + 1 \in 1 .. Len(r) /\ i + (k - i + 1) - 1 = k
    BY <1>0, <1>4, <1>7, <2>2
  <2>. QED BY <1>7, <2>3 DEF Entries
<1>. QED BY <1>8, <1>10, <1>11, <1>12, <1>13 DEF Entries

\* The bits of an acknowledgement are the packets of the queue, read from the last.
LEMMA AckDataIs ==
  ASSUME NEW q, Ordered(q), q # << >>, Near(q, Last(q))
  PROVE  AckData(q) = [ack  |-> Seqno(Last(q)),
                       bits |-> {b \in 0 .. AckBits - 1 : Last(q) - 1 - b \in Entries(q)}]
<1>. DEFINE last == Seqno(Last(q))
            Bit(i) == BitOf(last, Seqno(q[i]))
            Js == {i \in 1 .. Len(q) - 1 : \A j \in i .. Len(q) - 1 : Bit(j) < AckBits}
            Bs == {b \in 0 .. AckBits - 1 : Last(q) - 1 - b \in Entries(q)}
<1>0. /\ Len(q) \in Nat /\ Len(q) \in 1 .. Len(q) /\ Last(q) = q[Len(q)] /\ Last(q) \in Nat \ {0}
      /\ \A j \in 1 .. Len(q) : q[j] \in Nat \ {0}
  BY OrderedFacts
<1>1. \A i, j \in 1 .. Len(q) : i < j => q[i] < q[j]
  BY DEF Ordered
<1>2. \A i \in 1 .. Len(q) - 1 : q[i] < Last(q) /\ Bit(i) = Last(q) - 1 - q[i]
  <2>. TAKE i \in 1 .. Len(q) - 1
  <2>1. i \in 1 .. Len(q) /\ i < Len(q)
    BY <1>0
  <2>2. q[i] < Last(q) /\ Last(q) - q[i] <= HalfMax /\ q[i] \in Nat \ {0}
    BY <1>0, <1>1, <2>1 DEF Near
  <2>. QED BY <1>0, <2>2, BitIs
<1>3. AckData(q) = [ack |-> last, bits |-> {Bit(i) : i \in Js}]
  BY DEF AckData
<1>. HIDE DEF Bit
<1>4. ASSUME NEW i \in Js PROVE Bit(i) \in Bs
  <2>1. i \in 1 .. Len(q) - 1 /\ i \in 1 .. Len(q) /\ i \in i .. Len(q) - 1
    BY <1>0
  <2>2. Bit(i) < AckBits /\ Bit(i) = Last(q) - 1 - q[i] /\ q[i] < Last(q) /\ q[i] \in Nat
    BY <1>0, <1>2, <2>1
  <2>3. Bit(i) \in 0 .. AckBits - 1 /\ Last(q) - 1 - Bit(i) = q[i]
    BY <1>0, <2>2, Half
  <2>. QED BY <2>1, <2>3 DEF Entries
<1>5. ASSUME NEW b \in Bs PROVE \E i \in Js : b = Bit(i)
  <2>1. PICK i \in 1 .. Len(q) : q[i] = Last(q) - 1 - b
    BY DEF Entries
  <2>2. b \in Nat /\ b < AckBits
    BY Half
  <2>3. i \in 1 .. Len(q) - 1
    BY <1>0, <2>1, <2>2
  <2>4. Bit(i) = b
    BY <1>0, <1>2, <2>1, <2>2, <2>3
  <2>5. ASSUME NEW j \in i .. Len(q) - 1 PROVE Bit(j) < AckBits
    <3>1. j \in 1 .. Len(q) - 1 /\ j \in 1 .. Len(q) /\ (i = j \/ i < j)
      BY <1>0, <2>3
    <3>2. q[i] <= q[j] /\ q[i] \in Nat /\ q[j] \in Nat
      BY <1>0, <1>1, <3>1
    <3>3. Bit(j) = Last(q) - 1 - q[j]
      BY <1>2, <3>1
    <3>. QED BY <1>0, <2>1, <2>2, <3>2, <3>3, Half
  <2>. QED BY <2>3, <2>4, <2>5
<1>6. {Bit(i) : i \in Js} = Bs
  <2>. HIDE DEF Js, Bs
  <2>. QED BY <1>4, <1>5
<1>. QED BY <1>3, <1>6

-----------------------------------------------------------------------------
(* The invariant *)

Alive(n) == n + Window > sent
Kept(n)  == n + Window + HistoryDepth > sent

\* What arrived is in the queue, as far back as acknowledgements look.
Complete(q, packets) ==
  \A n \in packets : /\ n <= Last(q)
                     /\ n + HistoryDepth >= Last(q) => n \in Entries(q)

QueueInv ==
  /\ Ordered(queue)
  /\ \A n \in Entries(queue) : Kept(n) /\ n \in received
  /\ queue = << >> => received = {}
  /\ queue # << >> => Alive(Last(queue)) /\ Complete(queue, received)

AliveInv == (\A r \in pending : Alive(r.packet)) /\ (\A n \in inFlight : Alive(n))

\* What an acknowledgement says arrived, or is too old for a record.
AckTrue(a) ==
  /\ Alive(a.packet) /\ a.packet \in received /\ a.data.ack = Seqno(a.packet)
  /\ \A b \in a.data.bits : a.packet - 1 - b \in received \/ ~Kept(a.packet - 1 - b)

IInv == TypeOK /\ QueueInv /\ AliveInv /\ (\A a \in acks : AckTrue(a)) /\ AckedWasReceived

LEMMA SeqnoType == ASSUME NEW n \in Nat \ {0} PROVE Seqno(n) \in 0 .. SeqCount - 1
BY SeqnoStands DEF Stands

\* Packets of a queue are at most HalfMax apart, and from any that is alive.
LEMMA QueueNear ==
  ASSUME TypeOK, QueueInv
  PROVE  /\ sent \in Nat
         /\ \A n \in Entries(queue) : n \in 1 .. sent
         /\ \A n \in 1 .. sent : Kept(n) => Near(queue, n)
         /\ queue # << >> => Near(queue, Last(queue)) /\ Near(queue, Last(queue) - (HistoryDepth + 1))
<1>1. sent \in Nat /\ received \subseteq 1 .. sent
  BY ReliabilityAssumption DEF TypeOK
<1>2. \A n \in Entries(queue) : n \in 1 .. sent /\ Kept(n)
  BY <1>1 DEF QueueInv
<1>3. Ordered(queue)
  BY DEF QueueInv
<1>4. /\ \A i \in 1 .. Len(queue) : queue[i] \in Entries(queue)
      /\ queue # << >> => /\ Last(queue) \in Entries(queue)
                          /\ \A i \in 1 .. Len(queue) : queue[i] <= Last(queue)
  BY <1>3, OrderedFacts
<1>5. \A i \in 1 .. Len(queue) : queue[i] \in 1 .. sent /\ Kept(queue[i])
  BY <1>2, <1>4
<1>6. \A n \in 1 .. sent : Kept(n) => Near(queue, n)
  BY <1>1, <1>5, Half DEF Kept, Near
<1>7. ASSUME queue # << >> PROVE Near(queue, Last(queue) - (HistoryDepth + 1))
  <2>1. Last(queue) \in 1 .. sent /\ Kept(Last(queue))
    BY <1>2, <1>4, <1>7
  <2>. QED BY <1>1, <1>4, <1>5, <1>7, <2>1, Half DEF Kept, Near
<1>. QED BY <1>1, <1>2, <1>4, <1>6, <1>7

LEMMA InitIInv == Init => IInv
<1>. SUFFICES ASSUME Init PROVE IInv
  OBVIOUS
<1>1. TypeOK
  BY ReliabilityAssumption DEF Init, TypeOK
<1>2. QueueInv
  <2>1. Len(queue) = 0 /\ queue \in Seq(Nat \ {0}) /\ queue = << >> /\ received = {}
    BY DEF Init
  <2>. QED BY <2>1 DEF QueueInv, Ordered, Entries
<1>3. AliveInv /\ (\A a \in acks : AckTrue(a)) /\ AckedWasReceived
  BY DEF Init, AliveInv, AckedWasReceived
<1>. QED BY <1>1, <1>2, <1>3 DEF IInv

\* Sending ages what there is: what is too old goes, what is left stays true.
LEMMA SendIInv == ASSUME IInv, Send PROVE IInv'
<1>0. sent \in Nat /\ sent' = sent + 1 /\ sent + 1 <= Packets /\ Packets \in Nat
  BY ReliabilityAssumption, QueueNear DEF IInv, Send, TypeOK
<1>1. PICK timeout \in Timeouts : pending' = pending \cup {Record(sent + 1, 0, timeout)}
  BY DEF Send
<1>2. \A n \in 1 .. sent : n \in 1 .. sent' /\ (Fresh(n) <=> Alive(n)') /\ (Remembered(n) <=> Kept(n)')
  BY <1>0 DEF Fresh, Remembered, Alive, Kept
<1>3. TypeOK'
  <2>1. sent' \in 0 .. Packets
    BY <1>0
  <2>2. pending' \subseteq [packet : 1 .. sent', nMissing : 0 .. LostThreshold - 1, timeLeft : Nat]
    <3>1. timeout \in Nat /\ 0 \in 0 .. LostThreshold - 1 /\ sent + 1 \in 1 .. sent'
      BY <1>0, ReliabilityAssumption
    <3>2. 1 .. sent \subseteq 1 .. sent'
      BY <1>0
    <3>3. pending \subseteq [packet : 1 .. sent', nMissing : 0 .. LostThreshold - 1, timeLeft : Nat]
      BY <3>2 DEF IInv, TypeOK
    <3>. QED BY <1>1, <3>1, <3>3 DEF Record
  <2>3. inFlight' \subseteq 1 .. sent' /\ received' \subseteq 1 .. sent' /\ acked' \subseteq 1 .. sent'
    <3>1. 1 .. sent \subseteq 1 .. sent' /\ sent + 1 \in 1 .. sent'
      BY <1>0
    <3>. QED BY <3>1 DEF IInv, TypeOK, Send
  <2>4. queue' \in Seq(1 .. sent')
    <3>1. Len(queue) \in Nat /\ queue \in [1 .. Len(queue) -> 1 .. sent]
      BY LenProperties DEF IInv, TypeOK
    <3>2. queue \in [1 .. Len(queue) -> 1 .. sent']
      BY <1>2, <3>1
    <3>3. queue' = queue
      BY DEF Send
    <3>. QED BY <3>1, <3>2, <3>3, SeqDef
  <2>5. acks' \subseteq AckType
    BY DEF IInv, TypeOK, Send
  <2>. QED BY <2>1, <2>2, <2>3, <2>4, <2>5 DEF TypeOK
<1>4. QueueInv'
  <2>1. queue' = queue /\ received' \subseteq received
    BY DEF Send
  <2>2. Ordered(queue)
    BY DEF IInv, QueueInv
  <2>3. \A n \in Entries(queue) : n \in 1 .. sent /\ n \in received /\ Remembered(n)
    BY QueueNear DEF IInv, Send, Entries, QueueInv
  <2>4. \A n \in Entries(queue) : Kept(n)' /\ n \in received'
    BY <1>2, <2>3 DEF Send
  <2>5. ASSUME queue # << >>
        PROVE  Alive(Last(queue))' /\ Complete(queue, received')
    <3>1. Last(queue) \in Entries(queue)
      BY <2>2, <2>5, OrderedFacts
    <3>2. Last(queue) \in 1 .. sent /\ Fresh(Last(queue))
      BY <2>3, <2>5, <3>1 DEF Send
    <3>3. Alive(Last(queue))'
      BY <1>2, <2>1, <3>2 DEF Alive, Fresh
    <3>4. Complete(queue, received)
      BY <2>5 DEF IInv, QueueInv
    <3>. QED BY <2>1, <3>3, <3>4 DEF Complete
  <2>6. queue = << >> => received' = {}
    BY <2>1 DEF IInv, QueueInv
  <2>7. Ordered(queue)' /\ Entries(queue)' = Entries(queue) /\ Last(queue)' = Last(queue)
    BY <2>1, <2>2
  <2>. QED BY <2>1, <2>4, <2>5, <2>6, <2>7 DEF QueueInv
<1>5. AliveInv'
  <2>1. \A r \in pending : r.packet \in 1 .. sent /\ Fresh(r.packet)
    BY DEF IInv, TypeOK, Send
  <2>2. \A n \in inFlight : n \in 1 .. sent
    BY DEF IInv, TypeOK
  <2>3. (sent + 1) + Window > sent'
    BY <1>0, Half
  <2>4. Record(sent + 1, 0, timeout).packet = sent + 1
    BY DEF Record
  <2>5. \A r \in pending' : Alive(r.packet)'
    <3>. TAKE r \in pending'
    <3>1. CASE r \in pending
      BY <1>2, <2>1, <3>1 DEF Alive
    <3>2. CASE r = Record(sent + 1, 0, timeout)
      BY <2>3, <2>4, <3>2 DEF Alive
    <3>. QED BY <1>1, <3>1, <3>2
  <2>6. \A n \in inFlight' : Alive(n)'
    BY <1>2, <2>2, <2>3 DEF Send, Alive
  <2>. QED BY <2>5, <2>6 DEF AliveInv
<1>6. \A a \in acks' : AckTrue(a)'
  <2>. SUFFICES ASSUME NEW a \in acks' PROVE AckTrue(a)'
    OBVIOUS
  <2>1. a \in acks /\ Fresh(a.packet) /\ AckTrue(a)
    BY DEF Send, IInv
  <2>2. a.packet \in received /\ a.packet \in 1 .. sent
    BY <2>1 DEF IInv, TypeOK, AckTrue
  <2>3. Alive(a.packet)' /\ a.packet \in received'
    <3>1. Remembered(a.packet)
      BY <1>0, <2>1, <2>2, Half DEF Fresh, Remembered
    <3>. QED BY <1>2, <2>1, <2>2, <3>1 DEF Send, Alive
  <2>4. ASSUME NEW b \in a.data.bits
        PROVE  a.packet - 1 - b \in received' \/ ~Kept(a.packet - 1 - b)'
    <3>1. a.data.bits \subseteq 0 .. AckBits - 1
      BY <2>1 DEF IInv, TypeOK, AckType
    <3>. DEFINE n == a.packet - 1 - b
    <3>2. n \in Int /\ (n \in received \/ ~Kept(n))
      BY <2>1, <2>2, <2>4, <3>1 DEF AckTrue
    <3>. HIDE DEF n
    <3>3. Remembered(n) <=> Kept(n)'
      BY <1>0, <3>2 DEF Remembered, Kept
    <3>4. Kept(n)' => Kept(n)
      BY <1>0, <3>2, Half DEF Kept
    <3>5. n \in received' \/ ~Kept(n)'
      BY <3>2, <3>3, <3>4 DEF Send
    <3>. QED BY <3>5 DEF n, Kept
  <2>. QED BY <2>1, <2>3, <2>4 DEF AckTrue, Alive, Kept
<1>7. AckedWasReceived'
  BY DEF IInv, Send, AckedWasReceived
<1>. QED BY <1>3, <1>4, <1>5, <1>6, <1>7 DEF IInv

\* A packet that arrives takes its place, and the acknowledgement tells of it.
LEMMA ArriveIInv == ASSUME IInv, NEW p \in inFlight, Arrive(p) PROVE IInv'
<1>0. /\ sent \in Nat /\ sent' = sent /\ p \in 1 .. sent /\ p \in Nat \ {0} /\ Alive(p) /\ Kept(p)
      /\ 1 .. sent \subseteq Packet
  <2>1. sent \in Nat /\ sent \in 0 .. Packets /\ p \in 1 .. sent /\ Alive(p)
    BY QueueNear DEF IInv, TypeOK, AliveInv
  <2>. QED BY <2>1, ReliabilityAssumption, Half DEF Arrive, Alive, Kept, Packet
<1>1. Ordered(queue) /\ Near(queue, p)
  BY <1>0, QueueNear DEF IInv, QueueInv
<1>2. Ordered(queue') /\ Entries(queue') = Entries(queue) \cup {p}
  <2>1. queue' = Inserted(queue, p)
    BY DEF Arrive
  <2>. QED BY <1>0, <1>1, <2>1, InsertedIs
<1>3. received' = received \cup {p} /\ received \subseteq 1 .. sent
  BY DEF Arrive, IInv, TypeOK
<1>4. \A m \in Entries(queue') : m \in 1 .. sent /\ Kept(m) /\ m \in received'
  BY <1>0, <1>2, <1>3 DEF IInv, QueueInv
<1>. DEFINE last == Last(queue')
<1>5. /\ queue' # << >> /\ last \in Entries(queue') /\ \A m \in Entries(queue') : m <= last
      /\ Len(queue') \in Nat
      /\ \A i \in 1 .. Len(queue') : queue'[i] \in Entries(queue')
  <2>1. queue' # << >>
    <3>1. PICK i \in 1 .. Len(queue') : TRUE
      BY <1>2 DEF Entries
    <3>. QED BY <3>1
  <2>. QED BY <1>2, <2>1, OrderedFacts DEF Entries
<1>6. Alive(last) /\ last \in 1 .. sent /\ \A m \in Entries(queue) : m <= last
  <2>1. p <= last /\ last \in 1 .. sent
    BY <1>2, <1>4, <1>5
  <2>. QED BY <1>0, <1>2, <1>5, <2>1, Half DEF Alive
<1>7. Near(queue', last)
  <2>1. \A i \in 1 .. Len(queue') : queue'[i] \in 1 .. sent /\ Kept(queue'[i])
    BY <1>4, <1>5
  <2>. QED BY <1>0, <1>6, <2>1, Half DEF Near, Kept, Alive
<1>8. AckData(queue') = [ack  |-> Seqno(last),
                         bits |-> {b \in 0 .. AckBits - 1 : last - 1 - b \in Entries(queue')}]
  BY <1>2, <1>5, <1>7, AckDataIs
<1>. DEFINE new == [data |-> AckData(queue'), packet |-> last]
<1>9. acks' = acks \cup {new}
  BY DEF Arrive
<1>. HIDE DEF last
<1>10. TypeOK'
  <2>1. queue' \in Seq(1 .. sent)
    <3>1. queue' \in Seq(Nat \ {0})
      BY <1>2 DEF Ordered
    <3>2. \A i \in 1 .. Len(queue') : queue'[i] \in 1 .. sent
      BY <1>4, <1>5
    <3>3. queue' \in [1 .. Len(queue') -> Nat \ {0}]
      BY <3>1, LenProperties
    <3>4. queue' \in [1 .. Len(queue') -> 1 .. sent]
      BY <3>2, <3>3
    <3>. QED BY <1>5, <3>4, SeqDef
  <2>2. new \in AckType
    <3>1. Seqno(last) \in 0 .. SeqCount - 1 /\ last \in Packet
      BY <1>0, <1>6, SeqnoType
    <3>. QED BY <1>8, <3>1 DEF AckType
  <2>3. received' \subseteq 1 .. sent
    BY <1>0, <1>3
  <2>. QED BY <1>0, <1>9, <2>1, <2>2, <2>3 DEF Arrive, IInv, TypeOK
<1>11. QueueInv'
  <2>1. ASSUME NEW m \in received'
        PROVE  m <= last /\ (m + HistoryDepth >= last => m \in Entries(queue'))
    <3>1. CASE m = p
      BY <1>2, <1>5, <3>1
    <3>2. CASE m \in received
      <4>1. queue # << >> /\ m <= Last(queue) /\ (m + HistoryDepth >= Last(queue) => m \in Entries(queue))
        BY <3>2 DEF IInv, QueueInv, Complete
      <4>2. Last(queue) \in Entries(queue)
        BY <1>1, <4>1, OrderedFacts
      <4>3. Last(queue) <= last /\ Last(queue) \in 1 .. sent /\ m \in 1 .. sent
        BY <1>2, <1>3, <1>4, <1>6, <3>2, <4>2
      <4>. QED BY <1>2, <1>6, <4>1, <4>3, Half
    <3>. QED BY <1>3, <3>1, <3>2
  <2>3. last + Window > sent'
    BY <1>0, <1>6 DEF Alive
  <2>4. Last(queue') = last
    BY DEF last
  <2>5. Last(queue') + Window > sent'
    BY <2>3, <2>4
  <2>6. Complete(queue', received')
    BY <2>1, <2>4 DEF Complete
  <2>7. \A m \in Entries(queue') : m + Window + HistoryDepth > sent' /\ m \in received'
    BY <1>0, <1>4 DEF Kept
  <2>. QED BY <1>2, <1>5, <2>5, <2>6, <2>7 DEF QueueInv, Alive, Kept
<1>12. AliveInv'
  BY <1>0 DEF IInv, AliveInv, Arrive, Alive
<1>13. \A a \in acks' : AckTrue(a)'
  <2>1. ASSUME NEW a \in acks PROVE AckTrue(a)'
    BY <1>0, <1>3 DEF IInv, AckTrue, Alive, Kept
  <2>2. ASSUME NEW a, a = new PROVE AckTrue(a)'
    <3>1. new.packet = last /\ new.data.ack = Seqno(last)
          /\ new.data.bits = {b \in 0 .. AckBits - 1 : last - 1 - b \in Entries(queue')}
      BY <1>8
    <3>2. last + Window > sent' /\ last \in received'
      BY <1>0, <1>4, <1>5, <1>6 DEF Alive
    <3>3. \A b \in a.data.bits : last - 1 - b \in received'
      BY <1>4, <2>2, <3>1
    <3>4. a.packet = last /\ a.data.ack = Seqno(last)
      BY <2>2, <3>1
    <3>. QED BY <3>2, <3>3, <3>4 DEF AckTrue, Alive
  <2>. QED BY <1>9, <2>1, <2>2
<1>14. AckedWasReceived'
  BY <1>3 DEF IInv, Arrive, AckedWasReceived
<1>. QED BY <1>10, <1>11, <1>12, <1>13, <1>14 DEF IInv

\* A record is acknowledged only if its packet arrived.
LEMMA AckedArrived ==
  ASSUME IInv, NEW a \in acks, NEW r \in pending, Verdict(r, a.data) = "acked"
  PROVE  r.packet \in received
<1>. DEFINE m == r.packet
            l == a.packet
<1>1. /\ sent \in Nat /\ m \in 1 .. sent /\ m \in Nat \ {0} /\ Alive(m)
  BY QueueNear DEF IInv, TypeOK, AliveInv
<1>2. /\ AckTrue(a) /\ l \in 1 .. sent /\ l \in Nat \ {0} /\ Alive(l) /\ l \in received
      /\ a.data.ack = Seqno(l)
  <2>1. AckTrue(a)
    BY DEF IInv
  <2>2. received \subseteq 1 .. sent
    BY DEF IInv, TypeOK
  <2>3. l \in received /\ Alive(l) /\ a.data.ack = Seqno(l)
    BY <2>1 DEF AckTrue
  <2>4. l \in 1 .. sent
    BY <2>2, <2>3
  <2>. HIDE DEF l
  <2>5. l \in Nat \ {0}
    BY <1>1, <2>4
  <2>. QED BY <2>1, <2>3, <2>4, <2>5
<1>. HIDE DEF m, l
<1>3. m - l <= HalfMax /\ l - m <= HalfMax
  BY <1>1, <1>2, Half DEF Alive
<1>. DEFINE b == BitOf(a.data.ack, Seqno(r.packet))
<1>4. \/ Seqno(m) = Seqno(l)
      \/ ~IsSeqGt(Seqno(m), Seqno(l)) /\ Seqno(m) # Seqno(l) /\ b \in a.data.bits
  BY <1>2 DEF Verdict, m
<1>5. CASE Seqno(m) = Seqno(l)
  BY <1>1, <1>2, <1>3, <1>5, SeqnoUnique DEF m
<1>6. CASE ~IsSeqGt(Seqno(m), Seqno(l)) /\ Seqno(m) # Seqno(l) /\ b \in a.data.bits
  <2>1. m < l
    <3>1. Stands(Seqno(m), m) /\ Stands(Seqno(l), l)
      BY <1>1, <1>2, SeqnoStands
    <3>2. ~(m > l)
      BY <1>1, <1>2, <1>3, <1>6, <3>1, GtCompares
    <3>3. m # l
      BY <1>6
    <3>. QED BY <1>1, <1>2, <3>2, <3>3
  <2>2. b = l - 1 - m
    BY <1>1, <1>2, <1>3, <2>1, BitIs DEF m
  <2>3. l - 1 - b = m
    BY <1>1, <1>2, <2>2
  <2>4. l - 1 - b \in received \/ ~Kept(l - 1 - b)
    BY <1>2, <1>6 DEF AckTrue, l
  <2>5. Kept(m)
    BY <1>1, Half DEF Alive, Kept
  <2>. QED BY <2>3, <2>4, <2>5 DEF m
<1>. QED BY <1>4, <1>5, <1>6

\* What the other steps of the sender leave of the records.
LEMMA RecordsShrink ==
  ASSUME IInv, UNCHANGED <<sent, inFlight, received, queue, acks>>,
         pending' \subseteq [packet : 1 .. sent, nMissing : 0 .. LostThreshold - 1, timeLeft : Nat],
         \A r \in pending' : \E s \in pending : r.packet = s.packet,
         acked' \subseteq received
  PROVE  IInv'
<1>1. TypeOK'
  BY DEF IInv, TypeOK
<1>2. QueueInv'
  BY DEF IInv, QueueInv, Alive, Kept
<1>3. AliveInv'
  BY DEF IInv, AliveInv, Alive
<1>4. \A a \in acks' : AckTrue(a)'
  BY DEF IInv, AckTrue, Alive, Kept
<1>5. AckedWasReceived'
  BY DEF AckedWasReceived
<1>. QED BY <1>1, <1>2, <1>3, <1>4, <1>5 DEF IInv

RecordType == [packet : 1 .. sent, nMissing : 0 .. LostThreshold - 1, timeLeft : Nat]

LEMMA ProcessAckIInv == ASSUME IInv, NEW a \in acks, ProcessAck(a) PROVE IInv'
<1>. DEFINE Are(v) == {r \in pending : Verdict(r, a.data) = v}
<1>1. /\ pending' = Are("keep")
                    \cup {Record(r.packet, r.nMissing + 1, r.timeLeft) : r \in Are("missing")}
      /\ acked' = acked \cup PacketsOf(Are("acked"))
  BY DEF ProcessAck
<1>2. \A r \in pending : r \in RecordType
  BY DEF IInv, TypeOK, RecordType
<1>3. ASSUME NEW r \in Are("missing")
      PROVE  Record(r.packet, r.nMissing + 1, r.timeLeft) \in RecordType
  <2>1. r \in pending /\ r.nMissing \in Nat
    BY <1>2 DEF RecordType
  <2>2. ~(r.nMissing + 1 >= LostThreshold)
    BY DEF Verdict
  <2>3. r.nMissing + 1 \in 0 .. LostThreshold - 1
    BY <2>1, <2>2, ReliabilityAssumption
  <2>. QED BY <1>2, <2>1, <2>3 DEF Record, RecordType
<1>4. pending' \subseteq RecordType
  BY <1>1, <1>2, <1>3
<1>5. ASSUME NEW r \in pending' PROVE \E s \in pending : r.packet = s.packet
  <2>1. CASE r \in Are("keep")
    BY <2>1
  <2>2. CASE r \in {Record(s.packet, s.nMissing + 1, s.timeLeft) : s \in Are("missing")}
    BY <2>2 DEF Record
  <2>. QED BY <1>1, <2>1, <2>2
<1>6. acked' \subseteq received
  <2>1. acked \subseteq received
    BY DEF IInv, AckedWasReceived
  <2>2. \A r \in Are("acked") : r.packet \in received
    BY AckedArrived
  <2>. QED BY <1>1, <2>1, <2>2 DEF PacketsOf
<1>7. UNCHANGED <<sent, inFlight, received, queue, acks>>
  BY DEF ProcessAck
<1>. HIDE DEF Are
<1>. QED BY <1>4, <1>5, <1>6, <1>7, RecordsShrink DEF RecordType

LEMMA TickIInv == ASSUME IInv, Tick PROVE IInv'
<1>1. \A r \in pending : r \in RecordType
  BY DEF IInv, TypeOK, RecordType
<1>2. ASSUME NEW s \in pending'
      PROVE  s \in RecordType /\ \E r \in pending : s.packet = r.packet
  <2>1. PICK r \in pending : s = IF r.timeLeft > 0
                                 THEN Record(r.packet, r.nMissing, r.timeLeft - 1) ELSE r
    BY DEF Tick
  <2>2. CASE r.timeLeft > 0
    <3>1. r.timeLeft \in Nat
      BY <1>1 DEF RecordType
    <3>2. r.timeLeft - 1 \in Nat
      BY <2>2, <3>1
    <3>. QED BY <1>1, <2>1, <2>2, <3>2 DEF Record, RecordType
  <2>3. CASE ~(r.timeLeft > 0)
    BY <1>1, <2>1, <2>3
  <2>. QED BY <2>2, <2>3
<1>3. acked' \subseteq received
  BY DEF IInv, AckedWasReceived, Tick
<1>4. pending' \subseteq RecordType /\ UNCHANGED <<sent, inFlight, received, queue, acks>>
  BY <1>2 DEF Tick
<1>. QED BY <1>2, <1>3, <1>4, RecordsShrink DEF RecordType

LEMMA UpdateSenderIInv == ASSUME IInv, UpdateSender PROVE IInv'
<1>1. pending' \subseteq pending
  BY DEF UpdateSender
<1>2. pending' \subseteq RecordType /\ acked' \subseteq received
  BY <1>1 DEF IInv, TypeOK, AckedWasReceived, RecordType, UpdateSender
<1>3. UNCHANGED <<sent, inFlight, received, queue, acks>>
  BY DEF UpdateSender
<1>. QED BY <1>1, <1>2, <1>3, RecordsShrink DEF RecordType

\* The queue forgets nothing that an acknowledgement may still have to tell.
LEMMA UpdateReceiverIInv == ASSUME IInv, UpdateReceiver PROVE IInv'
<1>1. queue # << >> /\ queue' = Trimmed(queue) /\ UNCHANGED <<sent, pending, inFlight, received, acks, acked>>
  BY DEF UpdateReceiver
<1>2. Ordered(queue) /\ Near(queue, Last(queue) - (HistoryDepth + 1))
  BY <1>1, QueueNear DEF IInv, QueueInv
<1>3. /\ Ordered(queue') /\ queue' # << >> /\ Last(queue') = Last(queue)
      /\ Entries(queue') \subseteq Entries(queue)
      /\ \A x \in Entries(queue) : x + HistoryDepth >= Last(queue) => x \in Entries(queue')
  BY <1>1, <1>2, TrimmedIs
<1>4. QueueInv'
  <2>1. Complete(queue, received) /\ Alive(Last(queue))
    BY <1>1 DEF IInv, QueueInv
  <2>2. Complete(queue', received')
    BY <1>1, <1>3, <2>1 DEF Complete
  <2>3. Last(queue') + Window > sent'
    BY <1>1, <1>3, <2>1 DEF Alive
  <2>4. \A m \in Entries(queue') : m + Window + HistoryDepth > sent' /\ m \in received'
    BY <1>1, <1>3 DEF IInv, QueueInv, Kept
  <2>. QED BY <1>3, <2>2, <2>3, <2>4 DEF QueueInv, Alive, Kept
<1>5. TypeOK'
  <2>1. sent \in Nat /\ Len(queue') \in Nat /\ \A i \in 1 .. Len(queue') : queue'[i] \in 1 .. sent
    BY <1>3, OrderedFacts, QueueNear DEF IInv
  <2>2. queue' \in Seq(1 .. sent)
    <3>1. queue' \in [1 .. Len(queue') -> Nat \ {0}]
      BY <1>3, LenProperties DEF Ordered
    <3>. QED BY <2>1, <3>1, SeqDef
  <2>. QED BY <1>1, <2>2 DEF IInv, TypeOK
<1>6. AliveInv' /\ (\A a \in acks' : AckTrue(a)') /\ AckedWasReceived'
  BY <1>1 DEF IInv, AliveInv, AckTrue, AckedWasReceived, Alive, Kept
<1>. QED BY <1>4, <1>5, <1>6 DEF IInv

LEMMA NextIInv == IInv /\ [Next]_vars => IInv'
<1>. SUFFICES ASSUME IInv, [Next]_vars PROVE IInv'
  OBVIOUS
<1>1. CASE Send
  BY <1>1, SendIInv
<1>2. CASE Tick
  BY <1>2, TickIInv
<1>3. CASE UpdateSender
  BY <1>3, UpdateSenderIInv
<1>4. CASE UpdateReceiver
  BY <1>4, UpdateReceiverIInv
<1>5. ASSUME NEW n \in inFlight, Arrive(n) PROVE IInv'
  BY <1>5, ArriveIInv
<1>6. ASSUME NEW a \in acks, ProcessAck(a) PROVE IInv'
  BY <1>6, ProcessAckIInv
<1>7. CASE UNCHANGED vars
  <2>1. UNCHANGED <<sent, inFlight, received, queue, acks>> /\ pending' = pending /\ acked' = acked
    BY <1>7 DEF vars
  <2>2. pending' \subseteq RecordType /\ acked' \subseteq received
    BY <2>1 DEF IInv, TypeOK, AckedWasReceived, RecordType
  <2>. QED BY <2>1, <2>2, RecordsShrink DEF RecordType
<1>. QED BY <1>1, <1>2, <1>3, <1>4, <1>5, <1>6, <1>7 DEF Next

-----------------------------------------------------------------------------
(* Theorems *)

\* The invariant of the two ends: what is pending, queued or acknowledged is of the
\* window, and queue and acknowledgements tell what arrived (class ReliabilitySystem).
THEOREM ReliabilityInvariant == Spec => []IInv
<1>1. Init => IInv
  BY InitIInv
<1>2. IInv /\ [Next]_vars => IInv'
  BY NextIInv
<1>. QED BY <1>1, <1>2, PTL DEF Spec

\* Every variable keeps its type: a record never counts up to nlost_threshold and an
\* acknowledgement fits ack_bits_t (processAck, genLastSeqAckData).
THEOREM TypeCorrect == Spec => []TypeOK
<1>1. IInv => TypeOK
  BY DEF IInv
<1>. QED BY <1>1, ReliabilityInvariant, PTL

\* Only packets that arrived are reported acknowledged (processAck against
\* genLastSeqAckData), whatever the network does within the window.
THEOREM AckedAlwaysReceived == Spec => []AckedWasReceived
<1>1. IInv => AckedWasReceived
  BY DEF IInv
<1>. QED BY <1>1, ReliabilityInvariant, PTL

LEMMA ExactFromIInv == IInv => AcksExact
<1>. SUFFICES ASSUME IInv, queue # << >>
              PROVE  LET newest == CHOOSE n \in received : \A m \in received : m <= n
                     IN  AckData(queue) =
                           [ack  |-> Seqno(newest),
                            bits |-> {b \in 0 .. AckBits - 1 : newest - 1 - b \in received}]
  BY DEF AcksExact
<1>. DEFINE newest == CHOOSE n \in received : \A m \in received : m <= n
            last   == Last(queue)
<1>1. /\ Ordered(queue) /\ Near(queue, last) /\ Complete(queue, received)
      /\ \A n \in Entries(queue) : n \in received
  BY QueueNear DEF IInv, QueueInv
<1>2. last \in Entries(queue) /\ last \in received /\ last \in Nat
  BY <1>1, OrderedFacts
<1>3. AckData(queue) = [ack  |-> Seqno(last),
                        bits |-> {b \in 0 .. AckBits - 1 : last - 1 - b \in Entries(queue)}]
  BY <1>1, AckDataIs
<1>. HIDE DEF last
<1>4. \A n \in received : n <= last /\ n \in Nat
  BY <1>1, QueueNear DEF IInv, TypeOK, Complete, last
<1>5. newest = last
  <2>1. newest \in received /\ \A m \in received : m <= newest
    BY <1>2, <1>4
  <2>. HIDE DEF newest
  <2>. QED BY <1>2, <1>4, <2>1
<1>6. \A b \in 0 .. AckBits - 1 : last - 1 - b \in Entries(queue) <=> last - 1 - b \in received
  <2>. TAKE b \in 0 .. AckBits - 1
  <2>1. (last - 1 - b) + HistoryDepth >= last
    BY <1>2, Half
  <2>. QED BY <1>1, <2>1 DEF Complete, last
<1>7. {b \in 0 .. AckBits - 1 : last - 1 - b \in Entries(queue)}
        = {b \in 0 .. AckBits - 1 : last - 1 - b \in received}
  BY <1>6
<1>. QED BY <1>3, <1>5, <1>7

\* An acknowledgement made at any time tells exactly which of the last packets arrived,
\* though numbers wrap, packets come late and update forgets entries (packetReceived,
\* update, genLastSeqAckData).
THEOREM AcksAlwaysExact == Spec => []AcksExact
BY ExactFromIInv, ReliabilityInvariant, PTL

================================================================================
