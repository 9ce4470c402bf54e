------------------------ MODULE ReflectionVarsProofs ------------------------
(***************************************************************************)
(* For any variables, values, times and number of packets: what a          *)
(* replicated variable shows after any seeks is its latest state, and the  *)
(* one the stream gave it, although repeated values and failed decodes are *)
(* dropped from its history.                                               *)
(*                                                                         *)
(* ShownIsLatest is kept by a seek from any state of the two searches, as  *)
(* long as the states are ordered.  UntiedIsExact needs more: Kept says    *)
(* what dropping may lose, ShownInv which of several states of one time    *)
(* is shown once that time is past.                                        *)
(***************************************************************************)
EXTENDS ReflectionVars, SequenceTheorems, NaturalsInduction, WellFoundedInduction, TLAPS

Sorted(s) == \A i, j \in 1 .. Len(s) : i <= j => s[i].time <= s[j].time

\* Every state was decoded.
Recorded(s, l) == \A k \in 1 .. Len(s) : \E i \in 1 .. Len(l) : l[i] = s[k]

\* Entry e was decoded when state k was the last, and has its value.
Stands(s, k, e) ==
  /\ s[k].data = e.data
  /\ s[k].time <= e.time
  /\ \A j \in 1 .. Len(s) : j > k => e.time <= s[j].time

\* Whatever was decoded is in the history, or repeated the value before it.
Kept(s, l) == \A i \in 1 .. Len(l) : \E k \in 1 .. Len(s) : Stands(s, k, l[i])

\* The history s of a variable whose decoded values are l.
HistoryInv(s, l) ==
  /\ s \in Seq([time : Time, data : Value])
  /\ l \in Seq([time : Time, data : Value])
  /\ Len(s) > 0 /\ s[1].time = 0
  /\ Sorted(s) /\ Recorded(s, l) /\ Kept(s, l)

\* State k is shown at time t: taken at t itself, or the last of those before it.
ShownAt(s, k, t) ==
  /\ k \in 1 .. Len(s)
  /\ s[k].time <= t
  /\ s[k].time = t \/ \A j \in 1 .. Len(s) : j > k => t < s[j].time

VarInv(r, l, t) ==
  /\ r \in VarType
  /\ r.index \in 0 .. Len(r.states) + 1
  /\ HistoryInv(r.states, l)
  /\ ShownAt(r.states, r.shown, t)

\* While parsing nothing is later than the clock, and the newest state is shown.
ParseInv(r, l, t) ==
  /\ r.shown = Len(r.states)
  /\ \A i \in 1 .. Len(l) : l[i].time <= t

IInv ==
  /\ TypeOK
  /\ \A x \in Var : VarInv(var[x], log[x], now)
  /\ phase = "parsing" => \A x \in Var : ParseInv(var[x], log[x], now)

-----------------------------------------------------------------------------
(* Searching *)

Less == {m \in Nat \X Nat : m[1] < m[2]}

LEMMA LeastNat ==
  ASSUME NEW S \in SUBSET Nat, S # {}
  PROVE  \E x \in S : \A y \in S : x <= y
<1>1. IsWellFoundedOn(Less, Nat)
  BY NatLessThanWellFounded, Zenon DEF OpToRel, Less
<1>2. PICK x \in S : \A y \in S : ~(<<y, x>> \in Less)
  BY <1>1, WFMin, Zenon
<1>3. \A y \in S : ~(y < x)
  BY <1>2 DEF Less
<1>4. \A y \in S : x <= y
  BY <1>3
<1>. QED BY <1>4

\* A set of the first n indices that holds, with an index, those before it is the
\* first k of them: both binary searches have an answer.
LEMMA PrefixExists ==
  ASSUME NEW n \in Nat, NEW B, B \subseteq 1 .. n,
         \A i, j \in 1 .. n : i <= j /\ j \in B => i \in B
  PROVE  \E k \in 0 .. n : \A i \in 1 .. n : i <= k <=> i \in B
<1>. DEFINE out == {i \in 1 .. n + 1 : i \notin B}
<1>1. out \in SUBSET Nat /\ n + 1 \in out
  OBVIOUS
<1>2. PICK m \in out : \A y \in out : m <= y
  <2>. HIDE DEF out
  <2>. QED BY <1>1, LeastNat
<1>3. m - 1 \in 0 .. n
  BY <1>2
<1>4. \A i \in 1 .. n : i <= m - 1 <=> i \in B
  <2>. SUFFICES ASSUME NEW i \in 1 .. n PROVE i <= m - 1 <=> i \in B
    OBVIOUS
  <2>1. CASE i <= m - 1
    <3>1. i \notin out
      BY <1>2, <2>1
    <3>. QED BY <2>1, <3>1
  <2>2. CASE ~(i <= m - 1)
    <3>1. m <= i /\ m \in 1 .. n /\ m \notin B
      BY <1>2, <2>2
    <3>. QED BY <2>2, <3>1
  <2>. QED BY <2>1, <2>2
<1>. QED BY <1>3, <1>4

LEMMA TimeIsNat == Time \subseteq Nat
BY DEF Time

LEMMA TimesAreNat ==
  ASSUME NEW s \in Seq([time : Time, data : Value]), NEW i \in 1 .. Len(s)
  PROVE  s[i] \in [time : Time, data : Value] /\ s[i].time \in Time /\ s[i].time \in Nat
<1>1. s[i] \in [time : Time, data : Value]
  BY ElementOfSeq, Zenon
<1>2. s[i].time \in Time
  BY <1>1
<1>. QED BY <1>1, <1>2, TimeIsNat

\* lower_bound among the first n states
LEMMA BackwardCut ==
  ASSUME NEW s \in Seq([time : Time, data : Value]), Sorted(s),
         NEW n \in 0 .. Len(s), NEW t \in Time,
         NEW k, k = Prefix(s, n, LAMBDA st : st.time < t)
  PROVE  k \in 0 .. n /\ \A i \in 1 .. n : i <= k <=> s[i].time < t
<1>. DEFINE B == {i \in 1 .. n : s[i].time < t}
<1>1. t \in Nat /\ \A i \in 1 .. Len(s) : s[i].time \in Nat
  BY TimesAreNat, TimeIsNat, Zenon
<1>2. \A i, j \in 1 .. n : i <= j /\ j \in B => i \in B
  BY <1>1 DEF Sorted
<1>3. \E m \in 0 .. n : \A i \in 1 .. n : i <= m <=> i \in B
  <2>1. n \in Nat /\ B \subseteq 1 .. n
    OBVIOUS
  <2>. HIDE DEF B
  <2>. QED BY <1>2, <2>1, PrefixExists
<1>4. \E m \in 0 .. n : \A i \in 1 .. n : i <= m <=> s[i].time < t
  BY <1>3
<1>. QED BY <1>4, Zenon DEF Prefix

\* upper_bound among all states
LEMMA ForwardCut ==
  ASSUME NEW s \in Seq([time : Time, data : Value]), Sorted(s), NEW t \in Time,
         NEW k, k = Prefix(s, Len(s), LAMBDA st : st.time <= t)
  PROVE  k \in 0 .. Len(s) /\ \A i \in 1 .. Len(s) : i <= k <=> s[i].time <= t
<1>. DEFINE n == Len(s)
            B == {i \in 1 .. n : s[i].time <= t}
<1>1. t \in Nat /\ \A i \in 1 .. Len(s) : s[i].time \in Nat
  BY TimesAreNat, TimeIsNat, Zenon
<1>2. \A i, j \in 1 .. n : i <= j /\ j \in B => i \in B
  BY <1>1 DEF Sorted
<1>3. \E m \in 0 .. n : \A i \in 1 .. n : i <= m <=> i \in B
  <2>1. n \in Nat /\ B \subseteq 1 .. n
    OBVIOUS
  <2>. HIDE DEF B, n
  <2>. QED BY <1>2, <2>1, PrefixExists
<1>4. \E m \in 0 .. Len(s) : \A i \in 1 .. Len(s) : i <= m <=> s[i].time <= t
  BY <1>3
<1>. QED BY <1>4, Zenon DEF Prefix

-----------------------------------------------------------------------------
(* Seeking *)

LEMMA MovedIs ==
  ASSUME NEW S, NEW r \in [states : S, index : Nat, shown : Nat],
         NEW m \in Nat, NEW k \in Nat, NEW g, g = [r EXCEPT !.index = m, !.shown = k]
  PROVE  /\ g \in [states : S, index : Nat, shown : Nat]
         /\ g.states = r.states /\ g.index = m /\ g.shown = k
OBVIOUS

\* From any place in the history a seek shows the state of the time sought.
LEMMA SeekShows ==
  ASSUME NEW r \in VarType, NEW l, NEW t \in Time,
         HistoryInv(r.states, l), r.index \in 0 .. Len(r.states) + 1
  PROVE  /\ GoToIndex(r, t) \in VarType
         /\ GoToIndex(r, t).states = r.states
         /\ GoToIndex(r, t).index \in 0 .. Len(r.states)
         /\ ShownAt(r.states, GoToIndex(r, t).shown, t)
<1>. DEFINE s == r.states
            n == Clamped(r)
<1>1. s \in Seq([time : Time, data : Value]) /\ Sorted(s) /\ Len(s) \in Nat \ {0}
      /\ s[1].time = 0 /\ 1 \in 1 .. Len(s)
  BY DEF HistoryInv
<1>2. n \in 0 .. Len(s)
  BY <1>1 DEF Clamped
<1>3. \A i \in 1 .. Len(s) : s[i].time \in Nat
  BY <1>1, TimesAreNat
<1>4. t \in Nat
  BY DEF Time
<1>5. ASSUME NEW m \in 0 .. Len(s), NEW k \in 1 .. Len(s), ShownAt(s, k, t),
             GoToIndex(r, t) = [r EXCEPT !.index = m, !.shown = k]
      PROVE  /\ GoToIndex(r, t) \in VarType
             /\ GoToIndex(r, t).states = r.states
             /\ GoToIndex(r, t).index \in 0 .. Len(r.states)
             /\ ShownAt(r.states, GoToIndex(r, t).shown, t)
  <2>. DEFINE g == GoToIndex(r, t)
  <2>1. m \in Nat /\ k \in Nat
    BY <1>1
  <2>. HIDE DEF g
  <2>2. g = [r EXCEPT !.index = m, !.shown = k]
    BY <1>5, Zenon DEF g
  <2>3. g \in VarType /\ g.states = r.states /\ g.index = m /\ g.shown = k
    BY <2>1, <2>2, MovedIs, Zenon DEF VarType
  <2>. QED BY <1>5, <2>3 DEF g
<1>. HIDE DEF s, n
<1>6. CASE (IF n = 0 THEN 0 ELSE s[n].time) < t
  <2>. DEFINE k == Prefix(s, Len(s), LAMBDA st : st.time <= t)
  <2>1. k \in 0 .. Len(s) /\ \A i \in 1 .. Len(s) : i <= k <=> s[i].time <= t
    BY <1>1, ForwardCut
  <2>2. GoToIndex(r, t) = GoForward(r, n, t)
    BY <1>6 DEF GoToIndex, n, s
  <2>3. GoForward(r, n, t) = [r EXCEPT !.index = IF k < n THEN n ELSE k,
                                       !.shown = IF k < n THEN n ELSE k]
    BY DEF GoForward, s
  <2>. HIDE DEF k
  <2>4. ~(k < n)
    <3>1. CASE n = 0
      BY <2>1, <3>1
    <3>2. CASE n # 0
      BY <1>2, <1>3, <1>4, <1>6, <2>1, <3>2
    <3>. QED BY <3>1, <3>2
  <2>5. k \in 1 .. Len(s)
    BY <1>1, <1>4, <2>1
  <2>6. ShownAt(s, k, t)
    BY <1>3, <1>4, <2>1, <2>5 DEF ShownAt
  <2>. QED BY <1>5, <2>1, <2>2, <2>3, <2>4, <2>5, <2>6
<1>7. CASE ~((IF n = 0 THEN 0 ELSE s[n].time) < t)
  <2>. DEFINE k == Prefix(s, n, LAMBDA st : st.time < t)
              m == IF k > 0 /\ s[k + 1].time > t THEN k ELSE k + 1
  <2>1. k \in 0 .. n /\ \A i \in 1 .. n : i <= k <=> s[i].time < t
    BY <1>1, <1>2, BackwardCut
  <2>2. GoToIndex(r, t) = GoBackward(r, n, t)
    BY <1>7 DEF GoToIndex, n, s
  <2>3. GoBackward(r, n, t) = [r EXCEPT !.index = k, !.shown = m]
    BY DEF GoBackward, s
  <2>. HIDE DEF k
  <2>4. m \in 1 .. Len(s) /\ ShownAt(s, m, t) /\ k \in 0 .. Len(s)
    <3>1. CASE n = 0
      <4>1. k = 0 /\ t = 0
        BY <1>4, <1>7, <2>1, <3>1
      <4>2. m = 1
        BY <4>1
      <4>. QED BY <1>1, <4>1, <4>2 DEF ShownAt
    <3>2. CASE n # 0 /\ k = 0
      <4>1. n \in 1 .. Len(s) /\ 1 \in 1 .. n
        BY <1>2, <3>2
      <4>2. ~(s[1].time < t)
        BY <2>1, <3>2, <4>1
      <4>3. t = 0 /\ m = 1
        BY <1>1, <1>4, <3>2, <4>2
      <4>. QED BY <1>1, <3>2, <4>3 DEF ShownAt
    <3>3. CASE n # 0 /\ k # 0
      <4>1. n \in 1 .. Len(s) /\ n \in 1 .. n /\ s[n].time >= t
        BY <1>2, <1>3, <1>4, <1>7, <3>3
      <4>2. k < n /\ k \in 1 .. n /\ k + 1 \in 1 .. n
        BY <2>1, <3>3, <4>1, <1>3, <1>4
      <4>3. s[k].time < t /\ s[k + 1].time >= t
        BY <1>3, <1>4, <2>1, <4>1, <4>2
      <4>4. \A j \in 1 .. Len(s) : j > k => s[k + 1].time <= s[j].time
        BY <1>1, <4>1, <4>2 DEF Sorted
      <4>5. CASE s[k + 1].time > t
        <5>1. m = k
          BY <4>2, <4>5
        <5>. QED BY <1>3, <1>4, <4>1, <4>2, <4>3, <4>4, <4>5, <5>1 DEF ShownAt
      <4>6. CASE ~(s[k + 1].time > t)
        <5>1. m = k + 1 /\ s[k + 1].time = t
          BY <1>3, <1>4, <4>1, <4>2, <4>3, <4>6
        <5>. QED BY <1>4, <4>1, <4>2, <5>1 DEF ShownAt
      <4>. QED BY <4>5, <4>6
    <3>. QED BY <3>1, <3>2, <3>3
  <2>. QED BY <1>5, <2>1, <2>2, <2>3, <2>4
<1>. QED BY <1>6, <1>7

-----------------------------------------------------------------------------
(* Decoding *)

StateType == [time : Time, data : Value]

LEMMA AppendedIs ==
  ASSUME NEW S, NEW s \in Seq(S), NEW e \in S
  PROVE  /\ Append(s, e) \in Seq(S) /\ Len(Append(s, e)) = Len(s) + 1
         /\ \A i \in 1 .. Len(s) : Append(s, e)[i] = s[i]
         /\ Append(s, e)[Len(s) + 1] = e
         /\ SubSeq(Append(s, e), 1, Len(s)) = s
<1>1. /\ Append(s, e) \in Seq(S) /\ Len(Append(s, e)) = Len(s) + 1
      /\ \A i \in 1 .. Len(s) : Append(s, e)[i] = s[i]
      /\ Append(s, e)[Len(s) + 1] = e
  OBVIOUS
<1>2. SubSeq(Append(s, e), 1, Len(s)) = s
  <2>. DEFINE a == Append(s, e)
              b == SubSeq(a, 1, Len(s))
  <2>1. Len(s) \in Nat /\ \A i \in 1 .. Len(s) : a[i] \in S
    BY <1>1
  <2>. HIDE DEF a
  <2>2. b \in Seq(S) /\ Len(b) = Len(s) /\ \A i \in 1 .. Len(s) : b[i] = a[i]
    BY <2>1, SubSeqProperties
  <2>3. \A i \in 1 .. Len(s) : b[i] = s[i]
    BY <1>1, <2>2 DEF a
  <2>. HIDE DEF b
  <2>. QED BY <2>2, <2>3, SeqEqual DEF a, b
<1>. QED BY <1>1, <1>2

\* What a state appended and taken back leaves behind.
Stepped(r) == [states |-> r.states, index |-> Len(r.states) + 1, shown |-> Len(r.states)]

LEMMA TakenBack ==
  ASSUME NEW r \in VarType, NEW t \in Time, NEW v \in Value
  PROVE  PopState(AddState(r, t, v)) = Stepped(r)
<1>. DEFINE a == Append(r.states, TimeState(t, v))
<1>1. r.states \in Seq(StateType) /\ TimeState(t, v) \in StateType
  BY DEF VarType, StateType, TimeState
<1>2. Len(a) = Len(r.states) + 1 /\ SubSeq(a, 1, Len(r.states)) = r.states
      /\ Len(r.states) \in Nat
  BY <1>1, AppendedIs
<1>3. AddState(r, t, v).states = a
  BY DEF AddState
<1>. HIDE DEF a
<1>4. Len(a) - 1 = Len(r.states)
  BY <1>2
<1>. QED BY <1>2, <1>3, <1>4, Zenon DEF PopState, Stepped

LEMMA CheckedIs ==
  ASSUME NEW r \in VarType, Len(r.states) > 0, NEW t \in Time, NEW v \in Value
  PROVE  CheckPreviousState(AddState(r, t, v)) =
           IF r.states[Len(r.states)].data = v THEN Stepped(r) ELSE AddState(r, t, v)
<1>. DEFINE a == Append(r.states, TimeState(t, v))
            n == Len(r.states)
            q == AddState(r, t, v)
<1>1. r.states \in Seq(StateType) /\ TimeState(t, v) \in StateType
  BY DEF VarType, StateType, TimeState
<1>2. n \in Nat /\ n >= 1 /\ Len(a) = n + 1 /\ a[n] = r.states[n] /\ a[n + 1] = TimeState(t, v)
  BY <1>1, AppendedIs
<1>3. q.states = a /\ q = [states |-> a, index |-> n + 1, shown |-> n + 1]
  BY DEF AddState
<1>4. TimeState(t, v).data = v
  BY DEF TimeState
<1>. HIDE DEF a, n
<1>5. Len(a) >= 2 /\ Len(a) - 1 = n /\ a[Len(a)].data = v
  BY <1>2, <1>4
<1>6. [q EXCEPT !.shown = Len(a)] = q
  BY <1>2, <1>3
<1>. HIDE DEF q
<1>7. CheckPreviousState(q) = IF r.states[n].data = v THEN PopState(q) ELSE q
  BY <1>2, <1>3, <1>5, <1>6 DEF CheckPreviousState
<1>. QED BY <1>7, TakenBack DEF q, n

\* A repeated value is kept by the state it repeats.
LEMMA HistoryRepeats ==
  ASSUME NEW s, NEW l, HistoryInv(s, l), NEW t \in Time, NEW v \in Value,
         s[Len(s)].data = v, s[Len(s)].time <= t
  PROVE  HistoryInv(s, Append(l, TimeState(t, v)))
<1>. DEFINE e == TimeState(t, v)
            a == Append(l, e)
<1>1. s \in Seq(StateType) /\ l \in Seq(StateType) /\ e \in StateType
      /\ e.time = t /\ e.data = v
  BY DEF HistoryInv, StateType, TimeState
<1>2. /\ a \in Seq(StateType) /\ Len(a) = Len(l) + 1 /\ Len(l) \in Nat
      /\ \A i \in 1 .. Len(l) : a[i] = l[i]
      /\ a[Len(l) + 1] = e
  BY <1>1, AppendedIs
<1>. HIDE DEF e, a
<1>3. Recorded(s, a)
  BY <1>2 DEF HistoryInv, Recorded
<1>4. Kept(s, a)
  <2>. SUFFICES ASSUME NEW i \in 1 .. Len(a) PROVE \E k \in 1 .. Len(s) : Stands(s, k, a[i])
    BY DEF Kept
  <2>1. CASE i \in 1 .. Len(l)
    BY <1>2, <2>1, Zenon DEF HistoryInv, Kept
  <2>2. CASE i = Len(l) + 1
    <3>1. Len(s) \in 1 .. Len(s)
      BY <1>1 DEF HistoryInv
    <3>2. Stands(s, Len(s), e)
      BY <1>1, <3>1 DEF Stands
    <3>. QED BY <1>2, <2>2, <3>1, <3>2
  <2>. QED BY <1>2, <2>1, <2>2
<1>. QED BY <1>2, <1>3, <1>4 DEF HistoryInv, StateType, a, e

\* A new value is appended to both.
LEMMA HistoryGrows ==
  ASSUME NEW s, NEW l, HistoryInv(s, l), NEW t \in Time, NEW v \in Value,
         \A k \in 1 .. Len(s) : s[k].time <= t,
         \A i \in 1 .. Len(l) : l[i].time <= t
  PROVE  HistoryInv(Append(s, TimeState(t, v)), Append(l, TimeState(t, v)))
<1>. DEFINE e == TimeState(t, v)
            a == Append(l, e)
            b == Append(s, e)
<1>0. s \in Seq(StateType) /\ l \in Seq(StateType) /\ e \in StateType
      /\ e.time = t /\ e.data = v /\ t \in Nat
  BY TimeIsNat DEF HistoryInv, StateType, TimeState
<1>1. /\ a \in Seq(StateType) /\ Len(a) = Len(l) + 1 /\ Len(l) \in Nat
      /\ \A i \in 1 .. Len(l) : a[i] = l[i]
      /\ a[Len(l) + 1] = e
  BY <1>0, AppendedIs
<1>2. /\ b \in Seq(StateType) /\ Len(b) = Len(s) + 1 /\ Len(s) \in Nat \ {0}
      /\ \A i \in 1 .. Len(s) : b[i] = s[i]
      /\ b[Len(s) + 1] = e
  BY <1>0, AppendedIs DEF HistoryInv
<1>3. \A k \in 1 .. Len(s) : s[k].time \in Nat
  BY <1>0, TimesAreNat DEF StateType
<1>. HIDE DEF e, a, b
<1>4. Sorted(b)
  <2>. SUFFICES ASSUME NEW i \in 1 .. Len(b), NEW j \in 1 .. Len(b), i <= j
                PROVE  b[i].time <= b[j].time
    BY DEF Sorted
  <2>1. CASE j \in 1 .. Len(s)
    BY <1>2, <2>1 DEF HistoryInv, Sorted
  <2>2. CASE j = Len(s) + 1 /\ i \in 1 .. Len(s)
    BY <1>0, <1>2, <2>2
  <2>3. CASE j = Len(s) + 1 /\ i = Len(s) + 1
    BY <1>0, <1>2, <2>3
  <2>. QED BY <1>2, <2>1, <2>2, <2>3
<1>5. Recorded(b, a)
  <2>. SUFFICES ASSUME NEW k \in 1 .. Len(b) PROVE \E i \in 1 .. Len(a) : a[i] = b[k]
    BY DEF Recorded
  <2>1. CASE k \in 1 .. Len(s)
    <3>1. PICK i \in 1 .. Len(l) : l[i] = s[k]
      BY <2>1 DEF HistoryInv, Recorded
    <3>. QED BY <1>1, <1>2, <2>1, <3>1
  <2>2. CASE k = Len(s) + 1
    BY <1>1, <1>2, <2>2
  <2>. QED BY <1>2, <2>1, <2>2
<1>6. Kept(b, a)
  <2>. SUFFICES ASSUME NEW i \in 1 .. Len(a) PROVE \E k \in 1 .. Len(b) : Stands(b, k, a[i])
    BY DEF Kept
  <2>1. CASE i \in 1 .. Len(l)
    <3>1. PICK k \in 1 .. Len(s) : Stands(s, k, l[i])
      BY <2>1, Zenon DEF HistoryInv, Kept
    <3>2. k \in 1 .. Len(b) /\ b[k] = s[k] /\ a[i] = l[i] /\ l[i].time <= t
      BY <1>1, <1>2, <2>1
    <3>3. \A j \in 1 .. Len(b) : j > k => l[i].time <= b[j].time
      <4>. TAKE j \in 1 .. Len(b)
      <4>1. CASE j \in 1 .. Len(s)
        BY <1>2, <3>1, <4>1 DEF Stands
      <4>2. CASE j = Len(s) + 1
        BY <1>0, <1>2, <3>2, <4>2
      <4>. QED BY <1>2, <4>1, <4>2
    <3>4. Stands(b, k, a[i])
      BY <3>1, <3>2, <3>3 DEF Stands
    <3>. QED BY <3>2, <3>4
  <2>2. CASE i = Len(l) + 1
    <3>1. Len(b) \in 1 .. Len(b) /\ b[Len(b)] = e /\ a[i] = e
      BY <1>1, <1>2, <2>2
    <3>2. Stands(b, Len(b), e)
      BY <1>0, <3>1 DEF Stands
    <3>. QED BY <3>1, <3>2
  <2>. QED BY <1>1, <2>1, <2>2
<1>7. Len(b) > 0 /\ b[1].time = 0
  BY <1>2 DEF HistoryInv
<1>. QED BY <1>1, <1>2, <1>4, <1>5, <1>6, <1>7 DEF HistoryInv, StateType, a, b, e

-----------------------------------------------------------------------------
(* Steps *)

\* A variable that a packet does not name shows the same at a later time.
LEMMA LaterInv ==
  ASSUME NEW r, NEW l, NEW t \in Time, NEW u \in Time, u <= t,
         VarInv(r, l, u), ParseInv(r, l, u)
  PROVE  VarInv(r, l, t) /\ ParseInv(r, l, t)
<1>1. r.states \in Seq(StateType) /\ l \in Seq(StateType) /\ Len(r.states) \in Nat \ {0}
      /\ u \in Nat /\ t \in Nat
  BY TimeIsNat DEF VarInv, HistoryInv, StateType
<1>2. \A i \in 1 .. Len(l) : l[i].time \in Nat
  BY <1>1, TimesAreNat DEF StateType
<1>3. \A i \in 1 .. Len(l) : l[i].time <= t
  BY <1>1, <1>2 DEF ParseInv
<1>4. r.states[r.shown].time \in Nat
  BY <1>1, TimesAreNat DEF VarInv, ShownAt, StateType
<1>5. ShownAt(r.states, r.shown, t)
  BY <1>1, <1>4 DEF VarInv, ParseInv, ShownAt
<1>. QED BY <1>3, <1>5 DEF VarInv, ParseInv

\* No state is later than the values decoded.
LEMMA StatesNotLater ==
  ASSUME NEW s, NEW l, NEW t, HistoryInv(s, l), \A i \in 1 .. Len(l) : l[i].time <= t
  PROVE  \A k \in 1 .. Len(s) : s[k].time <= t
BY DEF HistoryInv, Recorded

LEMMA SteppedInv ==
  ASSUME NEW r \in VarType, NEW l, NEW t \in Time,
         HistoryInv(r.states, l), \A i \in 1 .. Len(l) : l[i].time <= t
  PROVE  VarInv(Stepped(r), l, t) /\ ParseInv(Stepped(r), l, t)
<1>. DEFINE n == Len(r.states)
            g == Stepped(r)
<1>1. r.states \in Seq(StateType) /\ n \in Nat \ {0}
  BY DEF HistoryInv, StateType
<1>2. g.states = r.states /\ g.index = n + 1 /\ g.shown = n
  BY DEF Stepped
<1>3. g \in VarType
  BY <1>1 DEF Stepped, VarType, StateType
<1>. HIDE DEF g
<1>4. r.states[n].time <= t
  <2>1. \A k \in 1 .. Len(r.states) : r.states[k].time <= t
    BY StatesNotLater, Zenon
  <2>. QED BY <1>1, <2>1
<1>5. ShownAt(r.states, n, t)
  BY <1>1, <1>4 DEF ShownAt
<1>6. g.index \in 0 .. Len(g.states) + 1
  BY <1>1, <1>2
<1>. QED BY <1>2, <1>3, <1>5, <1>6 DEF VarInv, ParseInv, g

\* One field of a packet, decoded or not.
LEMMA DecodeInv ==
  ASSUME NEW r, NEW l, NEW t \in Time, NEW u \in Time, u <= t,
         VarInv(r, l, u), ParseInv(r, l, u),
         NEW v \in Value \cup {Garbled},
         NEW m, m = IF v # Garbled THEN Append(l, TimeState(t, v)) ELSE l
  PROVE  VarInv(DecodeField(r, t, v), m, t) /\ ParseInv(DecodeField(r, t, v), m, t)
<1>. DEFINE n == Len(r.states)
            e == TimeState(t, v)
<1>1. r \in VarType /\ HistoryInv(r.states, l) /\ n \in Nat /\ n >= 1
  BY DEF VarInv, HistoryInv
<1>2. \A i \in 1 .. Len(l) : l[i].time <= t
  BY LaterInv DEF ParseInv
<1>3. \A k \in 1 .. n : r.states[k].time <= t
  BY <1>1, <1>2, StatesNotLater
<1>4. CASE v = Garbled
  <2>1. DecodeField(r, t, v) = Stepped(r)
    BY <1>1, <1>4, TakenBack, ReflectionAssumption DEF DecodeField
  <2>2. m = l
    BY <1>4
  <2>. QED BY <1>1, <1>2, <2>1, <2>2, SteppedInv
<1>5. CASE v # Garbled
  <2>0. v \in Value /\ m = Append(l, e)
    BY <1>5
  <2>1. DecodeField(r, t, v) =
          IF r.states[n].data = v THEN Stepped(r) ELSE AddState(r, t, v)
    BY <1>1, <1>5, <2>0, CheckedIs DEF DecodeField
  <2>2. l \in Seq(StateType) /\ e \in StateType /\ e.time = t /\ t \in Nat
    BY <1>1, <2>0, TimeIsNat DEF HistoryInv, StateType, TimeState
  <2>3. Len(m) = Len(l) + 1 /\ Len(l) \in Nat /\ m[Len(l) + 1] = e
        /\ \A i \in 1 .. Len(l) : m[i] = l[i]
    BY <2>0, <2>2, AppendedIs
  <2>4. \A i \in 1 .. Len(m) : m[i].time <= t
    <3>. TAKE i \in 1 .. Len(m)
    <3>. HIDE DEF e
    <3>1. CASE i \in 1 .. Len(l)
      BY <1>2, <2>3, <3>1
    <3>2. CASE i = Len(l) + 1
      BY <2>2, <2>3, <3>2
    <3>. QED BY <2>3, <3>1, <3>2
  <2>5. CASE r.states[n].data = v
    <3>1. HistoryInv(r.states, m)
      BY <1>1, <1>3, <2>0, <2>5, HistoryRepeats
    <3>. QED BY <1>1, <2>1, <2>4, <2>5, <3>1, SteppedInv
  <2>6. CASE r.states[n].data # v
    <3>. DEFINE b == Append(r.states, e)
                g == AddState(r, t, v)
    <3>1. HistoryInv(b, m)
      BY <1>1, <1>2, <1>3, <2>0, HistoryGrows
    <3>2. g.states = b /\ g.index = n + 1 /\ g.shown = n + 1
          /\ g = [states |-> b, index |-> n + 1, shown |-> n + 1]
      BY DEF AddState
    <3>3. b \in Seq(StateType) /\ Len(b) = n + 1 /\ b[n + 1] = e
      BY <1>1, <2>2, AppendedIs DEF HistoryInv, StateType
    <3>. HIDE DEF b, g
    <3>4. g \in VarType
      BY <1>1, <3>2, <3>3 DEF VarType, StateType
    <3>5. ShownAt(b, n + 1, t)
      BY <1>1, <2>2, <3>3 DEF ShownAt
    <3>6. VarInv(g, m, t) /\ ParseInv(g, m, t)
      BY <1>1, <2>4, <3>1, <3>2, <3>3, <3>4, <3>5 DEF VarInv, ParseInv
    <3>. QED BY <2>1, <2>6, <3>6 DEF g
  <2>. QED BY <2>5, <2>6
<1>. QED BY <1>4, <1>5

\* VarInv says of a variable what TypeOK does.
LEMMA VarsTyped ==
  ASSUME NEW v, NEW l, NEW t,
         \A x \in Var : VarInv(v[x], l[x], t),
         \E S : v \in [Var -> S], \E S : l \in [Var -> S]
  PROVE  /\ v \in [Var -> VarType]
         /\ \A x \in Var : /\ v[x].shown \in 1 .. Len(v[x].states)
                           /\ v[x].index \in 0 .. (Len(v[x].states) + 1)
         /\ l \in [Var -> Seq([time : Time, data : Value])]
<1>1. \A x \in Var : /\ v[x] \in VarType
                     /\ v[x].index \in 0 .. Len(v[x].states) + 1
                     /\ v[x].shown \in 1 .. Len(v[x].states)
                     /\ l[x] \in Seq([time : Time, data : Value])
  BY DEF VarInv, ShownAt, HistoryInv
<1>. QED BY <1>1

LEMMA InitInv == Init => IInv
<1>. SUFFICES ASSUME Init PROVE IInv
  OBVIOUS
<1>. DEFINE e == TimeState(0, Default)
            l == <<e>>
            r == [states |-> l, index |-> 1, shown |-> 1]
<1>1. 0 \in Time /\ e \in StateType /\ e.time = 0
  BY ReflectionAssumption DEF Time, StateType, TimeState
<1>2. l \in Seq(StateType) /\ Len(l) = 1 /\ l[1] = e
  BY <1>1
<1>3. AddState([states |-> << >>, index |-> 0, shown |-> 0], 0, Default) = r
  BY DEF AddState
<1>4. r \in VarType /\ r.states = l /\ r.index = 1 /\ r.shown = 1
  BY <1>2 DEF VarType, StateType
<1>. HIDE DEF e, l, r
<1>5. HistoryInv(l, l)
  <2>1. Sorted(l) /\ Recorded(l, l)
    BY <1>1, <1>2 DEF Sorted, Recorded
  <2>2. Kept(l, l)
    BY <1>1, <1>2 DEF Kept, Stands
  <2>. QED BY <1>1, <1>2, <2>1, <2>2 DEF HistoryInv, StateType
<1>6. VarInv(r, l, 0) /\ ParseInv(r, l, 0)
  <2>1. ShownAt(l, 1, 0)
    BY <1>1, <1>2 DEF ShownAt
  <2>2. VarInv(r, l, 0)
    BY <1>2, <1>4, <1>5, <2>1 DEF VarInv
  <2>3. ParseInv(r, l, 0)
    BY <1>1, <1>2, <1>4 DEF ParseInv
  <2>. QED BY <2>2, <2>3
<1>7. var = [x \in Var |-> r] /\ log = [x \in Var |-> l]
  BY <1>3 DEF Init, e, l
<1>8. \A x \in Var : VarInv(var[x], log[x], now) /\ ParseInv(var[x], log[x], now)
  BY <1>6, <1>7 DEF Init
<1>9. (\E S : var \in [Var -> S]) /\ (\E S : log \in [Var -> S])
  <2>1. var \in [Var -> {r}] /\ log \in [Var -> {l}]
    BY <1>7
  <2>. QED BY <2>1
<1>10. TypeOK
  <2>1. parsed \in 0 .. MaxPackets /\ phase \in {"parsing", "ready"} /\ now \in Time
    BY <1>1, ReflectionAssumption DEF Init
  <2>. HIDE DEF e, l, r
  <2>. QED BY <1>8, <1>9, <2>1, VarsTyped DEF TypeOK
<1>. QED BY <1>8, <1>10 DEF IInv

LEMMA DeserializeInv ==
  ASSUME IInv, NEW t \in Time, NEW S \in SUBSET Var, NEW f \in [S -> Value \cup {Garbled}],
         Deserialize(t, f)
  PROVE  IInv'
<1>1. /\ phase = "parsing" /\ phase' = "parsing" /\ now' = t /\ now <= t /\ now \in Time
      /\ parsed' \in 0 .. MaxPackets
  BY ReflectionAssumption DEF IInv, TypeOK, Deserialize
<1>2. DOMAIN f = S
  OBVIOUS
<1>3. ASSUME NEW x \in Var
      PROVE  VarInv(var'[x], log'[x], t) /\ ParseInv(var'[x], log'[x], t)
  <2>1. VarInv(var[x], log[x], now) /\ ParseInv(var[x], log[x], now)
    BY <1>1 DEF IInv
  <2>2. CASE x \in S
    <3>1. var'[x] = DecodeField(var[x], t, f[x])
      BY <1>2, <2>2 DEF Deserialize
    <3>2. log'[x] = IF f[x] # Garbled THEN Append(log[x], TimeState(t, f[x])) ELSE log[x]
      BY <1>2, <2>2 DEF Deserialize
    <3>3. f[x] \in Value \cup {Garbled}
      BY <2>2
    <3>. HIDE DEF VarInv, ParseInv
    <3>. QED BY <1>1, <2>1, <3>1, <3>2, <3>3, DecodeInv
  <2>3. CASE x \notin S
    <3>1. var'[x] = var[x] /\ log'[x] = log[x]
      BY <1>2, <2>3 DEF Deserialize
    <3>. QED BY <1>1, <2>1, <3>1, LaterInv
  <2>. QED BY <2>2, <2>3
<1>4. (\E R : var' \in [Var -> R]) /\ (\E R : log' \in [Var -> R])
  <2>1. var' \in [Var -> {var'[x] : x \in Var}] /\ log' \in [Var -> {log'[x] : x \in Var}]
    BY DEF Deserialize
  <2>. QED BY <2>1
<1>5. TypeOK'
  <2>1. \A x \in Var : VarInv(var'[x], log'[x], t)
    BY <1>3
  <2>. QED BY <1>1, <1>4, <2>1, VarsTyped DEF TypeOK
<1>. QED BY <1>1, <1>3, <1>5 DEF IInv

LEMMA ParseEndInv ==
  ASSUME IInv, NEW t \in Time, ParseEnd(t)
  PROVE  IInv'
<1>1. /\ phase = "parsing" /\ phase' = "ready" /\ now' = t /\ now <= t /\ now \in Time
      /\ var' = var /\ log' = log /\ parsed' = parsed
  BY DEF IInv, TypeOK, ParseEnd
<1>2. \A x \in Var : VarInv(var[x], log[x], t)
  BY <1>1, LaterInv DEF IInv
<1>3. TypeOK'
  BY <1>1 DEF IInv, TypeOK
<1>. QED BY <1>1, <1>2, <1>3 DEF IInv

LEMMA RewindToTimeInv ==
  ASSUME IInv, NEW t \in Time, RewindToTime(t)
  PROVE  IInv'
<1>1. /\ phase' = "ready" /\ now' = t /\ log' = log /\ parsed' = parsed
      /\ var' = [x \in Var |-> GoToIndex(var[x], t)]
  BY DEF RewindToTime
<1>2. ASSUME NEW x \in Var PROVE VarInv(var'[x], log[x], t)
  <2>. DEFINE r == var[x]
              g == GoToIndex(r, t)
  <2>1. r \in VarType /\ HistoryInv(r.states, log[x]) /\ r.index \in 0 .. Len(r.states) + 1
    BY DEF IInv, VarInv
  <2>2. g \in VarType /\ g.states = r.states /\ g.index \in 0 .. Len(r.states)
        /\ ShownAt(r.states, g.shown, t)
    <3>. HIDE DEF r
    <3>. QED BY <2>1, SeekShows
  <2>3. Len(r.states) \in Nat
    BY <2>1 DEF HistoryInv
  <2>4. var'[x] = g
    BY <1>1
  <2>. HIDE DEF r, g
  <2>5. VarInv(g, log[x], t)
    BY <2>1, <2>2, <2>3 DEF VarInv
  <2>. QED BY <2>4, <2>5
<1>3. (\E R : var' \in [Var -> R]) /\ (\E R : log' \in [Var -> R])
  <2>1. var' \in [Var -> {var'[x] : x \in Var}] /\ \E R : log \in [Var -> R]
    BY <1>1 DEF IInv, TypeOK
  <2>. QED BY <1>1, <2>1
<1>4. \A x \in Var : VarInv(var'[x], log'[x], now')
  BY <1>1, <1>2
<1>5. parsed' \in 0 .. MaxPackets
  BY <1>1 DEF IInv, TypeOK
<1>6. TypeOK'
  <2>1. phase' \in {"parsing", "ready"} /\ now' \in Time
    BY <1>1
  <2>. QED BY <1>3, <1>4, <1>5, <2>1, VarsTyped DEF TypeOK
<1>. QED BY <1>1, <1>4, <1>6 DEF IInv

\* However packets, failed decodes and seeks follow each other, every variable keeps
\* an ordered history of what was decoded and shows the right state of it
\* (ReflectableObject::deserialize, RewindMgr::goToIndex).
THEOREM VariablesInvariant == Spec => []IInv
<1>1. IInv /\ [Next]_vars => IInv'
  <2>. SUFFICES ASSUME IInv, [Next]_vars PROVE IInv'
    OBVIOUS
  <2>1. ASSUME NEW t \in Time, NEW S \in SUBSET Var, NEW f \in [S -> Value \cup {Garbled}],
               Deserialize(t, f)
        PROVE  IInv'
    BY <2>1, DeserializeInv
  <2>2. ASSUME NEW t \in Time, ParseEnd(t) PROVE IInv'
    BY <2>2, ParseEndInv
  <2>3. ASSUME NEW t \in Time, RewindToTime(t) PROVE IInv'
    BY <2>3, RewindToTimeInv
  <2>4. CASE UNCHANGED vars
    BY <2>4 DEF vars, IInv, TypeOK, VarInv, ParseInv, ShownAt, HistoryInv
  <2>. QED BY <2>1, <2>2, <2>3, <2>4 DEF Next
<1>. QED BY <1>1, InitInv, PTL DEF Spec

\* Types; the value pointer never leaves the history and curr_index is at most one
\* past its end (RewindMgr.h:26-130).
THEOREM TypeCorrect == Spec => []TypeOK
<1>1. IInv => TypeOK
  BY DEF IInv
<1>. QED BY <1>1, VariablesInvariant, PTL

\* What is shown at a time is the latest state up to it, from whichever direction the
\* time was sought (RewindMgr::goToIndex).
THEOREM LatestIsShown == Spec => []ShownIsLatest
<1>1. IInv => ShownIsLatest
  <2>. SUFFICES ASSUME IInv, NEW x \in Var
                PROVE  /\ Shown(x).time <= now
                       /\ \A i \in 1 .. Len(var[x].states) :
                            var[x].states[i].time <= now
                              => var[x].states[i].time <= Shown(x).time
    BY DEF ShownIsLatest
  <2>. DEFINE s == var[x].states
              k == var[x].shown
  <2>1. s \in Seq(StateType) /\ Sorted(s) /\ ShownAt(s, k, now) /\ now \in Nat
    BY TimeIsNat DEF IInv, TypeOK, VarInv, HistoryInv, StateType
  <2>2. \A i \in 1 .. Len(s) : s[i].time \in Nat
    BY <2>1, TimesAreNat DEF StateType
  <2>. HIDE DEF s, k
  <2>3. s[k].time <= now /\ k \in 1 .. Len(s)
    BY <2>1 DEF ShownAt
  <2>4. ASSUME NEW i \in 1 .. Len(s), s[i].time <= now PROVE s[i].time <= s[k].time
    <3>1. CASE s[k].time = now
      BY <2>4, <3>1
    <3>2. CASE s[k].time # now
      <4>1. ~(i > k)
        BY <2>1, <2>2, <2>4, <3>2 DEF ShownAt
      <4>. QED BY <2>1, <2>3, <4>1 DEF Sorted
    <3>. QED BY <3>1, <3>2
  <2>. QED BY <2>3, <2>4 DEF Shown, s, k
<1>. QED BY <1>1, VariablesInvariant, PTL

\* Dropping repeated values and failed decodes changes nothing that is ever shown,
\* except among several values of one moment (ReflectableObject::deserialize and
\* RewindMgr::CompareToPrevious).
THEOREM ExactWhenUntied == Spec => []UntiedIsExact
<1>1. IInv => UntiedIsExact
  <2>. SUFFICES ASSUME IInv, NEW x \in Var,
                       \A i, j \in Latest(x) : log[x][i].data = log[x][j].data,
                       NEW i \in Latest(x)
                PROVE  Shown(x).data = log[x][i].data
    BY DEF UntiedIsExact
  <2>. DEFINE s == var[x].states
              k == var[x].shown
              l == log[x]
  <2>1. /\ s \in Seq(StateType) /\ l \in Seq(StateType) /\ now \in Nat
        /\ Sorted(s) /\ Recorded(s, l) /\ Kept(s, l) /\ ShownAt(s, k, now)
    BY TimeIsNat DEF IInv, TypeOK, VarInv, HistoryInv, StateType
  <2>2. (\A j \in 1 .. Len(s) : s[j].time \in Nat) /\ (\A j \in 1 .. Len(l) : l[j].time \in Nat)
    BY <2>1, TimesAreNat DEF StateType
  <2>3. /\ i \in 1 .. Len(l) /\ l[i].time <= now
        /\ \A j \in 1 .. Len(l) : l[j].time <= now => l[j].time <= l[i].time
    BY DEF Latest
  <2>4. k \in 1 .. Len(s) /\ s[k].time <= now
    BY <2>1 DEF ShownAt
  <2>5. PICK j \in 1 .. Len(l) : l[j] = s[k]
    BY <2>1, <2>4 DEF Recorded
  <2>6. l[j].time <= l[i].time
    BY <2>3, <2>4, <2>5
  <2>7. CASE l[j].time = l[i].time
    <3>1. j \in Latest(x)
      BY <2>3, <2>5, <2>7 DEF Latest
    <3>2. l[j].data = l[i].data
      BY <3>1
    <3>. QED BY <2>5, <3>2 DEF Shown
  <2>8. CASE l[j].time # l[i].time
    <3>1. PICK q \in 1 .. Len(s) : Stands(s, q, l[i])
      BY <2>1, <2>3 DEF Kept
    <3>. HIDE DEF s, k, l
    <3>2. s[k].time < l[i].time /\ s[k].time # now
      BY <2>2, <2>3, <2>5, <2>6, <2>8, <2>1
    <3>3. \A m \in 1 .. Len(s) : m > k => now < s[m].time
      BY <2>1, <3>2 DEF ShownAt
    <3>4. s[q].time <= now
      BY <2>1, <2>2, <2>3, <3>1 DEF Stands
    <3>5. ~(q > k)
      BY <2>1, <2>2, <3>3, <3>4
    <3>6. ~(k > q)
      BY <2>2, <2>3, <2>4, <3>1, <3>2 DEF Stands
    <3>7. q = k
      BY <2>4, <3>5, <3>6
    <3>. QED BY <3>1, <3>7 DEF Stands, Shown, s, k, l
  <2>. QED BY <2>7, <2>8
<1>. QED BY <1>1, VariablesInvariant, PTL
=============================================================================
