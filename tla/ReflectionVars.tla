--------------------------- MODULE ReflectionVars ---------------------------
(***************************************************************************)
(* Replicated variables with a history: danet::ReflectionVar, whose        *)
(* SpaceHandler is a RewindMgr with skip_to, and the two operations of     *)
(* ReflectableObject that move it, deserialize and rewindToTime.           *)
(*                                                                         *)
(* Each variable keeps the values it took, with their times.  Decoding a   *)
(* field appends a value, and takes it back when the decoder fails or when *)
(* the value did not change.  Seeking does not replay: two binary searches *)
(* choose the state to point at, one for each direction.                   *)
(*                                                                         *)
(* Abstractions: the fields of a packet are a function from variables to   *)
(* values; Garbled stands for a field whose decoder fails or consumes the  *)
(* wrong number of bits.  `log` remembers what was decoded; the code does  *)
(* not have it.                                                            *)
(***************************************************************************)
EXTENDS Integers, Sequences, FiniteSets

CONSTANTS
  Var,         \* variables of the objects ParserState::rewindToMs visits
  Value,       \* values of a variable
  Default,     \* the value a variable is constructed with
  Garbled,     \* a field that does not decode
  MaxTime,     \* bound: last packet timestamp
  MaxPackets   \* bound: packets parsed

ASSUME ReflectionAssumption ==
  /\ Default \in Value
  /\ Garbled \notin Value
  /\ MaxTime \in Nat
  /\ MaxPackets \in Nat

Time == 0 .. MaxTime

VARIABLES
  var,        \* per variable: timeStates, curr_index, and the state the value
              \* pointer designates (1-based)
  log,        \* per variable: every value decoded, in order
  parsed,     \* packets parsed so far
  phase,      \* "parsing" or "ready"
  now         \* ParserState::current_rewind_ms

vars == <<var, log, parsed, phase, now>>

TimeState(t, v) == [time |-> t, data |-> v]

-----------------------------------------------------------------------------
(* RewindMgr<SpaceHandler, T, true> *)

\* emplaceNew
AddState(r, t, v) ==
  [states |-> Append(r.states, TimeState(t, v)),
   index  |-> Len(r.states) + 1,
   shown  |-> Len(r.states) + 1]

\* Mutant of PopState: the value pointer is not moved.
PopStateUnderPointer(r) ==
  [r EXCEPT !.states = SubSeq(@, 1, Len(@) - 1), !.index = Len(r.states)]

\* pop_back, after which curr_index is one past the end
PopState(r) ==
  [states |-> SubSeq(r.states, 1, Len(r.states) - 1),
   index  |-> Len(r.states),
   shown  |-> Len(r.states) - 1]

\* Mutant of CheckPreviousState: compares with the first state.
CheckFirstState(r) ==
  LET n == Len(r.states)
  IN  IF n >= 2 /\ r.states[n].data = r.states[1].data THEN PopState(r)
      ELSE [r EXCEPT !.shown = n]

\* CompareToPrevious
CheckPreviousState(r) ==
  LET n == Len(r.states)
  IN  IF n >= 2 /\ r.states[n].data = r.states[n - 1].data THEN PopState(r)
      ELSE [r EXCEPT !.shown = n]

\* The end of a binary search: how many of the first n states satisfy Before,
\* a prefix of them because they are ordered by time.
Prefix(states, n, Before(_)) ==
  CHOOSE k \in 0 .. n : \A i \in 1 .. n : i <= k <=> Before(states[i])

Clamped(r) == IF r.index > Len(r.states) THEN Len(r.states) ELSE r.index

\* the upper_bound branch of goToIndex
GoForward(r, n, t) ==
  LET k == Prefix(r.states, Len(r.states), LAMBDA s : s.time <= t)
      m == IF k < n THEN n ELSE k
  IN  [r EXCEPT !.index = m, !.shown = m]

\* Mutant of GoBackward: shows the state found even when it is too late.
GoBackwardToFound(r, n, t) ==
  LET k == Prefix(r.states, n, LAMBDA s : s.time < t)
  IN  [r EXCEPT !.index = k, !.shown = k + 1]

\* the lower_bound branch: curr_index stops before the state found, the value
\* pointer designates it if its time is exact and the one before it otherwise
GoBackward(r, n, t) ==
  LET k == Prefix(r.states, n, LAMBDA s : s.time < t)
  IN  [r EXCEPT !.index = k,
                !.shown = IF k > 0 /\ r.states[k + 1].time > t THEN k ELSE k + 1]

GoToIndex(r, t) ==
  LET n  == Clamped(r)
      at == IF n = 0 THEN 0 ELSE r.states[n].time
  IN  IF at < t THEN GoForward(r, n, t) ELSE GoBackward(r, n, t)

-----------------------------------------------------------------------------
(* ReflectableObject *)

DecodeField(r, t, v) ==
  IF v = Garbled THEN PopState(AddState(r, t, Default))
  ELSE CheckPreviousState(AddState(r, t, v))

Init ==
  /\ var = [x \in Var |-> AddState([states |-> << >>, index |-> 0, shown |-> 0],
                                   0, Default)]
  /\ log = [x \in Var |-> <<TimeState(0, Default)>>]
  /\ parsed = 0
  /\ phase = "parsing"
  /\ now = 0

\* A reflection packet at time t carries the fields in the domain of f.
Deserialize(t, f) ==
  /\ phase = "parsing"
  /\ parsed < MaxPackets
  /\ t >= now
  /\ var' = [x \in Var |-> IF x \in DOMAIN f THEN DecodeField(var[x], t, f[x])
                           ELSE var[x]]
  /\ log' = [x \in Var |-> IF x \in DOMAIN f /\ f[x] # Garbled
                           THEN Append(log[x], TimeState(t, f[x])) ELSE log[x]]
  /\ parsed' = parsed + 1
  /\ now' = t
  /\ UNCHANGED phase

\* The end marker, at time t.
ParseEnd(t) ==
  /\ phase = "parsing"
  /\ t >= now
  /\ phase' = "ready"
  /\ now' = t
  /\ UNCHANGED <<var, log, parsed>>

\* rewindToMs calls rewindToTime of every object, which moves every variable.
RewindToTime(t) ==
  /\ phase = "ready"
  /\ t # now
  /\ var' = [x \in Var |-> GoToIndex(var[x], t)]
  /\ now' = t
  /\ UNCHANGED <<log, parsed, phase>>

Next ==
  \/ \E t \in Time, S \in SUBSET Var :
       \E f \in [S -> Value \cup {Garbled}] : Deserialize(t, f)
  \/ \E t \in Time : ParseEnd(t) \/ RewindToTime(t)

Spec == Init /\ [][Next]_vars

-----------------------------------------------------------------------------
(* Properties *)

VarType ==
  [states : Seq([time : Time, data : Value]), index : Nat, shown : Nat]

\* Types; the value pointer designates a state of the variable, and curr_index
\* is at most one past the end.
TypeOK ==
  /\ var \in [Var -> VarType]
  /\ \A x \in Var : /\ var[x].shown \in 1 .. Len(var[x].states)
                    /\ var[x].index \in 0 .. (Len(var[x].states) + 1)
  /\ log \in [Var -> Seq([time : Time, data : Value])]
  /\ parsed \in 0 .. MaxPackets
  /\ phase \in {"parsing", "ready"}
  /\ now \in Time

Shown(x) == var[x].states[var[x].shown]

\* The states are ordered by time: both binary searches rely on it.
StatesSorted ==
  \A x \in Var : \A i, j \in 1 .. Len(var[x].states) :
    i <= j => var[x].states[i].time <= var[x].states[j].time

\* What a variable shows was taken at or before the time sought, and no state
\* recorded at or before it is later (goToIndex, from either direction).
ShownIsLatest ==
  \A x \in Var :
    /\ Shown(x).time <= now
    /\ \A i \in 1 .. Len(var[x].states) :
         var[x].states[i].time <= now => var[x].states[i].time <= Shown(x).time

\* The values of x decoded at the last moment up to now.
Latest(x) ==
  {i \in 1 .. Len(log[x]) :
     /\ log[x][i].time <= now
     /\ \A j \in 1 .. Len(log[x]) : log[x][j].time <= now => log[x][j].time <= log[x][i].time}

\* Dropping repeated values and failed decodes loses nothing: where the stream
\* gives a variable one value at the last moment up to now, that value is shown,
\* whatever was sought before.
UntiedIsExact ==
  \A x \in Var :
    (\A i, j \in Latest(x) : log[x][i].data = log[x][j].data)
      => \A i \in Latest(x) : Shown(x).data = log[x][i].data
=============================================================================
