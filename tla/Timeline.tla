------------------------------ MODULE Timeline ------------------------------
(***************************************************************************)
(* What a replay's time machine promises, whatever it does inside: a log   *)
(* of states is recorded once, in order of time; after it is frozen the    *)
(* state shown can be moved to any time, and a seek that arrives shows the *)
(* last state recorded at or before its target, however the reader got     *)
(* there.  While a seek is under way only recorded states are shown.       *)
(* This is what ParserState::rewindToMs is for (State.cpp:71 of the python *)
(* bindings: "Rewind the Parser state to any particular time").            *)
(***************************************************************************)
EXTENDS Naturals, Sequences

CONSTANTS
  Moment,   \* times a packet or a seek may name
  Origin,   \* the state before anything was recorded
  Gone      \* shown once the replay is closed

VARIABLES
  log,      \* recorded states: sequence of [time, state]
  frozen,   \* the recording has ended
  shown,    \* the state the reader sees
  target,   \* the time shown, or being sought
  busy,     \* a seek is under way
  failed    \* an operation threw

vars == <<log, frozen, shown, target, busy, failed>>

Recorded == {Origin} \cup {log[i].state : i \in 1 .. Len(log)}

\* The number of entries at or before t; the log is ordered by time.
UpTo(t) ==
  CHOOSE n \in 0 .. Len(log) :
    \A i \in 1 .. Len(log) : i <= n <=> log[i].time <= t

StateAt(t) == IF UpTo(t) = 0 THEN Origin ELSE log[UpTo(t)].state

Init ==
  /\ log = << >>
  /\ frozen = FALSE
  /\ shown = Origin
  /\ target = 0
  /\ busy = FALSE
  /\ failed = FALSE

Working == ~failed /\ shown # Gone

\* A packet at time t leaves a new state behind.
Record(t) ==
  /\ Working /\ ~frozen /\ t >= target
  /\ log' = Append(log, [time |-> t, state |-> shown'])
  /\ target' = t
  /\ UNCHANGED <<frozen, busy, failed>>

\* A packet at time t that records nothing; the last one freezes the log.
Pass(t) ==
  /\ Working /\ ~frozen /\ t >= target
  /\ target' = t
  /\ frozen' \in BOOLEAN
  /\ UNCHANGED <<log, shown, busy, failed>>

\* Only a timeline that recorded something can be sought.
Seek(t) ==
  /\ Working /\ frozen /\ ~busy
  /\ target' = t
  /\ IF log = << >> THEN failed' = TRUE /\ busy' = FALSE
     ELSE failed' = FALSE /\ busy' = TRUE
  /\ UNCHANGED <<log, frozen, shown>>

Wander ==
  /\ Working /\ busy
  /\ shown' \in Recorded
  /\ UNCHANGED <<log, frozen, target, busy, failed>>

Arrive ==
  /\ Working /\ busy
  /\ shown = StateAt(target)
  /\ busy' = FALSE
  /\ shown' \in {shown, Gone}
  /\ UNCHANGED <<log, frozen, target, failed>>

Close ==
  /\ Working /\ ~busy
  /\ shown' = Gone
  /\ frozen' = TRUE
  /\ UNCHANGED <<log, target, busy, failed>>

Next ==
  \/ \E t \in Moment : Record(t) \/ Pass(t) \/ Seek(t)
  \/ Wander \/ Arrive \/ Close

Spec == Init /\ [][Next]_vars
=============================================================================
