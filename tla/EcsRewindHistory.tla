-------------------------- MODULE EcsRewindHistory --------------------------
(***************************************************************************)
(* EcsRewind with a memory: `seen` keeps what the parser showed after each *)
(* action of the history, and the specification is shown to implement      *)
(* Timeline.                                                               *)
(***************************************************************************)
EXTENDS EcsRewind

VARIABLE seen   \* seen[n + 1]: the state after the first n actions

\* What a reader of the state can see of the living entities and of the tables
\* the handlers keep.  Chunks parked in storage are not part of it, nor is
\* allOwnedUnits, which belongs to the whole replay (AllOwnedExact).
EntityView(w, i) ==
  LET c == w.desc[i].chunk
  IN  [gen |-> w.desc[i].gen, kind |-> w.kind[c], eid |-> w.eid[c],
       value |-> w.value[c], currEid |-> w.currEid[c], chunk |-> c]

LiveView(w) ==
  [entity  |-> [i \in ServerIndex |->
                  IF w.desc[i].chunk = None THEN None ELSE EntityView(w, i)],
   uidEid  |-> w.uidEid,
   uidUnit |-> w.uidUnit,
   owned   |-> w.owned]

HistoryInit == Init /\ seen = <<LiveView(world)>>

HistoryNext ==
  /\ Next
  /\ seen' = IF Len(history') > Len(history) THEN Append(seen, LiveView(world'))
             ELSE seen

HistorySpec == HistoryInit /\ [][HistoryNext]_<<vars, seen>> /\ Fairness

\* The state is, at every step of every rewind, the state the parser showed
\* when the same actions were applied: undoing and redoing are inverse to each
\* other through any sequence of seeks.
StateIsReplayed == Quiet => LiveView(world) = seen[currIndex + 1]

Closed == phase \in {"tearing", "closed"}

\* The rewinding entity store implements the timeline it promises.  A state shown is
\* a sequence of one view, and none once the replay is closed.
Promise == INSTANCE Timeline WITH
  Moment <- Seconds,
  Origin <- <<LiveView(EmptyWorld)>>,
  Gone   <- << >>,
  log    <- [i \in 1 .. Len(history) |->
               [time |-> history[i].time, state |-> <<seen[i + 1]>>]],
  frozen <- phase # "parsing",
  shown  <- IF Closed THEN << >> ELSE <<LiveView(world)>>,
  target <- rewindTime,
  busy   <- mode # "idle",
  failed <- fault # "none"

ImplementsTimeline == Promise!Spec
=============================================================================
