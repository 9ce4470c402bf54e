CONSTANTS
  u1 = u1
  p1 = p1
  Reserved = 1
  Generation = {2}
  Uid = {u1}
  Player = {p1}
  Value = {v1, v2}
  Kind <- MCKinds
  None = None
  Unset = Unset
  MayCheckIndex = FALSE
  MaxTime = 2
  MaxActions = 4
SPECIFICATION HistorySpec
CHECK_DEADLOCK FALSE
INVARIANTS
  StateIsReplayed
PROPERTIES
  ImplementsTimeline
  SeekEnds
