CONSTANTS
  u1 = u1
  u2 = u2
  p1 = p1
  Reserved = 1
  Generation = {1, 2}
  Uid = {u1, u2}
  Player = {p1}
  Value = {v1}
  Kind <- MCUidlessKinds
  None = None
  Unset = Unset
  MayCheckIndex = FALSE
  MaxTime = 2
  MaxActions = 3
SPECIFICATION Spec
CHECK_DEADLOCK FALSE
INVARIANT
  DestroyedUidRegistered
