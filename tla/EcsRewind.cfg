CONSTANTS
  u1 = u1
  u2 = u2
  p1 = p1
  Reserved = 2
  Generation = {1, 2}
  Uid = {u1, u2}
  Player = {p1}
  Value = {v1}
  Kind <- MCKinds
  None = None
  Unset = Unset
  MayCheckIndex = TRUE
  MaxTime = 2
  MaxActions = 4
SPECIFICATION Spec
CHECK_DEADLOCK FALSE
INVARIANTS
  TypeOK
  RewindNeverAsserts
  DirectionMatches
  SeekIsExact
  ChunkAtOneIndex
  CreationMapExact
  UidLookupExact
  OwnedExact
  AllOwnedExact
  DeletedUnitsDropped
  UnitsAllFreed
