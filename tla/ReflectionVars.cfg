CONSTANTS
  Var = {x}
  Value = {a, b, c}
  Default = a
  Garbled = Garbled
  MaxTime = 3
  MaxPackets = 4
SPECIFICATION Spec
CHECK_DEADLOCK FALSE
INVARIANTS
  TypeOK
  ShownIsLatest
  UntiedIsExact
