CONSTANTS
  p1 = p1
  p2 = p2
  e1 = e1
  e2 = e2
  Parser = {p1, p2}
  Reader = {p1, p2}
  Entity = {e1, e2}
  Value = {1, 2, 3, 4, 5, 6, 7}
  Recordings <- MCRecordings
  Serialised = TRUE
SPECIFICATION Spec
INVARIANTS
  ReadInOrder
  AppliedInOrder
  DataHeld
PROPERTIES
  ParsersFinish
