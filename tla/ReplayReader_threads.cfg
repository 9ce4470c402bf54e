CONSTANTS
  r1 = r1
  r2 = r2
  Reader = {r1, r2}
  Recordings <- MCRecordings
  Serialised = FALSE
SPECIFICATION ReaderSpec
INVARIANTS
  AfterParseCounted
CHECK_DEADLOCK FALSE
