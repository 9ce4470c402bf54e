CONSTANTS
  p1 = p1
  p2 = p2
  p3 = p3
  e1 = e1
  e2 = e2
  e3 = e3
  tank = tank
  plane = plane
  boat = boat
  Parser = {p1, p2, p3}
  Entity = {e1, e2, e3}
  Name = {tank, plane, boat}
  Known <- MCKnown
  Matched = {tank, boat}
  Workloads <- MCWorkloads
  ChunkSize = 2
  NoParser = NoParser
SPECIFICATION FairSpec
INVARIANTS
  TypeOK
  NothingTwice
  EntitiesQueried
  SlotsExact
PROPERTIES
  EveryReplayEnds
  OnlySecondLocksBlock
\* The threads stop: at the end of the replays, or for ever (OnlySecondLocksBlock).
CHECK_DEADLOCK FALSE
