CONSTANTS
  SeqCount = 14
  FirstSeq = 11
  AckBits = 2
  HistoryDepth = 2
  LostThreshold = 2
  Timeouts = {1}
  Window = 4
  Packets = 6
SPECIFICATION FairSpec
INVARIANTS
  AckedWasReceived
  AcksExact
PROPERTIES
  EveryPacketReported
CHECK_DEADLOCK FALSE
