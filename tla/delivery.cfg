CONSTANTS
  Workers = {n1}
  Messages <- Copies
  Refused <- None
  MaxMessages = 1
  MaxReceive = 2
  Moving <- MovesA
  Publishers = {p1}
  BatchSize = 2
  ChunkLimit = 2
  MaxDelay = 0
  MaxLate = 1
  MaxFaults = 1
  g = g
SPECIFICATION FairSpec
INVARIANTS NoMessageWithoutEvent
PROPERTIES ImplementsChannel EventuallyDelivered EventuallyPublished
CHECK_DEADLOCK FALSE
