CONSTANTS
  Workers = {n1, n2}
  Messages <- Reused
  Refused <- Again
  MaxMessages = 2
  MaxReceive = 2
  MaxFaults = 1
  g1 = g1  g2 = g2
SYMMETRY Symmetry
SPECIFICATION Spec
INVARIANTS TypeOK NothingLost ProcessedOnce DeadLettersExplained
CHECK_DEADLOCK FALSE
