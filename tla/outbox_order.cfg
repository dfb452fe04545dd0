CONSTANTS
  Publishers = {p1}
  Events <- TwoEvents
  BatchSize = 1
  ChunkLimit = 1
  MaxDelay = 0
  MaxLate = 0
  MaxFaults = 0
  g1 = g1  g2 = g2
SPECIFICATION Spec
INVARIANTS GroupOrder
CHECK_DEADLOCK FALSE
