CONSTANTS
  Publishers = {p1, p2}
  Events <- ThreeEvents
  BatchSize = 3
  ChunkLimit = 2
  MaxDelay = 1
  MaxLate = 0
  MaxFaults = 1
  g1 = g1  g2 = g2
SPECIFICATION Spec
SYMMETRY Symmetry
INVARIANTS TypeOK PublishedIsDelivered
PROPERTIES TickAdvances
CHECK_DEADLOCK FALSE
