SPECIFICATION Spec
CONSTANTS
  Goroutines = {g1, g2}
  Nobody = nobody
  Slots = 1
INVARIANT
  UsedReadsAnArena
