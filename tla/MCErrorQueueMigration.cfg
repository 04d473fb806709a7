SPECIFICATION Spec
CONSTANTS
  Goroutines = {g1, g2}
  Threads = {t1, t2}
  Migrates = TRUE
INVARIANT
  NoForeignErrors
