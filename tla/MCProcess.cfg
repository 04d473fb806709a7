SPECIFICATION ProcessSpec
CONSTANTS
  Goroutines = {g1, g2, g3}
  Nobody = nobody
  MaxLanes = 4
  Requests = {0, 1, 2, 4, 5}
  Slots = 2
  MaxChanges = 1
  Threads = {t1, t2}
  Migrates = FALSE
INVARIANTS
  TypesOK
  BudgetSuffices
  
  ArenaBalance
  AnswersWereTrue
  ErrorsAreOwn
PROPERTIES
  NeverLowered
  CallsReturn
