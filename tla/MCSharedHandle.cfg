SPECIFICATION FairSpec
CONSTANTS
  Goroutines = {g1, g2, g3}
  Nobody = nobody
  Handle = handle
INVARIANTS
  TypeOK
  NoUseAfterFree
  NoZeroedKey
  CipherBalanced
PROPERTIES
  KeepsContract
  CallsReturn
