SPECIFICATION CallsSpec
CONSTANTS
  Subjects = {"lists"}
  Handles = {h1}
  Chunks = {a, b}
  MaxWrites = 3
  TagSizes = {4, 12, 16}
  Bytes = {0, 1, 2, 128}
  Block = 2
  IntBits = 8
  MaxLen = 4
  Names = {n1, n2, n3}
  NoName = noname
  Room = 2
  MaxWalk = 3
  MaxQueries = 1
  MaxObjects = 3
  MaxEntries = 3
  MaxHandovers = 3
INVARIANT ListedIsReachable
CHECK_DEADLOCK FALSE
