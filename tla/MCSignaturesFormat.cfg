SPECIFICATION SignaturesSpec
CONSTANTS
  Keys = {ec, ed}
  ECKeys = {ec}
  Streams = {s1, s2}
  KeyHandle = handle1
  Chunks = {a}
  MaxWrites = 2
INVARIANT
  FormatHonoured
CHECK_DEADLOCK FALSE
