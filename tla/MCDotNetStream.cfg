CONSTANTS
  Total = 4
  Reads = {1}
  MaxCount = 3
  s1 = s1
  Streams = {s1}
SPECIFICATION StreamFairSpec
PROPERTIES
  StreamComes
CHECK_DEADLOCK FALSE
