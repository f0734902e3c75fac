CONSTANTS
  h1 = h1
  h2 = h2
  Handlers = {h1}
  Budget = 4
  MaxDepth = 5
SPECIFICATION Spec
INVARIANTS
  OwnByteArrays
CHECK_DEADLOCK FALSE
