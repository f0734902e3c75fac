CONSTANTS
  h1 = h1
  h2 = h2
  None = None
  Handles = {h1, h2}
  MaxDepth = 4
  MaxArgs = 2
  p1 = p1
  p2 = p2
  b1 = b1
  b2 = b2
  Pointers = {p1, p2}
  Blocks = {b1, b2}
  MaxValues = 2
SPECIFICATION HandlesSpec
INVARIANTS
  OneOwner
  CheckedReadsAreLive
  OneReleaser
PROPERTIES
  DisposedIsReleased
