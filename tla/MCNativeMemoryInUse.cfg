CONSTANTS
  t1 = t1
  t2 = t2
  t3 = t3
  p1 = p1
  p2 = p2
  b1 = b1
  b2 = b2
  b3 = b3
  h1 = h1
  h2 = h2
  h3 = h3
  h4 = h4
  None = None
  Threads = {t1, t2}
  Addresses = {p1}
  Blocks = {b1}
  Handles = {h1, h2}
SPECIFICATION Spec
SYMMETRY Symmetry
INVARIANTS
  CallbackWhenUnused
CHECK_DEADLOCK FALSE
