CONSTANTS
  o1 = o1
  Objects = {o1}
  MaxReferences = 2
  Requests = {}
  c1 = c1
  Calls = {c1}
  Gone = Gone
SPECIFICATION ReferenceSpec
INVARIANTS
  BeginInvokeDoesNotThrow
CHECK_DEADLOCK FALSE
