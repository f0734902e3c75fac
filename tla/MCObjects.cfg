CONSTANTS
  t1 = t1
  t2 = t2
  h0 = h0
  h1 = h1
  h2 = h2
  JsJob = JsJob
  NoTask = NoTask
  Tasks = {t1, t2}
  Typed = {t1}
  Holders = {h0, h1, h2}
  Main = h0
  p1 = p1
  p2 = p2
  b1 = b1
  b2 = b2
  b3 = b3
  h3 = h3
  None = None
  Threads = {t1, t2}
  Addresses = {p1, p2}
  Blocks = {b1, b2, b3}
  Handles = {h1, h2, h3}
SPECIFICATION ObjectsSpec
INVARIANTS
  PromiseTellsOutcome
  ClosesAfterMain
  RefCountExact
  EntryIsCurrent
  FreedOnce
PROPERTIES
  EveryPromiseSettles
  UnusedIsReleased
CHECK_DEADLOCK FALSE
