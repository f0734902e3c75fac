CONSTANTS
  t1 = t1
  h0 = h0
  h1 = h1
  JsJob = JsJob
  NoTask = NoTask
  Tasks = {t1}
  Typed = {t1}
  Holders = {h0, h1}
  Main = h0
SPECIFICATION PromiseSpec
SYMMETRY Symmetry
INVARIANTS
  UnsupportedIsRejected
CHECK_DEADLOCK FALSE
