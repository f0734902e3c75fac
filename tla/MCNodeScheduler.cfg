CONSTANTS
  t1 = t1
  t2 = t2
  b1 = b1
  b2 = b2
  Tasks = {t1, t2}
  Threads = {b1, b2}
  NoTask = NoTask
  JsJob = JsJob
  MaxDepth = 4
  MaxJsJobs = 1
SPECIFICATION FairSpec
INVARIANTS
  ContextMatchesStack
  MicroInStep
  NoTaskLostWhileOpen
  HandlesAccounted
  TsfnCounted
PROPERTIES
  ServiceSpec
  EveryTaskRuns
