CONSTANTS
  t1 = t1
  t2 = t2
  t3 = t3
  i1 = i1
  i2 = i2
  appA = appA
  appB = appB
  NoHost = NoHost
  Threads = {t1, t2, t3}
  Paths = {appA, appB}
  Impls = {i1, i2}
  MaxCalls = 2
SPECIFICATION HostFairSpec
INVARIANTS
  OneRuntime
  ReadyBeforeUse
PROPERTIES
  EveryCallReturns
CHECK_DEADLOCK FALSE
