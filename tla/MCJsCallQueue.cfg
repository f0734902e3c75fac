CONSTANTS
  h1 = h1
  h2 = h2
  Handlers = {h1, h2}
  Budget = 5
  MaxDepth = 6
SPECIFICATION FairSpec
INVARIANTS
  QueueMatchesStack
  EventsFindHandlers
PROPERTIES
  InOrder
  EveryCallSettled
CHECK_DEADLOCK FALSE
