SPECIFICATION FairQueueSpec
CONSTANTS
  w1 = w1
  w2 = w2
  Workers <- TwoWorkers
  NumMsgs = 4
  BatchSize = 2
  MaxLen = 3
  Env = {"fault", "lost", "crash"}
INVARIANTS
  NothingForgotten
  HandledByOne
PROPERTIES
  EveryMessageHandled
CHECK_DEADLOCK FALSE
