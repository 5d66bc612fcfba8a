SPECIFICATION FairSpec
CONSTANTS
  c1 = c1
  c2 = c2
  c3 = c3
  w1 = w1
  w2 = w2
  None = None
  Workers <- TwoWorkers
  Cards <- ThreeCards
  MaxCopies <- One
  Net <- OneNotCovered
  NumMsgs = 3
  BatchSize = 1
  MaxLen = 10
  Treasury = 2
  RoutingFee = 0
  Provider = "cryptocom"
  Replies <- TwoOrEmpty
  MaxAttempts = 2
  MaxFunds = 2
  Env = {"redeem"}
INVARIANTS
  AcknowledgedIsFunded
PROPERTIES
  EveryCardFunded
CHECK_DEADLOCK FALSE
