SPECIFICATION Spec
CONSTANTS
  c1 = c1
  c2 = c2
  c3 = c3
  w1 = w1
  w2 = w2
  None = None
  Workers <- TwoWorkers
  Cards <- TwoCards
  MaxCopies <- One
  Net <- Twos
  NumMsgs = 2
  BatchSize = 1
  MaxLen = 10
  Treasury = 3
  RoutingFee = 0
  Provider = "cryptocom"
  Replies <- OneReply
  MaxAttempts = 2
  MaxFunds = 2
  Env = {"redeem"}
SYMMETRY WorkerSymmetry
INVARIANTS
  Solvent
CHECK_DEADLOCK FALSE
