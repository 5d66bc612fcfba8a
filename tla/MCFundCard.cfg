SPECIFICATION Spec
CONSTANTS
  c1 = c1
  c2 = c2
  c3 = c3
  w1 = w1
  w2 = w2
  None = None
  Workers <- TwoWorkers
  Cards <- TwoCards
  MaxCopies <- One
  Net <- SmallNets
  NumMsgs = 2
  BatchSize = 2
  MaxLen = 10
  Treasury = 2
  RoutingFee = 0
  Provider = "cryptocom"
  Replies <- TwoPricesAndErrors
  MaxAttempts = 3
  MaxFunds = 2
  Env = {"fault", "crash", "channel"}
SYMMETRY WorkerSymmetry
INVARIANTS
  TypeOK
  Solvent
  OneReserver
  FundedOnce
PROPERTIES
  ActiveStays
CHECK_DEADLOCK FALSE
