SPECIFICATION FairGiftSpec
CONSTANTS
  c1 = c1
  c2 = c2
  o1 = o1
  w1 = w1
  h1 = h1
  h2 = h2
  k1 = k1
  k2 = k2
  None = None
  ServiceFeePct = 300
  StripeFeePct = 150
  CryptoSpreadPct = 16
  StripeFeeFlat = 25
  SEPAFee = 0
  Workers <- OneWorker
  Cards <- TwoCards
  MaxCopies <- Unbounded
  Net <- NetOfFees
  NumMsgs = 4
  BatchSize = 10
  MaxLen = 10
  Treasury = 3
  RoutingFee = 0
  Provider = "cryptocom"
  Replies <- ThePrice
  MaxAttempts = 2
  MaxFunds = 2
  Env = {"redeem"}
  Orders <- OneOrder
  CardsOf <- TwoOfOne
  Codes <- TwoCodes
  Handlers <- TwoHandlers
  MaxDeliveries = 2
  ShopEnv = {"duplicate"}
INVARIANTS
  OnlyPaidIsReserved
PROPERTIES
  ImplementsCardLife
  EveryPaidCardActive
CHECK_DEADLOCK FALSE
