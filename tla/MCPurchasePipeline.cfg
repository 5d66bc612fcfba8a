SPECIFICATION FairSpec
CONSTANTS
  FloorCents = 2
  TargetCents = 1
  LNDChannelThresholdSats = 2
  LNDChannelTargetSats = 2
  MaxPolls = 2
  Bank = 2
  Wallet = 2
  Deposits = {2}
  OperatorSizes = {0, 1}
  OperatorRaces = FALSE
  MaxDeposits = 2
  MaxCrashes = 1
INVARIANTS
  TypeOK
  DealsAreWired
  OpensWhatWasSent
PROPERTIES
  TargetRetained
  ReserveKept
  LoopReturns
  FiatIsSpent
  ExcessIsOpened
