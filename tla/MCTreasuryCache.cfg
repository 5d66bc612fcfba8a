SPECIFICATION FairSpec
CONSTANTS
  r1 = r1
  r2 = r2
  h1 = h1
  NoValue = NoValue
  Requests <- TwoRequests
  Hosts <- OneHost
  Host <- SameHost
  Limit = 2
  Window = 2
  CacheTTL = 1
  MaxCompute = 1
  Env = {"fault", "lost", "crash"}
INVARIANTS
  TypeOK
  BurstIsBounded
  AnswersAreRecent
  StaleIsAnnounced
PROPERTIES
  BlockedIsFreed
