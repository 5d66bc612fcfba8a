SPECIFICATION Spec
CONSTANTS
  o1 = o1
  o2 = o2
  o3 = o3
  h1 = h1
  h2 = h2
  k1 = k1
  k2 = k2
  k3 = k3
  k4 = k4
  None = None
  Orders <- TwoOrders
  Size <- TwoSizes
  Codes <- FourCodes
  Handlers <- TwoHandlers
  MaxDeliveries = 2
  Env = {"fault"}
SYMMETRY Symmetry
INVARIANTS
  PaidIsPublished
CHECK_DEADLOCK FALSE
