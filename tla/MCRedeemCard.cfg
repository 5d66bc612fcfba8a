SPECIFICATION FairSpec
CONSTANTS
  c1 = c1
  c2 = c2
  i1 = i1
  i2 = i2
  i3 = i3
  r1 = r1
  r2 = r2
  None = None
  Cards <- TwoCards
  Requests <- TwoRequests
  Invoices <- ThreeInvoices
  Amounts = {0, 1, 2}
  Face <- TwoFace
  InvoiceSats <- MixedSats
  MaxAttempts = 3
  TtlMayLapse = FALSE
INVARIANTS
  TypeOK
  MutualExclusion
  Conservation
  RefusalIsFree
  SettledIsAccounted
  SuccessIsTrue
PROPERTIES
  PaymentIsCovered
  LedgerSpec
  EveryRequestAnswers
  CardLockIsFreed
CHECK_DEADLOCK FALSE
