SPECIFICATION Spec
CONSTANTS
  c1 = c1
  c2 = c2
  i1 = i1
  i2 = i2
  i3 = i3
  r1 = r1
  r2 = r2
  None = None
  Cards <- OneCard
  Requests <- TwoRequests
  Invoices <- ThreeInvoices
  Amounts = {0, 1, 2, 3}
  Face <- OneFace
  InvoiceSats <- ThreeSats
  MaxAttempts = 3
  TtlMayLapse = TRUE
INVARIANT SpentWithinFace
CHECK_DEADLOCK FALSE
