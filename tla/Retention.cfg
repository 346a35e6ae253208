SPECIFICATION FairSpec
CONSTANTS
  i1 = i1
  i2 = i2
  d1 = d1
  d2 = d2
  None = None
  Invoices <- MCInvoices
  Deliveries <- MCDeliveries
  Purposes = {"merchant", "prepay"}
  BatchSize = 1
  MaxFailures = 1
INVARIANTS
  NothingDangles
  OpenHasAddress
PROPERTY OldRowsGo
