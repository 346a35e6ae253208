SPECIFICATION FairSpec
CONSTANTS
  i1 = i1
  t1 = t1
  t2 = t2
  p1 = p1
  p2 = p2
  NoInvoice = NoInvoice
  Invoice <- MCInvoice
  Tx <- MCTx
  Process <- MCProcess
  Pays <- MCPays
  Sum <- MCSum
  Required <- MCRequired
  Dust = 1
  OrphanThreshold = 2
  MaxRestarts = 1
INVARIANTS
  TypeOK
  StatusAgreesWithTotal
  MerchantInSync
  CancelledPaymentsAnnounced
  AnnouncedOnce
  OrphanedAfterMisses
PROPERTIES
  BuriedConfirms
  VanishedIsGivenUp
  DueExpires
  ImplementsLedger
CHECK_DEADLOCK FALSE
