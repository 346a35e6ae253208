SPECIFICATION Spec
CONSTANTS
  t1 = t1
  t2 = t2
  t3 = t3
  Tx <- MCTx
  Amount <- MCAmount
  Sum <- MCSum
  Required = 2
INVARIANTS
  CommittedStatusFits
  DetectionAnnouncedOnce
  MerchantInSync
