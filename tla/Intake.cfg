SPECIFICATION Spec
CONSTANTS
  p1 = p1
  p2 = p2
  r1 = r1
  r2 = r2
  None = None
  Updaters <- MCUpdaters
  Requests <- MCRequests
  POLL_INTERVAL = 1
  LEASE_TTL = 2
  CACHE_TTL = 10
  Slow = 2
  Spare = 1
  MAX_RETRIES = 2
  MaxIndex = 3
SYMMETRY MCSymmetry
INVARIANTS
  PriceSurvives
  RatesAreFresh
  AddressesDiffer
PROPERTY OlderOnlyIfLate
