SPECIFICATION FairSpec
CONSTANTS
  m1 = m1
  m2 = m2
  m3 = m3
  a1 = a1
  a2 = a2
  k1 = k1
  k2 = k2
  k3 = k3
  k4 = k4
  k5 = k5
  k6 = k6
  k7 = k7
  n1 = n1
  s1 = s1
  s2 = s2
  r1 = r1
  r2 = r2
  Admin = m1
  Home = a1
  None = None
  Given <- MCGiven
  Merchants <- MCMerchants
  Keys <- MCKeys
  Addresses <- MCAddresses
  Nonces <- MCNonces
  Sessions <- MCSessions
  Requests <- MCRequests
  MaxKeys = 3
  MaxRequests = 3
INVARIANTS
  SessionFollowsSignature
  KeyOutlivesRequest
  OneKeyKeepsOne
CHECK_DEADLOCK FALSE
PROPERTY RequestsEnd
