CONSTANTS
  Client = {c1, c2, c3}
  NoClient = NoClient
  k1 = k1
  k2 = k2
  k3 = k3
  k4 = k4
  N = 3
  Key <- MCKey
  Spread <- MCSpread
  Requests <- MCRequests
SPECIFICATION FairSpec
INVARIANTS LockInv MutualExclusion
PROPERTIES EveryRequestGranted ImplementsLockSpec
