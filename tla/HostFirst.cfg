CONSTANTS
  c1 = c1
  c2 = c2
  k1 = k1
  none = none
  Calls <- MCCalls
  Messages <- MCMessages
  Starts <- MCStarts
  IdentityOf <- MCIdentityOf
  OneTimeIds <- MCOneTimeIds
  NoKey = none
  OneQueue = TRUE
  MaxSeals = 2
  MaxReturns = 2
  MaxApprovals = 0
SYMMETRY MCSymmetry
SPECIFICATION Spec
INVARIANT KnownSessionNeedsNoPreKey
CHECK_DEADLOCK FALSE
