CONSTANTS
  c1 = c1
  c2 = c2
  k1 = k1
  none = none
  Calls <- MCCalls
  Messages <- MCMessages
  Starts <- MCStarts
  IdentityOf <- MCIdentityOf
  OneTimeIds <- MCOneTimeIds
  NoKey = none
  MaxSeals = 1
  MaxReturns = 2
  MaxAsides = 1
SYMMETRY MCSymmetry
SPECIFICATION Spec
INVARIANTS ReuseExplained OpenedTwiceExplained LostSessionExplained
PROPERTIES PinKept
CHECK_DEADLOCK FALSE
