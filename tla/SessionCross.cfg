CONSTANTS
  alice = alice
  bob = bob
  k1 = k1
  Alice = alice
  Bob = bob
  OneTimeIds <- MCOneTimeIds
  MaxStarts = 2
  MaxMessages = 4
  MaxPairs = 4
  MaxPrevious = 1
  MaxLanes = 2
  MaxSkipped = 1
  MaxForwardJump = 1
SYMMETRY MCSymmetry
SPECIFICATION Spec
INVARIANTS SealedOnce ReplayExplained RefusalExplained WrappedUntilAnswered
PROPERTY OpensOnce
CHECK_DEADLOCK FALSE
