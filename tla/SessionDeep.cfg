CONSTANTS
  alice = alice
  bob = bob
  k1 = k1
  Alice = alice
  Bob = bob
  OneTimeIds <- MCOneTimeIds
  MaxStarts = 1
  MaxMessages = 6
  MaxPairs = 4
  MaxPrevious = 1
  MaxLanes = 1
  MaxSkipped = 1
  MaxForwardJump = 1
SYMMETRY MCSymmetry
SPECIFICATION Spec
INVARIANT RootsAgree
CHECK_DEADLOCK FALSE
