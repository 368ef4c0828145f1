CONSTANTS
  snd = snd
  rcv = rcv
  id1 = id1
  id2 = id2
  id3 = id3
  Devices <- MCDevices
  Sender = snd
  ChainIds <- MCChainIds
  MaxKeys = 3
  MaxSteps = 4
  MaxMade = 5
  MaxAnnounces = 3
  MaxMembers = 2
  MaxSkipped = 1
  MaxForwardJump = 2
SYMMETRY MCSymmetry
SPECIFICATION Spec
INVARIANT TypeOK RecordWellFormed SealedOnce SealsWhatItKept Ledger ReplayExplained
PROPERTY OpensOnce
CHECK_DEADLOCK FALSE
