CONSTANTS
  Initiator = ini
  Responder = rsp
  ini = ini
  rsp = rsp
  Need <- MCNeedTwo
  Wrap = 2
  MaxEpochs = 2
  MaxInFlight = 2
SPECIFICATION FairSpec
PROPERTY EpochsAdvance
