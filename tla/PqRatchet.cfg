CONSTANTS
  Initiator = ini
  Responder = rsp
  ini = ini
  rsp = rsp
  s1 = s1
  s2 = s2
  s3 = s3
  Secrets <- MCSecrets
  MaxJump = 3
  MaxSkipped = 2
  MaxEpochs = 3
  MaxSends <- MCSends
  MaxInFlight = 2
SYMMETRY MCSymmetry
SPECIFICATION Spec
INVARIANTS CanAlwaysSend EpochsInOrder RefusalExplained KeyGivenOnce
PROPERTY KeysAgree
CHECK_DEADLOCK FALSE
