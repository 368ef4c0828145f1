CONSTANTS
  Initiator = ini
  Responder = rsp
  ini = ini
  rsp = rsp
  Need <- MCNeed
  Wrap = 3
  MaxEpochs = 3
  MaxInFlight = 2
SPECIFICATION Spec
INVARIANTS NeverRefuses RolesMeet GathersOneMessage
PROPERTY AgreesOnEpochs
CHECK_DEADLOCK TRUE
