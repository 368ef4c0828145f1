CONSTANTS
  Addresses <- MCAddresses
  Readers <- MCReaders
  Groups <- MCWrapGroups
  Byte = 2
  Word = 8
  MaxInstalls = 1
  MaxSends = 2
  MaxNotes = 2
SPECIFICATION Spec
INVARIANT EveryDeviceServed
CHECK_DEADLOCK FALSE
