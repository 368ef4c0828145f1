CONSTANTS
  Addresses <- MCAddresses
  Readers <- MCReaders
  Groups <- MCGroups
  Byte = 4
  Word = 8
  MaxInstalls = 2
  MaxSends = 2
  MaxNotes = 2
SPECIFICATION Spec
INVARIANTS SplitsAsAddressed RegistrationsTell ReadOnce
CHECK_DEADLOCK FALSE
