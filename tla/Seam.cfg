CONSTANTS
  a = a
  b = b
  Callers <- MCCallers
  Names <- MCNames
  MaxInstances = 2
SYMMETRY MCSymmetry
SPECIFICATION Spec
INVARIANTS LeaksExplained FreesWhatItAllocated SidesAgree InitsAgree
CHECK_DEADLOCK FALSE
