SPECIFICATION Spec
CONSTANTS
  MaxRegs = 6
  MaxScopes = 2
  Runs <- MCRuns
  Depths <- MCDepths
CHECK_DEADLOCK FALSE
INVARIANTS
  TypeOK
  Sorted
  OneOwner
PROPERTY
  ImplementsRegisterPool
