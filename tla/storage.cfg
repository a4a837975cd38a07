SPECIFICATION Spec
CONSTANTS
  Roots <- MCRoots
  EmptyRoot = "empty"
  MaxBlocks = 4
INVARIANTS ChainStored AtMostOneAhead RestartPossible MainOpensState
PROPERTY NewestAdvances
CHECK_DEADLOCK FALSE
