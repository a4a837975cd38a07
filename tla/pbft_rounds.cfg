SPECIFICATION Spec
CONSTANTS
  n0 = n0
  n1 = n1
  n2 = n2
  Nodes = {n0, n1, n2}
  Leader = n0
  MaxHeight = 3
  MaxLoss = 1
ACTION_CONSTRAINT IdleFirst
SYMMETRY ReplicaSymmetry
INVARIANTS TypeOK ChainAgreement ChainLinked LockDiscipline SequenceAhead OldInOrder AskForLockFreed
PROPERTIES LedgerSpec
CHECK_DEADLOCK FALSE
