SPECIFICATION FairSpec
CONSTANTS
  Nodes <- MCNodes
  Leader = "n0"
  MaxLatency = 1
  MaxBlocks = 2
INVARIANTS Agreement SequenceIsHeight WaitsForNext SynchronousKeepsUp HangOnlyOvertaken
PROPERTIES RoundsEnd
CHECK_DEADLOCK FALSE
