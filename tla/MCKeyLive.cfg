SPECIFICATION FairSpec
CONSTANTS
  Nodes <- MCPairNodes
  Bootstrap = 0
  Index <- MCPairIndex
  MaxStarts = 2
  MaxErrors = 1
PROPERTIES
  HintGetsIntoKeys
CHECK_DEADLOCK FALSE
