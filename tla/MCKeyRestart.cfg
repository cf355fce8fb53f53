SPECIFICATION Spec
CONSTANTS
  Nodes <- MCPairNodes
  Bootstrap = 0
  Index <- MCPairIndex
  MaxStarts = 2
  MaxErrors = 0
INVARIANTS
  KeysFromCurrentHints
CHECK_DEADLOCK FALSE
