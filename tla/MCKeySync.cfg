SPECIFICATION Spec
CONSTANTS
  Nodes <- MCNodes
  Bootstrap = 0
  Index <- MCIndex
  MaxStarts = 1
  MaxErrors = 1
INVARIANTS
  TypeOK
  KeysCurrent
  HintsOnce
CHECK_DEADLOCK FALSE
