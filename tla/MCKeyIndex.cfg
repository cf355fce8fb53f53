SPECIFICATION Spec
CONSTANTS
  Nodes <- MCDocNodes
  Bootstrap = 0
  Index <- MCDocIndex
  MaxStarts = 1
  MaxErrors = 0
INVARIANTS
  LoadsHintsWhenSynced
CHECK_DEADLOCK FALSE
