SPECIFICATION Spec
CONSTANTS
  Setups <- NestedSetups
  IntSize = 4
INVARIANTS NeverOverlap
CHECK_DEADLOCK FALSE
