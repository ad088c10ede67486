SPECIFICATION Spec
CONSTANTS
  Disks <- MCDisks
  Mains <- MCMains
  Buffers <- MCBuffers
  Path <- MCPath
  MaxIf = 2
  MaxNest = 3
  MaxParses = 2
INVARIANTS AsStandard
PROPERTIES GuardsRight
CHECK_DEADLOCK FALSE
