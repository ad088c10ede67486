SPECIFICATION Spec
CONSTANTS
  Starts = {0, 1, 6}
  Requests <- MCRequests
  Packs = {1, 2, 8}
  StructAligns = {1}
  BlockSizes = {1, 4}
  MaxPushes = 3
INVARIANTS UnitsNest UnitsInsideRun
PROPERTIES ImplementsAlloc SharesWhenItFits
