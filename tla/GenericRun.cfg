SPECIFICATION FairSpec
CONSTANTS
  Starts = {0, 1, 3, 6}
  Requests <- MCRequests
  Packs = {4, 8}
  StructAligns = {1}
  MaxPushes = 3
INVARIANTS TypeOK
PROPERTIES ImplementsGcc PushReturns
