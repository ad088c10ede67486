SPECIFICATION Spec
CONSTANTS
  Setups <- AllSetups
  Data <- AllData
  Text <- AllText
  Word = 4096
  Memory = 100
  PtrSize = 2
INVARIANTS InBuffer InScope ParentInPlace PutsDataOver OwnDimension
