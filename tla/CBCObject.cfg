SPECIFICATION MCSpec
CONSTANTS
  Objs = {o, p}
  Structs = {"I", "O"}
  Inner <- MCInner
  Typedefs = {"T"}
  Of <- MCOf
  Settings = {"align4", "align1"}
  Names = {"M"}
INVARIANTS ReadyMeansLaidOut PredefinedIsHidden
PROPERTIES ImplementsPromise
SYMMETRY MCSymmetry
