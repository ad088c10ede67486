SPECIFICATION Spec
CONSTANTS
  Objs = {o}
  Structs = {"I", "O"}
  Inner <- MCInner
  Typedefs = {"T"}
  Of <- MCOf
  Settings = {"align4", "align1"}
  Names = {"M"}
INVARIANTS LayoutFresh
