SPECIFICATION MCSpec
CONSTANTS
  Tags = {S, T}
  TypeNames = {X}
  Constants = {A}
  Values = {1}
  Packs = {1, 3}
  Unnamed = Unnamed
  NoValue = NoValue
  MaxThings = 4
  MaxDepth = 2
  MaxSaved = 1
INVARIANTS WellLinked MeansTheSame PacksKept
PROPERTIES LocalsVanish DefinitionsStay
SYMMETRY NameSymmetry
