SPECIFICATION MCSpec
CONSTANTS
  Tables <- MCTables
  Objs = {o, p}
  HookIds = {"pack", "unpack"}
  Subs = {"f", "g"}
  Arrays = {a, b, c}
  Places <- MCPlaces
  Basic = {"int"}
  Exprs <- MCExprs
  Members <- MCMembers
  Calls <- MCCalls
  Changes <- MCChanges
SYMMETRY TagSymmetry
INVARIANTS OffsetsComeBack FindsAllMembers RefsCounted
PROPERTIES KeepsPromise
CHECK_DEADLOCK FALSE
