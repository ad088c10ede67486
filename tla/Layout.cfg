SPECIFICATION FairSpec
CONSTANTS
  Setups <- AllSetups
  IntSize = 4
INVARIANTS AsGcc MembersDisjoint Aligned
PROPERTIES LayoutIsFinal CallsReturn
CHECK_DEADLOCK FALSE
