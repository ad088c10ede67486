SPECIFICATION CacheSpec
CONSTANTS
  Procs = {"p", "q"}
  Wants <- MCWants
  Parts = 1
  MaxEdits = 2
  MaxKills = 1
  Bad = {1}
INVARIANTS SoundIsRight DependenciesMatch
PROPERTIES Heals
