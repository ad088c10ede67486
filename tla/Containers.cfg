SPECIFICATION MCSpec
CONSTANTS
  Tables = {s, t}
  Nodes = {"m1", "m2", "n1", "n2"}
  KeyOf <- MCKeyOf
  Hash <- MCHash
  Objs = {"a"}
  NULL = NULL
  MaxSize = 2
  Dyades = 0
  Flags <- MCFlags
  Lists = {k, l, m}
  Links = {c1, c2, c3}
  Items = {1, 2}
  Nil = Nil
INVARIANTS NodesOnce Rings QuickSortSorts
PROPERTIES CloneKeepsOrder ImplementsMap KeepsPromise
SYMMETRY Symmetry
