------------------------------- MODULE KeyMap -------------------------------
(***************************************************************************)
(* What the hash tables of util/hash.c promise: each is a map from keys to *)
(* entries that keeps the first object stored for a key and knows how many *)
(* entries it has, and whoever walks along it meets every entry once.      *)
(* Buckets, chains and their sizes are not visible.                        *)
(***************************************************************************)
EXTENDS Integers, FiniteSets

CONSTANTS Tables,    \* handles of hash tables
          Objs,      \* the objects stored
          NULL       \* no object

VARIABLES map,       \* table |-> what it holds: for a key its entry and object
          walk,      \* the walk under way: its table, and the keys to come
          call       \* the last call: function, arguments, and what it gave

mapvars == <<map, walk, call>>

Absent == [there |-> FALSE]
Holds(f) == [there |-> TRUE, at |-> f]
Empty == Holds([k \in {} |-> NULL])
NoWalk == [table |-> NULL, left |-> {}]

MapInit == map = [t \in Tables |-> Absent] /\ walk = NoWalk

\* The call that is made in a step.
Fn == call'.fn
Arg(i) == call'.args[i]
Gives(x) == call'.gives = x

Table == Arg(1)
At == map[Table].at
Same == UNCHANGED <<map, walk>>
Become(m) == map' = [map EXCEPT ![Table] = m] /\ UNCHANGED walk

\* The first object of a key stays; else e is its entry, o its object.
Store(k, e, o) ==
  IF k \in DOMAIN At THEN Same /\ Gives(0)
  ELSE /\ Become(Holds([x \in DOMAIN At \cup {k} |->
                          IF x = k THEN [entry |-> e, obj |-> o] ELSE At[x]]))
       /\ Gives(Cardinality(DOMAIN At) + 1)

Take(k) ==
  IF k \in DOMAIN At
  THEN Become(Holds([x \in DOMAIN At \ {k} |-> At[x]])) /\ Gives(At[k].obj)
  ELSE Same /\ Gives(NULL)

\* The key of an entry, if it is in the table.
KeyFor(e) == IF \E k \in DOMAIN At : At[k].entry = e
             THEN CHOOSE k \in DOMAIN At : At[k].entry = e ELSE NULL

\* The same objects for the same keys, in entries that are in no table.
Copied(s, d) ==
  /\ map'[d].there /\ DOMAIN map'[d].at = DOMAIN map[s].at
  /\ \A k \in DOMAIN map[s].at : map'[d].at[k].obj = map[s].at[k].obj
  /\ \A k \in DOMAIN map[s].at : \A t \in {u \in Tables : map[u].there} :
       \A x \in DOMAIN map[t].at : map'[d].at[k].entry # map[t].at[x].entry
  /\ \A t \in Tables \ {d} : map'[t] = map[t]
  /\ UNCHANGED walk

MapNext ==
  \/ Fn \in {"HN_new", "HN_delete", "HT_resize"} /\ Same
  \/ Fn = "HT_new_ex" /\ Become(Empty)
  \/ Fn = "HT_flush" /\ Become(Empty)
  \/ Fn \in {"HT_delete", "HT_destroy"} /\ Become(Absent)
  \/ Fn = "HT_clone" /\ Copied(Table, Arg(2))
  \/ Fn = "HT_store" /\ Store(Arg(2), map'[Table].at[Arg(2)].entry, Arg(3))
  \/ Fn = "HT_storenode" /\ Store(Arg(4), Arg(2), Arg(3))
  \/ Fn = "HT_fetch" /\ Take(Arg(2))
  \/ Fn \in {"HT_fetchnode", "HT_rmnode"} /\ Take(KeyFor(Arg(2)))
  \/ Fn = "HT_get" /\ Same /\ Gives(IF Arg(2) \in DOMAIN At THEN At[Arg(2)].obj ELSE NULL)
  \/ Fn = "HT_exists" /\ Same /\ Gives(Arg(2) \in DOMAIN At)
  \/ Fn = "HI_init" /\ walk' = [table |-> Table, left |-> DOMAIN At] /\ UNCHANGED map
  \/ Fn = "HI_next" /\ UNCHANGED map
       /\ IF walk.left = {} THEN walk' = NoWalk /\ Gives(NULL)
          ELSE \E k \in walk.left :
                 /\ walk' = [walk EXCEPT !.left = @ \ {k}]
                 /\ Gives(<<k, map[walk.table].at[k].obj>>)

MapSpec == MapInit /\ [][MapNext]_mapvars

=============================================================================
