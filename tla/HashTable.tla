----------------------------- MODULE HashTable ------------------------------
(***************************************************************************)
(* util/hash.c: hash tables with chains, and the nodes in them.            *)
(*                                                                         *)
(* A node is allocated by the caller (HN_new) or by HT_store; its key and  *)
(* the hash sum of its key never change.  A table has 2^size buckets, each *)
(* a chain of nodes sorted by hash sum and key, which a search relies on   *)
(* to stop early.  Tables grow and shrink by themselves, if their flags    *)
(* say so, or on demand.  A caller may be walking a table with an          *)
(* iterator; it changes that table only when the walk is over.             *)
(***************************************************************************)
EXTENDS Integers, Sequences, SequencesExt, FiniteSets

CONSTANTS Tables,     \* table handles
          Nodes,      \* addresses of nodes
          KeyOf,      \* node |-> its key, a number: keys compare like these
          Hash,       \* key |-> hash sum
          Objs,       \* objects
          NULL,
          MaxSize,    \* MAX_HASH_TABLE_SIZE: 16
          Dyades,     \* AUTOSIZE_DYADES: 3
          Flags       \* the combinations of flags tables are made with

ASSUME HashAssumption ==
  /\ MaxSize \in Nat \ {0} /\ Dyades \in Nat
  /\ Flags \subseteq SUBSET {"HT_AUTOGROW", "HT_AUTOSHRINK"}
  /\ NULL \notin Objs \cup Tables \cup Nodes
  /\ IsFiniteSet(Nodes)
  /\ \A n \in Nodes : KeyOf[n] \in Nat /\ Hash[KeyOf[n]] \in Nat /\ KeyOf[n] # NULL

VARIABLES table,      \* handle |-> its struct _hashTable, or NoTable
          node,       \* address |-> whether it is allocated, and its pObj
          iter,       \* a HashIterator, with the table it is on
          call        \* the last call, and what it returned

vars == <<table, node, iter, call>>

Keys == {KeyOf[n] : n \in Nodes}
Sizes == 1..MaxSize
NoTable == [live |-> FALSE]
Freed == [live |-> FALSE, pObj |-> NULL]
NoIter == [table |-> NULL, rest |-> << >>, bucket |-> 0, remain |-> 0]

\* The order of a chain: CMPHASH, then length and bytes of the keys.
Precedes(j, k) == Hash[j] < Hash[k] \/ (Hash[j] = Hash[k] /\ j < k)

\* 1 << size.
Buckets(size) ==
  LET power[i \in 0..size] == IF i = 0 THEN 1 ELSE 2 * power[i - 1] IN power[size]
Places(size) == 0..(Buckets(size) - 1)

Bucket(k, size) == Hash[k] % Buckets(size)

Chain(t, k) == t.root[Bucket(k, t.size)]

\* The position in a chain where a search for a key ends: the first node that
\* does not come before the key.
Stop(chain, k) ==
  CHOOSE i \in 1..(Len(chain) + 1) :
    /\ i <= Len(chain) => ~Precedes(KeyOf[chain[i]], k)
    /\ \A j \in 1..(i - 1) : Precedes(KeyOf[chain[j]], k)

Found(chain, k) ==
  LET i == Stop(chain, k) IN i <= Len(chain) /\ KeyOf[chain[i]] = k

\* Memory comes from an allocator; which of the free addresses it gives makes
\* no difference.
Free(k) == {n \in Nodes : ~node[n].live /\ KeyOf[n] = k}
NewNode(k) == CHOOSE n \in Free(k) : TRUE

Nowhere(size) == [b \in Places(size) |-> << >>]

-----------------------------------------------------------------------------
(* Growing and shrinking. *)

\* The nodes of a chain that go into bucket b, in their order.
Part(chain, b, size) ==
  LET part[i \in 0..Len(chain)] ==
        IF i = 0 THEN << >>
        ELSE IF Bucket(KeyOf[chain[i]], size) = b THEN Append(part[i - 1], chain[i])
        ELSE part[i - 1]
  IN  part[Len(chain)]

\* ht_grow: the nodes whose place changes are appended to their new chains.
\* Those of one new bucket come from a single old one, in their order.
Grow(t, size) ==
  [t EXCEPT !.size = size,
            !.root = [b \in Places(size) |-> Part(t.root[b % Buckets(t.size)], b, size)]]

\* A node is put in its place.
Put(root, n, size) ==
  [root EXCEPT ![Bucket(KeyOf[n], size)] = InsertAt(@, Stop(@, KeyOf[n]), n)]

Move_appends(root, chain, size) ==
  LET moved[i \in 0..Len(chain)] ==
        IF i = 0 THEN root
        ELSE [moved[i - 1] EXCEPT ![Bucket(KeyOf[chain[i]], size)] = Append(@, chain[i])]
  IN  moved[Len(chain)]

\* One node of a chain after the other.
Move(root, chain, size) ==
  LET moved[i \in 0..Len(chain)] ==
        IF i = 0 THEN root ELSE Put(moved[i - 1], chain[i], size)
  IN  moved[Len(chain)]

\* ht_shrink: the chains of the upper buckets are moved into the lower ones.
Shrink(t, size) ==
  LET upper == Buckets(t.size) - Buckets(size)
      root[i \in 0..upper] ==
        IF i = 0 THEN [b \in Places(size) |-> t.root[b]]
        ELSE Move(root[i - 1], t.root[Buckets(size) + i - 1], size)
  IN  [t EXCEPT !.size = size, !.root = root[upper]]

\* CHECK_AUTOGROW.
Grown(t) ==
  IF /\ "HT_AUTOGROW" \in t.flags /\ t.size < MaxSize
     /\ t.count \div Buckets(t.size + Dyades) > 0
  THEN Grow(t, t.size + 1) ELSE t

\* CHECK_AUTOSHRINK.  The count is shifted by a negative number if the size is
\* less than Dyades: the result of that is undefined.
Shrunk(t) ==
  IF "HT_AUTOSHRINK" \notin t.flags \/ t.size <= 1 THEN {t}
  ELSE IF t.size < Dyades THEN {t, Shrink(t, t.size - 1)}
  ELSE IF t.count \div Buckets(t.size - Dyades) = 0 THEN {Shrink(t, t.size - 1)}
  ELSE {t}

-----------------------------------------------------------------------------
Init == /\ table = [h \in Tables |-> NoTable]
        /\ node = [n \in Nodes |-> Freed]
        /\ iter = NoIter
        /\ call = [fn |-> "", args |-> << >>, gives |-> NULL]

\* What the caller has to keep: it does not change a table it walks along.
MayChange(h) == table[h].live /\ iter.table # h

Called(fn, args, gives) == call' = [fn |-> fn, args |-> args, gives |-> gives]
Return(fn, args, gives) == Called(fn, args, gives) /\ UNCHANGED iter

Chained(h) == UNION {Range(table[h].root[b]) : b \in DOMAIN table[h].root}
InTable(h) == IF table[h].live THEN Chained(h) ELSE {}

\* Allocated, and in no table: in the hands of the caller.
Loose == {n \in Nodes : node[n].live} \ UNION {InTable(h) : h \in Tables}

HT_new_ex(h, size, flags) ==
  /\ ~table[h].live
  /\ table' = [table EXCEPT ![h] = [live |-> TRUE, count |-> 0, size |-> size, flags |-> flags,
                                    root |-> Nowhere(size)]]
  /\ UNCHANGED node /\ Return("HT_new_ex", <<h, size, flags>>, NULL)

\* Of an empty table: the code asserts it.
HT_delete(h) ==
  /\ MayChange(h) /\ table[h].count = 0
  /\ table' = [table EXCEPT ![h] = NoTable]
  /\ UNCHANGED node /\ Return("HT_delete", <<h>>, NULL)

FreeAll(h) == node' = [n \in Nodes |-> IF n \in InTable(h) THEN Freed ELSE node[n]]

HT_flush_keepsCount(h) ==
  /\ MayChange(h)
  /\ table' = [table EXCEPT ![h].root = Nowhere(table[h].size)]
  /\ FreeAll(h) /\ Return("HT_flush", <<h>>, NULL)

HT_flush(h) ==
  /\ MayChange(h)
  /\ IF table[h].count = 0 THEN UNCHANGED <<table, node>>
     ELSE /\ table' = [table EXCEPT ![h] = [table[h] EXCEPT !.count = 0,
                                                           !.root = Nowhere(table[h].size)]]
          /\ FreeAll(h)
  /\ Return("HT_flush", <<h>>, NULL)

HT_destroy(h) ==
  /\ MayChange(h)
  /\ table' = [table EXCEPT ![h] = NoTable]
  /\ FreeAll(h) /\ Return("HT_destroy", <<h>>, NULL)

HT_clone_reversed(s, d) ==
  LET copy == [m \in InTable(s) |-> NewNode(KeyOf[m])]
      root == [b \in DOMAIN table[s].root |->
                 Reverse([i \in DOMAIN table[s].root[b] |-> copy[table[s].root[b][i]]])]
  IN  /\ table[s].live /\ ~table[d].live
      /\ \A m \in InTable(s) : Free(KeyOf[m]) # {}
      /\ table' = [table EXCEPT ![d] = [table[s] EXCEPT !.root = root]]
      /\ node' = [n \in Nodes |->
                    IF n \in Range(copy) THEN node[CHOOSE m \in InTable(s) : copy[m] = n]
                    ELSE node[n]]
      /\ Return("HT_clone", <<s, d>>, NULL)

\* Every chain is copied, in its order; the objects are copied by a function
\* of the caller, or shared.
HT_clone(s, d) ==
  LET copy == [m \in InTable(s) |-> NewNode(KeyOf[m])]
      root == [b \in DOMAIN table[s].root |->
                 [i \in DOMAIN table[s].root[b] |-> copy[table[s].root[b][i]]]]
  IN  /\ table[s].live /\ ~table[d].live
      /\ \A m \in InTable(s) : Free(KeyOf[m]) # {}
      /\ table' = [table EXCEPT ![d] = [table[s] EXCEPT !.root = root]]
      /\ node' = [n \in Nodes |->
                    IF n \in Range(copy) THEN node[CHOOSE m \in InTable(s) : copy[m] = n]
                    ELSE node[n]]
      /\ Return("HT_clone", <<s, d>>, NULL)

HT_resize(h, size) ==
  /\ MayChange(h)
  /\ LET t == table[h]
     IN  table' = [table EXCEPT ![h] = IF size > t.size THEN Grow(t, size)
                                      ELSE IF size < t.size THEN Shrink(t, size) ELSE t]
  /\ UNCHANGED node /\ Return("HT_resize", <<h, size>>, NULL)

-----------------------------------------------------------------------------
(* Nodes. *)

HN_new(k) == /\ Free(k) # {}
             /\ node' = [node EXCEPT ![NewNode(k)] = [live |-> TRUE, pObj |-> NULL]]
             /\ UNCHANGED table /\ Return("HN_new", <<k>>, NULL)

\* Not of a node in a table, the code asserts that it has no object.
HN_delete(n) == /\ n \in Loose /\ node[n].pObj = NULL
                /\ node' = [node EXCEPT ![n] = Freed]
                /\ UNCHANGED table /\ Return("HN_delete", <<n>>, NULL)

Inserted(t, n) == [t EXCEPT !.count = t.count + 1, !.root = Put(t.root, n, t.size)]

\* The end of HT_storenode and HT_store, for the key of node n in table h, of
\* which t is what it may have grown to: even if n is not stored.
Stored(h, t, n, o, fn, args) ==
  LET k == KeyOf[n]
  IN  IF Found(Chain(t, k), k)
      THEN /\ table' = [table EXCEPT ![h] = t] /\ UNCHANGED node
           /\ Return(fn, args, 0)
      ELSE /\ table' = [table EXCEPT ![h] = Inserted(t, n)]
           /\ node' = [node EXCEPT ![n] = [live |-> TRUE, pObj |-> o]]
           /\ Return(fn, args, t.count + 1)

HT_storenode(h, n, o) ==
  /\ MayChange(h) /\ n \in Loose
  /\ Stored(h, Grown(table[h]), n, o, "HT_storenode", <<h, n, o, KeyOf[n]>>)

\* A node is allocated if the key is not there.
HT_store(h, k, o) ==
  LET t == Grown(table[h])
      n == IF Found(Chain(t, k), k) THEN CHOOSE m \in InTable(h) : KeyOf[m] = k ELSE NewNode(k)
  IN  /\ MayChange(h) /\ (Found(Chain(t, k), k) \/ Free(k) # {})
      /\ Stored(h, t, n, o, "HT_store", <<h, k, o>>)

\* The chains without node n.
Drop(root, n, size) ==
  [root EXCEPT ![Bucket(KeyOf[n], size)] = RemoveAt(@, CHOOSE i \in DOMAIN @ : @[i] = n)]

Unlinked(t, n) == [t EXCEPT !.count = t.count - 1, !.root = Drop(t.root, n, t.size)]

\* How HT_fetchnode, HT_rmnode and HT_fetch end: node n, or NULL if they found
\* none, leaves the table, and is as they leave it.
Taken(h, n, after, fn, args) ==
  IF n = NULL THEN UNCHANGED <<table, node>> /\ Return(fn, args, NULL)
  ELSE /\ \E t \in Shrunk(Unlinked(table[h], n)) : table' = [table EXCEPT ![h] = t]
       /\ node' = [node EXCEPT ![n] = after]
       /\ Return(fn, args, node[n].pObj)

\* A node is looked for in the bucket it belongs to, by its address.
Present(h, n) == IF n \in Range(Chain(table[h], KeyOf[n])) THEN n ELSE NULL

\* The node of a key.
Lookup(h, k) ==
  LET chain == Chain(table[h], k)
  IN  IF table[h].count # 0 /\ Found(chain, k) THEN chain[Stop(chain, k)] ELSE NULL

HT_fetchnode(h, n) ==
  /\ MayChange(h) /\ node[n].live
  /\ Taken(h, Present(h, n), [live |-> TRUE, pObj |-> NULL], "HT_fetchnode", <<h, n>>)

HT_rmnode(h, n) ==
  /\ MayChange(h) /\ node[n].live
  /\ Taken(h, Present(h, n), Freed, "HT_rmnode", <<h, n>>)

HT_fetch(h, k) == MayChange(h) /\ Taken(h, Lookup(h, k), Freed, "HT_fetch", <<h, k>>)

HT_get(h, k) ==
  /\ table[h].live /\ UNCHANGED <<table, node>>
  /\ LET n == Lookup(h, k) IN Return("HT_get", <<h, k>>, IF n = NULL THEN NULL ELSE node[n].pObj)

HT_exists(h, k) ==
  /\ table[h].live /\ UNCHANGED <<table, node>>
  /\ Return("HT_exists", <<h, k>>, Lookup(h, k) # NULL)

-----------------------------------------------------------------------------
(* Iterators. *)

HI_init(h) ==
  /\ table[h].live
  /\ iter' = [table |-> h, rest |-> table[h].root[0], bucket |-> 1, remain |-> Buckets(table[h].size)]
  /\ Called("HI_init", <<h>>, NULL) /\ UNCHANGED <<table, node>>

\* HI_next: the rest of the chain, else the first bucket after it that is not
\* empty.
HI_next ==
  LET t     == table[iter.table]
      next  == {b \in iter.bucket..(iter.bucket + iter.remain - 2) : t.root[b] # << >>}
      b     == CHOOSE x \in next : \A y \in next : x <= y
      Give(chain, bucket, remain) ==
        /\ iter' = [iter EXCEPT !.rest = Tail(chain), !.bucket = bucket, !.remain = remain]
        /\ Called("HI_next", << >>, <<KeyOf[Head(chain)], node[Head(chain)].pObj>>)
  IN  /\ iter # NoIter
      /\ UNCHANGED <<table, node>>
      /\ IF iter.rest # << >> THEN Give(iter.rest, iter.bucket, iter.remain)
         ELSE IF next # {} THEN Give(t.root[b], b + 1, iter.remain - (b + 1 - iter.bucket))
         ELSE iter' = NoIter /\ Called("HI_next", << >>, NULL)

Next ==
  \/ \E h \in Tables :
       \/ \E size \in Sizes, flags \in Flags : HT_new_ex(h, size, flags)
       \/ HT_delete(h) \/ HT_flush(h) \/ HT_destroy(h) \/ HI_init(h)
       \/ \E d \in Tables : HT_clone(h, d)
       \/ \E size \in Sizes : HT_resize(h, size)
       \/ \E n \in Nodes : \/ HT_fetchnode(h, n) \/ HT_rmnode(h, n)
                           \/ \E o \in Objs : HT_storenode(h, n, o)
       \/ \E k \in Keys : \/ HT_fetch(h, k) \/ HT_get(h, k) \/ HT_exists(h, k)
                          \/ \E o \in Objs : HT_store(h, k, o)
  \/ \E k \in Keys : HN_new(k)
  \/ \E n \in Nodes : HN_delete(n)
  \/ HI_next

Spec == Init /\ [][Next]_vars

-----------------------------------------------------------------------------
(* Properties. *)

\* Types, and that a node which is not allocated is in no table.
TypeOK ==
  /\ \A h \in Tables :
       \/ table[h] = NoTable
       \/ /\ table[h].size \in Sizes /\ table[h].flags \in Flags
          /\ table[h].root \in [Places(table[h].size) -> Seq({n \in Nodes : node[n].live})]
          /\ table[h].count \in 0..Cardinality(Nodes)
  /\ \A n \in Nodes : node[n].pObj \in Objs \cup {NULL}

\* A table is of its types; a node is in one table and at one place in it, and
\* has an object there; the count of a table is the number of its nodes.
NodesOnce ==
  /\ TypeOK
  /\ \A h, i \in Tables : h # i => InTable(h) \cap InTable(i) = {}
  /\ \A h \in Tables : table[h].live =>
       /\ table[h].count = Cardinality(Chained(h))
       /\ \A b \in DOMAIN table[h].root : IsInjective(table[h].root[b])
       /\ \A b, c \in DOMAIN table[h].root :
            b # c => Range(table[h].root[b]) \cap Range(table[h].root[c]) = {}
  /\ \A h \in Tables : \A n \in InTable(h) : node[n].pObj # NULL

\* In the order of a walk.
Order(h) ==
  FlattenSeq([i \in 1..Buckets(table[h].size) |->
                [j \in DOMAIN table[h].root[i - 1] |-> KeyOf[table[h].root[i - 1][j]]]])

\* A walk along a clone meets the keys in the order of a walk along the
\* original: clone_parse_info walks both at once to pair the objects of one
\* file (ctparse.c:1034-1047).
CloneKeepsOrder == [][\A s, d \in Tables : HT_clone(s, d) => Order(d)' = Order(s)]_vars

\* Growing and shrinking are not visible: every table is a map from keys to
\* objects, in which a search finds what was stored first, and a walk gives
\* each key once.
EntryOf(h, k) == CHOOSE n \in InTable(h) : KeyOf[n] = k
MapOf(h) ==
  IF ~table[h].live THEN [there |-> FALSE]
  ELSE [there |-> TRUE,
        at |-> [k \in {KeyOf[n] : n \in Chained(h)} |->
                  [entry |-> EntryOf(h, k), obj |-> node[EntryOf(h, k)].pObj]]]

\* The nodes an iterator has still to give.
Ahead ==
  IF iter = NoIter THEN {}
  ELSE Range(iter.rest) \cup
       UNION {Range(table[iter.table].root[b]) :
                b \in iter.bucket..(iter.bucket + iter.remain - 2)}

Maps == [h \in Tables |-> MapOf(h)]
Walked == [table |-> iter.table, left |-> {KeyOf[n] : n \in Ahead}]

Map == INSTANCE KeyMap WITH map <- Maps, walk <- Walked

ImplementsMap == Map!MapSpec

=============================================================================
