----------------------------- MODULE LinkedList -----------------------------
(***************************************************************************)
(* util/list.c: doubly linked lists.  A list is a ring of links that       *)
(* begins and ends at a link inside the list itself, the only one without  *)
(* an object.  Addresses of lists stand for those links.  A caller that    *)
(* walks along a list does not change it before the walk is over.          *)
(***************************************************************************)
EXTENDS Integers, Sequences, SequencesExt, FiniteSets

CONSTANTS Lists,    \* addresses of lists
          Links,    \* addresses of the other links
          Items,    \* objects: numbers, which LL_sort compares
          Nil       \* NULL

\* There is as much memory as there is; objects are not NULL.
ASSUME ListAssumption ==
  /\ Lists \cap Links = {} /\ Nil \notin Lists \cup Links /\ Nil \notin Items
  /\ Items \subseteq Int /\ IsFiniteSet(Links)

VARIABLES next, prev, pObj,  \* the fields of a link
          size,              \* list |-> its size
          live,              \* the addresses that are allocated
          li,                \* a ListIterator: list and current link
          listCall           \* the last call, and what it returned

listVars == <<next, prev, pObj, size, live, li, listCall>>
ring == <<next, prev, pObj, size, live>>

Cells == Lists \cup Links
NoWalk == [list |-> Nil, cur |-> Nil]
ListCalled(fn, args, gives) == listCall' = [fn |-> fn, args |-> args, gives |-> gives]

\* Memory comes from an allocator; which of the free addresses it gives makes
\* no difference.
Spare == Links \ live
Full == Spare = {}
NewLink == CHOOSE c \in Spare : TRUE
NewList == CHOOSE l \in Lists \ live : TRUE

ListInit == /\ next = [c \in Cells |-> Nil] /\ prev = [c \in Cells |-> Nil]
        /\ pObj = [c \in Cells |-> Nil] /\ size = [l \in Lists |-> 0]
        /\ live = {} /\ li = NoWalk
        /\ listCall = [fn |-> "", args |-> << >>, gives |-> Nil]

There(l) == l \in live
MayRelink(l) == There(l) /\ li.list # l
ListReturn(fn, args, gives) == ListCalled(fn, args, gives) /\ UNCHANGED li

\* Following the links n times.
After(c, n) == LET walk[i \in 0..n] == IF i = 0 THEN c ELSE next[walk[i - 1]] IN walk[n]
Before(c, n) == LET walk[i \in 0..n] == IF i = 0 THEN c ELSE prev[walk[i - 1]] IN walk[n]

\* GetLink: -1 is the last link.
GetLink(l, item) ==
  IF item < 0 THEN (IF -item > size[l] THEN Nil ELSE Before(l, -item))
  ELSE IF item >= size[l] THEN Nil ELSE After(l, item + 1)

Insert_oneWay(l, at, o) ==
  LET c == NewLink
  IN  /\ ~Full
      /\ next' = [next EXCEPT ![c] = at, ![prev[at]] = c]
      /\ prev' = [prev EXCEPT ![c] = prev[at]]
      /\ pObj' = [pObj EXCEPT ![c] = o]
      /\ size' = [size EXCEPT ![l] = @ + 1]
      /\ live' = live \cup {c}

\* Insert: a new link before link at.
Insert(l, at, o) ==
  LET c == NewLink
  IN  /\ ~Full
      /\ next' = [next EXCEPT ![c] = at, ![prev[at]] = c]
      /\ prev' = [prev EXCEPT ![c] = prev[at], ![at] = c]
      /\ pObj' = [pObj EXCEPT ![c] = o]
      /\ size' = [size EXCEPT ![l] = @ + 1]
      /\ live' = live \cup {c}

\* Extract.
Extract(l, c) ==
  /\ next' = [next EXCEPT ![prev[c]] = next[c], ![c] = Nil]
  /\ prev' = [prev EXCEPT ![next[c]] = prev[c], ![c] = Nil]
  /\ pObj' = [pObj EXCEPT ![c] = Nil]
  /\ size' = [size EXCEPT ![l] = @ - 1]
  /\ live' = live \ {c}

Nothing == UNCHANGED ring

-----------------------------------------------------------------------------
Unlisted == Lists \ live # {}

LL_new ==
  LET l == NewList
  IN  /\ Unlisted
      /\ next' = [next EXCEPT ![l] = l] /\ prev' = [prev EXCEPT ![l] = l]
      /\ live' = live \cup {l} /\ UNCHANGED <<pObj, size>>
      /\ ListReturn("LL_new", <<l>>, Nil)

\* The links of a list.
Linked(l) == {After(l, i) : i \in 1..size[l]}

\* What is freed is forgotten.
Gone(cells) ==
  /\ next' = [c \in Cells |-> IF c \in cells THEN Nil ELSE next[c]]
  /\ prev' = [c \in Cells |-> IF c \in cells THEN Nil ELSE prev[c]]
  /\ pObj' = [c \in Cells |-> IF c \in cells THEN Nil ELSE pObj[c]]
  /\ size' = [l \in Lists |-> IF l \in cells THEN 0 ELSE size[l]]
  /\ live' = live \ cells

\* Of a list that is not empty: nothing happens.
LL_delete(l) ==
  /\ MayRelink(l)
  /\ IF size[l] = 0 THEN Gone({l}) ELSE Nothing
  /\ ListReturn("LL_delete", <<l>>, Nil)

\* One link after the other is taken from the front.
LL_flush(l) ==
  /\ MayRelink(l)
  /\ next' = [c \in Cells |-> IF c = l THEN l ELSE IF c \in Linked(l) THEN Nil ELSE next[c]]
  /\ prev' = [c \in Cells |-> IF c = l THEN l ELSE IF c \in Linked(l) THEN Nil ELSE prev[c]]
  /\ pObj' = [c \in Cells |-> IF c \in Linked(l) THEN Nil ELSE pObj[c]]
  /\ size' = [size EXCEPT ![l] = 0]
  /\ live' = live \ Linked(l)
  /\ ListReturn("LL_flush", <<l>>, Nil)

LL_destroy(l) ==
  MayRelink(l) /\ Gone({l} \cup Linked(l)) /\ ListReturn("LL_destroy", <<l>>, Nil)

LL_push(l, o) == MayRelink(l) /\ Insert(l, l, o) /\ ListReturn("LL_push", <<l, o>>, Nil)

LL_unshift(l, o) == MayRelink(l) /\ Insert(l, next[l], o) /\ ListReturn("LL_unshift", <<l, o>>, Nil)

\* Link c is taken out, if there is one, and its object returned.
Take(l, c, fn, args) ==
  /\ MayRelink(l)
  /\ IF c = Nil THEN Nothing ELSE Extract(l, c)
  /\ ListReturn(fn, args, IF c = Nil THEN Nil ELSE pObj[c])

LL_pop(l)   == Take(l, IF size[l] = 0 THEN Nil ELSE prev[l], "LL_pop", <<l>>)
LL_shift(l) == Take(l, IF size[l] = 0 THEN Nil ELSE next[l], "LL_shift", <<l>>)
LL_extract(l, item) == There(l) /\ Take(l, GetLink(l, item), "LL_extract", <<l, item>>)

LL_get(l, item) ==
  /\ There(l) /\ Nothing
  /\ LET c == GetLink(l, item)
     IN  ListReturn("LL_get", <<l, item>>, IF c = Nil THEN Nil ELSE pObj[c])

Behind_last(l, item) == IF item = size[l] THEN l ELSE GetLink(l, item)

\* The link an object is inserted before: -1 means the end, and -2 the place
\* before the last one.
Behind(l, item) ==
  IF item = -1 \/ item = size[l] THEN l
  ELSE GetLink(l, IF item < 0 THEN item + 1 ELSE item)

LL_insert(l, item, o) ==
  /\ MayRelink(l)
  /\ IF Behind(l, item) = Nil THEN Nothing ELSE Insert(l, Behind(l, item), o)
  /\ ListReturn("LL_insert", <<l, item, o>>, Nil)

\* The new links are pushed in the order of the old ones.
LL_clone(l) ==
  LET d == NewList
      copy == CHOOSE f \in [1..size[l] -> Spare] : IsInjective(f)
      at(i) == IF i \in 1..size[l] THEN copy[i] ELSE d
      place(c) == CHOOSE i \in 1..size[l] : copy[i] = c
  IN  /\ There(l) /\ Unlisted /\ size[l] <= Cardinality(Spare)
      /\ next' = [c \in Cells |-> IF c = d THEN at(1)
                                  ELSE IF c \in Range(copy) THEN at(place(c) + 1) ELSE next[c]]
      /\ prev' = [c \in Cells |-> IF c = d THEN at(size[l])
                                  ELSE IF c \in Range(copy) THEN at(place(c) - 1) ELSE prev[c]]
      /\ pObj' = [c \in Cells |-> IF c \in Range(copy) THEN pObj[After(l, place(c))] ELSE pObj[c]]
      /\ size' = [size EXCEPT ![d] = size[l]]
      /\ live' = live \cup {d} \cup Range(copy)
      /\ ListReturn("LL_clone", <<l, d>>, d)

-----------------------------------------------------------------------------
(* LL_splice. *)

\* Extracting: the links first..last are the ring of the new list n.
Cut(l, first, count, n) ==
  LET last == After(first, count - 1)
      b == prev[first]
      a == next[last]
  IN  IF count = 0
      THEN [next |-> [next EXCEPT ![n] = n], prev |-> [prev EXCEPT ![n] = n], size |-> size, at |-> first]
      ELSE [next |-> [next EXCEPT ![b] = a, ![n] = first, ![last] = n],
            prev |-> [prev EXCEPT ![a] = b, ![n] = last, ![first] = n],
            size |-> [size EXCEPT ![l] = @ - count, ![n] = count],
            at |-> a]

\* Replacing: the links of r go in before the place the cut ended at.
Fill(s, l, r) ==
  LET a == s.at
      b == s.prev[a]
      first == s.next[r]
      last == s.prev[r]
  IN  [next |-> [s.next EXCEPT ![last] = a, ![b] = first, ![r] = Nil],
       prev |-> [s.prev EXCEPT ![first] = b, ![a] = last, ![r] = Nil],
       size |-> [s.size EXCEPT ![l] = @ + s.size[r], ![r] = 0]]

\* How many links are taken: up to length, and no further than the last one.
TakenLinks(at, length) ==
  IF length = 0 THEN 0
  ELSE CHOOSE n \in 1..length :
         /\ n = length \/ pObj[After(at, n)] = Nil
         /\ \A m \in 1..(n - 1) : pObj[After(at, m)] # Nil

LL_splice(l, offset, length, r) ==
  LET n    == NewList
      at   == IF offset = size[l] THEN l ELSE GetLink(l, offset)
      want == IF length >= 0 THEN length ELSE IF offset < 0 THEN -offset ELSE size[l] - offset
      cut  == Cut(l, at, TakenLinks(at, want), n)
      done == IF r = Nil THEN cut ELSE Fill(cut, l, r)
  IN  /\ MayRelink(l) /\ Unlisted
      /\ IF at = Nil THEN Nothing
         ELSE /\ next' = done.next /\ prev' = done.prev /\ size' = done.size
              /\ UNCHANGED pObj
              /\ live' = (live \cup {n}) \ {r}
      /\ ListReturn("LL_splice", <<l, offset, length, r, n>>, IF at = Nil THEN Nil ELSE n)

\* What splice cannot do, and nobody asks of it: to take links from behind the
\* last one, where it takes the head of the ring; to put in an empty list, of
\* which the ring keeps a link to the freed head.
Spliceable(l, offset, length, r) ==
  /\ length > 0 => offset # size[l]
  /\ r # Nil => r # l /\ MayRelink(r) /\ size[r] > 0

-----------------------------------------------------------------------------
(* LL_sort. *)

Swapped(s, i, j) == [s EXCEPT ![i] = s[j], ![j] = s[i]]

\* One turn of a pass over the objects from c.i up and from c.j down, which is
\* over when the places have crossed.
Round(c, p) ==
  LET up   == CHOOSE x \in c.i..Len(c.objs) : c.objs[x] >= p /\ \A y \in c.i..(x - 1) : c.objs[y] < p
      down == CHOOSE x \in 1..c.j : c.objs[x] <= p /\ \A y \in (x + 1)..c.j : c.objs[y] > p
  IN  IF c.over THEN c
      ELSE IF up > c.j THEN [c EXCEPT !.i = up, !.over = TRUE]
      ELSE IF up > down THEN [c EXCEPT !.i = up, !.j = down, !.over = TRUE]
      ELSE [c EXCEPT !.objs = Swapped(@, up, down), !.i = up + 1, !.j = down - 1]

\* The pass over s[l..r]: the objects, and where it stopped.
Partition(s, p, l, r) ==
  LET turn[k \in 0..Len(s)] ==
        IF k = 0 THEN [objs |-> s, i |-> l, j |-> r, over |-> FALSE] ELSE Round(turn[k - 1], p)
  IN  turn[Len(s)]

Unsorted_pairsToo(l, r) == r - l + 1 > 2

\* There is something to sort between l and r.
Unsorted(l, r) == r - l + 1 > 1

\* A part of a list that is to be sorted: all objects, and the places of its
\* first and its last one.
Parts == {a \in [objs : Seq(Items), l : Nat, r : Nat] :
            1 <= a.l /\ a.l < a.r /\ a.r <= Len(a.objs)}

\* What QuickSort makes of a part, with sort for the parts of the part.
Sorting(sort, a) ==
  LET n     == a.r - a.l + 1
      pivot == a.objs[a.l + (IF n \div 2 > 1 THEN n \div 2 - 1 ELSE 0)]
      cut   == Partition(a.objs, pivot, a.l, a.r)
      low   == IF Unsorted(a.l, cut.j) THEN sort[[objs |-> cut.objs, l |-> a.l, r |-> cut.j]]
               ELSE cut.objs
  IN  IF Unsorted(cut.i, a.r) THEN sort[[objs |-> low, l |-> cut.i, r |-> a.r]] ELSE low

\* QuickSort of s[l..r].  A part of a list is shorter than the list, so that
\* the calls are not nested deeper than the list is long.
QuickSort(s, l, r) ==
  LET sort[n \in 0..Len(s)] ==
        IF n = 0 THEN [a \in Parts |-> a.objs] ELSE [a \in Parts |-> Sorting(sort[n - 1], a)]
  IN  sort[Len(s)][[objs |-> s, l |-> l, r |-> r]]

LL_sort(l) ==
  LET objs == [i \in 1..size[l] |-> pObj[After(l, i)]]
      done == QuickSort(objs, 1, size[l])
      place(c) == CHOOSE i \in 1..size[l] : After(l, i) = c
  IN  /\ MayRelink(l)
      /\ IF size[l] <= 1 THEN UNCHANGED pObj
         ELSE pObj' = [c \in Cells |-> IF c \in Linked(l) THEN done[place(c)] ELSE pObj[c]]
      /\ UNCHANGED <<next, prev, size, live>> /\ ListReturn("LL_sort", <<l>>, Nil)

-----------------------------------------------------------------------------
(* Iterators.  A walk is over when it is back at the head. *)

LI_init(l) ==
  /\ There(l) /\ UNCHANGED ring
  /\ li' = [list |-> l, cur |-> l] /\ ListCalled("LI_init", <<l>>, Nil)

Along(to, fn) ==
  /\ li # NoWalk /\ UNCHANGED ring
  /\ li' = IF to[li.cur] = li.list THEN NoWalk ELSE [li EXCEPT !.cur = to[li.cur]]
  /\ ListCalled(fn, <<li.list>>, pObj[to[li.cur]])

LI_next == Along(next, "LI_next")
LI_prev == Along(prev, "LI_prev")

\* One place beyond the ends of the list, in both directions.
Positions(l) == -(size[l] + 1)..(size[l] + 1)
Lengths(l) == -1..(size[l] + 1)

ListNext ==
  \/ \E l \in Lists :
       \/ LL_delete(l) \/ LL_flush(l) \/ LL_destroy(l) \/ LL_pop(l) \/ LL_shift(l)
       \/ LL_sort(l) \/ LL_clone(l) \/ LI_init(l)
       \/ \E o \in Items : LL_push(l, o) \/ LL_unshift(l, o)
       \/ \E item \in Positions(l) : \/ LL_extract(l, item) \/ LL_get(l, item)
                                     \/ \E o \in Items : LL_insert(l, item, o)
       \/ \E offset \in Positions(l), length \in Lengths(l), r \in Lists \cup {Nil} :
            There(l) /\ Spliceable(l, offset, length, r) /\ LL_splice(l, offset, length, r)
  \/ LL_new \/ LI_next \/ LI_prev

ListSpec == ListInit /\ [][ListNext]_listVars

-----------------------------------------------------------------------------
(* Properties. *)

\* Types, and that what is not allocated holds nothing.
ListTypeOK ==
  /\ \A c \in live : next[c] \in live /\ prev[c] \in live
  /\ \A c \in live : pObj[c] \in Items <=> c \in Links
  /\ \A c \in Cells \ live : next[c] = Nil /\ prev[c] = Nil /\ pObj[c] = Nil
  /\ li = NoWalk \/ {li.list, li.cur} \subseteq live

\* Every link is in the ring of one list, which has as many links as its size
\* says, backwards as forwards: none leaks, none is in two lists.
Rings ==
  /\ ListTypeOK
  /\ \A c \in live : prev[next[c]] = c /\ next[prev[c]] = c
  /\ \A l \in Lists \cap live : Cardinality(Linked(l)) = size[l] /\ next[After(l, size[l])] = l
  /\ live \cap Links = UNION {Linked(l) : l \in Lists \cap live}
  /\ \A k, l \in Lists \cap live : k # l => Linked(k) \cap Linked(l) = {}

\* A sequence of numbers is sorted by QuickSort, whatever its pivots are.
\* Checked where there are no lists yet.
SortsLength(n) ==
  \A s \in [1..n -> Items] :
    LET t == QuickSort(s, 1, n)
    IN  /\ \A i \in 1..(n - 1) : t[i] <= t[i + 1]
        /\ \A o \in Items : Cardinality({i \in 1..n : s[i] = o}) = Cardinality({i \in 1..n : t[i] = o})
QuickSortSorts == live = {} => \A n \in 2..5 : SortsLength(n)

\* A list is a sequence; no operation loses an object, repeats one or puts it
\* at another place than its caller was promised.
Contents(l) ==
  IF There(l) THEN [there |-> TRUE, objs |-> [i \in 1..size[l] |-> pObj[After(l, i)]]]
  ELSE [there |-> FALSE]

Promise == INSTANCE ListPromise
             WITH seq   <- [l \in Lists |-> Contents(l)],
                  place <- [list |-> li.list,
                            at |-> IF li.cur = li.list THEN 0
                                   ELSE CHOOSE i \in 1..size[li.list] :
                                          After(li.list, i) = li.cur],
                  call  <- listCall

KeepsPromise == Promise!PromiseSpec

=============================================================================
