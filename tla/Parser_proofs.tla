---------------------------- MODULE Parser_proofs ----------------------------
(***************************************************************************)
(* The lists and tables of declarations, for programs of any size, any     *)
(* nesting and any number of parse calls; and the linked lists themselves, *)
(* the structure that declarations, members and declarators are kept in,   *)
(* for any calls on any lists.                                             *)
(*                                                                         *)
(* Declarations.  Every step is a function of the unit.  The lemmas about  *)
(* a step say what it leaves as it is, and that what is referred to is     *)
(* there afterwards.                                                       *)
(*                                                                         *)
(* Linked lists.  LL_sort leaves every sequence sorted, and the same       *)
(* objects in it: the loops of a partition keep what is to the left of     *)
(* them small and what is to the right of them great, and induction over   *)
(* the length of a part does the rest.  The inductive invariant ListInv    *)
(* says that there are chains, one for each list, such that the links of a *)
(* list lead along its chain and back, and that no link is in two chains;  *)
(* a step is shown to keep it by naming the chains that are there after it.*)
(***************************************************************************)
EXTENDS Parser, LinkedList, FiniteSetTheorems, SequenceTheorems, WellFoundedInduction, TLAPS

Packings == {0, 1, 2, 4, 8}
Kinds == {"none", "basic", "null", "struct", "enum", "typedef"}
TypeSpec == [kind : Kinds, at : Nat, nth : Nat]
Declaration == [type : TypeSpec, pointers : Seq(BOOLEAN)]
StructDef == [name : Names, defined : BOOLEAN, pack : Packings, decls : Seq(Declaration),
              used : BOOLEAN]
EnumDef == [name : Names, defined : BOOLEAN, list : Seq(Nat), used : BOOLEAN]
EnumeratorDef == [name : Constants, value : Int]
Declarator == [name : TypeNames, pointer : BOOLEAN]
TypedefList == [type : TypeSpec, names : Seq(Declarator)]
Frame == [what : {"struct"}, name : Names, list : Seq(Declaration)]
         \cup [what : {"enum"}, name : Names, list : Seq(Nat)]

\* Partial functions.
Tables(D, S) == UNION {[E -> S] : E \in SUBSET D}

Unit == [structs : Seq(StructDef), htStructs : Tables(Names, Nat),
         enums : Seq(EnumDef), htEnums : Tables(Names, Nat),
         enumerators : Seq(EnumeratorDef), freed : SUBSET Nat,
         htEnumerators : Tables(Constants, Nat),
         typedefs : Seq(TypedefList), htTypedefs : Tables(TypeNames, TypeSpec),
         dumpedStructs : SUBSET Nat, dumpedEnums : SUBSET Nat,
         parsing : BOOLEAN, local : BOOLEAN, open : Seq(Frame), spec : TypeSpec,
         saved : Seq(Packings), current : Packings]

-----------------------------------------------------------------------------
(* Tables and lists. *)

LEMMA StoredType ==
  ASSUME NEW D, NEW S, NEW table \in Tables(D, S), NEW name \in D, NEW x \in S
  PROVE  Stored(table, name, x) \in Tables(D, S)
<1>1. table \in [DOMAIN table -> S] /\ DOMAIN table \subseteq D
  BY DEF Tables
<1>2. Stored(table, name, x) \in [DOMAIN table \cup {name} -> S]
  BY <1>1 DEF Stored
<1>3. DOMAIN table \cup {name} \in SUBSET D
  BY <1>1
<1> QED BY <1>2, <1>3 DEF Tables

LEMMA AppendFacts ==
  ASSUME NEW S, NEW s \in Seq(S), NEW x \in S
  PROVE  /\ Append(s, x) \in Seq(S) /\ Len(Append(s, x)) = Len(s) + 1
         /\ DOMAIN Append(s, x) = 1..(Len(s) + 1) /\ DOMAIN s = 1..Len(s) /\ Len(s) \in Nat
         /\ \A k \in DOMAIN s : Append(s, x)[k] = s[k]
         /\ Append(s, x)[Len(s) + 1] = x
OBVIOUS

LEMMA LastFacts ==
  ASSUME NEW S, NEW s \in Seq(S), s # << >>
  PROVE  /\ Last(s) \in S /\ Len(s) \in DOMAIN s /\ Last(s) = s[Len(s)]
         /\ Front(s) \in Seq(S) /\ DOMAIN Front(s) = 1..(Len(s) - 1) /\ DOMAIN s = 1..Len(s)
         /\ Len(Front(s)) = Len(s) - 1 /\ Len(s) \in Nat
         /\ \A k \in DOMAIN Front(s) : k \in DOMAIN s /\ Front(s)[k] = s[k]
<1>1. Len(s) \in Nat /\ Len(s) >= 1 /\ DOMAIN s = 1..Len(s)
  OBVIOUS
<1>2. Len(s) \in DOMAIN s /\ s[Len(s)] \in S
  BY <1>1
<1>3. /\ Front(s) \in Seq(S) /\ Len(Front(s)) = Len(s) - 1
      /\ \A k \in 1..(Len(s) - 1) : Front(s)[k] = s[k]
  BY <1>1 DEF Front
<1> QED BY <1>1, <1>2, <1>3 DEF Last

\* The last one is replaced.
LEMMA ReplaceFacts ==
  ASSUME NEW S, NEW s \in Seq(S), s # << >>, NEW x \in S
  PROVE  LET t == Append(Front(s), x)
         IN  /\ t \in Seq(S) /\ DOMAIN t = DOMAIN s
             /\ \A k \in DOMAIN t : t[k] = x \/ (k \in DOMAIN s /\ t[k] = s[k])
<1>1. Front(s) \in Seq(S) /\ Len(Front(s)) = Len(s) - 1 /\ DOMAIN s = 1..Len(s) /\ Len(s) \in Nat
      /\ Len(s) \in DOMAIN s
      /\ \A k \in DOMAIN Front(s) : k \in DOMAIN s /\ Front(s)[k] = s[k]
  BY LastFacts
<1> QED BY <1>1, AppendFacts

LEMMA ExceptFacts ==
  ASSUME NEW S, NEW s \in Seq(S), NEW i \in DOMAIN s, NEW x \in S
  PROVE  LET t == [s EXCEPT ![i] = x]
         IN  /\ t \in Seq(S) /\ DOMAIN t = DOMAIN s /\ Len(t) = Len(s) /\ t[i] = x
             /\ \A k \in DOMAIN s \ {i} : t[k] = s[k]
OBVIOUS

LEMMA TablesFacts ==
  ASSUME NEW D, NEW S, NEW table \in Tables(D, S)
  PROVE  DOMAIN table \subseteq D /\ \A y \in DOMAIN table : table[y] \in S
BY DEF Tables

-----------------------------------------------------------------------------
(* The invariant. *)

\* What lists and tables refer to is there, and there is one of each name.
InfoOK(u) ==
  /\ \A i \in DOMAIN u.structs : \A k \in DOMAIN u.structs[i].decls :
       Valid(u, u.structs[i].decls[k].type)
  /\ \A i \in DOMAIN u.typedefs : Valid(u, u.typedefs[i].type)
  /\ \A x \in DOMAIN u.htTypedefs : Valid(u, u.htTypedefs[x])
  /\ Unnamed \notin DOMAIN u.htStructs /\ Unnamed \notin DOMAIN u.htEnums
  /\ \A x \in DOMAIN u.htStructs : u.htStructs[x] \in DOMAIN u.structs
  /\ \A x \in DOMAIN u.htEnums : u.htEnums[x] \in DOMAIN u.enums
  /\ \A i \in DOMAIN u.structs : u.structs[i].name # Unnamed =>
       u.structs[i].name \in DOMAIN u.htStructs /\ u.htStructs[u.structs[i].name] = i
  /\ \A i \in DOMAIN u.enums : u.enums[i].name # Unnamed =>
       u.enums[i].name \in DOMAIN u.htEnums /\ u.htEnums[u.enums[i].name] = i
  /\ u.freed \subseteq DOMAIN u.enumerators

\* The same of what is open.
FrameOK(u, f) ==
  /\ f.what = "struct" => \A k \in DOMAIN f.list : Valid(u, f.list[k].type)
  /\ f.what = "enum" => \A k \in DOMAIN f.list : f.list[k] \in DOMAIN u.enumerators
  /\ u.local => f.list = << >>
OpenOK(u) == \A k \in DOMAIN u.open : FrameOK(u, u.open[k])

Intact(u) == u \in Unit /\ InfoOK(u) /\ OpenOK(u) /\ Valid(u, u.spec)

\* DefinitionsStay, from u to v.
Stay(u, v) ==
  /\ \A i \in DOMAIN u.structs :
       LET s == u.structs[i]  t == v.structs[i]
       IN  s.name = t.name /\ (s.defined => [t EXCEPT !.used = s.used] = s)
  /\ \A i \in DOMAIN u.enums :
       LET e == u.enums[i]  f == v.enums[i]
       IN  e.name = f.name /\ (e.defined => [f EXCEPT !.used = e.used] = e)
  /\ \A x \in DOMAIN u.htTypedefs : v.htTypedefs[x] = u.htTypedefs[x]
  /\ \A x \in DOMAIN u.htEnumerators : v.htEnumerators[x] = u.htEnumerators[x]
  /\ IsPrefix(u.typedefs, v.typedefs)

\* Lists only grow, so that what was there is there.
Grows(u, v) ==
  /\ DOMAIN u.structs \subseteq DOMAIN v.structs
  /\ DOMAIN u.enums \subseteq DOMAIN v.enums
  /\ DOMAIN u.enumerators \subseteq DOMAIN v.enumerators
  /\ \A i \in DOMAIN u.typedefs : i \in DOMAIN v.typedefs /\ v.typedefs[i] = u.typedefs[i]
  /\ DOMAIN u.htTypedefs \subseteq DOMAIN v.htTypedefs
  /\ DOMAIN u.htEnumerators \subseteq DOMAIN v.htEnumerators

\* What every step has to do.
Good(u, v) == Intact(v) /\ Stay(u, v) /\ Grows(u, v) /\ (u.local => Info(v) = Info(u))

-----------------------------------------------------------------------------
(* What stays, over one step and over two. *)

LEMMA ValidStays ==
  ASSUME NEW u, NEW v, Grows(u, v), NEW t, Valid(u, t)
  PROVE  Valid(v, t)
BY DEF Grows, Valid

LEMMA FrameStays ==
  ASSUME NEW u, NEW v, Grows(u, v), v.local => u.local, NEW f, FrameOK(u, f)
  PROVE  FrameOK(v, f)
BY ValidStays DEF Grows, FrameOK

LEMMA SimpleTypes ==
  /\ {NoType, BasicType, NullType} \subseteq TypeSpec
  /\ \A u : Valid(u, NoType) /\ Valid(u, BasicType) /\ Valid(u, NullType)
BY DEF NoType, BasicType, NullType, Type, TypeSpec, Kinds, Valid

LEMMA SelfStays ==
  ASSUME NEW u \in Unit
  PROVE  Stay(u, u)
<1>1. ASSUME NEW i \in DOMAIN u.structs
      PROVE  [u.structs[i] EXCEPT !.used = u.structs[i].used] = u.structs[i]
  <2>1. u.structs[i] \in StructDef
    BY DEF Unit
  <2> QED BY <2>1 DEF StructDef
<1>2. ASSUME NEW i \in DOMAIN u.enums
      PROVE  [u.enums[i] EXCEPT !.used = u.enums[i].used] = u.enums[i]
  <2>1. u.enums[i] \in EnumDef
    BY DEF Unit
  <2> QED BY <2>1 DEF EnumDef
<1>3. IsPrefix(u.typedefs, u.typedefs)
  <2>1. Len(u.typedefs) \in Nat
    BY DEF Unit
  <2> QED BY <2>1 DEF IsPrefix
<1> QED BY <1>1, <1>2, <1>3 DEF Stay

\* A step that changes no list and no table.
LEMMA SameInfo ==
  ASSUME NEW u, Intact(u), NEW v \in Unit, Info(v) = Info(u),
         \A k \in DOMAIN v.open : (k \in DOMAIN u.open /\ v.open[k] = u.open[k])
                                  \/ v.open[k].list = << >>,
         v.local => u.local \/ v.open = << >>,
         Valid(u, v.spec)
  PROVE  Good(u, v)
<1>1. /\ v.structs = u.structs /\ v.htStructs = u.htStructs /\ v.enums = u.enums
      /\ v.htEnums = u.htEnums /\ v.enumerators = u.enumerators /\ v.freed = u.freed
      /\ v.htEnumerators = u.htEnumerators /\ v.typedefs = u.typedefs
      /\ v.htTypedefs = u.htTypedefs
  BY DEF Info
<1>2. Grows(u, v)
  BY <1>1 DEF Grows
<1>3. InfoOK(v)
  BY <1>1, <1>2, ValidStays DEF InfoOK, Intact
<1>4. ASSUME NEW k \in DOMAIN v.open
      PROVE  FrameOK(v, v.open[k])
  <2>1. CASE v.open[k].list = << >>
    BY <2>1 DEF FrameOK
  <2>2. CASE k \in DOMAIN u.open /\ v.open[k] = u.open[k]
    <3>1. FrameOK(u, v.open[k])
      BY <2>2 DEF Intact, OpenOK
    <3>2. v.local => u.local
      BY <1>4
    <3> QED BY <1>2, <3>1, <3>2, FrameStays
  <2> QED BY <2>1, <2>2
<1>5. Stay(u, v)
  <2>1. Stay(u, u)
    BY SelfStays DEF Intact
  <2> QED BY <1>1, <2>1 DEF Stay
<1> QED BY <1>2, <1>3, <1>4, <1>5, ValidStays DEF Good, Intact, OpenOK

LEMMA UnitFields ==
  ASSUME NEW u \in Unit
  PROVE  /\ u.parsing \in BOOLEAN /\ u.local \in BOOLEAN /\ u.open \in Seq(Frame)
         /\ u.spec \in TypeSpec /\ u.saved \in Seq(Packings) /\ u.current \in Packings
BY DEF Unit

LEMMA EmptyFacts ==
  /\ << >> \in Seq(Packings) /\ << >> \in Seq(Frame) /\ 0 \in Packings
  /\ << >> \in Seq(Declaration) /\ << >> \in Seq(Nat)
BY DEF Packings

LEMMA SpecGood ==
  ASSUME NEW u, Intact(u), NEW t \in TypeSpec, Valid(u, t)
  PROVE  Good(u, [u EXCEPT !.spec = t])
<1> DEFINE v == [u EXCEPT !.spec = t]
<1>1. u \in Unit
  BY DEF Intact
<1>2. v \in Unit /\ Info(v) = Info(u) /\ v.open = u.open /\ v.local = u.local /\ v.spec = t
  BY <1>1 DEF Unit, Info
<1> HIDE DEF v
<1> QED BY <1>2, SameInfo DEF v

LEMMA PragmaGood ==
  ASSUME NEW u, Intact(u), NEW n
  PROVE  /\ Good(u, PackSet(u, n)) /\ Good(u, PackReset(u))
         /\ Good(u, PackPush(u, n)) /\ Good(u, PackPop(u))
<1>1. u \in Unit /\ Valid(u, u.spec)
  BY DEF Intact
<1>2. ASSUME NEW saved \in Seq(Packings), NEW current \in Packings
      PROVE  Good(u, [u EXCEPT !.saved = saved, !.current = current])
  <2> DEFINE v == [u EXCEPT !.saved = saved, !.current = current]
  <2>1. v \in Unit /\ Info(v) = Info(u) /\ v.open = u.open /\ v.local = u.local /\ v.spec = u.spec
    BY <1>1 DEF Unit, Info
  <2> HIDE DEF v
  <2> QED BY <1>1, <2>1, SameInfo DEF v
<1>3. u.saved \in Seq(Packings) /\ u.current \in Packings /\ 0 \in Packings
  BY <1>1, UnitFields, EmptyFacts
<1>4. /\ Good(u, u)
      /\ \A m \in Packings : Good(u, [u EXCEPT !.current = m])
  <2>1. u = [u EXCEPT !.saved = u.saved, !.current = u.current]
    BY <1>1 DEF Unit
  <2>2. ASSUME NEW m \in Packings
        PROVE  [u EXCEPT !.current = m] = [u EXCEPT !.saved = u.saved, !.current = m]
    BY <1>1 DEF Unit
  <2>3. Good(u, u)
    BY <1>2, <1>3, <2>1
  <2>4. ASSUME NEW m \in Packings
        PROVE  Good(u, [u EXCEPT !.current = m])
    BY <1>2, <1>3, <2>2
  <2> QED BY <2>3, <2>4
<1>5. ValidPack(n) => n \in Packings
  BY DEF ValidPack, Packings
<1>6. Good(u, PackSet(u, n)) /\ Good(u, PackReset(u))
  BY <1>3, <1>4, <1>5 DEF PackSet, PackReset
<1>7. Good(u, PackPush(u, n))
  <2>1. Append(u.saved, u.current) \in Seq(Packings)
    BY <1>3
  <2> QED BY <1>2, <1>4, <1>5, <2>1 DEF PackPush
<1>8. Good(u, PackPop(u))
  <2>1. u.saved # << >> => Front(u.saved) \in Seq(Packings) /\ Last(u.saved) \in Packings
    BY <1>3, LastFacts
  <2> QED BY <1>2, <1>3, <1>4, <2>1 DEF PackPop
<1> QED BY <1>6, <1>7, <1>8

LEMMA CallGood ==
  ASSUME NEW u, Intact(u)
  PROVE  /\ Good(u, NewParser(u))
         /\ Good(u, End(u))
         /\ u.open = << >> => Good(u, BEGIN_LOCAL(u))
         /\ Good(u, END_LOCAL(u))
<1>1. u \in Unit /\ Valid(u, u.spec) /\ Valid(u, NoType) /\ NoType \in TypeSpec
  BY SimpleTypes DEF Intact
<1>2. ASSUME NEW v \in Unit, Info(v) = Info(u), v.open = << >> \/ v.open = u.open,
             v.local => u.local \/ v.open = << >>, Valid(u, v.spec)
      PROVE  Good(u, v)
  <2>1. \A k \in DOMAIN v.open : k \in DOMAIN u.open /\ v.open[k] = u.open[k]
    BY <1>2
  <2> QED BY <1>2, <2>1, SameInfo
<1>3. Good(u, NewParser(u))
  <2> DEFINE v == NewParser(u)
  <2>1. v \in Unit /\ Info(v) = Info(u) /\ v.open = << >> /\ ~v.local /\ v.spec = NoType
    BY <1>1, EmptyFacts DEF NewParser, Unit, Info
  <2> HIDE DEF v
  <2> QED BY <1>1, <1>2, <2>1 DEF v
<1>4. Good(u, End(u))
  <2> DEFINE v == End(u)
  <2>1. v \in Unit /\ Info(v) = Info(u) /\ v.open = u.open /\ v.local = u.local
        /\ v.spec = u.spec
    BY <1>1, EmptyFacts DEF End, Unit, Info
  <2> HIDE DEF v
  <2> QED BY <1>1, <1>2, <2>1 DEF v
<1>5. ASSUME NEW local \in BOOLEAN, local => u.open = << >>
      PROVE  Good(u, [u EXCEPT !.local = local])
  <2> DEFINE v == [u EXCEPT !.local = local]
  <2>1. v \in Unit /\ Info(v) = Info(u) /\ v.open = u.open /\ v.local = local /\ v.spec = u.spec
    BY <1>1 DEF Unit, Info
  <2> HIDE DEF v
  <2> QED BY <1>1, <1>2, <1>5, <2>1 DEF v
<1> QED BY <1>3, <1>4, <1>5 DEF BEGIN_LOCAL, END_LOCAL

LEMMA GrowsPrefix ==
  ASSUME NEW u \in Unit, NEW v \in Unit, Grows(u, v)
  PROVE  IsPrefix(u.typedefs, v.typedefs)
<1>1. u.typedefs \in Seq(TypedefList) /\ v.typedefs \in Seq(TypedefList)
  BY DEF Unit
<1>2. \A i \in DOMAIN u.typedefs : i \in DOMAIN v.typedefs /\ v.typedefs[i] = u.typedefs[i]
  BY DEF Grows
<1>3. Len(u.typedefs) <= Len(v.typedefs)
  <2>1. CASE Len(u.typedefs) = 0
    BY <1>1, <2>1
  <2>2. CASE Len(u.typedefs) # 0
    <3>1. Len(u.typedefs) \in DOMAIN v.typedefs
      BY <1>1, <1>2, <2>2
    <3> QED BY <1>1, <3>1
  <2> QED BY <2>1, <2>2
<1> QED BY <1>1, <1>2, <1>3 DEF IsPrefix

\* Two steps, one after the other.
LEMMA StaysTwice ==
  ASSUME NEW u \in Unit, NEW v \in Unit, NEW w \in Unit,
         Stay(u, v), Grows(u, v), Stay(v, w), Grows(v, w)
  PROVE  Stay(u, w) /\ Grows(u, w)
<1>1. ASSUME NEW i \in DOMAIN u.structs
      PROVE  LET s == u.structs[i]  t == w.structs[i]
             IN  s.name = t.name /\ (s.defined => [t EXCEPT !.used = s.used] = s)
  <2>1. i \in DOMAIN v.structs /\ i \in DOMAIN w.structs
    BY DEF Grows
  <2>2. u.structs[i] \in StructDef /\ v.structs[i] \in StructDef /\ w.structs[i] \in StructDef
    <3>1. u.structs \in Seq(StructDef) /\ v.structs \in Seq(StructDef) /\ w.structs \in Seq(StructDef)
      BY DEF Unit
    <3> QED BY <2>1, <3>1
  <2> DEFINE r == u.structs[i]  s == v.structs[i]  t == w.structs[i]
  <2>3. /\ r.name = s.name /\ (r.defined => [s EXCEPT !.used = r.used] = r)
        /\ s.name = t.name /\ (s.defined => [t EXCEPT !.used = s.used] = s)
    BY <2>1 DEF Stay
  <2> HIDE DEF r, s, t
  <2>4. r \in StructDef /\ s \in StructDef /\ t \in StructDef
    BY <2>2 DEF r, s, t
  <2>5. r.name = t.name /\ (r.defined => [t EXCEPT !.used = r.used] = r)
    BY <2>3, <2>4 DEF StructDef
  <2> QED BY <2>5 DEF r, t
<1>2. ASSUME NEW i \in DOMAIN u.enums
      PROVE  LET e == u.enums[i]  f == w.enums[i]
             IN  e.name = f.name /\ (e.defined => [f EXCEPT !.used = e.used] = e)
  <2>1. i \in DOMAIN v.enums /\ i \in DOMAIN w.enums
    BY DEF Grows
  <2>2. u.enums[i] \in EnumDef /\ v.enums[i] \in EnumDef /\ w.enums[i] \in EnumDef
    <3>1. u.enums \in Seq(EnumDef) /\ v.enums \in Seq(EnumDef) /\ w.enums \in Seq(EnumDef)
      BY DEF Unit
    <3> QED BY <2>1, <3>1
  <2> DEFINE r == u.enums[i]  s == v.enums[i]  t == w.enums[i]
  <2>3. /\ r.name = s.name /\ (r.defined => [s EXCEPT !.used = r.used] = r)
        /\ s.name = t.name /\ (s.defined => [t EXCEPT !.used = s.used] = s)
    BY <2>1 DEF Stay
  <2> HIDE DEF r, s, t
  <2>4. r \in EnumDef /\ s \in EnumDef /\ t \in EnumDef
    BY <2>2 DEF r, s, t
  <2>5. r.name = t.name /\ (r.defined => [t EXCEPT !.used = r.used] = r)
    BY <2>3, <2>4 DEF EnumDef
  <2> QED BY <2>5 DEF r, t
<1>3. Grows(u, w)
  BY DEF Grows
<1>4. /\ \A x \in DOMAIN u.htTypedefs : w.htTypedefs[x] = u.htTypedefs[x]
      /\ \A x \in DOMAIN u.htEnumerators : w.htEnumerators[x] = u.htEnumerators[x]
  BY DEF Stay, Grows
<1>5. IsPrefix(u.typedefs, w.typedefs)
  BY <1>3, GrowsPrefix
<1> QED BY <1>1, <1>2, <1>3, <1>4, <1>5 DEF Stay

LEMMA GoodTwice ==
  ASSUME NEW u, Intact(u), NEW v, Good(u, v), NEW w, Good(v, w), v.local <=> u.local
  PROVE  Good(u, w)
<1>1. u \in Unit /\ v \in Unit /\ w \in Unit /\ Intact(w)
  BY DEF Good, Intact
<1>2. Stay(u, w) /\ Grows(u, w)
  BY <1>1, StaysTwice DEF Good
<1>3. u.local => Info(w) = Info(u)
  BY DEF Good
<1> QED BY <1>1, <1>2, <1>3 DEF Good

\* Lists that only get longer.
LEMMA StayWhen ==
  ASSUME NEW u \in Unit, NEW v \in Unit, Grows(u, v),
         \A i \in DOMAIN u.structs : v.structs[i] = u.structs[i],
         \A i \in DOMAIN u.enums : v.enums[i] = u.enums[i],
         \A x \in DOMAIN u.htTypedefs : v.htTypedefs[x] = u.htTypedefs[x],
         \A x \in DOMAIN u.htEnumerators : v.htEnumerators[x] = u.htEnumerators[x]
  PROVE  Stay(u, v)
<1>1. Stay(u, u)
  BY SelfStays
<1>2. IsPrefix(u.typedefs, v.typedefs)
  BY GrowsPrefix
<1> QED BY <1>1, <1>2 DEF Stay

LEMMA OpenStays ==
  ASSUME NEW u, OpenOK(u), NEW v, Grows(u, v), v.local => u.local, v.open = u.open
  PROVE  OpenOK(v)
BY FrameStays DEF OpenOK

-----------------------------------------------------------------------------
(* The parts that steps are made of. *)

LEMMA OpenGood ==
  ASSUME NEW u, Intact(u), NEW open \in Seq(Frame), \A k \in DOMAIN open : FrameOK(u, open[k])
  PROVE  Good(u, [u EXCEPT !.open = open])
<1> DEFINE v == [u EXCEPT !.open = open]
<1>1. u \in Unit /\ Valid(u, u.spec)
  BY DEF Intact
<1>2. v \in Unit /\ Info(v) = Info(u) /\ v.open = open /\ v.local = u.local /\ v.spec = u.spec
  BY <1>1 DEF Unit, Info
<1>3. /\ v.structs = u.structs /\ v.htStructs = u.htStructs /\ v.enums = u.enums
      /\ v.htEnums = u.htEnums /\ v.enumerators = u.enumerators /\ v.freed = u.freed
      /\ v.htEnumerators = u.htEnumerators /\ v.typedefs = u.typedefs
      /\ v.htTypedefs = u.htTypedefs
  BY <1>1 DEF Unit
<1> HIDE DEF v
<1>4. Grows(u, v)
  BY <1>3 DEF Grows
<1>5. InfoOK(v)
  BY <1>3, <1>4, ValidStays DEF InfoOK, Intact
<1>6. OpenOK(v)
  BY <1>2, <1>4, FrameStays DEF OpenOK
<1>7. Stay(u, v)
  BY <1>1, <1>2, <1>3, <1>4, StayWhen
<1> QED BY <1>1, <1>2, <1>4, <1>5, <1>6, <1>7, ValidStays DEF Good, Intact, v

\* The last one of those that are open is closed.
LEMMA PopGood ==
  ASSUME NEW u, Intact(u), u.open # << >>
  PROVE  LET f == Last(u.open)
         IN  /\ Good(u, [u EXCEPT !.open = Front(@)])
             /\ f \in Frame /\ FrameOK(u, f)
<1>1. u.open \in Seq(Frame)
  BY DEF Intact, Unit
<1>2. /\ Last(u.open) \in Frame /\ Len(u.open) \in DOMAIN u.open
      /\ Last(u.open) = u.open[Len(u.open)] /\ Front(u.open) \in Seq(Frame)
      /\ \A k \in DOMAIN Front(u.open) : k \in DOMAIN u.open /\ Front(u.open)[k] = u.open[k]
  BY <1>1, LastFacts
<1>3. FrameOK(u, Last(u.open)) /\ \A k \in DOMAIN Front(u.open) : FrameOK(u, Front(u.open)[k])
  BY <1>2 DEF Intact, OpenOK
<1> QED BY <1>2, <1>3, OpenGood

LEMMA OpenedGood ==
  ASSUME NEW u, Intact(u), NEW what \in {"struct", "enum"}, NEW name \in Names
  PROVE  Good(u, Opened(u, what, name))
<1> DEFINE f == [what |-> what, name |-> IF u.local THEN Unnamed ELSE name, list |-> << >>]
<1>1. f \in Frame /\ FrameOK(u, f)
  <2>1. (IF u.local THEN Unnamed ELSE name) \in Names
    BY DEF Names
  <2> QED BY <2>1, EmptyFacts DEF Frame, FrameOK
<1> HIDE DEF f
<1>2. u.open \in Seq(Frame) /\ \A k \in DOMAIN u.open : FrameOK(u, u.open[k])
  BY DEF Intact, Unit, OpenOK
<1> DEFINE open == Append(u.open, f)
<1>3. open \in Seq(Frame) /\ \A k \in DOMAIN open : FrameOK(u, open[k])
  BY <1>1, <1>2, AppendFacts
<1>4. Good(u, [u EXCEPT !.open = open])
  <2> HIDE DEF open
  <2> QED BY <1>3, OpenGood
<1> QED BY <1>4 DEF Opened, f, open

\* A struct is added.
LEMMA AddStructGood ==
  ASSUME NEW u, Intact(u), ~u.local, NEW name \in Names, name \notin DOMAIN u.htStructs,
         NEW defined \in BOOLEAN, NEW pack \in Packings, NEW decls \in Seq(Declaration),
         \A k \in DOMAIN decls : Valid(u, decls[k].type)
  PROVE  Good(u, AddStruct(u, name, defined, pack, decls))
<1> DEFINE s == [name |-> name, defined |-> defined, pack |-> pack, decls |-> decls, used |-> FALSE]
           i == Len(u.structs) + 1
           structs == Append(u.structs, s)
           table == IF name = Unnamed THEN u.htStructs ELSE Stored(u.htStructs, name, i)
           v == [u EXCEPT !.structs = structs, !.htStructs = table, !.spec = Type("struct", i)]
<1>1. AddStruct(u, name, defined, pack, decls) = v
  BY DEF AddStruct
<1>2. /\ u \in Unit /\ InfoOK(u) /\ OpenOK(u) /\ u.structs \in Seq(StructDef)
      /\ u.htStructs \in Tables(Names, Nat) /\ s \in StructDef
  BY DEF Intact, Unit, StructDef
<1>3. s.name = name /\ s.decls = decls
  OBVIOUS
<1> HIDE DEF s
<1>4. /\ structs \in Seq(StructDef) /\ DOMAIN structs = 1..i /\ DOMAIN u.structs = 1..(i - 1)
      /\ i \in Nat \ {0}
      /\ \A k \in DOMAIN u.structs : structs[k] = u.structs[k]
      /\ structs[i] = s
  BY <1>2, AppendFacts
<1> HIDE DEF structs, i
<1>5. /\ table \in Tables(Names, Nat)
      /\ DOMAIN table = DOMAIN u.htStructs \cup ({name} \ {Unnamed})
      /\ \A y \in DOMAIN u.htStructs : table[y] = u.htStructs[y]
      /\ name # Unnamed => table[name] = i
  <2>1. CASE name = Unnamed
    BY <1>2, <2>1
  <2>2. CASE name # Unnamed
    <3>1. Stored(u.htStructs, name, i) \in Tables(Names, Nat)
      BY <1>2, <1>4, StoredType
    <3> QED BY <2>2, <3>1 DEF Stored
  <2> QED BY <2>1, <2>2
<1> HIDE DEF table
<1>6. Type("struct", i) \in TypeSpec
  BY <1>4 DEF Type, TypeSpec, Kinds
<1>7. /\ v \in Unit /\ v.structs = structs /\ v.htStructs = table /\ v.spec = Type("struct", i)
      /\ v.enums = u.enums /\ v.htEnums = u.htEnums /\ v.enumerators = u.enumerators
      /\ v.freed = u.freed /\ v.htEnumerators = u.htEnumerators /\ v.typedefs = u.typedefs
      /\ v.htTypedefs = u.htTypedefs /\ v.open = u.open /\ v.local = u.local
  BY <1>2, <1>4, <1>5, <1>6 DEF Unit
<1> HIDE DEF v
<1>8. DOMAIN u.structs \subseteq DOMAIN structs /\ i \in DOMAIN structs
      /\ DOMAIN structs = DOMAIN u.structs \cup {i}
  BY <1>4
<1>9. Grows(u, v)
  BY <1>7, <1>8 DEF Grows
<1>10. Stay(u, v)
  BY <1>2, <1>4, <1>7, <1>9, StayWhen
<1>11. InfoOK(v)
  <2>1. ASSUME NEW k \in DOMAIN v.structs
        PROVE  \A n \in DOMAIN v.structs[k].decls : Valid(v, v.structs[k].decls[n].type)
    <3>1. CASE k = i
      BY <1>3, <1>4, <1>7, <1>9, <3>1, ValidStays
    <3>2. CASE k \in DOMAIN u.structs
      BY <1>2, <1>4, <1>7, <1>9, <3>2, ValidStays DEF InfoOK
    <3> QED BY <1>7, <1>8, <2>1, <3>1, <3>2
  <2>2. /\ \A k \in DOMAIN v.typedefs : Valid(v, v.typedefs[k].type)
        /\ \A x \in DOMAIN v.htTypedefs : Valid(v, v.htTypedefs[x])
    BY <1>2, <1>7, <1>9, ValidStays DEF InfoOK
  <2>3. /\ Unnamed \notin DOMAIN v.htStructs
        /\ \A x \in DOMAIN v.htStructs : v.htStructs[x] \in DOMAIN v.structs
    BY <1>2, <1>5, <1>7, <1>8 DEF InfoOK
  <2>4. ASSUME NEW k \in DOMAIN v.structs, v.structs[k].name # Unnamed
        PROVE  v.structs[k].name \in DOMAIN v.htStructs /\ v.htStructs[v.structs[k].name] = k
    BY <1>2, <1>3, <1>4, <1>5, <1>7, <1>8, <2>4 DEF InfoOK
  <2>5. /\ Unnamed \notin DOMAIN v.htEnums
        /\ \A x \in DOMAIN v.htEnums : v.htEnums[x] \in DOMAIN v.enums
        /\ \A k \in DOMAIN v.enums : v.enums[k].name # Unnamed =>
             v.enums[k].name \in DOMAIN v.htEnums /\ v.htEnums[v.enums[k].name] = k
        /\ v.freed \subseteq DOMAIN v.enumerators
    BY <1>2, <1>7 DEF InfoOK
  <2> QED BY <2>1, <2>2, <2>3, <2>4, <2>5 DEF InfoOK
<1>12. OpenOK(v)
  BY <1>2, <1>7, <1>9, OpenStays
<1>13. Valid(v, v.spec)
  BY <1>7, <1>8 DEF Valid, Type
<1> QED BY <1>1, <1>7, <1>9, <1>10, <1>11, <1>12, <1>13 DEF Good, Intact

\* A struct is changed, but neither its name nor, if it is defined, what it is.
LEMMA SetStructGood ==
  ASSUME NEW u, Intact(u), ~u.local, NEW i \in DOMAIN u.structs, NEW s \in StructDef,
         s.name = u.structs[i].name,
         u.structs[i].defined => [s EXCEPT !.used = u.structs[i].used] = u.structs[i],
         \A k \in DOMAIN s.decls : Valid(u, s.decls[k].type)
  PROVE  Good(u, [u EXCEPT !.structs[i] = s])
<1> DEFINE structs == [u.structs EXCEPT ![i] = s]
           v == [u EXCEPT !.structs = structs]
<1>1. [u EXCEPT !.structs[i] = s] = v
  OBVIOUS
<1>2. u \in Unit /\ InfoOK(u) /\ OpenOK(u) /\ Valid(u, u.spec) /\ u.structs \in Seq(StructDef)
  BY DEF Intact, Unit
<1>3. /\ structs \in Seq(StructDef) /\ DOMAIN structs = DOMAIN u.structs
      /\ structs[i] = s /\ \A k \in DOMAIN u.structs \ {i} : structs[k] = u.structs[k]
  BY <1>2, ExceptFacts
<1> HIDE DEF structs
<1>4. /\ v \in Unit /\ v.structs = structs /\ v.htStructs = u.htStructs /\ v.spec = u.spec
      /\ v.enums = u.enums /\ v.htEnums = u.htEnums /\ v.enumerators = u.enumerators
      /\ v.freed = u.freed /\ v.htEnumerators = u.htEnumerators /\ v.typedefs = u.typedefs
      /\ v.htTypedefs = u.htTypedefs /\ v.open = u.open /\ v.local = u.local
  BY <1>2, <1>3 DEF Unit
<1> HIDE DEF v
<1>5. Grows(u, v)
  BY <1>3, <1>4 DEF Grows
<1>6. Stay(u, v)
  <2>1. Stay(u, u)
    BY <1>2, SelfStays
  <2>2. ASSUME NEW k \in DOMAIN u.structs
        PROVE  LET r == u.structs[k]  t == v.structs[k]
               IN  r.name = t.name /\ (r.defined => [t EXCEPT !.used = r.used] = r)
    <3>1. CASE k = i
      BY <1>3, <1>4, <3>1
    <3>2. CASE k # i
      BY <1>3, <1>4, <2>1, <3>2 DEF Stay
    <3> QED BY <3>1, <3>2
  <2> QED BY <1>4, <2>1, <2>2 DEF Stay
<1>7. InfoOK(v)
  <2>1. \A k \in DOMAIN v.structs : \A n \in DOMAIN v.structs[k].decls :
           Valid(v, v.structs[k].decls[n].type)
    BY <1>2, <1>3, <1>4, <1>5, ValidStays DEF InfoOK
  <2>2. /\ \A k \in DOMAIN v.typedefs : Valid(v, v.typedefs[k].type)
        /\ \A x \in DOMAIN v.htTypedefs : Valid(v, v.htTypedefs[x])
    BY <1>2, <1>4, <1>5, ValidStays DEF InfoOK
  <2>3. \A k \in DOMAIN v.structs : v.structs[k].name = u.structs[k].name
    BY <1>3, <1>4
  <2> QED BY <1>2, <1>3, <1>4, <2>1, <2>2, <2>3 DEF InfoOK
<1>8. OpenOK(v) /\ Valid(v, v.spec)
  BY <1>2, <1>4, <1>5, OpenStays, ValidStays
<1> QED BY <1>1, <1>4, <1>5, <1>6, <1>7, <1>8 DEF Good, Intact

\* The same of enums, whose lists are of enumerators.
LEMMA AddEnumGood ==
  ASSUME NEW u, Intact(u), ~u.local, NEW name \in Names, name \notin DOMAIN u.htEnums,
         NEW defined \in BOOLEAN, NEW list \in Seq(Nat)
  PROVE  Good(u, AddEnum(u, name, defined, list))
<1> DEFINE e == [name |-> name, defined |-> defined, list |-> list, used |-> FALSE]
           i == Len(u.enums) + 1
           enums == Append(u.enums, e)
           table == IF name = Unnamed THEN u.htEnums ELSE Stored(u.htEnums, name, i)
           v == [u EXCEPT !.enums = enums, !.htEnums = table, !.spec = Type("enum", i)]
<1>1. AddEnum(u, name, defined, list) = v
  BY DEF AddEnum
<1>2. /\ u \in Unit /\ InfoOK(u) /\ OpenOK(u) /\ u.enums \in Seq(EnumDef)
      /\ u.htEnums \in Tables(Names, Nat) /\ e \in EnumDef
  BY DEF Intact, Unit, EnumDef
<1>3. e.name = name
  OBVIOUS
<1> HIDE DEF e
<1>4. /\ enums \in Seq(EnumDef) /\ DOMAIN enums = 1..i /\ DOMAIN u.enums = 1..(i - 1)
      /\ i \in Nat \ {0}
      /\ \A k \in DOMAIN u.enums : enums[k] = u.enums[k]
      /\ enums[i] = e
  BY <1>2, AppendFacts
<1> HIDE DEF enums, i
<1>5. /\ table \in Tables(Names, Nat)
      /\ DOMAIN table = DOMAIN u.htEnums \cup ({name} \ {Unnamed})
      /\ \A y \in DOMAIN u.htEnums : table[y] = u.htEnums[y]
      /\ name # Unnamed => table[name] = i
  <2>1. CASE name = Unnamed
    BY <1>2, <2>1
  <2>2. CASE name # Unnamed
    <3>1. Stored(u.htEnums, name, i) \in Tables(Names, Nat)
      BY <1>2, <1>4, StoredType
    <3> QED BY <2>2, <3>1 DEF Stored
  <2> QED BY <2>1, <2>2
<1> HIDE DEF table
<1>6. Type("enum", i) \in TypeSpec
  BY <1>4 DEF Type, TypeSpec, Kinds
<1>7. /\ v \in Unit /\ v.enums = enums /\ v.htEnums = table /\ v.spec = Type("enum", i)
      /\ v.structs = u.structs /\ v.htStructs = u.htStructs /\ v.enumerators = u.enumerators
      /\ v.freed = u.freed /\ v.htEnumerators = u.htEnumerators /\ v.typedefs = u.typedefs
      /\ v.htTypedefs = u.htTypedefs /\ v.open = u.open /\ v.local = u.local
  BY <1>2, <1>4, <1>5, <1>6 DEF Unit
<1> HIDE DEF v
<1>8. DOMAIN u.enums \subseteq DOMAIN enums /\ i \in DOMAIN enums
      /\ DOMAIN enums = DOMAIN u.enums \cup {i}
  BY <1>4
<1>9. Grows(u, v)
  BY <1>7, <1>8 DEF Grows
<1>10. Stay(u, v)
  BY <1>2, <1>4, <1>7, <1>9, StayWhen
<1>11. InfoOK(v)
  <2>1. \A k \in DOMAIN v.structs : \A n \in DOMAIN v.structs[k].decls :
           Valid(v, v.structs[k].decls[n].type)
    BY <1>2, <1>7, <1>9, ValidStays DEF InfoOK
  <2>2. /\ \A k \in DOMAIN v.typedefs : Valid(v, v.typedefs[k].type)
        /\ \A x \in DOMAIN v.htTypedefs : Valid(v, v.htTypedefs[x])
    BY <1>2, <1>7, <1>9, ValidStays DEF InfoOK
  <2>3. /\ Unnamed \notin DOMAIN v.htEnums
        /\ \A x \in DOMAIN v.htEnums : v.htEnums[x] \in DOMAIN v.enums
    BY <1>2, <1>5, <1>7, <1>8 DEF InfoOK
  <2>4. ASSUME NEW k \in DOMAIN v.enums, v.enums[k].name # Unnamed
        PROVE  v.enums[k].name \in DOMAIN v.htEnums /\ v.htEnums[v.enums[k].name] = k
    BY <1>2, <1>3, <1>4, <1>5, <1>7, <1>8, <2>4 DEF InfoOK
  <2>5. /\ Unnamed \notin DOMAIN v.htStructs
        /\ \A x \in DOMAIN v.htStructs : v.htStructs[x] \in DOMAIN v.structs
        /\ \A k \in DOMAIN v.structs : v.structs[k].name # Unnamed =>
             v.structs[k].name \in DOMAIN v.htStructs /\ v.htStructs[v.structs[k].name] = k
        /\ v.freed \subseteq DOMAIN v.enumerators
    BY <1>2, <1>7 DEF InfoOK
  <2> QED BY <2>1, <2>2, <2>3, <2>4, <2>5 DEF InfoOK
<1>12. OpenOK(v)
  BY <1>2, <1>7, <1>9, OpenStays
<1>13. Valid(v, v.spec)
  BY <1>7, <1>8 DEF Valid, Type
<1> QED BY <1>1, <1>7, <1>9, <1>10, <1>11, <1>12, <1>13 DEF Good, Intact

LEMMA SetEnumGood ==
  ASSUME NEW u, Intact(u), ~u.local, NEW i \in DOMAIN u.enums, NEW e \in EnumDef,
         e.name = u.enums[i].name,
         u.enums[i].defined => [e EXCEPT !.used = u.enums[i].used] = u.enums[i],
         NEW dumped \in SUBSET Nat
  PROVE  Good(u, [u EXCEPT !.enums[i] = e, !.dumpedEnums = dumped])
<1> DEFINE enums == [u.enums EXCEPT ![i] = e]
           v == [u EXCEPT !.enums = enums, !.dumpedEnums = dumped]
<1>1. [u EXCEPT !.enums[i] = e, !.dumpedEnums = dumped] = v
  OBVIOUS
<1>2. u \in Unit /\ InfoOK(u) /\ OpenOK(u) /\ Valid(u, u.spec) /\ u.enums \in Seq(EnumDef)
  BY DEF Intact, Unit
<1>3. /\ enums \in Seq(EnumDef) /\ DOMAIN enums = DOMAIN u.enums
      /\ enums[i] = e /\ \A k \in DOMAIN u.enums \ {i} : enums[k] = u.enums[k]
  BY <1>2, ExceptFacts
<1> HIDE DEF enums
<1>4. /\ v \in Unit /\ v.enums = enums /\ v.htEnums = u.htEnums /\ v.spec = u.spec
      /\ v.structs = u.structs /\ v.htStructs = u.htStructs /\ v.enumerators = u.enumerators
      /\ v.freed = u.freed /\ v.htEnumerators = u.htEnumerators /\ v.typedefs = u.typedefs
      /\ v.htTypedefs = u.htTypedefs /\ v.open = u.open /\ v.local = u.local
  BY <1>2, <1>3 DEF Unit
<1> HIDE DEF v
<1>5. Grows(u, v)
  BY <1>3, <1>4 DEF Grows
<1>6. Stay(u, v)
  <2>1. Stay(u, u)
    BY <1>2, SelfStays
  <2>2. ASSUME NEW k \in DOMAIN u.enums
        PROVE  LET r == u.enums[k]  t == v.enums[k]
               IN  r.name = t.name /\ (r.defined => [t EXCEPT !.used = r.used] = r)
    <3>1. CASE k = i
      BY <1>3, <1>4, <3>1
    <3>2. CASE k # i
      BY <1>3, <1>4, <2>1, <3>2 DEF Stay
    <3> QED BY <3>1, <3>2
  <2> QED BY <1>4, <2>1, <2>2 DEF Stay
<1>7. InfoOK(v)
  <2>1. \A k \in DOMAIN v.structs : \A n \in DOMAIN v.structs[k].decls :
           Valid(v, v.structs[k].decls[n].type)
    BY <1>2, <1>4, <1>5, ValidStays DEF InfoOK
  <2>2. /\ \A k \in DOMAIN v.typedefs : Valid(v, v.typedefs[k].type)
        /\ \A x \in DOMAIN v.htTypedefs : Valid(v, v.htTypedefs[x])
    BY <1>2, <1>4, <1>5, ValidStays DEF InfoOK
  <2>3. \A k \in DOMAIN v.enums : v.enums[k].name = u.enums[k].name
    BY <1>3, <1>4
  <2> QED BY <1>2, <1>3, <1>4, <2>1, <2>2, <2>3 DEF InfoOK
<1>8. OpenOK(v) /\ Valid(v, v.spec)
  BY <1>2, <1>4, <1>5, OpenStays, ValidStays
<1> QED BY <1>1, <1>4, <1>5, <1>6, <1>7, <1>8 DEF Good, Intact

LEMMA FreeGood ==
  ASSUME NEW u, Intact(u), NEW freed, freed \subseteq DOMAIN u.enumerators,
         u.local => freed = u.freed
  PROVE  Good(u, [u EXCEPT !.freed = freed])
<1> DEFINE v == [u EXCEPT !.freed = freed]
<1>1. /\ u \in Unit /\ InfoOK(u) /\ OpenOK(u) /\ Valid(u, u.spec)
      /\ u.enumerators \in Seq(EnumeratorDef)
  BY DEF Intact, Unit
<1>2. freed \in SUBSET Nat
  <2>1. DOMAIN u.enumerators \subseteq Nat
    BY <1>1
  <2> QED BY <2>1
<1>3. /\ v \in Unit /\ v.enums = u.enums /\ v.htEnums = u.htEnums /\ v.spec = u.spec
      /\ v.structs = u.structs /\ v.htStructs = u.htStructs /\ v.enumerators = u.enumerators
      /\ v.freed = freed /\ v.htEnumerators = u.htEnumerators /\ v.typedefs = u.typedefs
      /\ v.htTypedefs = u.htTypedefs /\ v.open = u.open /\ v.local = u.local
  BY <1>1, <1>2 DEF Unit
<1> HIDE DEF v
<1>4. Grows(u, v)
  BY <1>3 DEF Grows
<1>5. Stay(u, v)
  BY <1>1, <1>3, <1>4, StayWhen
<1>6. InfoOK(v)
  BY <1>1, <1>3, <1>4, ValidStays DEF InfoOK
<1>7. OpenOK(v) /\ Valid(v, v.spec)
  BY <1>1, <1>3, <1>4, OpenStays, ValidStays
<1>8. u.local => Info(v) = Info(u)
  BY <1>3 DEF Info
<1> QED BY <1>3, <1>4, <1>5, <1>6, <1>7, <1>8 DEF Good, Intact, v

LEMMA EnumeratorGood ==
  ASSUME NEW u, Intact(u), ~u.local, NEW name \in Constants, NEW value \in Int
  PROVE  LET a == Len(u.enumerators) + 1
             v == [u EXCEPT !.enumerators = Append(@, [name |-> name, value |-> value]),
                            !.htEnumerators = Stored(@, name, a)]
         IN  Good(u, v) /\ a \in DOMAIN v.enumerators /\ a \in Nat
<1> DEFINE c == [name |-> name, value |-> value]
           a == Len(u.enumerators) + 1
           list == Append(u.enumerators, c)
           table == Stored(u.htEnumerators, name, a)
           v == [u EXCEPT !.enumerators = list, !.htEnumerators = table]
<1>1. /\ u \in Unit /\ InfoOK(u) /\ OpenOK(u) /\ Valid(u, u.spec)
      /\ u.enumerators \in Seq(EnumeratorDef) /\ u.htEnumerators \in Tables(Constants, Nat)
      /\ c \in EnumeratorDef
  BY DEF Intact, Unit, EnumeratorDef
<1> HIDE DEF c
<1>2. /\ list \in Seq(EnumeratorDef) /\ a \in Nat /\ DOMAIN list = 1..a
      /\ DOMAIN u.enumerators = 1..(a - 1) /\ a >= 1
  BY <1>1, AppendFacts
<1> HIDE DEF list, a
<1>3. table \in Tables(Constants, Nat)
  BY <1>1, <1>2, StoredType
<1>4. /\ DOMAIN u.htEnumerators \subseteq DOMAIN table
      /\ \A x \in DOMAIN u.htEnumerators : table[x] = u.htEnumerators[x]
  BY DEF Stored
<1> HIDE DEF table
<1>5. /\ v \in Unit /\ v.enums = u.enums /\ v.htEnums = u.htEnums /\ v.spec = u.spec
      /\ v.structs = u.structs /\ v.htStructs = u.htStructs /\ v.enumerators = list
      /\ v.freed = u.freed /\ v.htEnumerators = table /\ v.typedefs = u.typedefs
      /\ v.htTypedefs = u.htTypedefs /\ v.open = u.open /\ v.local = u.local
  BY <1>1, <1>2, <1>3 DEF Unit
<1>6. [u EXCEPT !.enumerators = Append(@, [name |-> name, value |-> value]),
                !.htEnumerators = Stored(@, name, Len(u.enumerators) + 1)] = v
  BY DEF list, table, a, c
<1> HIDE DEF v
<1>7. DOMAIN u.enumerators \subseteq DOMAIN list /\ a \in DOMAIN list
  BY <1>2
<1>8. Grows(u, v)
  BY <1>4, <1>5, <1>7 DEF Grows
<1>9. Stay(u, v)
  BY <1>1, <1>4, <1>5, <1>8, StayWhen
<1>10. InfoOK(v)
  <2>1. \A k \in DOMAIN v.structs : \A n \in DOMAIN v.structs[k].decls :
           Valid(v, v.structs[k].decls[n].type)
    BY <1>1, <1>5, <1>8, ValidStays DEF InfoOK
  <2>2. /\ \A k \in DOMAIN v.typedefs : Valid(v, v.typedefs[k].type)
        /\ \A x \in DOMAIN v.htTypedefs : Valid(v, v.htTypedefs[x])
    BY <1>1, <1>5, <1>8, ValidStays DEF InfoOK
  <2>3. v.freed \subseteq DOMAIN v.enumerators
    BY <1>1, <1>5, <1>7 DEF InfoOK
  <2> QED BY <1>1, <1>5, <2>1, <2>2, <2>3 DEF InfoOK
<1>11. OpenOK(v) /\ Valid(v, v.spec)
  BY <1>1, <1>5, <1>8, OpenStays, ValidStays
<1>12. Good(u, v)
  BY <1>5, <1>8, <1>9, <1>10, <1>11 DEF Good, Intact
<1> QED BY <1>2, <1>5, <1>6, <1>7, <1>12 DEF a

\* Of the declarators with a name it is the first that counts.
LEMMA FirstDeclarator ==
  ASSUME NEW names \in Declarators, NEW n \in DOMAIN names, NEW x, names[n].name = x
  PROVE  LET m == CHOOSE m \in DOMAIN names :
                    names[m].name = x /\ \A k \in 1..(m - 1) : names[k].name # x
         IN  m \in DOMAIN names /\ m \in Nat
<1>1. DOMAIN names \in {1..1, 1..2}
  BY DEF Declarators
<1>2. \E m \in DOMAIN names : names[m].name = x /\ \A k \in 1..(m - 1) : names[k].name # x
  <2>1. CASE names[1].name = x
    <3>1. 1 \in DOMAIN names /\ 1..(1 - 1) = {}
      BY <1>1
    <3> QED BY <2>1, <3>1
  <2>2. CASE names[1].name # x
    <3>1. n = 2 /\ 1..(2 - 1) = {1}
      BY <1>1, <2>2
    <3> QED BY <2>2, <3>1
  <2> QED BY <2>1, <2>2
<1> QED BY <1>1, <1>2

LEMMA DeclaratorsType ==
  Declarators \subseteq Seq(Declarator)
<1>1. ASSUME NEW x \in TypeNames, NEW p \in BOOLEAN
      PROVE  <<[name |-> x, pointer |-> p]>> \in Seq(Declarator)
  BY DEF Declarator
<1>2. ASSUME NEW x \in TypeNames, NEW y \in TypeNames
      PROVE  <<[name |-> x, pointer |-> TRUE], [name |-> y, pointer |-> FALSE]>> \in Seq(Declarator)
  BY DEF Declarator
<1> SUFFICES ASSUME NEW names \in Declarators
             PROVE  names \in Seq(Declarator)
  OBVIOUS
<1>3. CASE names \in {<<[name |-> x, pointer |-> p]>> : x \in TypeNames, p \in BOOLEAN}
  <2>1. PICK x \in TypeNames, p \in BOOLEAN : names = <<[name |-> x, pointer |-> p]>>
    BY <1>3
  <2> QED BY <1>1, <2>1
<1>4. CASE names \in {<<[name |-> x, pointer |-> TRUE], [name |-> y, pointer |-> FALSE]>> :
                        x \in TypeNames, y \in TypeNames}
  <2>1. PICK x \in TypeNames, y \in TypeNames :
          names = <<[name |-> x, pointer |-> TRUE], [name |-> y, pointer |-> FALSE]>>
    BY <1>4
  <2> QED BY <1>2, <2>1
<1> QED BY <1>3, <1>4 DEF Declarators

\* The typedefs of one declaration.
LEMMA TypedefsGood ==
  ASSUME NEW u, Intact(u), ~u.local, NEW t \in TypeSpec, Valid(u, t), NEW names \in Declarators
  PROVE  Good(u, [u EXCEPT !.typedefs = Append(@, [type |-> t, names |-> names]),
                           !.htTypedefs = StoredAll(@, Len(u.typedefs) + 1, names)])
<1> DEFINE l == [type |-> t, names |-> names]
           i == Len(u.typedefs) + 1
           list == Append(u.typedefs, l)
           table == StoredAll(u.htTypedefs, i, names)
           v == [u EXCEPT !.typedefs = list, !.htTypedefs = table]
<1>1. /\ u \in Unit /\ InfoOK(u) /\ OpenOK(u) /\ Valid(u, u.spec)
      /\ u.typedefs \in Seq(TypedefList) /\ u.htTypedefs \in Tables(TypeNames, TypeSpec)
  BY DEF Intact, Unit
<1>2. names \in Seq(Declarator)
  BY DeclaratorsType
<1>3. l \in TypedefList /\ l.type = t /\ l.names = names
  BY <1>2 DEF TypedefList
<1> HIDE DEF l
<1>4. /\ list \in Seq(TypedefList) /\ i \in Nat /\ i \in DOMAIN list /\ list[i] = l
      /\ DOMAIN u.typedefs \subseteq DOMAIN list
      /\ DOMAIN list = DOMAIN u.typedefs \cup {i}
      /\ \A k \in DOMAIN u.typedefs : list[k] = u.typedefs[k]
  BY <1>1, <1>3, AppendFacts
<1> HIDE DEF list, i
<1>5. /\ DOMAIN table = DOMAIN u.htTypedefs \cup {names[n].name : n \in DOMAIN names}
      /\ \A x \in DOMAIN u.htTypedefs : table[x] = u.htTypedefs[x]
  BY DEF StoredAll
<1>6. ASSUME NEW x \in DOMAIN table, x \notin DOMAIN u.htTypedefs
      PROVE  \E m \in DOMAIN names : m \in Nat /\ table[x] = TypedefType(i, m)
  <2>1. PICK n \in DOMAIN names : names[n].name = x
    BY <1>5, <1>6
  <2> DEFINE m == CHOOSE m \in DOMAIN names :
                    names[m].name = x /\ \A k \in 1..(m - 1) : names[k].name # x
  <2>2. m \in DOMAIN names /\ m \in Nat
    BY <2>1, FirstDeclarator
  <2>3. table[x] = TypedefType(i, m)
    BY <1>5, <1>6 DEF StoredAll
  <2> QED BY <2>2, <2>3
<1>7. table \in Tables(TypeNames, TypeSpec)
  <2>1. DOMAIN table \subseteq TypeNames
    <3>1. \A n \in DOMAIN names : names[n].name \in TypeNames
      <4>1. \A n \in DOMAIN names : names[n] \in Declarator
        BY <1>2
      <4> QED BY <4>1 DEF Declarator
    <3>2. DOMAIN u.htTypedefs \subseteq TypeNames
      BY <1>1, TablesFacts
    <3> QED BY <1>5, <3>1, <3>2
  <2>2. ASSUME NEW x \in DOMAIN table
        PROVE  table[x] \in TypeSpec
    <3>1. CASE x \in DOMAIN u.htTypedefs
      <4>1. u.htTypedefs[x] \in TypeSpec
        BY <1>1, <3>1, TablesFacts
      <4> QED BY <1>5, <3>1, <4>1
    <3>2. CASE x \notin DOMAIN u.htTypedefs
      <4>1. PICK m \in DOMAIN names : m \in Nat /\ table[x] = TypedefType(i, m)
        BY <1>6, <3>2
      <4>2. TypedefType(i, m) \in TypeSpec
        BY <1>4, <4>1 DEF TypedefType, TypeSpec, Kinds
      <4> QED BY <4>1, <4>2
    <3> QED BY <3>1, <3>2
  <2>3. table = [x \in DOMAIN table |-> table[x]]
    BY DEF StoredAll
  <2> HIDE DEF table
  <2>4. table \in [DOMAIN table -> TypeSpec]
    BY <2>2, <2>3
  <2> QED BY <2>1, <2>4 DEF Tables
<1> HIDE DEF table
<1>8. /\ v \in Unit /\ v.enums = u.enums /\ v.htEnums = u.htEnums /\ v.spec = u.spec
      /\ v.structs = u.structs /\ v.htStructs = u.htStructs /\ v.enumerators = u.enumerators
      /\ v.freed = u.freed /\ v.htEnumerators = u.htEnumerators /\ v.typedefs = list
      /\ v.htTypedefs = table /\ v.open = u.open /\ v.local = u.local
  BY <1>1, <1>4, <1>7 DEF Unit
<1>9. [u EXCEPT !.typedefs = Append(@, [type |-> t, names |-> names]),
                !.htTypedefs = StoredAll(@, Len(u.typedefs) + 1, names)] = v
  BY DEF list, table, i, l
<1> HIDE DEF v
<1>10. Grows(u, v)
  BY <1>4, <1>5, <1>8 DEF Grows
<1>11. Stay(u, v)
  BY <1>1, <1>5, <1>8, <1>10, StayWhen
<1>12. InfoOK(v)
  <2>1. \A k \in DOMAIN v.structs : \A n \in DOMAIN v.structs[k].decls :
           Valid(v, v.structs[k].decls[n].type)
    BY <1>1, <1>8, <1>10, ValidStays DEF InfoOK
  <2>2. ASSUME NEW k \in DOMAIN v.typedefs
        PROVE  Valid(v, v.typedefs[k].type)
    <3>1. CASE k = i
      BY <1>3, <1>4, <1>8, <1>10, <3>1, ValidStays
    <3>2. CASE k \in DOMAIN u.typedefs
      BY <1>1, <1>4, <1>8, <1>10, <3>2, ValidStays DEF InfoOK
    <3> QED BY <1>4, <1>8, <2>2, <3>1, <3>2
  <2>3. ASSUME NEW x \in DOMAIN v.htTypedefs
        PROVE  Valid(v, v.htTypedefs[x])
    <3>1. CASE x \in DOMAIN u.htTypedefs
      BY <1>1, <1>5, <1>8, <1>10, <3>1, ValidStays DEF InfoOK
    <3>2. CASE x \notin DOMAIN u.htTypedefs
      <4>1. PICK m \in DOMAIN names : m \in Nat /\ table[x] = TypedefType(i, m)
        BY <1>6, <1>8, <2>3, <3>2
      <4>2. i \in DOMAIN v.typedefs /\ v.typedefs[i].names = names
        BY <1>3, <1>4, <1>8
      <4> QED BY <1>8, <4>1, <4>2 DEF Valid, TypedefType
    <3> QED BY <3>1, <3>2
  <2> QED BY <1>1, <1>8, <2>1, <2>2, <2>3 DEF InfoOK
<1>13. OpenOK(v) /\ Valid(v, v.spec)
  BY <1>1, <1>8, <1>10, OpenStays, ValidStays
<1> QED BY <1>8, <1>9, <1>10, <1>11, <1>12, <1>13 DEF Good, Intact

-----------------------------------------------------------------------------
(* The steps. *)

LEMMA NullGood ==
  ASSUME NEW u, Intact(u)
  PROVE  Good(u, Null(u)) /\ Good(u, Discard(u)) /\ Good(u, [u EXCEPT !.spec = BasicType])
BY SimpleTypes, SpecGood DEF Null, Discard

LEMMA NameTypeGood ==
  ASSUME NEW u, Intact(u), NEW x \in DOMAIN u.htTypedefs
  PROVE  Good(u, NameType(u, x))
<1>1. u.htTypedefs \in Tables(TypeNames, TypeSpec) /\ Valid(u, u.htTypedefs[x])
  BY DEF Intact, Unit, InfoOK
<1>2. u.htTypedefs[x] \in TypeSpec
  BY <1>1, TablesFacts
<1> QED BY <1>1, <1>2, SpecGood DEF NameType

LEMMA KnownStruct ==
  ASSUME NEW u, Intact(u), NEW name \in DOMAIN u.htStructs
  PROVE  LET i == u.htStructs[name]
         IN  /\ i \in DOMAIN u.structs /\ i \in Nat /\ u.structs[i] \in StructDef
             /\ Type("struct", i) \in TypeSpec /\ Valid(u, Type("struct", i))
<1>1. u.htStructs[name] \in DOMAIN u.structs /\ u.structs \in Seq(StructDef)
  BY DEF Intact, Unit, InfoOK
<1>2. u.htStructs[name] \in Nat /\ u.structs[u.htStructs[name]] \in StructDef
  BY <1>1
<1> QED BY <1>1, <1>2 DEF Type, TypeSpec, Kinds, Valid

LEMMA KnownEnum ==
  ASSUME NEW u, Intact(u), NEW name \in DOMAIN u.htEnums
  PROVE  LET i == u.htEnums[name]
         IN  /\ i \in DOMAIN u.enums /\ i \in Nat /\ u.enums[i] \in EnumDef
             /\ Type("enum", i) \in TypeSpec /\ Valid(u, Type("enum", i))
<1>1. u.htEnums[name] \in DOMAIN u.enums /\ u.enums \in Seq(EnumDef)
  BY DEF Intact, Unit, InfoOK
<1>2. u.htEnums[name] \in Nat /\ u.enums[u.htEnums[name]] \in EnumDef
  BY <1>1
<1> QED BY <1>1, <1>2 DEF Type, TypeSpec, Kinds, Valid

LEMMA NameStructGood ==
  ASSUME NEW u, Intact(u), NEW name \in Names
  PROVE  Good(u, NameStruct(u, name))
<1>1. CASE u.local
  BY <1>1, NullGood DEF NameStruct
<1>2. CASE ~u.local /\ name \in DOMAIN u.htStructs
  BY <1>2, KnownStruct, SpecGood DEF NameStruct
<1>3. CASE ~u.local /\ name \notin DOMAIN u.htStructs
  <2>1. \A k \in DOMAIN << >> : Valid(u, << >>[k].type)
    OBVIOUS
  <2> QED BY <1>3, <2>1, AddStructGood, EmptyFacts DEF NameStruct
<1> QED BY <1>1, <1>2, <1>3

LEMMA NameEnumGood ==
  ASSUME NEW u, Intact(u), NEW name \in Names
  PROVE  Good(u, NameEnum(u, name))
<1>1. CASE u.local
  BY <1>1, NullGood DEF NameEnum
<1>2. CASE ~u.local /\ name \in DOMAIN u.htEnums
  BY <1>2, KnownEnum, SpecGood DEF NameEnum
<1>3. CASE ~u.local /\ name \notin DOMAIN u.htEnums
  BY <1>3, AddEnumGood, EmptyFacts DEF NameEnum
<1> QED BY <1>1, <1>2, <1>3

LEMMA CompleteStructGood ==
  ASSUME NEW u, Intact(u), ~u.local, NEW i \in DOMAIN u.structs, ~u.structs[i].defined,
         NEW decls \in Seq(Declaration), \A k \in DOMAIN decls : Valid(u, decls[k].type),
         NEW pack \in Packings
  PROVE  Good(u, [u EXCEPT !.structs[i] = [@ EXCEPT !.defined = TRUE, !.decls = decls, !.pack = pack],
                           !.spec = Type("struct", i)])
<1>1. u \in Unit /\ u.structs \in Seq(StructDef)
  BY DEF Intact, Unit
<1>2. u.structs[i] \in StructDef /\ i \in Nat
  BY <1>1
<1> DEFINE s == [u.structs[i] EXCEPT !.defined = TRUE, !.decls = decls, !.pack = pack]
           v == [u EXCEPT !.structs[i] = s]
<1>3. s \in StructDef /\ s.name = u.structs[i].name /\ s.decls = decls
  BY <1>2 DEF StructDef
<1> HIDE DEF s
<1>4. Good(u, v)
  BY <1>3, SetStructGood
<1>5. v \in Unit /\ DOMAIN v.structs = DOMAIN u.structs /\ v.local = u.local
  <2>1. v.structs = [u.structs EXCEPT ![i] = s] /\ v.local = u.local
    BY <1>1 DEF Unit
  <2> HIDE DEF v
  <2> QED BY <1>4, <2>1 DEF Good, Intact
<1>6. [u EXCEPT !.structs[i] = s, !.spec = Type("struct", i)] = [v EXCEPT !.spec = Type("struct", i)]
  BY <1>1 DEF Unit
<1> HIDE DEF v
<1>7. Type("struct", i) \in TypeSpec /\ Valid(v, Type("struct", i))
  BY <1>2, <1>5 DEF Type, TypeSpec, Kinds, Valid
<1>8. Good(v, [v EXCEPT !.spec = Type("struct", i)])
  BY <1>4, <1>7, SpecGood DEF Good
<1>9. Good(u, [v EXCEPT !.spec = Type("struct", i)])
  BY <1>4, <1>5, <1>8, GoodTwice
<1> QED BY <1>6, <1>9 DEF s

LEMMA CloseStructGood ==
  ASSUME NEW u, Intact(u), InStruct(u)
  PROVE  Good(u, CloseStruct(u))
<1> DEFINE f == Last(u.open)
           v == [u EXCEPT !.open = Front(@)]
           i == u.htStructs[f.name]
<1>1. u \in Unit /\ u.open # << >> /\ f.what = "struct"
  BY DEF Intact, InStruct
<1>2. Good(u, v) /\ f \in Frame /\ FrameOK(u, f)
  BY <1>1, PopGood
<1>3. f.name \in Names /\ f.list \in Seq(Declaration) /\ \A k \in DOMAIN f.list : Valid(u, f.list[k].type)
  BY <1>1, <1>2 DEF Frame, FrameOK
<1>4. /\ Intact(v) /\ v.local = u.local /\ v.structs = u.structs /\ v.htStructs = u.htStructs
      /\ v.current = u.current /\ v.current \in Packings
  BY <1>1, <1>2 DEF Unit, Good
<1>5. \A k \in DOMAIN f.list : Valid(v, f.list[k].type)
  BY <1>2, <1>3, ValidStays DEF Good
<1>6. Good(v, CloseStruct(u))
  <2>1. CASE u.local
    <3>1. CloseStruct(u) = Null(v)
      BY <2>1 DEF CloseStruct
    <3> HIDE DEF v
    <3> QED BY <1>4, <3>1, NullGood
  <2>2. CASE ~u.local /\ f.name \notin DOMAIN u.htStructs
    <3>1. CloseStruct(u) = AddStruct(v, f.name, TRUE, u.current, f.list)
      BY <2>2 DEF CloseStruct
    <3> HIDE DEF v, f
    <3> QED BY <1>3, <1>4, <1>5, <2>2, <3>1, AddStructGood
  <2>3. CASE ~u.local /\ f.name \in DOMAIN u.htStructs /\ u.structs[i].defined
    <3>1. CloseStruct(u) = [v EXCEPT !.spec = Type("struct", i)]
      BY <2>3 DEF CloseStruct
    <3>2. i = v.htStructs[f.name] /\ f.name \in DOMAIN v.htStructs
      BY <1>4, <2>3
    <3> HIDE DEF v, i, f
    <3>3. Type("struct", i) \in TypeSpec /\ Valid(v, Type("struct", i))
      BY <1>4, <3>2, KnownStruct
    <3> QED BY <1>4, <3>1, <3>3, SpecGood
  <2>4. CASE ~u.local /\ f.name \in DOMAIN u.htStructs /\ ~u.structs[i].defined
    <3> DEFINE w == [v EXCEPT !.structs[i] = [@ EXCEPT !.defined = TRUE, !.decls = f.list,
                                                       !.pack = u.current],
                              !.spec = Type("struct", i)]
    <3>1. CloseStruct(u) = w
      BY <2>4 DEF CloseStruct
    <3>2. i = v.htStructs[f.name] /\ f.name \in DOMAIN v.htStructs
      BY <1>4, <2>4
    <3> HIDE DEF v, i, f
    <3>3. i \in DOMAIN v.structs /\ ~v.structs[i].defined
      BY <1>4, <2>4, <3>2, KnownStruct
    <3> DEFINE decls == f.list  pack == u.current
    <3>4. ~v.local /\ decls \in Seq(Declaration) /\ pack \in Packings
          /\ \A k \in DOMAIN decls : Valid(v, decls[k].type)
      BY <1>3, <1>4, <1>5, <2>4
    <3>5. w = [v EXCEPT !.structs[i] = [@ EXCEPT !.defined = TRUE, !.decls = decls, !.pack = pack],
                        !.spec = Type("struct", i)]
      OBVIOUS
    <3> HIDE DEF w, decls, pack
    <3>6. Good(v, w)
      BY <1>4, <3>3, <3>4, <3>5, CompleteStructGood
    <3> QED BY <3>1, <3>6
  <2> QED BY <2>1, <2>2, <2>3, <2>4
<1> QED BY <1>2, <1>4, <1>6, GoodTwice

LEMMA CountedGood ==
  ASSUME NEW u, Intact(u), ~u.local, NEW t, Valid(u, t)
  PROVE  /\ Good(u, Counted(u, t))
         /\ Counted(u, t).open = u.open /\ Counted(u, t).local = u.local
         /\ Counted(u, t).typedefs = u.typedefs /\ Counted(u, t).htTypedefs = u.htTypedefs
<1>1. u \in Unit /\ u.structs \in Seq(StructDef) /\ u.enums \in Seq(EnumDef)
      /\ u.dumpedEnums \in SUBSET Nat
  BY DEF Intact, Unit
<1>2. Good(u, u)
  <2>1. Stay(u, u) /\ Grows(u, u)
    BY <1>1, SelfStays DEF Grows
  <2> QED BY <2>1 DEF Good
<1>3. CASE t.kind = "struct"
  <2> DEFINE i == t.at
             s == [u.structs[i] EXCEPT !.used = TRUE]
             v == [u EXCEPT !.structs[i] = s]
  <2>1. i \in DOMAIN u.structs
    BY <1>3 DEF Valid
  <2>2. u.structs[i] \in StructDef
    BY <1>1, <2>1
  <2>3. /\ s \in StructDef /\ s.name = u.structs[i].name /\ s.decls = u.structs[i].decls
        /\ [s EXCEPT !.used = u.structs[i].used] = u.structs[i]
    BY <2>2 DEF StructDef
  <2>4. \A k \in DOMAIN u.structs[i].decls : Valid(u, u.structs[i].decls[k].type)
    BY <2>1 DEF Intact, InfoOK
  <2>5. Counted(u, t) = v
    BY <1>3 DEF Counted
  <2>6. /\ v.open = u.open /\ v.local = u.local /\ v.typedefs = u.typedefs
        /\ v.htTypedefs = u.htTypedefs
    BY <1>1 DEF Unit
  <2> HIDE DEF s
  <2>7. Good(u, v)
    BY <2>1, <2>3, <2>4, SetStructGood
  <2> QED BY <2>5, <2>6, <2>7
<1>4. CASE t.kind = "enum"
  <2> DEFINE i == t.at
             s == [u.enums[i] EXCEPT !.used = TRUE]
             v == [u EXCEPT !.enums[i] = s]
  <2>1. i \in DOMAIN u.enums
    BY <1>4 DEF Valid
  <2>2. u.enums[i] \in EnumDef
    BY <1>1, <2>1
  <2>3. /\ s \in EnumDef /\ s.name = u.enums[i].name
        /\ [s EXCEPT !.used = u.enums[i].used] = u.enums[i]
    BY <2>2 DEF EnumDef
  <2>5. Counted(u, t) = v
    BY <1>4 DEF Counted
  <2>6. /\ v.open = u.open /\ v.local = u.local /\ v.typedefs = u.typedefs
        /\ v.htTypedefs = u.htTypedefs
    BY <1>1 DEF Unit
  <2> HIDE DEF s
  <2>7. v = [u EXCEPT !.enums[i] = s, !.dumpedEnums = u.dumpedEnums]
    BY <1>1 DEF Unit
  <2> HIDE DEF v
  <2>8. Good(u, v)
    <3>1. Good(u, [u EXCEPT !.enums[i] = s, !.dumpedEnums = u.dumpedEnums])
      BY <1>1, <2>1, <2>3, SetEnumGood
    <3> QED BY <2>7, <3>1
  <2> QED BY <2>5, <2>6, <2>8
<1>5. CASE t.kind \notin {"struct", "enum"}
  <2>1. Counted(u, t) = u
    BY <1>5 DEF Counted
  <2> QED BY <1>2, <2>1
<1> QED BY <1>3, <1>4, <1>5

\* The last one of those that are open gets one more.
LEMMA ListGood ==
  ASSUME NEW u, Intact(u), NEW open, open = u.open, open # << >>,
         NEW f \in Frame, FrameOK(u, f)
  PROVE  Good(u, [u EXCEPT !.open = Append(Front(@), f)])
<1>1. u.open \in Seq(Frame)
  BY DEF Intact, Unit
<1>2. /\ Append(Front(u.open), f) \in Seq(Frame)
      /\ \A k \in DOMAIN Append(Front(u.open), f) :
           Append(Front(u.open), f)[k] = f
           \/ (k \in DOMAIN u.open /\ Append(Front(u.open), f)[k] = u.open[k])
  BY <1>1, ReplaceFacts
<1>3. \A k \in DOMAIN Append(Front(u.open), f) : FrameOK(u, Append(Front(u.open), f)[k])
  BY <1>2 DEF Intact, OpenOK
<1> QED BY <1>2, <1>3, OpenGood

LEMMA AddMemberGood ==
  ASSUME NEW u, Intact(u), InStruct(u), NEW pointers \in Seq(BOOLEAN)
  PROVE  Good(u, AddMember(u, pointers))
<1> DEFINE f == Last(u.open)
           t == u.spec
           d == [type |-> t, pointers |-> pointers]
           v == [u EXCEPT !.spec = NoType]
           w == Counted(v, t)
           g == [f EXCEPT !.list = Append(@, d)]
           x == [w EXCEPT !.open = Append(Front(@), g)]
<1>1. u \in Unit /\ u.open # << >> /\ f.what = "struct" /\ t \in TypeSpec /\ Valid(u, t)
  BY DEF Intact, InStruct, Unit
<1>2. Good(u, v) /\ v.local = u.local /\ v.open = u.open
  <2>1. v = Discard(u)
    BY DEF Discard
  <2>2. v.local = u.local /\ v.open = u.open
    BY <1>1 DEF Unit
  <2> QED BY <2>1, <2>2, NullGood
<1>3. CASE u.local
  BY <1>2, <1>3 DEF AddMember
<1>4. CASE ~u.local
  <2>1. AddMember(u, pointers) = x
    BY <1>4 DEF AddMember
  <2>2. f \in Frame /\ FrameOK(u, f)
    BY <1>1, PopGood
  <2>3. d \in Declaration /\ d.type = t
    BY <1>1 DEF Declaration
  <2> HIDE DEF f, d, v, t
  <2>4. Valid(v, t) /\ Intact(v)
    BY <1>1, <1>2, ValidStays DEF Good
  <2>5. Good(v, w) /\ w.open = u.open /\ w.local = u.local
    BY <1>2, <1>4, <2>4, CountedGood
  <2> HIDE DEF w
  <2>6. Intact(w) /\ Good(u, w)
    BY <1>2, <2>5, GoodTwice DEF Good
  <2>7. f.list \in Seq(Declaration) /\ \A k \in DOMAIN f.list : Valid(u, f.list[k].type)
    BY <1>1, <2>2 DEF Frame, FrameOK
  <2>8. /\ Append(f.list, d) \in Seq(Declaration)
        /\ \A k \in DOMAIN Append(f.list, d) :
             Append(f.list, d)[k] = d \/ (k \in DOMAIN f.list /\ Append(f.list, d)[k] = f.list[k])
    BY <2>3, <2>7, AppendFacts
  <2>9. \A k \in DOMAIN Append(f.list, d) : Valid(w, Append(f.list, d)[k].type)
    BY <1>1, <2>3, <2>6, <2>7, <2>8, ValidStays DEF Good
  <2>10. g \in Frame /\ g.what = "struct" /\ g.list = Append(f.list, d)
    BY <1>1, <2>2, <2>8 DEF Frame
  <2> HIDE DEF g
  <2>11. FrameOK(w, g)
    BY <1>4, <2>5, <2>9, <2>10 DEF FrameOK
  <2>12. Good(w, x)
    BY <1>1, <2>5, <2>6, <2>10, <2>11, ListGood
  <2>13. Good(u, x)
    BY <2>5, <2>6, <2>12, GoodTwice
  <2> QED BY <2>1, <2>13
<1> QED BY <1>3, <1>4

LEMMA AddEnumeratorGood ==
  ASSUME NEW u, Intact(u), InEnum(u), NEW name \in Constants, NEW value \in Values \cup {NoValue}
  PROVE  Good(u, AddEnumerator(u, name, value))
<1> DEFINE f == Last(u.open)
           a == Len(u.enumerators) + 1
           n == IF value # NoValue THEN value
                ELSE IF f.list = << >> THEN 0 ELSE u.enumerators[Last(f.list)].value + 1
           v == [u EXCEPT !.enumerators = Append(@, [name |-> name, value |-> n]),
                          !.htEnumerators = Stored(@, name, a)]
           g == [f EXCEPT !.list = Append(@, a)]
           w == [v EXCEPT !.open = Append(Front(@), g)]
<1>1. u \in Unit /\ u.open # << >> /\ f.what = "enum" /\ u.enumerators \in Seq(EnumeratorDef)
  BY DEF Intact, InEnum, Unit
<1>2. f \in Frame /\ FrameOK(u, f)
  BY <1>1, PopGood
<1>3. f.list \in Seq(Nat) /\ \A k \in DOMAIN f.list : f.list[k] \in DOMAIN u.enumerators
  BY <1>1, <1>2 DEF Frame, FrameOK
<1>4. CASE u.local
  <2>1. AddEnumerator(u, name, value) = u
    BY <1>4 DEF AddEnumerator
  <2>2. Stay(u, u) /\ Grows(u, u)
    BY <1>1, SelfStays DEF Grows
  <2> QED BY <2>1, <2>2 DEF Good
<1>5. CASE ~u.local
  <2>1. n \in Int
    <3>1. ASSUME f.list # << >>
          PROVE  u.enumerators[Last(f.list)].value \in Int
      <4>1. Last(f.list) \in DOMAIN u.enumerators
        BY <1>3, <3>1, LastFacts
      <4>2. u.enumerators[Last(f.list)] \in EnumeratorDef
        BY <1>1, <4>1
      <4> QED BY <4>2 DEF EnumeratorDef
    <3>2. CASE value # NoValue
      <4>1. n = value
        BY <3>2
      <4> QED BY <3>2, <4>1, ParserAssumption
    <3>3. CASE value = NoValue /\ f.list = << >>
      BY <3>3
    <3>4. CASE value = NoValue /\ f.list # << >>
      <4>1. n = u.enumerators[Last(f.list)].value + 1
        BY <3>4
      <4> HIDE DEF n, f
      <4> QED BY <3>1, <3>4, <4>1
    <3> QED BY <3>2, <3>3, <3>4
  <2>2. w = [u EXCEPT !.enumerators = Append(@, [name |-> name, value |-> n]),
                      !.htEnumerators = Stored(@, name, a),
                      !.open = Append(Front(@), [f EXCEPT !.list = Append(@, a)])]
    BY <1>1 DEF Unit
  <2>3. AddEnumerator(u, name, value) = w
    BY <1>5, <2>2 DEF AddEnumerator, AddedEnumerator
  <2>4. v.open = u.open /\ v.local = u.local
    BY <1>1 DEF Unit
  <2> HIDE DEF f, n
  <2>5. Good(u, v) /\ a \in DOMAIN v.enumerators /\ a \in Nat
    BY <1>5, <2>1, EnumeratorGood
  <2> HIDE DEF v, a
  <2>6. Intact(v) /\ FrameOK(v, f)
    BY <1>2, <2>4, <2>5, FrameStays DEF Good
  <2>7. /\ Append(f.list, a) \in Seq(Nat)
        /\ \A k \in DOMAIN Append(f.list, a) :
             Append(f.list, a)[k] = a \/ (k \in DOMAIN f.list /\ Append(f.list, a)[k] = f.list[k])
    BY <1>3, <2>5, AppendFacts
  <2>8. \A k \in DOMAIN Append(f.list, a) : Append(f.list, a)[k] \in DOMAIN v.enumerators
    BY <1>1, <2>5, <2>6, <2>7 DEF FrameOK
  <2>9. g \in Frame /\ g.what = "enum" /\ g.list = Append(f.list, a)
    BY <1>1, <1>2, <2>7 DEF Frame
  <2> HIDE DEF g
  <2>10. FrameOK(v, g)
    BY <1>5, <2>4, <2>8, <2>9 DEF FrameOK
  <2>11. Good(v, w)
    BY <1>1, <2>4, <2>6, <2>9, <2>10, ListGood
  <2>12. Good(u, w)
    BY <2>4, <2>5, <2>11, GoodTwice
  <2> QED BY <2>3, <2>12
<1> QED BY <1>4, <1>5

LEMMA CompleteEnumGood ==
  ASSUME NEW u, Intact(u), ~u.local, NEW i \in DOMAIN u.enums, ~u.enums[i].defined,
         NEW list \in Seq(Nat)
  PROVE  Good(u, [u EXCEPT !.enums[i] = [@ EXCEPT !.defined = TRUE, !.list = list],
                           !.dumpedEnums = @ \ {i}, !.spec = Type("enum", i)])
<1>1. u \in Unit /\ u.enums \in Seq(EnumDef)
  BY DEF Intact, Unit
<1>2. u.enums[i] \in EnumDef /\ i \in Nat
  BY <1>1
<1> DEFINE e == [u.enums[i] EXCEPT !.defined = TRUE, !.list = list]
           dumped == u.dumpedEnums \ {i}
           v == [u EXCEPT !.enums[i] = e, !.dumpedEnums = dumped]
<1>3. e \in EnumDef /\ e.name = u.enums[i].name
  BY <1>2 DEF EnumDef
<1>4. dumped \in SUBSET Nat
  BY <1>1 DEF Unit
<1> HIDE DEF e, dumped
<1>5. Good(u, v)
  BY <1>3, <1>4, SetEnumGood
<1>6. v \in Unit /\ DOMAIN v.enums = DOMAIN u.enums /\ v.local = u.local
  <2>1. v.enums = [u.enums EXCEPT ![i] = e] /\ v.local = u.local
    BY <1>1 DEF Unit
  <2> HIDE DEF v
  <2> QED BY <1>5, <2>1 DEF Good, Intact
<1>7. [u EXCEPT !.enums[i] = e, !.dumpedEnums = dumped, !.spec = Type("enum", i)]
        = [v EXCEPT !.spec = Type("enum", i)]
  BY <1>1 DEF Unit
<1> HIDE DEF v
<1>8. Type("enum", i) \in TypeSpec /\ Valid(v, Type("enum", i))
  BY <1>2, <1>6 DEF Type, TypeSpec, Kinds, Valid
<1>9. Good(v, [v EXCEPT !.spec = Type("enum", i)])
  BY <1>5, <1>8, SpecGood DEF Good
<1>10. Good(u, [v EXCEPT !.spec = Type("enum", i)])
  BY <1>5, <1>6, <1>9, GoodTwice
<1> QED BY <1>7, <1>10 DEF e, dumped

LEMMA CloseEnumGood ==
  ASSUME NEW u, Intact(u), InEnum(u)
  PROVE  Good(u, CloseEnum(u))
<1> DEFINE f == Last(u.open)
           v == [u EXCEPT !.open = Front(@)]
           i == u.htEnums[f.name]
<1>1. u \in Unit /\ u.open # << >> /\ f.what = "enum"
  BY DEF Intact, InEnum
<1>2. Good(u, v) /\ f \in Frame /\ FrameOK(u, f)
  BY <1>1, PopGood
<1>3. f.name \in Names /\ f.list \in Seq(Nat) /\ \A k \in DOMAIN f.list : f.list[k] \in DOMAIN u.enumerators
  BY <1>1, <1>2 DEF Frame, FrameOK
<1>4. /\ Intact(v) /\ v.local = u.local /\ v.enums = u.enums /\ v.htEnums = u.htEnums
      /\ v.enumerators = u.enumerators /\ v.freed = u.freed
  BY <1>1, <1>2 DEF Unit, Good
<1>5. Good(v, CloseEnum(u))
  <2>1. CASE u.local
    <3>1. CloseEnum(u) = Null(v)
      BY <2>1 DEF CloseEnum
    <3> HIDE DEF v
    <3> QED BY <1>4, <3>1, NullGood
  <2>2. CASE ~u.local /\ f.name \notin DOMAIN u.htEnums
    <3>1. CloseEnum(u) = AddEnum(v, f.name, TRUE, f.list)
      BY <2>2 DEF CloseEnum
    <3> HIDE DEF v, f
    <3> QED BY <1>3, <1>4, <2>2, <3>1, AddEnumGood
  <2>3. CASE ~u.local /\ f.name \in DOMAIN u.htEnums /\ u.enums[i].defined
    <3> DEFINE freed == v.freed \cup ToSet(f.list)
               w == [v EXCEPT !.freed = freed]
    <3>1. CloseEnum(u) = [v EXCEPT !.freed = freed, !.spec = Type("enum", i)]
      BY <2>3 DEF CloseEnum
    <3>2. i = v.htEnums[f.name] /\ f.name \in DOMAIN v.htEnums
      BY <1>4, <2>3
    <3>3. freed \subseteq DOMAIN v.enumerators
      <4>1. v.freed \subseteq DOMAIN v.enumerators
        BY <1>4 DEF Intact, InfoOK
      <4>2. ToSet(f.list) \subseteq DOMAIN v.enumerators
        BY <1>3, <1>4 DEF ToSet
      <4> QED BY <4>1, <4>2
    <3> HIDE DEF v, i, f, freed
    <3>4. Good(v, w)
      BY <1>4, <2>3, <3>3, FreeGood
    <3>5. /\ v \in Unit /\ w.enums = v.enums /\ w.local = v.local
          /\ [v EXCEPT !.freed = freed, !.spec = Type("enum", i)]
               = [w EXCEPT !.spec = Type("enum", i)]
      BY <1>4 DEF Unit, Intact
    <3> HIDE DEF w
    <3>6. Type("enum", i) \in TypeSpec /\ Valid(w, Type("enum", i))
      <4>1. Type("enum", i) \in TypeSpec /\ Valid(v, Type("enum", i))
        BY <1>4, <3>2, KnownEnum
      <4> QED BY <3>4, <4>1, ValidStays DEF Good
    <3>7. Good(w, [w EXCEPT !.spec = Type("enum", i)])
      BY <3>4, <3>6, SpecGood DEF Good
    <3>8. Good(v, [w EXCEPT !.spec = Type("enum", i)])
      BY <1>4, <3>4, <3>5, <3>7, GoodTwice
    <3> QED BY <3>1, <3>5, <3>8
  <2>4. CASE ~u.local /\ f.name \in DOMAIN u.htEnums /\ ~u.enums[i].defined
    <3> DEFINE list == f.list
               w == [v EXCEPT !.enums[i] = [@ EXCEPT !.defined = TRUE, !.list = list],
                              !.dumpedEnums = @ \ {i}, !.spec = Type("enum", i)]
    <3>1. CloseEnum(u) = w
      BY <2>4 DEF CloseEnum
    <3>2. i = v.htEnums[f.name] /\ f.name \in DOMAIN v.htEnums
      BY <1>4, <2>4
    <3>3. list \in Seq(Nat)
      BY <1>3
    <3> HIDE DEF v, i, f, list
    <3>4. i \in DOMAIN v.enums /\ ~v.enums[i].defined /\ ~v.local
      BY <1>4, <2>4, <3>2, KnownEnum
    <3>5. Good(v, w)
      BY <1>4, <3>3, <3>4, CompleteEnumGood
    <3> QED BY <3>1, <3>5
  <2> QED BY <2>1, <2>2, <2>3, <2>4
<1> QED BY <1>2, <1>4, <1>5, GoodTwice

LEMMA AddTypedefsGood ==
  ASSUME NEW u, Intact(u), NEW names \in Declarators
  PROVE  Good(u, AddTypedefs(u, names))
<1> DEFINE t == u.spec
           v == [u EXCEPT !.spec = NoType]
           w == Counted(v, t)
           x == [w EXCEPT !.typedefs = Append(@, [type |-> t, names |-> names]),
                          !.htTypedefs = StoredAll(@, Len(w.typedefs) + 1, names)]
<1>1. u \in Unit /\ t \in TypeSpec /\ Valid(u, t)
  BY DEF Intact, Unit
<1>2. Good(u, v) /\ v.local = u.local /\ v.typedefs = u.typedefs
  <2>1. v = Discard(u)
    BY DEF Discard
  <2>2. v.local = u.local /\ v.typedefs = u.typedefs
    BY <1>1 DEF Unit
  <2> QED BY <2>1, <2>2, NullGood
<1>3. CASE u.local
  BY <1>2, <1>3 DEF AddTypedefs
<1>4. CASE ~u.local
  <2>1. AddTypedefs(u, names)
          = [w EXCEPT !.typedefs = Append(@, [type |-> t, names |-> names]),
                      !.htTypedefs = StoredAll(@, Len(u.typedefs) + 1, names)]
    BY <1>4 DEF AddTypedefs
  <2> HIDE DEF v, t
  <2>2. Valid(v, t) /\ Intact(v)
    BY <1>1, <1>2, ValidStays DEF Good
  <2>3. Good(v, w) /\ w.typedefs = u.typedefs /\ w.local = u.local
    BY <1>2, <1>4, <2>2, CountedGood
  <2> HIDE DEF w
  <2>4. Intact(w) /\ Good(u, w) /\ Valid(w, t)
    BY <1>2, <2>2, <2>3, GoodTwice, ValidStays DEF Good
  <2>5. Good(w, x)
    BY <1>1, <1>4, <2>3, <2>4, TypedefsGood
  <2>6. Good(u, x)
    BY <2>3, <2>4, <2>5, GoodTwice
  <2> QED BY <2>1, <2>3, <2>6
<1> QED BY <1>3, <1>4

\* What a syntax error frees: in a function there is nothing.
LEMMA AbortGood ==
  ASSUME NEW u, Intact(u)
  PROVE  Good(u, Abort(u))
<1> DEFINE lists == {u.open[k].list : k \in {k \in DOMAIN u.open : u.open[k].what = "enum"}}
           freed == u.freed \cup UNION {ToSet(s) : s \in lists}
           v == [u EXCEPT !.freed = freed]
           w == [v EXCEPT !.parsing = FALSE, !.local = FALSE, !.open = << >>, !.spec = NoType,
                          !.saved = << >>, !.current = 0]
<1>1. u \in Unit /\ u.freed \subseteq DOMAIN u.enumerators /\ u.open \in Seq(Frame)
  BY DEF Intact, Unit, InfoOK
<1>2. ASSUME NEW k \in DOMAIN u.open, u.open[k].what = "enum"
      PROVE  ToSet(u.open[k].list) \subseteq DOMAIN u.enumerators
             /\ (u.local => ToSet(u.open[k].list) = {})
  <2>1. FrameOK(u, u.open[k])
    BY DEF Intact, OpenOK
  <2>2. u.local => ToSet(u.open[k].list) = {}
    BY <2>1 DEF FrameOK, ToSet
  <2>3. \A n \in DOMAIN u.open[k].list : u.open[k].list[n] \in DOMAIN u.enumerators
    BY <1>2, <2>1 DEF FrameOK
  <2> QED BY <2>2, <2>3 DEF ToSet
<1>3. \A s \in lists : ToSet(s) \subseteq DOMAIN u.enumerators /\ (u.local => ToSet(s) = {})
  BY <1>2
<1> HIDE DEF lists
<1>4. freed \subseteq DOMAIN u.enumerators /\ (u.local => freed = u.freed)
  BY <1>1, <1>3
<1>5. w = [u EXCEPT !.parsing = FALSE, !.local = FALSE, !.open = << >>, !.spec = NoType,
                    !.freed = freed, !.saved = << >>, !.current = 0]
  <2> HIDE DEF freed
  <2> QED BY <1>1 DEF Unit
<1>6. Abort(u) = w
  BY <1>5 DEF Abort, lists
<1> HIDE DEF freed
<1>7. Good(u, v)
  BY <1>4, FreeGood
<1> HIDE DEF v
<1>8. v \in Unit /\ Valid(v, NoType) /\ NoType \in TypeSpec /\ Intact(v)
  BY <1>7, SimpleTypes DEF Good, Intact
<1>9. w \in Unit /\ Info(w) = Info(v) /\ w.open = << >> /\ w.spec = NoType
  BY <1>8, EmptyFacts DEF Unit, Info
<1> HIDE DEF w
<1>10. Good(v, w)
  BY <1>8, <1>9, SameInfo
<1>11. u.local => Info(w) = Info(u)
  BY <1>7, <1>9 DEF Good
<1>12. Stay(u, w) /\ Grows(u, w) /\ Intact(w)
  BY <1>1, <1>7, <1>8, <1>9, <1>10, StaysTwice DEF Good
<1> QED BY <1>6, <1>11, <1>12 DEF Good

-----------------------------------------------------------------------------
(* Every step there is. *)

LEMMA PragmaSteps ==
  ASSUME Intact(unit), Pragma
  PROVE  Good(unit, unit')
<1>1. ASSUME NEW n, unit' = PackSet(unit, n) \/ unit' = PackReset(unit)
                    \/ unit' = PackPush(unit, n) \/ unit' = PackPop(unit)
      PROVE  Good(unit, unit')
  BY <1>1, PragmaGood
<1>2. ASSUME NEW n, Reads("set", n)
      PROVE  unit' = PackSet(unit, n)
  BY <1>2 DEF Reads, Step, Token
<1>3. ASSUME NEW n, Reads("push", n)
      PROVE  unit' = PackPush(unit, n)
  BY <1>3 DEF Reads, Step, Token
<1>4. Reads("reset", 0) => unit' = PackReset(unit)
  BY DEF Reads, Step, Token
<1>5. Reads("pop", 0) => unit' = PackPop(unit)
  BY DEF Reads, Step, Token
<1> QED BY <1>1, <1>2, <1>3, <1>4, <1>5 DEF Pragma

LEMMA SpecifierSteps ==
  ASSUME Intact(unit), Basic \/ TypeName \/ Struct \/ Enum
  PROVE  Good(unit, unit')
<1>1. CASE Basic
  <2>1. unit' = [unit EXCEPT !.spec = BasicType]
    BY <1>1 DEF Basic, Reads, Step, Token
  <2> QED BY <2>1, NullGood
<1>2. CASE TypeName
  <2>1. PICK x \in TypeNames : Reads("name", x)
    BY <1>2 DEF TypeName
  <2>2. unit' = NameType(unit, x) /\ x \in DOMAIN unit.htTypedefs
    BY <2>1 DEF Reads, Step, Accepts, Token
  <2> QED BY <2>2, NameTypeGood
<1>3. CASE Struct
  <2>1. PICK x \in Tags : Reads("struct", x)
    BY <1>3 DEF Struct
  <2>2. unit' = NameStruct(unit, x)
    BY <2>1 DEF Reads, Step, Token
  <2> QED BY <2>2, NameStructGood DEF Names
<1>4. CASE Enum
  <2>1. PICK x \in Tags : Reads("enum", x)
    BY <1>4 DEF Enum
  <2>2. unit' = NameEnum(unit, x)
    BY <2>1 DEF Reads, Step, Token
  <2> QED BY <2>2, NameEnumGood DEF Names
<1> QED BY <1>1, <1>2, <1>3, <1>4

LEMMA NestingSteps ==
  ASSUME Intact(unit), BeginStruct \/ EndStruct \/ BeginEnum \/ Enumerator \/ EndEnum
  PROVE  Good(unit, unit')
<1>1. CASE BeginStruct
  <2>1. PICK x \in Names : Reads("{", x)
    BY <1>1 DEF BeginStruct
  <2>2. unit' = Opened(unit, "struct", x)
    BY <2>1 DEF Reads, Step, Token
  <2> QED BY <2>2, OpenedGood
<1>2. CASE EndStruct
  <2>1. unit' = CloseStruct(unit) /\ InStruct(unit)
    BY <1>2 DEF EndStruct, Reads, Step, Accepts, Token
  <2> QED BY <2>1, CloseStructGood
<1>3. CASE BeginEnum
  <2>1. PICK x \in Names : Reads("enum{", x)
    BY <1>3 DEF BeginEnum
  <2>2. unit' = Opened(unit, "enum", x)
    BY <2>1 DEF Reads, Step, Token
  <2> QED BY <2>2, OpenedGood
<1>4. CASE Enumerator
  <2>1. PICK x \in Constants, v \in Values \cup {NoValue} :
          Reads("const", [name |-> x, value |-> v])
    BY <1>4 DEF Enumerator
  <2>2. unit' = AddEnumerator(unit, x, v) /\ InEnum(unit)
    BY <2>1 DEF Reads, Step, Accepts, Token
  <2> QED BY <2>2, AddEnumeratorGood
<1>5. CASE EndEnum
  <2>1. unit' = CloseEnum(unit) /\ InEnum(unit)
    BY <1>5 DEF EndEnum, Reads, Step, Accepts, Token
  <2> QED BY <2>1, CloseEnumGood
<1> QED BY <1>1, <1>2, <1>3, <1>4, <1>5

LEMMA DeclarationSteps ==
  ASSUME Intact(unit), Member \/ Typedefs \/ Semicolon
  PROVE  Good(unit, unit')
<1>1. CASE Member
  <2>1. PICK p \in {<< >>, <<TRUE>>, <<FALSE>>} : Reads("member", p)
    BY <1>1 DEF Member
  <2>2. unit' = AddMember(unit, p) /\ InStruct(unit)
    BY <2>1 DEF Reads, Step, Accepts, Token
  <2>3. p \in Seq(BOOLEAN)
    <3>1. << >> \in Seq(BOOLEAN) /\ <<TRUE>> \in Seq(BOOLEAN) /\ <<FALSE>> \in Seq(BOOLEAN)
      OBVIOUS
    <3> QED BY <3>1
  <2> QED BY <2>2, <2>3, AddMemberGood
<1>2. CASE Typedefs
  <2>1. PICK ds \in Declarators : Reads("typedef", ds)
    BY <1>2 DEF Typedefs
  <2>2. unit' = AddTypedefs(unit, ds)
    BY <2>1 DEF Reads, Step, Token
  <2> QED BY <2>2, AddTypedefsGood
<1>3. CASE Semicolon
  <2>1. unit' = Discard(unit)
    BY <1>3 DEF Semicolon, Reads, Step, Token
  <2> QED BY <2>1, NullGood
<1> QED BY <1>1, <1>2, <1>3

LEMMA Steps ==
  ASSUME Intact(unit), Next
  PROVE  Good(unit, unit')
<1>1. CASE Parse \/ EndParse
  BY <1>1, CallGood DEF Parse, EndParse
<1>2. CASE SyntaxError
  BY <1>2, AbortGood DEF SyntaxError
<1>3. CASE BeginFunction \/ EndFunction
  BY <1>3, CallGood DEF BeginFunction, EndFunction, AtRest
<1> QED BY <1>1, <1>2, <1>3, PragmaSteps, SpecifierSteps, NestingSteps, DeclarationSteps DEF Next

-----------------------------------------------------------------------------
(* The theorems. *)

LEMMA Initially ==
  Init => Intact(unit)
<1> SUFFICES ASSUME Init
             PROVE  Intact(unit)
  OBVIOUS
<1>1. /\ unit.structs = << >> /\ unit.htStructs = << >> /\ unit.enums = << >>
      /\ unit.htEnums = << >> /\ unit.typedefs = << >> /\ unit.htTypedefs = << >>
      /\ unit.freed = {} /\ unit.open = << >> /\ unit.spec = NoType
  BY DEF Init, NewInfo, NoTable
<1>2. unit \in Unit
  <2>1. \A D, S : << >> \in Tables(D, S)
    <3>1. \A S : << >> \in [{} -> S]
      OBVIOUS
    <3> QED BY <3>1 DEF Tables
  <2>2. NoType \in TypeSpec
    BY SimpleTypes
  <2> QED BY <2>1, <2>2 DEF Init, NewInfo, NoTable, Unit, Packings
<1>3. InfoOK(unit)
  BY <1>1 DEF InfoOK
<1>4. OpenOK(unit) /\ Valid(unit, unit.spec)
  BY <1>1, SimpleTypes DEF OpenOK
<1> QED BY <1>2, <1>3, <1>4 DEF Intact

LEMMA Invariance ==
  Intact(unit) /\ [Next]_unit => Intact(unit)'
<1>1. ASSUME Intact(unit), Next
      PROVE  Intact(unit')
  BY <1>1, Steps DEF Good
<1>2. ASSUME Intact(unit), UNCHANGED unit
      PROVE  Intact(unit')
  BY <1>2
<1> QED BY <1>1, <1>2

LEMMA AlwaysLinked ==
  Spec => []Intact(unit)
BY Initially, Invariance, PTL DEF Spec

\* What a type, a name or the parser refers to is in its list, and each name has
\* one definition, whatever is nested and whichever parse calls fail.
THEOREM OneDefinitionEach ==
  Spec => []WellLinked
<1>1. Intact(unit) => WellLinked
  <2> SUFFICES ASSUME Intact(unit)
               PROVE  TypeOK /\ OneOfEachName
    BY DEF WellLinked
  <2>1. /\ unit \in Unit /\ InfoOK(unit) /\ OpenOK(unit) /\ Valid(unit, unit.spec)
    BY DEF Intact
  <2>2. /\ \A s \in ToSet(unit.structs) : \A d \in ToSet(s.decls) : Valid(unit, d.type)
        /\ \A t \in ToSet(unit.typedefs) : Valid(unit, t.type)
        /\ unit.freed \subseteq DOMAIN unit.enumerators
    BY <2>1 DEF InfoOK, ToSet
  <2>3. ASSUME NEW k \in DOMAIN unit.open
        PROVE  LET f == unit.open[k]
               IN  /\ f.what = "struct" => \A d \in ToSet(f.list) : Valid(unit, d.type)
                   /\ f.what = "enum" => ToSet(f.list) \subseteq DOMAIN unit.enumerators
                   /\ unit.local => f.list = << >>
    BY <2>1 DEF OpenOK, FrameOK, ToSet
  <2>4. unit.current \in {0, 1, 2, 4, 8} /\ ToSet(unit.saved) \subseteq {0, 1, 2, 4, 8}
    <3>1. unit.current \in Packings /\ unit.saved \in Seq(Packings)
      BY <2>1, UnitFields
    <3>2. \A k \in DOMAIN unit.saved : unit.saved[k] \in Packings
      BY <3>1
    <3> QED BY <3>1, <3>2 DEF Packings, ToSet
  <2>5. TypeOK
    BY <2>1, <2>2, <2>3, <2>4 DEF TypeOK
  <2>6. OneOfEachName
    BY <2>1 DEF InfoOK, OneOfEachName
  <2> QED BY <2>5, <2>6
<1> QED BY <1>1, AlwaysLinked, PTL

\* Nothing that is declared in the body of a function outlives it, nor does a
\* syntax error there free anything.
THEOREM FunctionsLeaveNothing ==
  Spec => LocalsVanish
<1>1. Intact(unit) /\ [Next]_unit => [unit.local => Info(unit') = Info(unit)]_unit
  BY Steps DEF Good
<1> QED BY <1>1, AlwaysLinked, PTL DEF Spec, LocalsVanish

\* No later declaration, parse call or failure changes what is defined.
THEOREM DefinitionsAreFinal ==
  Spec => DefinitionsStay
<1> DEFINE Stays == Stay(unit, unit')
<1>1. Intact(unit) /\ [Next]_unit => [Stays]_unit
  BY Steps DEF Good
<1>2. Stays <=>
        /\ \A i \in DOMAIN unit.structs :
             LET s == unit.structs[i]  t == unit'.structs[i]
             IN  s.name = t.name /\ (s.defined => [t EXCEPT !.used = s.used] = s)
        /\ \A i \in DOMAIN unit.enums :
             LET e == unit.enums[i]  f == unit'.enums[i]
             IN  e.name = f.name /\ (e.defined => [f EXCEPT !.used = e.used] = e)
        /\ \A x \in DOMAIN unit.htTypedefs : unit'.htTypedefs[x] = unit.htTypedefs[x]
        /\ \A x \in DOMAIN unit.htEnumerators : unit'.htEnumerators[x] = unit.htEnumerators[x]
        /\ IsPrefix(unit.typedefs, unit'.typedefs)
  BY DEF Stay
<1> HIDE DEF Stays
<1> QED BY <1>1, <1>2, AlwaysLinked, PTL DEF Spec, DefinitionsStay

-----------------------------------------------------------------------------
(* Linked lists: loops. *)

\* Every set of natural numbers has a least member.
LEMMA Least ==
  ASSUME NEW T, T \subseteq Nat, T # {}
  PROVE  \E k \in T : \A y \in T : k <= y
<1> DEFINE R == OpToRel(<, Nat)
<1>1. IsWellFoundedOn(R, Nat)
  BY NatLessThanWellFounded
<1> HIDE DEF R
<1>2. PICK k \in T : \A y \in T : <<y, k>> \notin R
  BY <1>1, WFMin
<1>3. ASSUME NEW y \in T, ~(k <= y) PROVE FALSE
  <2> DEFINE p == <<y, k>>
  <2>1. p \in Nat \X Nat /\ p[1] = y /\ p[2] = k /\ p[1] < p[2]
    BY <1>2, <1>3
  <2> HIDE DEF p
  <2>2. p \in R
    BY <2>1, SMT DEF R, OpToRel
  <2> QED BY <1>2, <2>2 DEF p
<1> QED BY <1>2, <1>3

\* Induction over the natural numbers, for a set of them.
LEMMA NatSetInduction ==
  ASSUME NEW S, 0 \in S, \A n \in S \cap Nat : n + 1 \in S
  PROVE  Nat \subseteq S
<1> DEFINE T == Nat \ S
<1> SUFFICES ASSUME T # {} PROVE FALSE
  OBVIOUS
<1>1. PICK k \in T : \A y \in T : k <= y
  <2>1. T \subseteq Nat
    OBVIOUS
  <2> HIDE DEF T
  <2> QED BY <2>1, Least
<1>2. k \in Nat /\ k \notin S
  BY DEF T
<1>3. k # 0 /\ k - 1 \in Nat /\ k = (k - 1) + 1
  BY <1>2
<1>4. k - 1 \in S
  <2> SUFFICES ASSUME k - 1 \in T PROVE FALSE
    BY <1>3
  <2>1. k <= k - 1
    BY <1>1
  <2> QED BY <1>2, <2>1
<1>5. (k - 1) + 1 \in S
  BY <1>3, <1>4
<1> QED BY <1>2, <1>3, <1>5

\* A loop that turns one value of S into another has a value after each turn.
LEMMA LoopFacts ==
  ASSUME NEW S, NEW x \in S, NEW n \in Nat, NEW F \in [1..n -> [S -> S]]
  PROVE  \E s \in [0..n -> S] : s[0] = x /\ \A k \in 1..n : s[k] = F[k][s[k - 1]]
<1> DEFINE Loops(s, m) == s \in [0..m -> S] /\ s[0] = x /\ \A k \in 1..m : s[k] = F[k][s[k - 1]]
           N == {m \in Nat : m <= n => \E s : Loops(s, m)}
<1>1. 0 \in N
  <2> DEFINE s == [k \in 0..0 |-> x]
  <2>1. Loops(s, 0)
    OBVIOUS
  <2> HIDE DEF s
  <2> QED BY <2>1
<1>2. ASSUME NEW m \in N \cap Nat PROVE m + 1 \in N
  <2> HIDE DEF Loops
  <2> SUFFICES ASSUME m + 1 <= n PROVE \E s : Loops(s, m + 1)
    OBVIOUS
  <2> USE DEF Loops
  <2>1. PICK s : Loops(s, m)
    BY <1>2
  <2> DEFINE t == [k \in 0..(m + 1) |-> IF k <= m THEN s[k] ELSE F[m + 1][s[m]]]
  <2>2. s[m] \in S /\ F[m + 1] \in [S -> S]
    BY <2>1
  <2>3. t \in [0..(m + 1) -> S] /\ t[0] = x
    BY <2>1, <2>2
  <2>4. ASSUME NEW k \in 1..(m + 1) PROVE t[k] = F[k][t[k - 1]]
    <3>1. CASE k <= m
      BY <2>1, <3>1
    <3>2. CASE k = m + 1
      BY <2>1, <3>2
    <3> QED BY <3>1, <3>2
  <2> HIDE DEF t
  <2>5. Loops(t, m + 1)
    BY <2>3, <2>4
  <2> QED BY <2>5
<1>3. \E s : Loops(s, n)
  <2> HIDE DEF N
  <2>1. Nat \subseteq N
    BY <1>1, <1>2, NatSetInduction
  <2> QED BY <2>1 DEF N
<1> QED BY <1>3

\* The values of a loop that begins with x.
Runs(S, n, F, x, s) == s \in [0..n -> S] /\ s[0] = x /\ \A k \in 1..n : s[k] = F[k][s[k - 1]]

\* There are such values.
LEMMA LoopRuns ==
  ASSUME NEW S, NEW x \in S, NEW n \in Nat, NEW F \in [1..n -> [S -> S]]
  PROVE  \E s : Runs(S, n, F, x, s)
<1>1. PICK s \in [0..n -> S] : s[0] = x /\ \A k \in 1..n : s[k] = F[k][s[k - 1]]
  BY LoopFacts, SMTT(60)
<1>2. Runs(S, n, F, x, s)
  BY <1>1 DEF Runs
<1> QED BY <1>2

\* A loop that starts in a set and does not leave it ends in it.
LEMMA LoopStays ==
  ASSUME NEW S, NEW n \in Nat, NEW p, p[0] \in S,
         \A k \in 1..n : p[k - 1] \in S => p[k] \in S
  PROVE  \A k \in 0..n : p[k] \in S
<1> DEFINE N == {k \in Nat : k <= n => p[k] \in S}
<1>1. 0 \in N
  OBVIOUS
<1>2. ASSUME NEW k \in N \cap Nat PROVE k + 1 \in N
  <2> SUFFICES ASSUME k + 1 <= n PROVE p[k + 1] \in S
    OBVIOUS
  <2>1. k + 1 \in 1..n /\ (k + 1) - 1 = k
    OBVIOUS
  <2> QED BY <2>1
<1> HIDE DEF N
<1>3. Nat \subseteq N
  BY <1>1, <1>2, NatSetInduction
<1> QED BY <1>3 DEF N

-----------------------------------------------------------------------------
\* A function whose values differ has as many values as arguments.
LEMMA Images ==
  ASSUME NEW A, NEW B, IsFiniteSet(A), NEW f, \A x \in A : f[x] \in B,
         \A y \in B : \E x \in A : y = f[x],
         \A x, y \in A : f[x] = f[y] => x = y
  PROVE  Cardinality(B) = Cardinality(A)
<1> DEFINE g == [x \in A |-> f[x]]
<1>1. g \in [A -> B]
  OBVIOUS
<1>2. g \in Bijection(A, B)
  BY <1>1 DEF Bijection, Injection, Surjection, IsInjective
<1> HIDE DEF g
<1>3. ExistsBijection(A, B)
  BY <1>2 DEF ExistsBijection
<1> QED BY <1>3, FS_Bijection

\* What InsertAt makes of a sequence: e stands at i, and what was there and behind is moved up.
LEMMA InsertAtFacts ==
  ASSUME NEW S, NEW c \in Seq(S), NEW i \in 1..(Len(c) + 1), NEW e \in S
  PROVE  /\ InsertAt(c, i, e) \in Seq(S) /\ Len(InsertAt(c, i, e)) = Len(c) + 1
         /\ \A j \in 1..(Len(c) + 1) :
              InsertAt(c, i, e)[j] = IF j < i THEN c[j] ELSE IF j = i THEN e ELSE c[j - 1]
<1> DEFINE a == SubSeq(c, 1, i - 1)
           b == SubSeq(c, i, Len(c))
<1>1. Len(c) \in Nat /\ \A j \in 1..Len(c) : c[j] \in S
  BY LenProperties, ElementOfSeq
<1>2. a \in Seq(S) /\ Len(a) = i - 1 /\ \A j \in 1..(i - 1) : a[j] = c[j]
  <2>1. i - 1 \in Int /\ \A j \in 1..(i - 1) : c[j] \in S
    BY <1>1
  <2>2. /\ a \in Seq(S) /\ Len(a) = IF 1 <= i - 1 THEN (i - 1) - 1 + 1 ELSE 0
        /\ \A j \in 1..((i - 1) - 1 + 1) : a[j] = c[1 + j - 1]
    BY <2>1, SubSeqProperties
  <2> HIDE DEF a
  <2> QED BY <2>2
<1>3. b \in Seq(S) /\ Len(b) = Len(c) - i + 1 /\ \A j \in 1..(Len(c) - i + 1) : b[j] = c[i + j - 1]
  <2>1. i \in Int /\ Len(c) \in Int /\ \A j \in i..Len(c) : c[j] \in S
    BY <1>1
  <2>2. /\ b \in Seq(S) /\ Len(b) = IF i <= Len(c) THEN Len(c) - i + 1 ELSE 0
        /\ \A j \in 1..(Len(c) - i + 1) : b[j] = c[i + j - 1]
    BY <2>1, SubSeqProperties
  <2> HIDE DEF b
  <2> QED BY <1>1, <2>2
<1>4. InsertAt(c, i, e) = (a \o <<e>>) \o b
  BY DEF InsertAt
<1> HIDE DEF a, b
<1> DEFINE f == a \o <<e>>
<1>5. f \in Seq(S) /\ Len(f) = i /\ \A j \in 1..i : f[j] = IF j < i THEN c[j] ELSE e
  <2>1. <<e>> \in Seq(S) /\ Len(<<e>>) = 1 /\ <<e>>[1] = e
    OBVIOUS
  <2>2. /\ f \in Seq(S) /\ Len(f) = Len(a) + Len(<<e>>)
        /\ \A j \in 1..(Len(a) + Len(<<e>>)) : f[j] = IF j <= Len(a) THEN a[j] ELSE <<e>>[j - Len(a)]
    BY <1>2, <2>1, ConcatProperties
  <2> HIDE DEF f
  <2>3. Len(f) = i
    BY <1>2, <2>1, <2>2
  <2>4. ASSUME NEW j \in 1..i PROVE f[j] = IF j < i THEN c[j] ELSE e
    <3>1. j <= Len(a) <=> j < i
      BY <1>2
    <3>2. j = i => j - Len(a) = 1
      BY <1>2
    <3>3. j \in 1..(Len(a) + Len(<<e>>))
      BY <1>2, <2>1
    <3> QED BY <1>2, <2>1, <2>2, <3>1, <3>2, <3>3
  <2> QED BY <2>2, <2>3, <2>4
<1> HIDE DEF f
<1>6. /\ f \o b \in Seq(S) /\ Len(f \o b) = Len(f) + Len(b)
      /\ \A j \in 1..(Len(f) + Len(b)) : (f \o b)[j] = IF j <= Len(f) THEN f[j] ELSE b[j - Len(f)]
  BY <1>3, <1>5, ConcatProperties
<1> DEFINE g == f \o b
<1>7. InsertAt(c, i, e) = g
  BY <1>4 DEF f
<1> HIDE DEF g
<1>8. g \in Seq(S) /\ Len(g) = Len(c) + 1
  BY <1>1, <1>3, <1>5, <1>6 DEF g
<1>9. ASSUME NEW j \in 1..(Len(c) + 1)
      PROVE  g[j] = IF j < i THEN c[j] ELSE IF j = i THEN e ELSE c[j - 1]
  <2>1. g[j] = IF j <= i THEN f[j] ELSE b[j - i]
    BY <1>1, <1>3, <1>5, <1>6 DEF g
  <2>2. j > i => j - i \in 1..(Len(c) - i + 1) /\ i + (j - i) - 1 = j - 1
    BY <1>1
  <2>3. j > i => b[j - i] = c[j - 1]
    BY <1>3, <2>2
  <2> QED BY <1>5, <2>1, <2>3
<1> QED BY <1>7, <1>8, <1>9

\* RemoveAt moves what was behind i down.
LEMMA RemoveAtFacts ==
  ASSUME NEW S, NEW c \in Seq(S), NEW i \in 1..Len(c)
  PROVE  /\ RemoveAt(c, i) \in Seq(S) /\ Len(RemoveAt(c, i)) = Len(c) - 1
         /\ \A j \in 1..(Len(c) - 1) : RemoveAt(c, i)[j] = IF j < i THEN c[j] ELSE c[j + 1]
<1> DEFINE a == SubSeq(c, 1, i - 1)
           b == SubSeq(c, i + 1, Len(c))
<1>1. Len(c) \in Nat /\ \A j \in 1..Len(c) : c[j] \in S
  BY LenProperties, ElementOfSeq
<1>2. a \in Seq(S) /\ Len(a) = i - 1 /\ \A j \in 1..(i - 1) : a[j] = c[j]
  <2>1. i - 1 \in Int /\ \A j \in 1..(i - 1) : c[j] \in S
    BY <1>1
  <2>2. /\ a \in Seq(S) /\ Len(a) = IF 1 <= i - 1 THEN (i - 1) - 1 + 1 ELSE 0
        /\ \A j \in 1..((i - 1) - 1 + 1) : a[j] = c[1 + j - 1]
    BY <2>1, SubSeqProperties
  <2> HIDE DEF a
  <2> QED BY <2>2
<1>3. b \in Seq(S) /\ Len(b) = Len(c) - i /\ \A j \in 1..(Len(c) - i) : b[j] = c[i + j]
  <2>1. i + 1 \in Int /\ Len(c) \in Int /\ \A j \in (i + 1)..Len(c) : c[j] \in S
    BY <1>1
  <2>2. /\ b \in Seq(S) /\ Len(b) = IF i + 1 <= Len(c) THEN Len(c) - (i + 1) + 1 ELSE 0
        /\ \A j \in 1..(Len(c) - (i + 1) + 1) : b[j] = c[(i + 1) + j - 1]
    BY <2>1, SubSeqProperties
  <2> HIDE DEF b
  <2> QED BY <1>1, <2>2
<1>4. RemoveAt(c, i) = a \o b
  BY DEF RemoveAt
<1> HIDE DEF a, b
<1>5. /\ a \o b \in Seq(S) /\ Len(a \o b) = Len(a) + Len(b)
      /\ \A j \in 1..(Len(a) + Len(b)) : (a \o b)[j] = IF j <= Len(a) THEN a[j] ELSE b[j - Len(a)]
  BY <1>2, <1>3, ConcatProperties
<1> DEFINE g == a \o b
<1>6. RemoveAt(c, i) = g
  BY <1>4
<1> HIDE DEF g
<1>7. g \in Seq(S) /\ Len(g) = Len(c) - 1
  BY <1>1, <1>2, <1>3, <1>5 DEF g
<1>8. ASSUME NEW j \in 1..(Len(c) - 1)
      PROVE  g[j] = IF j < i THEN c[j] ELSE c[j + 1]
  <2>1. g[j] = IF j <= i - 1 THEN a[j] ELSE b[j - (i - 1)]
    BY <1>1, <1>2, <1>3, <1>5 DEF g
  <2>2. j >= i => j - (i - 1) \in 1..(Len(c) - i) /\ i + (j - (i - 1)) = j + 1
    BY <1>1
  <2>3. j >= i => b[j - (i - 1)] = c[j + 1]
    BY <1>3, <2>2
  <2> QED BY <1>2, <2>1, <2>3
<1> QED BY <1>6, <1>7, <1>8

-----------------------------------------------------------------------------
(* Linked lists: sorting. *)

\* t is s[l..r] in another order, and the same elsewhere: object i of t was
\* object f[i] of s.
Moves(f, s, t, l, r) ==
  /\ f \in [1..Len(s) -> 1..Len(s)]
  /\ \A i, j \in 1..Len(s) : f[i] = f[j] => i = j
  /\ \A j \in 1..Len(s) : \E i \in 1..Len(s) : f[i] = j
  /\ \A i \in 1..Len(s) : i \notin l..r => f[i] = i
  /\ \A i \in 1..Len(s) : t[i] = s[f[i]]

Rearranged(s, t, l, r) ==
  /\ s \in Seq(Items) /\ t \in Seq(Items) /\ Len(t) = Len(s)
  /\ \E f : Moves(f, s, t, l, r)

\* An object in l..r was there before.
LEMMA MovesFacts ==
  ASSUME NEW s \in Seq(Items), NEW t, NEW l \in Int, NEW r \in Int, NEW f, Moves(f, s, t, l, r),
         NEW i \in 1..Len(s)
  PROVE  /\ i \in l..r => f[i] \in l..r
         /\ f[i] \in 1..Len(s) /\ t[i] = s[f[i]] /\ (i \notin l..r => t[i] = s[i])
<1>1. Len(s) \in Nat
  BY LenProperties
<1>2. f[i] \in 1..Len(s)
  BY DEF Moves
<1>3. ASSUME f[i] \notin l..r PROVE f[i] = i
  BY <1>2, <1>3 DEF Moves
<1> QED BY <1>1, <1>2, <1>3 DEF Moves

LEMMA RearrangedSelf ==
  ASSUME NEW s \in Seq(Items), NEW l \in Int, NEW r \in Int
  PROVE  Rearranged(s, s, l, r)
<1> DEFINE f == [i \in 1..Len(s) |-> i]
<1>1. f \in [1..Len(s) -> 1..Len(s)] /\ \A i \in 1..Len(s) : f[i] = i
  OBVIOUS
<1> HIDE DEF f
<1>2. \A j \in 1..Len(s) : \E i \in 1..Len(s) : f[i] = j
  BY <1>1
<1>3. Moves(f, s, s, l, r)
  BY <1>1, <1>2 DEF Moves
<1> QED BY <1>3 DEF Rearranged

LEMMA RearrangedTwice ==
  ASSUME NEW s, NEW t, NEW u, NEW l \in Int, NEW r \in Int,
         NEW k \in Int, NEW m \in Int, l <= k, m <= r,
         Rearranged(s, t, l, r), Rearranged(t, u, k, m)
  PROVE  Rearranged(s, u, l, r)
<1>1. s \in Seq(Items) /\ t \in Seq(Items) /\ u \in Seq(Items) /\ Len(t) = Len(s) /\ Len(u) = Len(s)
  BY DEF Rearranged
<1>2. PICK f : Moves(f, s, t, l, r)
  BY DEF Rearranged
<1>3. PICK g : Moves(g, t, u, k, m)
  BY DEF Rearranged
<1> DEFINE h == [i \in 1..Len(s) |-> f[g[i]]]
<1>4. \A i \in 1..Len(s) : g[i] \in 1..Len(s) /\ f[g[i]] \in 1..Len(s)
  BY <1>1, <1>2, <1>3 DEF Moves
<1>5. h \in [1..Len(s) -> 1..Len(s)]
  BY <1>4
<1>6. ASSUME NEW i \in 1..Len(s), NEW j \in 1..Len(s), h[i] = h[j] PROVE i = j
  <2>1. g[i] = g[j]
    BY <1>2, <1>4, <1>6 DEF Moves
  <2> QED BY <1>1, <1>3, <2>1 DEF Moves
<1>7. ASSUME NEW j \in 1..Len(s) PROVE \E i \in 1..Len(s) : h[i] = j
  <2>1. PICK e \in 1..Len(s) : f[e] = j
    BY <1>2 DEF Moves
  <2>2. PICK i \in 1..Len(s) : g[i] = e
    BY <1>1, <1>3 DEF Moves
  <2> QED BY <2>1, <2>2
<1>8. ASSUME NEW i \in 1..Len(s), i \notin l..r PROVE h[i] = i
  <2>1. Len(s) \in Nat
    BY <1>1, LenProperties
  <2>2. i \notin k..m
    BY <1>8, <2>1
  <2>3. g[i] = i
    BY <1>1, <1>3, <2>2 DEF Moves
  <2> QED BY <1>2, <1>8, <2>3 DEF Moves
<1>9. ASSUME NEW i \in 1..Len(s) PROVE u[i] = s[h[i]]
  BY <1>1, <1>2, <1>3, <1>4 DEF Moves
<1> HIDE DEF h
<1>10. Moves(h, s, u, l, r)
  BY <1>5, <1>6, <1>7, <1>8, <1>9 DEF Moves
<1> QED BY <1>1, <1>10 DEF Rearranged

LEMMA SwappedFacts ==
  ASSUME NEW s \in Seq(Items), NEW l \in Int, NEW r \in Int,
         NEW i \in 1..Len(s), NEW j \in 1..Len(s), i \in l..r, j \in l..r
  PROVE  /\ Rearranged(s, Swapped(s, i, j), l, r)
         /\ \A k \in 1..Len(s) : Swapped(s, i, j)[k] = IF k = i THEN s[j] ELSE IF k = j THEN s[i] ELSE s[k]
<1> DEFINE t == Swapped(s, i, j)
           f == [k \in 1..Len(s) |-> IF k = i THEN j ELSE IF k = j THEN i ELSE k]
<1>1. Len(s) \in Nat /\ s \in [1..Len(s) -> Items]
  BY LenProperties
<1>2. \A k \in 1..Len(s) : t[k] = IF k = i THEN s[j] ELSE IF k = j THEN s[i] ELSE s[k]
  BY <1>1 DEF Swapped
<1>3. t \in [1..Len(s) -> Items]
  BY <1>1 DEF Swapped
<1>4. t \in Seq(Items) /\ Len(t) = Len(s)
  BY <1>1, <1>3
<1>5. Moves(f, s, t, l, r)
  <2> HIDE DEF t
  <2>1. f \in [1..Len(s) -> 1..Len(s)]
    OBVIOUS
  <2>2. \A k \in 1..Len(s) : f[k] = IF k = i THEN j ELSE IF k = j THEN i ELSE k
    OBVIOUS
  <2> HIDE DEF f
  <2>3. ASSUME NEW k \in 1..Len(s) PROVE \E m \in 1..Len(s) : f[m] = k
    <3>1. f[f[k]] = k /\ f[k] \in 1..Len(s)
      BY <2>1, <2>2
    <3> QED BY <3>1
  <2>4. \A k, m \in 1..Len(s) : f[k] = f[m] => k = m
    BY <2>2
  <2>5. \A k \in 1..Len(s) : k \notin l..r => f[k] = k
    BY <2>2
  <2>6. \A k \in 1..Len(s) : t[k] = s[f[k]]
    BY <1>2, <2>2
  <2> HIDE DEF f
  <2> QED BY <2>1, <2>3, <2>4, <2>5, <2>6 DEF Moves
<1> HIDE DEF t, f
<1> QED BY <1>2, <1>4, <1>5 DEF Rearranged, t

\* The first place from i on where an object is not less than p.
LEMMA UpFacts ==
  ASSUME NEW s \in Seq(Items), NEW p \in Int, NEW i \in Nat, 1 <= i,
         NEW x \in i..Len(s), s[x] >= p, NEW up,
         up = CHOOSE z \in i..Len(s) : s[z] >= p /\ \A y \in i..(z - 1) : s[y] < p
  PROVE  up \in i..x /\ s[up] >= p /\ \A y \in i..(up - 1) : s[y] < p
<1> DEFINE T == {z \in i..Len(s) : s[z] >= p}
           First(z) == s[z] >= p /\ \A y \in i..(z - 1) : s[y] < p
<1>1. Len(s) \in Nat /\ \A z \in 1..Len(s) : s[z] \in Int
  BY LenProperties, ElementOfSeq, ListAssumption
<1>2. T \subseteq Nat /\ T # {}
  <2>1. x \in T
    OBVIOUS
  <2> QED BY <1>1, <2>1
<1>3. PICK k \in T : \A y \in T : k <= y
  <2> HIDE DEF T
  <2> QED BY <1>2, Least
<1>4. k \in i..Len(s) /\ First(k)
  <2>1. ASSUME NEW y \in i..(k - 1), ~(s[y] < p) PROVE FALSE
    <3>1. y \in i..Len(s) /\ s[y] >= p /\ ~(k <= y)
      BY <1>1, <1>3, <2>1
    <3> QED BY <1>3, <3>1
  <2> QED BY <1>3, <2>1
<1>5. up = CHOOSE z \in i..Len(s) : First(z)
  OBVIOUS
<1>6. up \in i..Len(s) /\ First(up)
  <2> HIDE DEF First
  <2> QED BY <1>4, <1>5
<1> QED BY <1>1, <1>6, SMTT(30)

\* The last place up to j where an object is not greater than p.
LEMMA DownFacts ==
  ASSUME NEW s \in Seq(Items), NEW p \in Int, NEW j \in Nat, j <= Len(s),
         NEW x \in 1..j, s[x] <= p
  PROVE  \E z \in 1..j : s[z] <= p /\ \A y \in (z + 1)..j : s[y] > p
<1> DEFINE Hit(z) == s[j - z] <= p
           T == {z \in 0..(j - 1) : Hit(z)}
           Final(z) == s[z] <= p /\ \A y \in (z + 1)..j : s[y] > p
<1>1. Len(s) \in Nat /\ \A z \in 1..Len(s) : s[z] \in Int
  BY LenProperties, ElementOfSeq, ListAssumption
<1>2. T \subseteq Nat /\ T # {}
  <2>1. j - x \in 0..(j - 1) /\ j - (j - x) = x
    OBVIOUS
  <2>2. Hit(j - x)
    BY <2>1
  <2> HIDE DEF Hit
  <2>3. j - x \in T
    BY <2>1, <2>2
  <2> QED BY <2>3
<1>3. PICK k \in T : \A y \in T : k <= y
  <2> HIDE DEF T
  <2> QED BY <1>2, Least
<1>4. j - k \in 1..j /\ Final(j - k)
  <2>1. k \in 0..(j - 1) /\ s[j - k] <= p
    BY <1>3
  <2>2. ASSUME NEW y \in ((j - k) + 1)..j, ~(s[y] > p) PROVE FALSE
    <3>1. j - y \in 0..(j - 1) /\ j - (j - y) = y /\ ~(k <= j - y) /\ s[y] <= p
      BY <1>1, <2>1, <2>2
    <3>2. j - y \in T
      BY <3>1
    <3> HIDE DEF T
    <3> QED BY <1>3, <3>1, <3>2
  <2> QED BY <2>1, <2>2
<1> QED BY <1>4

\* What a pass over s[l..r] with pivot s[q] has done: it has found places to
\* stop at, in both directions (sentinels), and has passed no object that
\* belongs to the other side.
Passes == [objs : Seq(Items), i : Int, j : Int, over : BOOLEAN]

Passed(c, s, p, l, r) ==
  /\ c \in Passes /\ Rearranged(s, c.objs, l, r)
  /\ \A y \in l..(c.i - 1) : c.objs[y] <= p
  /\ \A y \in (c.j + 1)..r : c.objs[y] >= p
  /\ c.i \in l..r /\ c.j \in (l - 1)..r
  /\ \/ c.over /\ c.i \in (l + 1)..r /\ c.j \in (l - 1)..(r - 1) /\ c.j < c.i
     \/ /\ ~c.over /\ c.i <= c.j + 2
        /\ \E x \in c.i..r : c.objs[x] >= p
        /\ \/ c.i = l /\ c.j = r /\ c.objs = s
           \/ l < c.i /\ c.j < r

LEMMA PassFields ==
  ASSUME NEW o, NEW i, NEW j, NEW c, c = [objs |-> o, i |-> i, j |-> j, over |-> FALSE],
         NEW x, NEW y, NEW z, NEW v, NEW d
  PROVE  /\ d = [c EXCEPT !.i = y, !.over = v] => d = [objs |-> o, i |-> y, j |-> j, over |-> v]
         /\ d = [c EXCEPT !.i = y, !.j = z, !.over = v] => d = [objs |-> o, i |-> y, j |-> z, over |-> v]
         /\ d = [c EXCEPT !.objs = x, !.i = y, !.j = z]
              => d = [objs |-> x, i |-> y, j |-> z, over |-> FALSE]
         /\ c.objs = o
OBVIOUS

\* One turn.
LEMMA RoundFacts ==
  ASSUME NEW s \in Seq(Items), NEW l \in Nat, 1 <= l, NEW r \in Nat, l < r, r <= Len(s),
         NEW q \in l..(r - 1), NEW p, p = s[q], NEW c, Passed(c, s, p, l, r)
  PROVE  /\ Passed(Round(c, p), s, p, l, r)
         /\ c.over => Round(c, p) = c
         /\ ~c.over => Round(c, p).over \/ Round(c, p).j - Round(c, p).i <= (c.j - c.i) - 2
<1> DEFINE o == c.objs
           i == c.i
           j == c.j
           up == CHOOSE x \in i..Len(o) : o[x] >= p /\ \A y \in i..(x - 1) : o[y] < p
           down == CHOOSE x \in 1..j : o[x] <= p /\ \A y \in (x + 1)..j : o[y] > p
           d == Round(c, p)
<1>1. o \in Seq(Items) /\ Len(o) = Len(s) /\ Len(s) \in Nat /\ i \in l..r /\ j \in (l - 1)..r
  BY LenProperties DEF Passed, Passes, Rearranged
<1>2. p \in Int /\ \A z \in 1..Len(s) : o[z] \in Int
  <2>1. q \in 1..Len(s)
    BY <1>1
  <2>2. s[q] \in Items
    BY <2>1, ElementOfSeq
  <2> HIDE DEF o
  <2>3. \A z \in 1..Len(s) : o[z] \in Items
    BY <1>1, ElementOfSeq
  <2> QED BY <2>2, <2>3, ListAssumption
<1>3. CASE c.over
  BY <1>3 DEF Round
<1> SUFFICES ASSUME ~c.over
             PROVE  Passed(d, s, p, l, r) /\ (d.over \/ d.j - d.i <= (j - i) - 2)
  BY <1>3
<1>4. PICK x \in i..r : o[x] >= p
  BY DEF Passed
<1>5. /\ i <= j + 2
      /\ \A y \in l..(i - 1) : o[y] <= p
      /\ \A y \in (j + 1)..r : o[y] >= p
      /\ (i = l /\ j = r /\ o = s) \/ (l < i /\ j < r)
      /\ Rearranged(s, o, l, r) /\ c \in Passes
  BY DEF Passed
<1>6. up \in i..x /\ o[up] >= p /\ \A y \in i..(up - 1) : o[y] < p
  <2>1. i \in Nat /\ 1 <= i /\ x \in i..Len(o)
    BY <1>1
  <2>2. up = CHOOSE y \in i..Len(o) : o[y] >= p /\ \A z \in i..(y - 1) : o[z] < p
    OBVIOUS
  <2> HIDE DEF o, i, up
  <2> QED BY <1>1, <1>2, <1>4, <2>1, <2>2, UpFacts, ZenonT(60)
<1>7. ASSUME up <= j
      PROVE  down \in (l..j) /\ o[down] <= p /\ \A y \in (down + 1)..j : o[y] > p
  <2>1. \E z \in l..j : o[z] <= p
    <3> HIDE DEF o, i, j, up
    <3>1. CASE i = l /\ j = r /\ o = s
      <4>1. q \in l..j /\ o[q] <= p
        BY <1>1, <1>2, <3>1
      <4> QED BY <4>1
    <3>2. CASE l < i
      <4>1. i - 1 \in l..j /\ i - 1 \in l..(i - 1)
        BY <1>1, <1>6, <1>7, <3>2
      <4> QED BY <1>5, <4>1
    <3> QED BY <1>5, <3>1, <3>2
  <2>2. PICK z \in l..j : o[z] <= p
    BY <2>1
  <2>3. j \in Nat /\ j <= Len(o) /\ z \in 1..j
    BY <1>1
  <2> DEFINE Final(y) == o[y] <= p /\ \A m \in (y + 1)..j : o[m] > p
  <2>4. \E y \in 1..j : Final(y)
    <3> HIDE DEF o, j
    <3> QED BY <1>1, <1>2, <2>2, <2>3, DownFacts
  <2>5. down \in 1..j /\ Final(down)
    <3>1. down = CHOOSE y \in 1..j : Final(y)
      OBVIOUS
    <3> HIDE DEF Final, down
    <3> QED BY <2>4, <3>1
  <2>6. z <= down
    <3> HIDE DEF o, j, down, up
    <3> QED BY <1>1, <1>2, <2>2, <2>3, <2>5
  <2> HIDE DEF o, j, down, up
  <2> QED BY <1>1, <2>2, <2>5, <2>6
<1>8. c = [objs |-> o, i |-> i, j |-> j, over |-> FALSE]
  <2>1. c = [objs |-> o, i |-> i, j |-> j, over |-> c.over]
    BY <1>5 DEF Passes
  <2>2. c.over = FALSE
    BY <1>5 DEF Passes
  <2> QED BY <2>1, <2>2
<1>9. d = IF up > j THEN [objs |-> o, i |-> up, j |-> j, over |-> TRUE]
          ELSE IF up > down THEN [objs |-> o, i |-> up, j |-> down, over |-> TRUE]
          ELSE [objs |-> Swapped(o, up, down), i |-> up + 1, j |-> down - 1, over |-> FALSE]
  <2> DEFINE e == [c EXCEPT !.objs = Swapped(c.objs, up, down), !.i = up + 1, !.j = down - 1]
  <2>1. d = IF up > j THEN [c EXCEPT !.i = up, !.over = TRUE]
            ELSE IF up > down THEN [c EXCEPT !.i = up, !.j = down, !.over = TRUE] ELSE e
    BY DEF Round
  <2> HIDE DEF e
  <2> HIDE DEF d, up, down, o, i, j
  <2>2. /\ d = [c EXCEPT !.i = up, !.over = TRUE] => d = [objs |-> o, i |-> up, j |-> j, over |-> TRUE]
        /\ d = [c EXCEPT !.i = up, !.j = down, !.over = TRUE]
             => d = [objs |-> o, i |-> up, j |-> down, over |-> TRUE]
    BY <1>8, PassFields
  <2>3. d = [c EXCEPT !.objs = Swapped(c.objs, up, down), !.i = up + 1, !.j = down - 1]
          => d = [objs |-> Swapped(o, up, down), i |-> up + 1, j |-> down - 1, over |-> FALSE]
    <3>1. c.objs = o
      BY DEF o
    <3>2. \A x1, y1, z1 : d = [c EXCEPT !.objs = x1, !.i = y1, !.j = z1]
                            => d = [objs |-> x1, i |-> y1, j |-> z1, over |-> FALSE]
      BY <1>8, PassFields
    <3>3. d = [c EXCEPT !.objs = Swapped(o, up, down), !.i = up + 1, !.j = down - 1]
            => d = [objs |-> Swapped(o, up, down), i |-> up + 1, j |-> down - 1, over |-> FALSE]
      BY <3>2, Zenon
    <3> QED BY <3>1, <3>3
  <2>4. CASE up > j
    BY <2>1, <2>2, <2>4, Zenon
  <2>5. CASE ~(up > j) /\ up > down
    <3>1. d = [c EXCEPT !.i = up, !.j = down, !.over = TRUE]
      BY <2>1, <2>5, Zenon
    <3> QED BY <2>2, <2>5, <3>1, Zenon
  <2>6. CASE ~(up > j) /\ ~(up > down)
    <3>1. d = [c EXCEPT !.objs = Swapped(c.objs, up, down), !.i = up + 1, !.j = down - 1]
      <4>1. d = e
        BY <2>1, <2>6, Zenon
      <4> QED BY <4>1, Zenon DEF e
    <3> QED BY <2>3, <2>6, <3>1, Zenon
  <2> QED BY <2>4, <2>5, <2>6, Zenon
<1> HIDE DEF d, up, down, o, i, j
<1>10. CASE up > j
  <2>1. d = [objs |-> o, i |-> up, j |-> j, over |-> TRUE]
    BY <1>9, <1>10
  <2>2. j < r /\ l < i
    BY <1>1, <1>4, <1>5, <1>6, <1>10
  <2>3. \A y \in l..(up - 1) : o[y] <= p
    BY <1>1, <1>2, <1>5, <1>6, SMTT(30)
  <2> QED BY <1>1, <1>5, <1>6, <1>10, <2>1, <2>2, <2>3 DEF Passed, Passes
<1>11. CASE up <= j /\ up > down
  <2>1. d = [objs |-> o, i |-> up, j |-> down, over |-> TRUE]
    BY <1>1, <1>6, <1>7, <1>9, <1>11
  <2>2. ASSUME i = l, j = r, o = s PROVE FALSE
    <3>1. up <= q
      BY <1>1, <1>2, <1>6, <2>2
    <3>2. q <= down
      BY <1>1, <1>2, <1>7, <1>11, <2>2
    <3> QED BY <1>1, <1>6, <1>7, <1>11, <3>1, <3>2
  <2>3. l < i /\ j < r
    BY <1>5, <2>2
  <2>4. \A y \in l..(up - 1) : o[y] <= p
    BY <1>1, <1>2, <1>5, <1>6, SMTT(60)
  <2>5. \A y \in (down + 1)..r : o[y] >= p
    BY <1>1, <1>2, <1>5, <1>7, <1>11, SMTT(30)
  <2>6. down \in l..j /\ up \in i..j
    BY <1>1, <1>6, <1>7, <1>11
  <2>7. d \in Passes /\ d.over = TRUE /\ d.i = up /\ d.j = down /\ d.objs = o
    BY <1>1, <2>1, <2>6 DEF Passes
  <2>8. d.i \in (l + 1)..r /\ d.j \in (l - 1)..(r - 1) /\ d.j < d.i /\ d.i \in l..r /\ d.j \in (l - 1)..r
    BY <1>1, <1>11, <2>3, <2>6, <2>7
  <2>9. Passed(d, s, p, l, r)
    BY <1>5, <2>4, <2>5, <2>7, <2>8 DEF Passed
  <2> QED BY <2>7, <2>9
<1>12. CASE up <= j /\ up <= down
  <2> DEFINE t == Swapped(o, up, down)
  <2>0. down \in l..j /\ up \in i..j
    BY <1>1, <1>6, <1>7, <1>12
  <2>1. d = [objs |-> t, i |-> up + 1, j |-> down - 1, over |-> FALSE]
    BY <1>1, <2>0, <1>9, <1>12
  <2>2. /\ Rearranged(o, t, l, r)
        /\ \A k \in 1..Len(s) : t[k] = IF k = up THEN o[down] ELSE IF k = down THEN o[up] ELSE o[k]
    <3>1. up \in 1..Len(o) /\ down \in 1..Len(o) /\ up \in l..r /\ down \in l..r
      BY <1>1, <2>0
    <3> QED BY <1>1, <3>1, SwappedFacts, SMTT(60)
  <2>3. Rearranged(s, t, l, r) /\ t \in Seq(Items)
    <3>1. Rearranged(s, t, l, r)
      BY <1>5, <2>2, RearrangedTwice
    <3> QED BY <3>1 DEF Rearranged
  <2> HIDE DEF t
  <2>4. \A y \in l..up : t[y] <= p
    <3> SUFFICES ASSUME NEW y \in l..up PROVE t[y] <= p
      OBVIOUS
    <3>1. t[y] = IF y = up THEN o[down] ELSE IF y = down THEN o[up] ELSE o[y]
      BY <1>1, <2>0, <2>2
    <3>2. y # up => y < up /\ y # down
      BY <1>1, <1>12, <2>0
    <3>3. y < up => o[y] <= p
      BY <1>1, <1>2, <1>5, <1>6, <2>0
    <3> QED BY <1>7, <1>12, <3>1, <3>2, <3>3
  <2>5. \A y \in down..r : t[y] >= p
    <3> SUFFICES ASSUME NEW y \in down..r PROVE t[y] >= p
      OBVIOUS
    <3>1. t[y] = IF y = up THEN o[down] ELSE IF y = down THEN o[up] ELSE o[y]
      BY <1>1, <2>0, <2>2
    <3>2. y # down => down < y /\ y # up
      BY <1>1, <1>12, <2>0
    <3>3. down < y => o[y] >= p
      BY <1>1, <1>2, <1>5, <1>7, <1>12, <2>0
    <3>4. up = down => t[y] = o[y]
      BY <3>1
    <3> QED BY <1>6, <1>12, <3>1, <3>2, <3>3
  <2>6. \E z \in (up + 1)..r : t[z] >= p
    <3>1. CASE up < down
      <4>1. down \in (up + 1)..r /\ down \in down..r
        BY <1>1, <2>0, <3>1
      <4> QED BY <2>5, <4>1
    <3>2. CASE up = down
      <4>1. CASE j < r
        <5>1. j + 1 \in (up + 1)..r /\ j + 1 \in down..r
          BY <1>1, <2>0, <4>1
        <5> QED BY <2>5, <5>1
      <4>2. CASE i = l /\ j = r /\ o = s
        <5>1. up <= q
          BY <1>1, <1>2, <1>6, <4>2
        <5>2. r \in (up + 1)..r /\ r \in down..r
          BY <1>1, <2>0, <5>1, <3>2
        <5> QED BY <2>5, <5>2
      <4> QED BY <1>5, <4>1, <4>2
    <3> QED BY <1>1, <1>12, <2>0, <3>1, <3>2
  <2>7. up + 1 \in l..r
    BY <1>1, <2>0, <2>6
  <2>8. d \in Passes /\ d.over = FALSE /\ d.i = up + 1 /\ d.j = down - 1 /\ d.objs = t
    BY <1>1, <2>0, <2>1, <2>3 DEF Passes
  <2>9. /\ \A y \in l..(d.i - 1) : t[y] <= p
        /\ \A y \in (d.j + 1)..r : t[y] >= p
    <3>1. d.i - 1 = up /\ d.j + 1 = down
      BY <1>1, <2>0, <2>8
    <3> QED BY <2>4, <2>5, <3>1
  <2>10. /\ d.i \in l..r /\ d.j \in (l - 1)..r /\ d.i <= d.j + 2
         /\ l < d.i /\ d.j < r /\ d.j - d.i <= (j - i) - 2
    BY <1>1, <1>12, <2>0, <2>7, <2>8
  <2>11. Passed(d, s, p, l, r)
    BY <2>3, <2>6, <2>8, <2>9, <2>10 DEF Passed
  <2> QED BY <2>10, <2>11
<1>13. i \in Int /\ j \in Int /\ up \in Int
  BY <1>1, <1>6
<1>14. up <= j => down \in Int
  <2> SUFFICES ASSUME up <= j PROVE down \in Int
    OBVIOUS
  <2> QED BY <1>1, <1>7
<1>15. Passed(d, s, p, l, r) /\ (d.over \/ d.j - d.i <= (j - i) - 2)
  BY <1>10, <1>11, <1>12, <1>13, <1>14
<1> QED BY <1>15 DEF i, j

\* The turns of a pass over s[l..r] that ends with c.
PassOf(turn, c, s, p, l, r) ==
  /\ c = turn[Len(s)]
  /\ turn[0] = [objs |-> s, i |-> l, j |-> r, over |-> FALSE]
  /\ \A k \in 0..Len(s) : Passed(turn[k], s, p, l, r)
  /\ \A k \in 1..Len(s) : turn[k] = Round(turn[k - 1], p)

LEMMA PassRuns ==
  ASSUME NEW s \in Seq(Items), NEW l \in Nat, 1 <= l, NEW r \in Nat, l < r, r <= Len(s),
         NEW q \in l..(r - 1), NEW p, p = s[q]
  PROVE  \E turn : PassOf(turn, Partition(s, p, l, r), s, p, l, r)
<1> DEFINE n == Len(s)
           S == {c \in Passes : Passed(c, s, p, l, r)}
           x == [objs |-> s, i |-> l, j |-> r, over |-> FALSE]
           F == [k \in 1..n |-> [c \in S |-> Round(c, p)]]
           Is(t) == t = [k \in 0..n |-> IF k = 0 THEN x ELSE Round(t[k - 1], p)]
           turn == CHOOSE t : Is(t)
<1>1. n \in Nat
  BY LenProperties
<1>2. x \in S
  <2>1. x \in Passes /\ x.objs = s /\ x.i = l /\ x.j = r /\ x.over = FALSE
    BY DEF Passes
  <2>2. Rearranged(s, s, l, r)
    BY RearrangedSelf
  <2>3. q \in l..r /\ s[q] >= p
    <3>1. q \in 1..Len(s)
      BY <1>1
    <3>2. s[q] \in Items
      BY <3>1, ElementOfSeq
    <3>3. s[q] \in Int
      BY <3>2, ListAssumption
    <3>4. p >= p
      BY <3>3
    <3> QED BY <3>4
  <2> HIDE DEF x
  <2>4. Passed(x, s, p, l, r)
    BY <2>1, <2>2, <2>3 DEF Passed
  <2> QED BY <2>1, <2>4
<1>3. F \in [1..n -> [S -> S]]
  <2>1. ASSUME NEW c \in S PROVE Round(c, p) \in S
    <3>1. Passed(Round(c, p), s, p, l, r)
      BY RoundFacts
    <3> QED BY <3>1 DEF Passed
  <2> HIDE DEF S
  <2> QED BY <2>1
<1>4. PICK t \in [0..n -> S] : t[0] = x /\ \A k \in 1..n : t[k] = F[k][t[k - 1]]
  <2>1. \E t \in [0..n -> S] : t[0] = x /\ \A k \in 1..n : t[k] = F[k][t[k - 1]]
    <3> HIDE DEF F, S, x, n
    <3>1. PICK t : Runs(S, n, F, x, t)
      BY <1>1, <1>2, <1>3, LoopRuns
    <3> QED BY <3>1, Zenon DEF Runs
  <2> QED BY <2>1
<1>5. ASSUME NEW k \in 0..n PROVE t[k] = IF k = 0 THEN x ELSE Round(t[k - 1], p)
  <2> HIDE DEF S, n, x
  <2>1. CASE k = 0
    BY <1>4, <2>1
  <2>2. CASE k # 0
    <3>1. k \in 1..n /\ k - 1 \in 0..n
      BY <1>1, <2>2
    <3>2. t[k - 1] \in S
      <4> HIDE DEF F
      <4> QED BY <1>4, <3>1
    <3>3. F[k][t[k - 1]] = Round(t[k - 1], p)
      BY <3>1, <3>2
    <3>4. t[k] = F[k][t[k - 1]]
      <4> HIDE DEF F
      <4> QED BY <1>4, <3>1
    <3> QED BY <2>2, <3>3, <3>4
  <2> QED BY <2>1, <2>2
<1>6. Is(t)
  <2> HIDE DEF F, S, n, x
  <2> QED BY <1>4, <1>5
<1>7. Is(turn)
  <2> HIDE DEF Is
  <2> QED BY <1>6
<1>8. Partition(s, p, l, r) = turn[n]
  BY DEF Partition
<1> HIDE DEF turn, n
<1>9. turn[0] = x
  <2> HIDE DEF x
  <2> QED BY <1>1, <1>7
<1>10. ASSUME NEW k \in 1..n PROVE turn[k] = Round(turn[k - 1], p)
  <2> HIDE DEF x
  <2>1. k \in 0..n /\ k # 0
    BY <1>1
  <2>2. turn[k] = IF k = 0 THEN x ELSE Round(turn[k - 1], p)
    BY <1>7, <2>1, Zenon
  <2> QED BY <2>1, <2>2
<1>11. \A k \in 0..n : turn[k] \in S
  <2> HIDE DEF x, Is, S
  <2>1. turn[0] \in S
    BY <1>2, <1>9
  <2>2. ASSUME NEW k \in 1..n, turn[k - 1] \in S PROVE turn[k] \in S
    <3>1. Passed(Round(turn[k - 1], p), s, p, l, r)
      BY <2>2, RoundFacts DEF S
    <3> QED BY <1>10, <3>1 DEF S, Passed
  <2> QED BY <1>1, <2>1, <2>2, LoopStays
<1>12. PassOf(turn, Partition(s, p, l, r), s, p, l, r)
  BY <1>8, <1>9, <1>10, <1>11 DEF n, PassOf
<1> QED BY <1>12

\* The pass over s[l..r] with pivot s[q]: no object of s[l..j] is greater than
\* one of s[i..r], and both parts are shorter.
LEMMA PartitionFacts ==
  ASSUME NEW s \in Seq(Items), NEW l \in Nat, 1 <= l, NEW r \in Nat, l < r, r <= Len(s),
         NEW q \in l..(r - 1), NEW c, c = Partition(s, s[q], l, r)
  PROVE  Passed(c, s, s[q], l, r) /\ c.over
<1> DEFINE n == Len(s)
<1>1. n \in Nat /\ n >= 2 /\ r - l <= n - 1
  BY LenProperties
<1>2. PICK turn : /\ c = turn[n]
                  /\ turn[0] = [objs |-> s, i |-> l, j |-> r, over |-> FALSE]
                  /\ \A k \in 0..n : Passed(turn[k], s, s[q], l, r)
                  /\ \A k \in 1..n : turn[k] = Round(turn[k - 1], s[q])
  <2> DEFINE p == s[q]
  <2>1. p = s[q]
    OBVIOUS
  <2> HIDE DEF p
  <2>2. \E turn : PassOf(turn, Partition(s, p, l, r), s, p, l, r)
    BY <2>1, PassRuns
  <2> QED BY <2>1, <2>2 DEF PassOf
<1> DEFINE Far(k) == turn[k].over \/ turn[k].j - turn[k].i <= (r - l) - 2 * k
           N == {k \in Nat : k <= n => Far(k)}
<1> HIDE DEF n
<1>3. 0 \in N
  <2>1. turn[0].j = r /\ turn[0].i = l
    BY <1>2
  <2>2. Far(0)
    BY <2>1
  <2> HIDE DEF Far
  <2> QED BY <2>2
<1>4. ASSUME NEW k \in N \cap Nat PROVE k + 1 \in N
  <2> SUFFICES ASSUME k + 1 <= n PROVE Far(k + 1)
    OBVIOUS
  <2>1. k \in 0..n /\ k + 1 \in 1..n /\ k + 1 \in 0..n /\ (k + 1) - 1 = k
    BY <1>1
  <2>2. Far(k)
    <3> HIDE DEF Far
    <3> QED BY <2>1
  <2> DEFINE a == turn[k]
             b == turn[k + 1]
  <2>3. b = Round(a, s[q]) /\ Passed(a, s, s[q], l, r) /\ Passed(b, s, s[q], l, r)
    BY <1>2, <2>1
  <2>4. a.i \in Int /\ a.j \in Int /\ b.i \in Int /\ b.j \in Int
    <3> HIDE DEF a, b
    <3> QED BY <2>3 DEF Passed, Passes
  <2>5. a.over => b = a
    <3> HIDE DEF a, b
    <3> QED BY <2>3, RoundFacts
  <2>6. ~a.over => b.over \/ b.j - b.i <= (a.j - a.i) - 2
    <3> HIDE DEF a, b
    <3> QED BY <2>3, RoundFacts
  <2>7. a.over \/ a.j - a.i <= (r - l) - 2 * k
    BY <2>2
  <2> HIDE DEF a, b
  <2>8. b.over \/ b.j - b.i <= (r - l) - 2 * (k + 1)
    <3>1. CASE a.over
      BY <2>5, <3>1
    <3>2. CASE ~a.over /\ b.over
      BY <3>2
    <3>3. CASE ~a.over /\ ~b.over
      BY <2>4, <2>6, <2>7, <3>3, SMTT(30)
    <3> QED BY <3>1, <3>2, <3>3
  <2> QED BY <2>8 DEF b
<1>5. Far(n)
  <2> HIDE DEF N, Far
  <2>1. Nat \subseteq N
    BY <1>3, <1>4, NatSetInduction
  <2> QED BY <1>1, <2>1 DEF N
<1>6. Passed(c, s, s[q], l, r)
  BY <1>1, <1>2
<1>7. c.i \in Int /\ c.j \in Int /\ (c.over \/ c.i <= c.j + 2)
  BY <1>6 DEF Passed, Passes
<1>8. c.over \/ c.j - c.i <= (r - l) - 2 * n
  BY <1>2, <1>5
<1> QED BY <1>1, <1>6, <1>7, <1>8

SortedIn(t, l, r) == \A x, y \in l..r : x <= y => t[x] <= t[y]

\* What QuickSort does with parts, and what it has to do with those of no more
\* than m + 1 objects.
Sorts == {f \in [Parts -> Seq(Items)] : \A a \in Parts : Rearranged(a.objs, f[a], a.l, a.r)}
SortsUpTo(f, m) == \A a \in Parts : a.r - a.l <= m => SortedIn(f[a], a.l, a.r)

\* A part is sorted, if there is something to sort.
LEMMA PartSorted ==
  ASSUME NEW f \in Sorts, NEW o \in Seq(Items), NEW x \in Nat, 1 <= x, NEW y \in Nat, y <= Len(o),
         NEW u, u = IF Unsorted(x, y) THEN f[[objs |-> o, l |-> x, r |-> y]] ELSE o,
         NEW m \in Nat
  PROVE  /\ Rearranged(o, u, x, y)
         /\ SortsUpTo(f, m) /\ y - x <= m => SortedIn(u, x, y)
<1>1. CASE Unsorted(x, y)
  <2> DEFINE a == [objs |-> o, l |-> x, r |-> y]
  <2>1. a.objs = o /\ a.l = x /\ a.r = y /\ a \in [objs : Seq(Items), l : Nat, r : Nat]
    OBVIOUS
  <2>2. x < y
    BY <1>1 DEF Unsorted
  <2> HIDE DEF a
  <2>3. a \in Parts
    BY <2>1, <2>2 DEF Parts
  <2>4. u = f[a]
    BY <1>1 DEF a
  <2>5. Rearranged(o, u, x, y)
    BY <2>1, <2>3, <2>4 DEF Sorts
  <2>6. SortsUpTo(f, m) /\ y - x <= m => SortedIn(u, x, y)
    BY <2>1, <2>3, <2>4 DEF SortsUpTo
  <2> QED BY <2>5, <2>6
<1>2. CASE ~Unsorted(x, y)
  <2>1. u = o /\ y <= x
    BY <1>2 DEF Unsorted
  <2>2. ASSUME NEW i \in x..y, NEW j \in x..y, i <= j PROVE o[i] <= o[j]
    <3>1. i = j /\ i \in 1..Len(o)
      BY <2>1, <2>2, LenProperties
    <3>2. o[i] \in Int
      BY <3>1, ElementOfSeq, ListAssumption
    <3> QED BY <3>1, <3>2
  <2>3. SortedIn(o, x, y)
    BY <2>2 DEF SortedIn
  <2> QED BY <2>1, <2>3, RearrangedSelf
<1> QED BY <1>1, <1>2

\* The objects of a part that is rearranged keep their bounds.
LEMMA Bounded ==
  ASSUME NEW s, NEW t, NEW x \in Int, NEW y \in Int, Rearranged(s, t, x, y), 1 <= x, y <= Len(s), NEW p
  PROVE  /\ (\A k \in x..y : s[k] <= p) => \A k \in x..y : t[k] <= p
         /\ (\A k \in x..y : s[k] >= p) => \A k \in x..y : t[k] >= p
         /\ \A k \in 1..Len(s) : k \notin x..y => t[k] = s[k]
         /\ s \in Seq(Items) /\ t \in Seq(Items) /\ Len(t) = Len(s) /\ Len(s) \in Nat
<1>1. s \in Seq(Items) /\ t \in Seq(Items) /\ Len(t) = Len(s) /\ Len(s) \in Nat
  BY LenProperties DEF Rearranged
<1>2. PICK f : Moves(f, s, t, x, y)
  BY DEF Rearranged
<1>3. \A k \in 1..Len(s) : /\ k \in x..y => f[k] \in x..y
                           /\ t[k] = s[f[k]] /\ (k \notin x..y => t[k] = s[k])
  BY <1>1, <1>2, MovesFacts
<1>4. \A k \in x..y : k \in 1..Len(s)
  BY <1>1
<1> QED BY <1>1, <1>3, <1>4

\* QuickSort sorts a part when it sorts shorter ones.
LEMMA SortingFacts ==
  ASSUME NEW f \in Sorts, NEW a \in Parts, NEW m \in Nat
  PROVE  /\ Rearranged(a.objs, Sorting(f, a), a.l, a.r)
         /\ SortsUpTo(f, m) /\ a.r - a.l <= m + 1 => SortedIn(Sorting(f, a), a.l, a.r)
<1> DEFINE s == a.objs
           l == a.l
           r == a.r
           n == a.r - a.l + 1
           q == a.l + (IF n \div 2 > 1 THEN n \div 2 - 1 ELSE 0)
           cut == Partition(a.objs, a.objs[q], a.l, a.r)
           low == IF Unsorted(a.l, cut.j) THEN f[[objs |-> cut.objs, l |-> a.l, r |-> cut.j]]
                  ELSE cut.objs
           res == IF Unsorted(cut.i, a.r) THEN f[[objs |-> low, l |-> cut.i, r |-> a.r]] ELSE low
<1>1. Sorting(f, a) = res
  BY DEF Sorting
<1>2. s \in Seq(Items) /\ l \in Nat /\ 1 <= l /\ r \in Nat /\ l < r /\ r <= Len(s) /\ Len(s) \in Nat
  BY LenProperties DEF Parts
<1>3. q \in l..(r - 1)
  <2>1. n \in Nat /\ n >= 2 /\ n = r - l + 1
    BY <1>2
  <2>2. n \div 2 \in Nat /\ 2 * (n \div 2) <= n
    BY <2>1
  <2>3. q = l + (IF n \div 2 > 1 THEN n \div 2 - 1 ELSE 0)
    OBVIOUS
  <2> HIDE DEF q, n, l, r
  <2> QED BY <1>2, <2>1, <2>2, <2>3
<1>4. cut = Partition(s, s[q], l, r)
  OBVIOUS
<1> DEFINE o == cut.objs
           i == cut.i
           j == cut.j
           p == s[q]
<1>5. low = IF Unsorted(l, j) THEN f[[objs |-> o, l |-> l, r |-> j]] ELSE o
  OBVIOUS
<1>6. res = IF Unsorted(i, r) THEN f[[objs |-> low, l |-> i, r |-> r]] ELSE low
  OBVIOUS
<1> HIDE DEF s, l, r, q, cut, low, res
<1>7. Passed(cut, s, p, l, r) /\ cut.over
  BY <1>2, <1>3, <1>4, PartitionFacts
<1>8. /\ i \in (l + 1)..r /\ j \in (l - 1)..(r - 1) /\ j < i
      /\ Rearranged(s, o, l, r)
      /\ \A y \in l..(i - 1) : o[y] <= p
      /\ \A y \in (j + 1)..r : o[y] >= p
  <2>1. cut.i \in (l + 1)..r /\ cut.j \in (l - 1)..(r - 1) /\ cut.j < cut.i
    BY <1>7 DEF Passed
  <2> QED BY <1>7, <2>1 DEF Passed
<1> HIDE DEF o, i, j, p
<1>9. o \in Seq(Items) /\ Len(o) = Len(s) /\ i \in Nat /\ j \in Nat /\ i \in Int /\ j \in Int
  <2>1. o \in Seq(Items) /\ Len(o) = Len(s)
    BY <1>8 DEF Rearranged
  <2> QED BY <1>2, <1>8, <2>1
<1>10. /\ Rearranged(o, low, l, j)
       /\ SortsUpTo(f, m) /\ j - l <= m => SortedIn(low, l, j)
  BY <1>2, <1>5, <1>8, <1>9, PartSorted
<1>11. low \in Seq(Items) /\ Len(low) = Len(s)
  BY <1>9, <1>10 DEF Rearranged
<1>12. /\ Rearranged(low, res, i, r)
       /\ SortsUpTo(f, m) /\ r - i <= m => SortedIn(res, i, r)
  BY <1>2, <1>6, <1>8, <1>9, <1>11, PartSorted, SMTT(30)
<1>13. Rearranged(s, low, l, r)
  BY <1>2, <1>8, <1>9, <1>10, RearrangedTwice
<1>14. Rearranged(s, res, l, r)
  BY <1>2, <1>8, <1>9, <1>12, <1>13, RearrangedTwice
<1>15. p \in Int
  <2>1. q \in 1..Len(s)
    BY <1>2, <1>3
  <2>2. s[q] \in Items
    BY <1>2, <2>1, ElementOfSeq
  <2> QED BY <2>2, ListAssumption DEF p
<1>16. /\ \A k \in l..j : low[k] <= p
       /\ \A k \in 1..Len(s) : k \notin l..j => low[k] = o[k]
  <2>1. \A k \in l..j : o[k] <= p
    BY <1>2, <1>8, <1>9
  <2>2. j <= Len(o)
    BY <1>2, <1>8, <1>9
  <2>3. l \in Int /\ j \in Int /\ Rearranged(o, low, l, j) /\ 1 <= l
    BY <1>2, <1>9, <1>10
  <2>4. /\ (\A k \in l..j : o[k] <= p) => \A k \in l..j : low[k] <= p
        /\ \A k \in 1..Len(o) : k \notin l..j => low[k] = o[k]
    BY <2>2, <2>3, Bounded
  <2> QED BY <1>9, <2>1, <2>4
<1>17. /\ \A k \in l..(i - 1) : low[k] <= p
       /\ \A k \in (j + 1)..r : low[k] >= p
  BY <1>2, <1>8, <1>9, <1>16
<1>18. /\ \A k \in i..r : res[k] >= p
       /\ \A k \in 1..Len(s) : k \notin i..r => res[k] = low[k]
  <2>1. \A k \in i..r : low[k] >= p
    BY <1>2, <1>8, <1>9, <1>17
  <2>2. 1 <= i /\ r <= Len(low)
    BY <1>2, <1>8, <1>9, <1>11
  <2>3. i \in Int /\ r \in Int /\ Rearranged(low, res, i, r)
    BY <1>2, <1>9, <1>12
  <2>4. /\ (\A k \in i..r : low[k] >= p) => \A k \in i..r : res[k] >= p
        /\ \A k \in 1..Len(low) : k \notin i..r => res[k] = low[k]
    BY <2>2, <2>3, Bounded
  <2> QED BY <1>11, <2>1, <2>4
<1>19. /\ \A k \in l..(i - 1) : res[k] = low[k] /\ res[k] <= p
       /\ \A k \in (j + 1)..r : res[k] >= p
  BY <1>2, <1>8, <1>9, <1>17, <1>18
<1>20. \A k \in 1..Len(s) : res[k] \in Int
  <2>1. res \in Seq(Items) /\ Len(res) = Len(s)
    BY <1>14 DEF Rearranged
  <2> QED BY <2>1, ElementOfSeq, ListAssumption
<1>21. ASSUME SortsUpTo(f, m), r - l <= m + 1 PROVE SortedIn(res, l, r)
  <2>1. SortedIn(low, l, j) /\ SortedIn(res, i, r)
    BY <1>2, <1>8, <1>9, <1>10, <1>12, <1>21
  <2>2. ASSUME NEW x \in l..r, NEW y \in l..r, x <= y PROVE res[x] <= res[y]
    <3>1. CASE y <= j
      <4>1. x \in l..j /\ y \in l..j /\ x \in l..(i - 1) /\ y \in l..(i - 1)
        BY <1>2, <1>8, <1>9, <2>2, <3>1
      <4> QED BY <1>19, <2>1, <2>2, <4>1 DEF SortedIn
    <3>2. CASE x >= i
      <4>1. x \in i..r /\ y \in i..r
        BY <1>2, <1>8, <1>9, <2>2, <3>2
      <4> QED BY <2>1, <2>2, <4>1 DEF SortedIn
    <3>3. CASE x < i /\ j < y
      <4>1. x \in l..(i - 1) /\ y \in (j + 1)..r /\ x \in 1..Len(s) /\ y \in 1..Len(s)
        BY <1>2, <1>8, <1>9, <2>2, <3>3
      <4>2. res[x] <= p /\ p <= res[y]
        BY <1>15, <1>19, <1>20, <4>1
      <4> QED BY <1>15, <1>20, <4>1, <4>2
    <3> QED BY <1>2, <1>9, <2>2, <3>1, <3>2, <3>3
  <2> QED BY <2>2 DEF SortedIn
<1> QED BY <1>1, <1>14, <1>21 DEF s, l, r

\* QuickSort of s[l..r] puts its objects in order, and moves no other.
LEMMA QuickSortFacts ==
  ASSUME NEW s \in Seq(Items), NEW l \in Nat, 1 <= l, NEW r \in Nat, l < r, r <= Len(s)
  PROVE  Rearranged(s, QuickSort(s, l, r), l, r) /\ SortedIn(QuickSort(s, l, r), l, r)
<1> DEFINE n == Len(s)
           S == Sorts
           x == [a \in Parts |-> a.objs]
           F == [k \in 1..n |-> [f \in S |-> [a \in Parts |-> Sorting(f, a)]]]
           Is(t) == t = [k \in 0..n |-> IF k = 0 THEN x ELSE [a \in Parts |-> Sorting(t[k - 1], a)]]
           sort == CHOOSE t : Is(t)
           part == [objs |-> s, l |-> l, r |-> r]
<1>1. n \in Nat
  BY LenProperties
<1>2. x \in S
  <2>1. \A a \in Parts : a.objs \in Seq(Items) /\ a.l \in Nat /\ a.r \in Nat
    BY DEF Parts
  <2>2. \A a \in Parts : Rearranged(a.objs, x[a], a.l, a.r)
    BY <2>1, RearrangedSelf
  <2>3. x \in [Parts -> Seq(Items)]
    BY <2>1
  <2> QED BY <2>2, <2>3 DEF Sorts
<1>3. ASSUME NEW f \in S PROVE [a \in Parts |-> Sorting(f, a)] \in S
  <2> DEFINE g == [a \in Parts |-> Sorting(f, a)]
  <2>1. \A a \in Parts : g[a] = Sorting(f, a)
    OBVIOUS
  <2>2. \A a \in Parts : Rearranged(a.objs, g[a], a.l, a.r)
    BY <2>1, SortingFacts
  <2>3. \A a \in Parts : Sorting(f, a) \in Seq(Items)
    BY <2>1, <2>2 DEF Rearranged
  <2>4. g \in [Parts -> Seq(Items)]
    BY <2>3
  <2> HIDE DEF g
  <2>5. g \in S
    BY <2>2, <2>4 DEF Sorts
  <2> QED BY <2>5 DEF g
<1>4. F \in [1..n -> [S -> S]]
  <2> HIDE DEF S
  <2> QED BY <1>3
<1>5. PICK t : Runs(S, n, F, x, t)
  <2> HIDE DEF F, S, x, n
  <2> QED BY <1>1, <1>2, <1>4, LoopRuns
<1>6. t \in [0..n -> S] /\ t[0] = x /\ \A k \in 1..n : t[k] = F[k][t[k - 1]]
  BY <1>5, Zenon DEF Runs
<1>7. ASSUME NEW k \in 0..n
      PROVE  t[k] = IF k = 0 THEN x ELSE [a \in Parts |-> Sorting(t[k - 1], a)]
  <2> HIDE DEF S, n, x
  <2>1. CASE k = 0
    BY <1>6, <2>1
  <2>2. CASE k # 0
    <3>1. k \in 1..n /\ k - 1 \in 0..n
      BY <1>1, <2>2
    <3>2. t[k - 1] \in S
      <4> HIDE DEF F
      <4> QED BY <1>6, <3>1
    <3>3. F[k][t[k - 1]] = [a \in Parts |-> Sorting(t[k - 1], a)]
      BY <3>1, <3>2
    <3>4. t[k] = F[k][t[k - 1]]
      <4> HIDE DEF F
      <4> QED BY <1>6, <3>1
    <3> QED BY <2>2, <3>3, <3>4
  <2> QED BY <2>1, <2>2
<1>8. Is(t)
  <2> HIDE DEF F, S, n, x
  <2> QED BY <1>6, <1>7
<1>9. Is(sort)
  <2> HIDE DEF Is
  <2> QED BY <1>8
<1>10. QuickSort(s, l, r) = sort[n][part]
  BY DEF QuickSort
<1> HIDE DEF sort, n
<1> DEFINE N == {k \in Nat : k <= n => sort[k] \in S /\ SortsUpTo(sort[k], k)}
<1>11. 0 \in N
  <2>1. sort[0] = x
    <3> HIDE DEF x
    <3> QED BY <1>1, <1>9
  <2>2. SortsUpTo(x, 0)
    <3>1. ASSUME NEW a \in Parts, a.r - a.l <= 0 PROVE FALSE
      BY <3>1 DEF Parts
    <3> QED BY <3>1 DEF SortsUpTo
  <2> HIDE DEF S, x
  <2> QED BY <1>2, <2>1, <2>2
<1>12. ASSUME NEW k \in N \cap Nat PROVE k + 1 \in N
  <2> SUFFICES ASSUME k + 1 <= n PROVE sort[k + 1] \in S /\ SortsUpTo(sort[k + 1], k + 1)
    OBVIOUS
  <2> DEFINE f == sort[k]
             g == [a \in Parts |-> Sorting(f, a)]
  <2>1. f \in S /\ SortsUpTo(f, k) /\ k + 1 \in 0..n /\ k + 1 # 0 /\ (k + 1) - 1 = k
    <3> HIDE DEF S
    <3> QED BY <1>1
  <2>2. sort[k + 1] = g
    <3> HIDE DEF x
    <3>1. sort[k + 1] = IF k + 1 = 0 THEN x ELSE [a \in Parts |-> Sorting(sort[(k + 1) - 1], a)]
      BY <1>9, <2>1, Zenon
    <3> QED BY <2>1, <3>1
  <2>3. g \in S
    <3> HIDE DEF S, f
    <3> QED BY <1>3, <2>1
  <2>4. \A a \in Parts : g[a] = Sorting(f, a)
    OBVIOUS
  <2> HIDE DEF f, g
  <2>5. ASSUME NEW a \in Parts, a.r - a.l <= k + 1 PROVE SortedIn(g[a], a.l, a.r)
    BY <2>1, <2>4, <2>5, SortingFacts
  <2> QED BY <2>2, <2>3, <2>5 DEF SortsUpTo
<1>13. sort[n] \in Sorts /\ SortsUpTo(sort[n], n)
  <2> HIDE DEF N
  <2>1. Nat \subseteq N
    BY <1>11, <1>12, NatSetInduction
  <2> QED BY <1>1, <2>1 DEF N
<1>14. part \in Parts /\ part.objs = s /\ part.l = l /\ part.r = r
  <2>1. part.objs = s /\ part.l = l /\ part.r = r /\ part \in [objs : Seq(Items), l : Nat, r : Nat]
    OBVIOUS
  <2> HIDE DEF part
  <2> QED BY <2>1 DEF Parts
<1> HIDE DEF part
<1>15. part.r - part.l <= n
  BY <1>1, <1>14 DEF n
<1> QED BY <1>10, <1>13, <1>14, <1>15 DEF Sorts, SortsUpTo

\* How often an object is there.
Many(s, o) == Cardinality({i \in 1..Len(s) : s[i] = o})

\* Objects in another order are the same objects.
LEMMA AsMany ==
  ASSUME NEW s, NEW t, NEW l \in Int, NEW r \in Int, Rearranged(s, t, l, r), NEW o
  PROVE  Many(s, o) = Many(t, o)
<1> DEFINE A == {i \in 1..Len(s) : t[i] = o}
           B == {i \in 1..Len(s) : s[i] = o}
<1>1. s \in Seq(Items) /\ Len(s) \in Nat /\ Len(t) = Len(s)
  BY LenProperties DEF Rearranged
<1>2. PICK f : Moves(f, s, t, l, r)
  BY DEF Rearranged
<1>3. IsFiniteSet(A)
  <2>1. IsFiniteSet(1..Len(s))
    BY <1>1, FS_Interval
  <2> QED BY <2>1, FS_Subset
<1>4. \A i \in A : f[i] \in B
  BY <1>2 DEF Moves
<1>5. ASSUME NEW j \in B PROVE \E i \in A : j = f[i]
  <2>1. PICK i \in 1..Len(s) : f[i] = j
    BY <1>2 DEF Moves
  <2>2. t[i] = o
    BY <1>2, <2>1 DEF Moves
  <2> QED BY <2>1, <2>2
<1>6. \A i, j \in A : f[i] = f[j] => i = j
  BY <1>2 DEF Moves
<1> HIDE DEF A, B
<1>7. Cardinality(B) = Cardinality(A)
  BY <1>3, <1>4, <1>5, <1>6, Images
<1>8. Many(s, o) = Cardinality(B) /\ Many(t, o) = Cardinality(A)
  BY <1>1 DEF Many, A, B
<1> QED BY <1>7, <1>8

\* QuickSort (util/list.c) sorts every sequence of numbers, of whatever length
\* it is and whatever pivots it takes.
THEOREM QuickSortIsRight == \A n \in Nat \ {0, 1} : SortsLength(n)
<1>1. SUFFICES ASSUME NEW n \in Nat \ {0, 1}, NEW s \in [1..n -> Items]
               PROVE  LET t == QuickSort(s, 1, n)
                      IN  /\ \A i \in 1..(n - 1) : t[i] <= t[i + 1]
                          /\ \A o \in Items : Cardinality({i \in 1..n : s[i] = o})
                                                = Cardinality({i \in 1..n : t[i] = o})
  BY DEF SortsLength
<1> DEFINE t == QuickSort(s, 1, n)
<1>2. s \in Seq(Items) /\ Len(s) = n /\ n \in Nat /\ 1 < n
  OBVIOUS
<1>3. Rearranged(s, t, 1, n) /\ SortedIn(t, 1, n)
  BY <1>2, QuickSortFacts
<1> HIDE DEF t
<1>4. ASSUME NEW i \in 1..(n - 1) PROVE t[i] <= t[i + 1]
  BY <1>2, <1>3 DEF SortedIn
<1>5. ASSUME NEW o \in Items
      PROVE  Cardinality({i \in 1..n : s[i] = o}) = Cardinality({i \in 1..n : t[i] = o})
  <2>0. 1 \in Int /\ n \in Int
    BY <1>2
  <2>1. Many(s, o) = Many(t, o)
    BY <1>3, <2>0, AsMany
  <2>2. Len(t) = n
    BY <1>2, <1>3 DEF Rearranged
  <2> QED BY <1>2, <2>1, <2>2 DEF Many
<1> QED BY <1>4, <1>5 DEF t

\* What the checked instance says of sequences of up to five objects.
THEOREM ListsAreSorted == ListSpec => []QuickSortSorts
<1>1. QuickSortSorts
  BY QuickSortIsRight DEF QuickSortSorts
<1> QED BY <1>1, PTL

-----------------------------------------------------------------------------
(* Linked lists: rings. *)

\* The links of a list l are a chain c, between two places for its head.
At(l, c, i) == IF i \in 1..Len(c) THEN c[i] ELSE l

RingOf(nx, pv, l, c) ==
  \A i \in 0..Len(c) : nx[At(l, c, i)] = At(l, c, i + 1) /\ pv[At(l, c, i + 1)] = At(l, c, i)

\* The lists have the chains ch; nothing links what is free.
HaveChains(ch, nx, pv, sz, lv) ==
  /\ ch \in [Lists -> Seq(Links)] /\ sz \in [Lists -> Nat] /\ lv \subseteq Cells
  /\ nx \in [Cells -> Cells \cup {Nil}] /\ pv \in [Cells -> Cells \cup {Nil}]
  /\ \A l \in Lists : sz[l] = Len(ch[l]) /\ (l \notin lv => ch[l] = << >>)
  /\ \A c \in Links : c \in lv <=> \E l \in Lists : \E i \in 1..Len(ch[l]) : c = ch[l][i]
  /\ \A c \in Cells \ lv : nx[c] = Nil /\ pv[c] = Nil

\* The chains are rings.  No link is in two of them, and none twice: see Apart.
AreRings(ch, nx, pv, sz, lv) ==
  /\ HaveChains(ch, nx, pv, sz, lv)
  /\ \A l \in Lists : l \in lv => RingOf(nx, pv, l, ch[l])

\* Links have objects.
Objects(po, lv) ==
  /\ po \in [Cells -> Items \cup {Nil}]
  /\ \A c \in Cells : po[c] \in Items <=> c \in Links /\ c \in lv

\* A walk is in the list it began in.
Walking(ch) ==
  \/ li = NoWalk
  \/ /\ li = [list |-> li.list, cur |-> li.cur] /\ li.list \in Lists /\ li.list \in live
     /\ \E i \in 0..Len(ch[li.list]) : li.cur = At(li.list, ch[li.list], i)

ListInv == /\ Objects(pObj, live)
           /\ \E ch : AreRings(ch, next, prev, size, live) /\ Walking(ch)

LEMMA AtFacts ==
  ASSUME NEW l \in Lists, NEW c \in Seq(Links), NEW i \in Int
  PROVE  /\ At(l, c, i) \in Cells /\ Len(c) \in Nat
         /\ i \in 1..Len(c) => At(l, c, i) = c[i] /\ c[i] \in Links /\ c[i] # l
         /\ i \notin 1..Len(c) => At(l, c, i) = l
         /\ i \in 1..Len(c) <=> At(l, c, i) \in Links
<1>1. Len(c) \in Nat /\ \A k \in 1..Len(c) : c[k] \in Links
  BY LenProperties, ElementOfSeq
<1> QED BY <1>1, ListAssumption DEF At, Cells

\* What is at two places of rings is at the same place of the same ring.
LEMMA Apart ==
  ASSUME NEW nx, NEW pv, NEW k \in Lists, NEW l \in Lists, NEW c \in Seq(Links), NEW d \in Seq(Links),
         RingOf(nx, pv, k, c), RingOf(nx, pv, l, d)
  PROVE  \A i \in 0..Len(c), j \in 0..Len(d) : At(k, c, i) = At(l, d, j) => k = l /\ i = j
<1> DEFINE Same(i) == \A j \in 0..Len(d) : At(k, c, i) = At(l, d, j) => k = l /\ i = j
           N == {i \in Nat : i <= Len(c) => Same(i)}
<1>1. Len(c) \in Nat /\ Len(d) \in Nat
  BY LenProperties
<1>2. 0 \in N
  <2>1. Same(0)
    BY <1>1, AtFacts, ListAssumption
  <2> HIDE DEF Same
  <2> QED BY <2>1
<1>3. ASSUME NEW i \in N \cap Nat PROVE i + 1 \in N
  <2> SUFFICES ASSUME i + 1 <= Len(c) PROVE Same(i + 1)
    OBVIOUS
  <2>1. Same(i) /\ i \in 0..Len(c) /\ i + 1 \in 1..Len(c)
    <3> HIDE DEF Same
    <3> QED BY <1>1
  <2>2. SUFFICES ASSUME NEW j \in 0..Len(d), At(k, c, i + 1) = At(l, d, j) PROVE k = l /\ i + 1 = j
    OBVIOUS
  <2>3. At(k, c, i + 1) \in Links
    BY <2>1, AtFacts
  <2>4. j # 0 /\ j - 1 \in 0..Len(d) /\ (j - 1) + 1 = j
    <3>1. At(l, d, j) \in Links
      BY <2>2, <2>3
    <3> QED BY <1>1, <3>1, AtFacts
  <2>5. pv[At(k, c, i + 1)] = At(k, c, i)
    BY <2>1 DEF RingOf
  <2>6. pv[At(l, d, (j - 1) + 1)] = At(l, d, j - 1)
    BY <2>4 DEF RingOf
  <2>7. At(k, c, i) = At(l, d, j - 1)
    BY <2>2, <2>4, <2>5, <2>6
  <2>8. k = l /\ i = j - 1
    BY <2>1, <2>4, <2>7
  <2> QED BY <2>1, <2>4, <2>8
<1>4. Nat \subseteq N
  <2> HIDE DEF N
  <2> QED BY <1>2, <1>3, NatSetInduction
<1> QED BY <1>1, <1>4

\* What there is to know of a ring.
LEMMA RingFacts ==
  ASSUME NEW ch, NEW nx, NEW pv, NEW sz, NEW lv, AreRings(ch, nx, pv, sz, lv), NEW l \in Lists
  PROVE  /\ ch[l] \in Seq(Links) /\ Len(ch[l]) \in Nat /\ sz[l] = Len(ch[l])
         /\ l \notin lv => ch[l] = << >>
         /\ l \in lv => RingOf(nx, pv, l, ch[l])
         /\ \A i \in 1..Len(ch[l]) : ch[l][i] \in Links /\ ch[l][i] \in lv /\ ch[l][i] # l
<1>1. ch[l] \in Seq(Links) /\ sz[l] = Len(ch[l]) /\ Len(ch[l]) \in Nat
  BY LenProperties DEF AreRings, HaveChains
<1>2. ASSUME NEW i \in 1..Len(ch[l])
      PROVE  ch[l][i] \in Links /\ ch[l][i] \in lv /\ ch[l][i] # l
  <2>1. ch[l][i] \in Links
    BY <1>1, ElementOfSeq
  <2> QED BY <2>1, ListAssumption DEF AreRings, HaveChains
<1> QED BY <1>1, <1>2 DEF AreRings, HaveChains

\* The links of all lists differ.
LEMMA Disjoint ==
  ASSUME NEW ch, NEW nx, NEW pv, NEW sz, NEW lv, AreRings(ch, nx, pv, sz, lv),
         NEW k \in Lists, NEW l \in Lists, k \in lv, l \in lv,
         NEW i \in 0..Len(ch[k]), NEW j \in 0..Len(ch[l])
  PROVE  /\ At(k, ch[k], i) = At(l, ch[l], j) => k = l /\ i = j
         /\ At(k, ch[k], i + 1) = At(l, ch[l], j + 1) => k = l /\ i = j
<1>1. /\ ch[k] \in Seq(Links) /\ ch[l] \in Seq(Links) /\ Len(ch[k]) \in Nat /\ Len(ch[l]) \in Nat
      /\ RingOf(nx, pv, k, ch[k]) /\ RingOf(nx, pv, l, ch[l])
  BY RingFacts
<1>2. At(k, ch[k], i) = At(l, ch[l], j) => k = l /\ i = j
  BY <1>1, Apart
<1>3. ASSUME At(k, ch[k], i + 1) = At(l, ch[l], j + 1) PROVE At(k, ch[k], i) = At(l, ch[l], j)
  <2>1. pv[At(k, ch[k], i + 1)] = At(k, ch[k], i) /\ pv[At(l, ch[l], j + 1)] = At(l, ch[l], j)
    BY <1>1 DEF RingOf
  <2> QED BY <1>3, <2>1
<1> QED BY <1>2, <1>3

\* Following the links of a ring.
LEMMA AfterFacts ==
  ASSUME NEW l \in Lists, NEW c \in Seq(Links), RingOf(next, prev, l, c),
         NEW m \in 0..(Len(c) + 1), NEW n \in Nat
  PROVE  /\ m + n <= Len(c) + 1 => After(At(l, c, m), n) = At(l, c, m + n)
         /\ n <= m => Before(At(l, c, m), n) = At(l, c, m - n)
<1>1. Len(c) \in Nat
  BY LenProperties
<1>2. ASSUME m + n <= Len(c) + 1 PROVE After(At(l, c, m), n) = At(l, c, m + n)
  <2> DEFINE x == At(l, c, m)
             Is(w) == w = [i \in 0..n |-> IF i = 0 THEN x ELSE next[w[i - 1]]]
             t == [i \in 0..n |-> At(l, c, m + i)]
             walk == CHOOSE w : Is(w)
  <2>1. ASSUME NEW i \in 0..n PROVE t[i] = IF i = 0 THEN x ELSE next[t[i - 1]]
    <3>1. CASE i = 0
      BY <3>1
    <3>2. CASE i # 0
      <4>1. i - 1 \in 0..n /\ m + (i - 1) \in 0..Len(c) /\ (m + (i - 1)) + 1 = m + i
        BY <1>1, <1>2, <3>2
      <4>2. next[At(l, c, m + (i - 1))] = At(l, c, (m + (i - 1)) + 1)
        BY <4>1 DEF RingOf
      <4> QED BY <3>2, <4>1, <4>2
    <3> QED BY <3>1, <3>2
  <2>2. Is(t)
    <3> DEFINE u == t
    <3>1. u = [i \in 0..n |-> At(l, c, m + i)]
      OBVIOUS
    <3> HIDE DEF x
    <3>2. \A i \in 0..n : u[i] = IF i = 0 THEN x ELSE next[u[i - 1]]
      BY <2>1
    <3> HIDE DEF u, t
    <3>3. u = [i \in 0..n |-> IF i = 0 THEN x ELSE next[u[i - 1]]]
      BY <3>1, <3>2
    <3> QED BY <3>3 DEF u
  <2>3. Is(walk)
    <3> HIDE DEF Is, t
    <3> QED BY <2>2
  <2>4. After(At(l, c, m), n) = walk[n]
    BY DEF After
  <2> HIDE DEF walk, t
  <2> DEFINE N == {i \in Nat : i <= n => walk[i] = At(l, c, m + i)}
  <2>5. 0 \in N
    <3>1. walk[0] = x
      <4> HIDE DEF x
      <4> QED BY <2>3
    <3> QED BY <3>1
  <2>6. ASSUME NEW i \in N \cap Nat PROVE i + 1 \in N
    <3> SUFFICES ASSUME i + 1 <= n PROVE walk[i + 1] = At(l, c, m + (i + 1))
      OBVIOUS
    <3>1. walk[i] = At(l, c, m + i) /\ i + 1 \in 0..n /\ i + 1 # 0 /\ (i + 1) - 1 = i
      OBVIOUS
    <3>2. walk[i + 1] = IF i + 1 = 0 THEN x ELSE next[walk[(i + 1) - 1]]
      <4> HIDE DEF x
      <4> QED BY <2>3, <3>1, Zenon
    <3>3. m + i \in 0..Len(c) /\ (m + i) + 1 = m + (i + 1)
      BY <1>1, <1>2
    <3>4. next[At(l, c, m + i)] = At(l, c, (m + i) + 1)
      BY <3>3 DEF RingOf
    <3> QED BY <3>1, <3>2, <3>3, <3>4
  <2>7. Nat \subseteq N
    <3> HIDE DEF N
    <3> QED BY <2>5, <2>6, NatSetInduction
  <2> QED BY <2>4, <2>7
<1>3. ASSUME n <= m PROVE Before(At(l, c, m), n) = At(l, c, m - n)
  <2> DEFINE x == At(l, c, m)
             Is(w) == w = [i \in 0..n |-> IF i = 0 THEN x ELSE prev[w[i - 1]]]
             t == [i \in 0..n |-> At(l, c, m - i)]
             walk == CHOOSE w : Is(w)
  <2>1. ASSUME NEW i \in 0..n PROVE t[i] = IF i = 0 THEN x ELSE prev[t[i - 1]]
    <3>1. CASE i = 0
      BY <3>1
    <3>2. CASE i # 0
      <4>1. i - 1 \in 0..n /\ m - i \in 0..Len(c) /\ (m - i) + 1 = m - (i - 1)
        BY <1>1, <1>3, <3>2
      <4>2. prev[At(l, c, (m - i) + 1)] = At(l, c, m - i)
        BY <4>1 DEF RingOf
      <4> QED BY <3>2, <4>1, <4>2
    <3> QED BY <3>1, <3>2
  <2>2. Is(t)
    <3> DEFINE u == t
    <3>1. u = [i \in 0..n |-> At(l, c, m - i)]
      OBVIOUS
    <3> HIDE DEF x
    <3>2. \A i \in 0..n : u[i] = IF i = 0 THEN x ELSE prev[u[i - 1]]
      BY <2>1
    <3> HIDE DEF u, t
    <3>3. u = [i \in 0..n |-> IF i = 0 THEN x ELSE prev[u[i - 1]]]
      BY <3>1, <3>2
    <3> QED BY <3>3 DEF u
  <2>3. Is(walk)
    <3> HIDE DEF Is, t
    <3> QED BY <2>2
  <2>4. Before(At(l, c, m), n) = walk[n]
    BY DEF Before
  <2> HIDE DEF walk, t
  <2> DEFINE N == {i \in Nat : i <= n => walk[i] = At(l, c, m - i)}
  <2>5. 0 \in N
    <3>1. walk[0] = x
      <4> HIDE DEF x
      <4> QED BY <2>3
    <3> QED BY <3>1
  <2>6. ASSUME NEW i \in N \cap Nat PROVE i + 1 \in N
    <3> SUFFICES ASSUME i + 1 <= n PROVE walk[i + 1] = At(l, c, m - (i + 1))
      OBVIOUS
    <3>1. walk[i] = At(l, c, m - i) /\ i + 1 \in 0..n /\ i + 1 # 0 /\ (i + 1) - 1 = i
      OBVIOUS
    <3>2. walk[i + 1] = IF i + 1 = 0 THEN x ELSE prev[walk[(i + 1) - 1]]
      <4> HIDE DEF x
      <4> QED BY <2>3, <3>1, Zenon
    <3>3. m - (i + 1) \in 0..Len(c) /\ (m - (i + 1)) + 1 = m - i
      BY <1>1, <1>3
    <3>4. prev[At(l, c, (m - (i + 1)) + 1)] = At(l, c, m - (i + 1))
      BY <3>3 DEF RingOf
    <3> QED BY <3>1, <3>2, <3>3, <3>4
  <2>7. Nat \subseteq N
    <3> HIDE DEF N
    <3> QED BY <2>5, <2>6, NatSetInduction
  <2> QED BY <2>4, <2>7
<1> QED BY <1>2, <1>3

\* The link at a position, counted from zero or backwards from -1.
LEMMA GetLinkFacts ==
  ASSUME NEW ch, AreRings(ch, next, prev, size, live), NEW l \in Lists, l \in live, NEW item \in Int
  PROVE  /\ item \in 0..(size[l] - 1) => GetLink(l, item) = ch[l][item + 1]
         /\ item \in (-size[l])..(-1) => GetLink(l, item) = ch[l][size[l] + item + 1]
         /\ item \notin (-size[l])..(size[l] - 1) => GetLink(l, item) = Nil
<1> DEFINE c == ch[l]
           n == Len(c)
<1>1. c \in Seq(Links) /\ n \in Nat /\ size[l] = n /\ RingOf(next, prev, l, c)
  BY RingFacts
<1> HIDE DEF c
<1>2. /\ At(l, c, 0) = l /\ At(l, c, n + 1) = l
      /\ \A i \in 1..n : At(l, c, i) = c[i]
  BY <1>1, AtFacts
<1>3. ASSUME item \in 0..(n - 1) PROVE GetLink(l, item) = c[item + 1]
  <2>1. GetLink(l, item) = After(l, item + 1)
    BY <1>1, <1>3 DEF GetLink
  <2>2. After(At(l, c, 0), item + 1) = At(l, c, 0 + (item + 1))
    BY <1>1, <1>3, AfterFacts, SMTT(60)
  <2>3. item + 1 \in 1..n /\ 0 + (item + 1) = item + 1
    BY <1>1, <1>3
  <2> QED BY <1>2, <2>1, <2>2, <2>3
<1>4. ASSUME item \in (-n)..(-1) PROVE GetLink(l, item) = c[n + item + 1]
  <2>1. GetLink(l, item) = Before(l, -item)
    BY <1>1, <1>4 DEF GetLink
  <2>2. -item \in Nat /\ -item <= n + 1 /\ n + 1 \in 0..(n + 1)
    BY <1>1, <1>4
  <2>3. Before(At(l, c, n + 1), -item) = At(l, c, (n + 1) - (-item))
    BY <1>1, <2>2, AfterFacts
  <2>4. n + item + 1 \in 1..n /\ (n + 1) - (-item) = n + item + 1
    BY <1>1, <1>4
  <2> QED BY <1>2, <2>1, <2>3, <2>4
<1>5. ASSUME item \notin (-n)..(n - 1) PROVE GetLink(l, item) = Nil
  BY <1>1, <1>5 DEF GetLink
<1> QED BY <1>1, <1>3, <1>4, <1>5 DEF c

\* The lists but those of M are left alone.
Untouched(M, ch, nx, pv, lv, dh, nx2, pv2, lv2) ==
  \A l \in Lists \ M :
    /\ dh[l] = ch[l] /\ (l \in lv2 <=> l \in lv)
    /\ l \in lv => \A i \in 0..Len(ch[l]) :
         /\ nx2[At(l, ch[l], i)] = nx[At(l, ch[l], i)]
         /\ pv2[At(l, ch[l], i + 1)] = pv[At(l, ch[l], i + 1)]

Relinks(M, dh, nx2, pv2, lv2) == \A l \in Lists \cap M : l \in lv2 => RingOf(nx2, pv2, l, dh[l])

LEMMA Relinked ==
  ASSUME NEW M, NEW ch, NEW nx, NEW pv, NEW sz, NEW lv, AreRings(ch, nx, pv, sz, lv),
         NEW dh, NEW nx2, NEW pv2, NEW sz2, NEW lv2, HaveChains(dh, nx2, pv2, sz2, lv2),
         Untouched(M, ch, nx, pv, lv, dh, nx2, pv2, lv2),
         Relinks(M, dh, nx2, pv2, lv2)
  PROVE  AreRings(dh, nx2, pv2, sz2, lv2)
<1>1. ASSUME NEW l \in Lists, l \in lv2, l \notin M PROVE RingOf(nx2, pv2, l, dh[l])
  <2>0. l \in lv /\ dh[l] = ch[l]
    BY <1>1 DEF Untouched
  <2>1. RingOf(nx, pv, l, ch[l])
    BY <1>1, <2>0, RingFacts
  <2>2. ASSUME NEW i \in 0..Len(ch[l])
        PROVE  /\ nx2[At(l, ch[l], i)] = At(l, ch[l], i + 1)
               /\ pv2[At(l, ch[l], i + 1)] = At(l, ch[l], i)
    BY <1>1, <2>0, <2>1 DEF RingOf, Untouched
  <2> QED BY <2>0, <2>2 DEF RingOf
<1> QED BY <1>1 DEF AreRings, Relinks

\* d is c with x at place m.
InsertedAs(d, c, m, x) ==
  /\ d \in Seq(Links) /\ Len(d) = Len(c) + 1
  /\ \A j \in 1..(Len(c) + 1) : d[j] = IF j < m THEN c[j] ELSE IF j = m THEN x ELSE c[j - 1]

LEMMA InsertLinks ==
  ASSUME NEW c \in Seq(Links), NEW x \in Links, NEW m \in 1..(Len(c) + 1)
  PROVE  InsertedAs(InsertAt(c, m, x), c, m, x)
<1>1. /\ InsertAt(c, m, x) \in Seq(Links) /\ Len(InsertAt(c, m, x)) = Len(c) + 1
      /\ \A j \in 1..(Len(c) + 1) :
           InsertAt(c, m, x)[j] = IF j < m THEN c[j] ELSE IF j = m THEN x ELSE c[j - 1]
  BY InsertAtFacts
<1> DEFINE d == InsertAt(c, m, x)
<1> HIDE DEF d
<1>2. InsertedAs(d, c, m, x)
  BY <1>1 DEF InsertedAs, d
<1> QED BY <1>2 DEF d

LEMMA InsertedLinks ==
  ASSUME NEW c \in Seq(Links), NEW x \in Links, NEW m \in 1..(Len(c) + 1),
         NEW e, e = InsertAt(c, m, x)
  PROVE  /\ e \in Seq(Links) /\ Len(e) = Len(c) + 1
         /\ \A j \in 1..(Len(c) + 1) : e[j] = IF j < m THEN c[j] ELSE IF j = m THEN x ELSE c[j - 1]
<1>1. InsertedAs(InsertAt(c, m, x), c, m, x)
  BY InsertLinks, Zenon
<1>2. InsertedAs(e, c, m, x)
  BY <1>1, Zenon
<1> QED BY <1>2, Zenon DEF InsertedAs

\* A new link x in front of at.
LinkedIn(nx, pv, sz, lv, l, at, x, nx2, pv2, sz2, lv2) ==
  /\ nx2 = [nx EXCEPT ![x] = at, ![pv[at]] = x]
  /\ pv2 = [pv EXCEPT ![x] = pv[at], ![at] = x]
  /\ sz2 = [sz EXCEPT ![l] = @ + 1] /\ lv2 = lv \cup {x}

\* It is at place m of the chain.
NewChain(ch, l, m, x, dh) == dh = [ch EXCEPT ![l] = InsertAt(ch[l], m, x)]

LEMMA InsertRing ==
  ASSUME NEW ch, NEW nx, NEW pv, NEW sz, NEW lv, AreRings(ch, nx, pv, sz, lv), NEW l \in Lists, l \in lv,
         NEW m \in 1..(Len(ch[l]) + 1), NEW x \in Links, x \notin lv, NEW nx2, NEW pv2, NEW sz2, NEW lv2,
         LinkedIn(nx, pv, sz, lv, l, At(l, ch[l], m), x, nx2, pv2, sz2, lv2),
         NEW dh, NewChain(ch, l, m, x, dh)
  PROVE  AreRings(dh, nx2, pv2, sz2, lv2)
<1> DEFINE c == ch[l]
           d == dh[l]
           n == Len(c)
           at == At(l, ch[l], m)
<1>1. c \in Seq(Links) /\ n \in Nat /\ sz[l] = n /\ RingOf(nx, pv, l, c)
  BY RingFacts
<1>0. at = At(l, ch[l], m) /\ LinkedIn(nx, pv, sz, lv, l, at, x, nx2, pv2, sz2, lv2)
  OBVIOUS
<1> HIDE DEF at
<1>2. /\ ch \in [Lists -> Seq(Links)] /\ nx \in [Cells -> Cells \cup {Nil}]
      /\ pv \in [Cells -> Cells \cup {Nil}] /\ sz \in [Lists -> Nat] /\ lv \subseteq Cells
      /\ \A k \in Cells \ lv : nx[k] = Nil /\ pv[k] = Nil
  BY DEF AreRings, HaveChains
<1>3. /\ d \in Seq(Links) /\ Len(d) = n + 1
      /\ \A j \in 1..(n + 1) : d[j] = IF j < m THEN c[j] ELSE IF j = m THEN x ELSE c[j - 1]
      /\ \A k \in Lists \ {l} : dh[k] = ch[k]
      /\ dh \in [Lists -> Seq(Links)]
  <2>1. d = InsertAt(c, m, x) /\ \A k \in Lists \ {l} : dh[k] = ch[k]
    BY <1>2 DEF NewChain
  <2>2. m \in 1..(Len(c) + 1)
    OBVIOUS
  <2>3. /\ d \in Seq(Links) /\ Len(d) = n + 1
        /\ \A j \in 1..(n + 1) : d[j] = IF j < m THEN c[j] ELSE IF j = m THEN x ELSE c[j - 1]
    <3> HIDE DEF c, d
    <3> QED BY <1>1, <2>1, <2>2, InsertedLinks, SMTT(30)
  <2>4. dh \in [Lists -> Seq(Links)]
    <3>1. dh = [ch EXCEPT ![l] = d]
      BY <2>1, Zenon DEF NewChain
    <3> HIDE DEF d
    <3> QED BY <1>2, <2>3, <3>1
  <2> QED BY <2>1, <2>3, <2>4
<1> DEFINE b == At(l, c, m - 1)
<1>4. at = At(l, c, m) /\ pv[at] = b /\ at \in Cells /\ b \in Cells /\ x \in Cells /\ x # b /\ x # at
  <2>1. m - 1 \in 0..n /\ (m - 1) + 1 = m
    BY <1>1
  <2>2. pv[at] = b
    BY <1>0, <1>1, <2>1 DEF RingOf
  <2>3. at \in Cells /\ b \in Cells
    BY <1>0, <1>1, <2>1, AtFacts
  <2>4. at \in lv /\ b \in lv
    <3>1. \A i \in 1..n : c[i] \in lv
      BY RingFacts
    <3> QED BY <1>0, <1>1, <3>1 DEF At
  <2> QED BY <1>0, <2>2, <2>3, <2>4 DEF Cells
<1>5. /\ nx2 \in [Cells -> Cells \cup {Nil}] /\ pv2 \in [Cells -> Cells \cup {Nil}]
      /\ nx2[x] = at /\ nx2[b] = x /\ \A k \in Cells : k # x /\ k # b => nx2[k] = nx[k]
      /\ pv2[x] = b /\ pv2[at] = x /\ \A k \in Cells : k # x /\ k # at => pv2[k] = pv[k]
      /\ lv2 = lv \cup {x} /\ sz2 = [sz EXCEPT ![l] = @ + 1]
  <2>1. /\ nx2 = [nx EXCEPT ![x] = at, ![b] = x] /\ pv2 = [pv EXCEPT ![x] = b, ![at] = x]
        /\ lv2 = lv \cup {x} /\ sz2 = [sz EXCEPT ![l] = @ + 1]
    <3> HIDE DEF b
    <3> QED BY <1>0, <1>4, Zenon DEF LinkedIn
  <2> HIDE DEF b
  <2>2. nx2 \in [Cells -> Cells \cup {Nil}] /\ pv2 \in [Cells -> Cells \cup {Nil}]
    BY <1>2, <1>4, <2>1
  <2>3. nx2[x] = at /\ nx2[b] = x /\ \A k \in Cells : k # x /\ k # b => nx2[k] = nx[k]
    BY <1>2, <1>4, <2>1
  <2>4. pv2[x] = b /\ pv2[at] = x /\ \A k \in Cells : k # x /\ k # at => pv2[k] = pv[k]
    BY <1>2, <1>4, <2>1
  <2> QED BY <2>1, <2>2, <2>3, <2>4, Zenon
<1> HIDE DEF c, b
<1>6. ASSUME NEW k \in Lists, k \in lv, NEW i \in 0..Len(ch[k])
      PROVE  /\ At(k, ch[k], i) \in Cells /\ At(k, ch[k], i) # x
             /\ At(k, ch[k], i + 1) \in Cells /\ At(k, ch[k], i + 1) # x
             /\ At(k, ch[k], i) = b => k = l /\ i = m - 1
             /\ At(k, ch[k], i + 1) = at => k = l /\ i = m - 1
             /\ nx[At(k, ch[k], i)] = At(k, ch[k], i + 1)
             /\ pv[At(k, ch[k], i + 1)] = At(k, ch[k], i)
  <2>1. ch[k] \in Seq(Links) /\ Len(ch[k]) \in Nat /\ RingOf(nx, pv, k, ch[k])
    BY <1>6, RingFacts
  <2>2. /\ At(k, ch[k], i) \in Cells /\ At(k, ch[k], i + 1) \in Cells
    BY <2>1, AtFacts
  <2>3. \A j \in 1..Len(ch[k]) : ch[k][j] \in lv
    BY <1>6, RingFacts
  <2>4. At(k, ch[k], i) # x /\ At(k, ch[k], i + 1) # x
    BY <1>6, <2>3 DEF At
  <2>5. m - 1 \in 0..Len(ch[l]) /\ (m - 1) + 1 = m
    BY <1>1 DEF c
  <2>6. /\ At(k, ch[k], i) = b => k = l /\ i = m - 1
        /\ At(k, ch[k], i + 1) = at => k = l /\ i = m - 1
    BY <1>4, <1>6, <2>5, Disjoint DEF b, c
  <2> QED BY <2>1, <2>2, <2>4, <2>6 DEF RingOf
<1>7. ASSUME NEW i \in 0..n
      PROVE  /\ At(l, c, i) \in Cells /\ At(l, c, i) # x
             /\ At(l, c, i + 1) \in Cells /\ At(l, c, i + 1) # x
             /\ At(l, c, i) = b => i = m - 1
             /\ At(l, c, i + 1) = at => i = m - 1
             /\ nx[At(l, c, i)] = At(l, c, i + 1)
             /\ pv[At(l, c, i + 1)] = At(l, c, i)
  BY <1>6 DEF c
<1>8. ASSUME NEW j \in Int
      PROVE  /\ 0 <= j /\ j < m => At(l, d, j) = At(l, c, j)
             /\ j = m => At(l, d, j) = x
             /\ m < j /\ j <= n + 2 => At(l, d, j) = At(l, c, j - 1)
  <2> HIDE DEF d
  <2>1. j \in 1..m /\ j < m => j \in 1..n /\ j \in 1..(n + 1)
    BY <1>1 DEF c
  <2>2. m < j /\ j <= n + 1 => j - 1 \in 1..n /\ j \in 1..(n + 1)
    BY <1>1 DEF c
  <2>3. j = n + 2 => j \notin 1..(n + 1) /\ j - 1 \notin 1..n
    BY <1>1
  <2>4. m \in 1..(n + 1)
    BY DEF c
  <2> QED BY <1>1, <1>3, <2>1, <2>2, <2>3, <2>4 DEF At
<1>9. RingOf(nx2, pv2, l, d)
  <2> SUFFICES ASSUME NEW i \in 0..(n + 1)
               PROVE  nx2[At(l, d, i)] = At(l, d, i + 1) /\ pv2[At(l, d, i + 1)] = At(l, d, i)
    BY <1>3 DEF RingOf
  <2> HIDE DEF d
  <2>0. m \in 1..(n + 1)
    BY DEF c
  <2>1. CASE i < m - 1
    <3>1. At(l, d, i) = At(l, c, i) /\ At(l, d, i + 1) = At(l, c, i + 1) /\ i \in 0..n
      BY <1>1, <1>8, <2>0, <2>1
    <3> QED BY <1>5, <1>7, <2>1, <3>1
  <2>2. CASE i = m - 1
    <3>1. At(l, d, i) = b /\ At(l, d, i + 1) = x
      BY <1>1, <1>8, <2>0, <2>2 DEF b
    <3> QED BY <1>5, <3>1
  <2>3. CASE i = m
    <3>1. At(l, d, i) = x /\ At(l, d, i + 1) = at
      BY <1>1, <1>4, <1>8, <2>0, <2>3
    <3> QED BY <1>5, <3>1
  <2>4. CASE m < i
    <3>1. At(l, d, i) = At(l, c, i - 1) /\ At(l, d, i + 1) = At(l, c, i) /\ i - 1 \in 0..n /\ (i - 1) + 1 = i
      BY <1>1, <1>8, <2>0, <2>4
    <3> QED BY <1>5, <1>7, <2>0, <2>4, <3>1
  <2> QED BY <1>1, <2>0, <2>1, <2>2, <2>3, <2>4
<1>10. /\ sz2 \in [Lists -> Nat] /\ lv2 \subseteq Cells
       /\ \A k \in Lists : sz2[k] = Len(dh[k]) /\ (k \notin lv2 => dh[k] = << >>)
  <2>1. ASSUME NEW k \in Lists, k # l PROVE sz2[k] = Len(dh[k]) /\ (k \notin lv2 => dh[k] = << >>)
    BY <1>2, <1>3, <1>5, <2>1, RingFacts
  <2> QED BY <1>1, <1>2, <1>3, <1>4, <1>5, <2>1
<1>11. ASSUME NEW k \in Links PROVE k \in lv2 <=> \E h \in Lists : \E i \in 1..Len(dh[h]) : k = dh[h][i]
  <2>1. ASSUME NEW i \in 1..n PROVE \E j \in 1..(n + 1) : d[j] = c[i]
    <3>1. CASE i < m
      <4>1. i \in 1..(n + 1) /\ d[i] = c[i]
        BY <1>1, <1>3, <3>1
      <4> QED BY <4>1
    <3>2. CASE ~(i < m)
      <4>0. i + 1 \in 1..(n + 1) /\ (i + 1) - 1 = i /\ ~(i + 1 < m) /\ i + 1 # m
        <5>1. m \in 1..(n + 1)
          BY DEF c
        <5> QED BY <1>1, <3>2, <5>1
      <4>1. i + 1 \in 1..(n + 1) /\ d[i + 1] = c[i]
        <5> HIDE DEF d
        <5> QED BY <1>3, <4>0
      <4> QED BY <4>1
    <3> QED BY <3>1, <3>2
  <2>2. ASSUME NEW j \in 1..(n + 1), d[j] # x PROVE \E i \in 1..n : d[j] = c[i]
    <3>0. m \in 1..(n + 1)
      BY DEF c
    <3>1. CASE j < m
      <4>1. j \in 1..n /\ d[j] = c[j]
        BY <1>1, <1>3, <3>0, <3>1
      <4> QED BY <4>1
    <3>2. CASE j > m
      <4>1. j - 1 \in 1..n /\ d[j] = c[j - 1]
        BY <1>1, <1>3, <3>0, <3>2
      <4> QED BY <4>1
    <3> QED BY <1>3, <2>2, <3>0, <3>1, <3>2
  <2>3. d[m] = x /\ m \in 1..(n + 1)
    BY <1>1, <1>3 DEF c
  <2>4. k \in lv <=> \E h \in Lists : \E i \in 1..Len(ch[h]) : k = ch[h][i]
    BY DEF AreRings, HaveChains
  <2>5. ASSUME k \in lv PROVE \E h \in Lists : \E i \in 1..Len(dh[h]) : k = dh[h][i]
    <3>1. PICK h \in Lists : \E i \in 1..Len(ch[h]) : k = ch[h][i]
      BY <2>4, <2>5
    <3>2. CASE h = l
      <4>1. PICK i \in 1..n : k = c[i]
        BY <3>1, <3>2 DEF c
      <4> QED BY <1>3, <2>1, <4>1
    <3>3. CASE h # l
      BY <1>3, <3>1, <3>3
    <3> QED BY <3>2, <3>3
  <2>6. ASSUME NEW h \in Lists, NEW i \in 1..Len(dh[h]), k = dh[h][i] PROVE k \in lv2
    <3>1. CASE h = l
      <4>1. k = x \/ \E j \in 1..n : k = c[j]
        BY <1>3, <2>2, <2>6, <3>1
      <4> QED BY <1>5, <2>4, <4>1 DEF c
    <3>2. CASE h # l
      BY <1>3, <1>5, <2>4, <2>6, <3>2
    <3> QED BY <3>1, <3>2
  <2> QED BY <1>3, <1>5, <2>3, <2>5, <2>6
<1>12. \A k \in Cells \ lv2 : nx2[k] = Nil /\ pv2[k] = Nil
  <2>1. at \in lv /\ b \in lv
    <3>1. \A i \in 1..n : c[i] \in lv
      BY RingFacts DEF c
    <3> QED BY <1>1, <1>4, <3>1 DEF At, b
  <2> QED BY <1>2, <1>5, <2>1
<1>13. Untouched({l}, ch, nx, pv, lv, dh, nx2, pv2, lv2)
  <2>1. x \notin Lists
    BY ListAssumption
  <2>2. ASSUME NEW k \in Lists \ {l}, k \in lv, NEW i \in 0..Len(ch[k])
        PROVE  /\ nx2[At(k, ch[k], i)] = nx[At(k, ch[k], i)]
               /\ pv2[At(k, ch[k], i + 1)] = pv[At(k, ch[k], i + 1)]
    BY <1>5, <1>6, <2>2
  <2> QED BY <1>3, <1>5, <2>1, <2>2 DEF Untouched
<1>14. HaveChains(dh, nx2, pv2, sz2, lv2)
  BY <1>3, <1>5, <1>10, <1>11, <1>12 DEF HaveChains
<1>15. Relinks({l}, dh, nx2, pv2, lv2)
  BY <1>9 DEF Relinks
<1> QED BY <1>13, <1>14, <1>15, Relinked, Zenon

\* Link x is taken out.
TakenOut(nx, pv, sz, lv, l, x, nx2, pv2, sz2, lv2) ==
  /\ nx2 = [nx EXCEPT ![pv[x]] = nx[x], ![x] = Nil]
  /\ pv2 = [pv EXCEPT ![nx[x]] = pv[x], ![x] = Nil]
  /\ sz2 = [sz EXCEPT ![l] = @ - 1] /\ lv2 = lv \ {x}

ShortChain(ch, l, m, dh) == dh = [ch EXCEPT ![l] = RemoveAt(ch[l], m)]

LEMMA RemovedLinks ==
  ASSUME NEW c \in Seq(Links), NEW m \in 1..Len(c), NEW e, e = RemoveAt(c, m)
  PROVE  /\ e \in Seq(Links) /\ Len(e) = Len(c) - 1
         /\ \A j \in 1..(Len(c) - 1) : e[j] = IF j < m THEN c[j] ELSE c[j + 1]
BY RemoveAtFacts

LEMMA ExtractRing ==
  ASSUME NEW ch, NEW nx, NEW pv, NEW sz, NEW lv, AreRings(ch, nx, pv, sz, lv), NEW l \in Lists, l \in lv,
         NEW m \in 1..Len(ch[l]), NEW nx2, NEW pv2, NEW sz2, NEW lv2,
         TakenOut(nx, pv, sz, lv, l, ch[l][m], nx2, pv2, sz2, lv2),
         NEW dh, ShortChain(ch, l, m, dh)
  PROVE  AreRings(dh, nx2, pv2, sz2, lv2)
<1> DEFINE c == ch[l]
           d == dh[l]
           n == Len(c)
           x == ch[l][m]
           b == At(l, c, m - 1)
           a == At(l, c, m + 1)
<1>1. c \in Seq(Links) /\ n \in Nat /\ sz[l] = n /\ RingOf(nx, pv, l, c) /\ m \in 1..n
  BY RingFacts
<1>2. /\ ch \in [Lists -> Seq(Links)] /\ nx \in [Cells -> Cells \cup {Nil}]
      /\ pv \in [Cells -> Cells \cup {Nil}] /\ sz \in [Lists -> Nat] /\ lv \subseteq Cells
      /\ \A k \in Cells \ lv : nx[k] = Nil /\ pv[k] = Nil
  BY DEF AreRings, HaveChains
<1>3. /\ d \in Seq(Links) /\ Len(d) = n - 1
      /\ \A j \in 1..(n - 1) : d[j] = IF j < m THEN c[j] ELSE c[j + 1]
      /\ \A k \in Lists \ {l} : dh[k] = ch[k]
      /\ dh \in [Lists -> Seq(Links)]
  <2>1. d = RemoveAt(c, m) /\ \A k \in Lists \ {l} : dh[k] = ch[k]
    BY <1>2 DEF ShortChain
  <2>2. /\ d \in Seq(Links) /\ Len(d) = n - 1
        /\ \A j \in 1..(n - 1) : d[j] = IF j < m THEN c[j] ELSE c[j + 1]
    <3> HIDE DEF c, d
    <3> QED BY <1>1, <2>1, RemovedLinks
  <2>3. dh \in [Lists -> Seq(Links)]
    <3>1. dh = [ch EXCEPT ![l] = d]
      BY <2>1, Zenon DEF ShortChain
    <3> HIDE DEF d
    <3> QED BY <1>2, <2>2, <3>1
  <2> QED BY <2>1, <2>2, <2>3
<1>4. /\ x = At(l, c, m) /\ x = c[m] /\ pv[x] = b /\ nx[x] = a /\ a \in Cells /\ b \in Cells
      /\ x \in Links /\ x \in Cells /\ x # b /\ x # a /\ x \in lv
  <2>1. m - 1 \in 0..n /\ (m - 1) + 1 = m /\ m \in 0..n
    BY <1>1
  <2>2. x = At(l, c, m) /\ x \in Links /\ a \in Cells /\ b \in Cells
    BY <1>1, <2>1, AtFacts
  <2>3. pv[x] = b /\ nx[x] = a
    BY <1>1, <2>1, <2>2 DEF RingOf
  <2>4. x \in lv
    BY RingFacts
  <2>5. x # b
    <3>1. At(l, c, m - 1) # At(l, c, m)
      BY <2>1, Disjoint
    <3> QED BY <2>2, <3>1
  <2>6. x # a
    <3>1. At(l, ch[l], (m - 1) + 1) = At(l, ch[l], m + 1) => m - 1 = m
      <4> DEFINE h == m - 1
      <4>1. h \in 0..Len(ch[l]) /\ m \in 0..Len(ch[l])
        BY <2>1
      <4> HIDE DEF h
      <4>2. At(l, ch[l], h + 1) = At(l, ch[l], m + 1) => h = m
        BY <4>1, Disjoint
      <4> QED BY <4>2 DEF h
    <3> QED BY <1>1, <2>1, <2>2, <3>1
  <2> QED BY <2>2, <2>3, <2>4, <2>5, <2>6 DEF Cells
<1>5. /\ nx2 \in [Cells -> Cells \cup {Nil}] /\ pv2 \in [Cells -> Cells \cup {Nil}]
      /\ nx2[x] = Nil /\ nx2[b] = a /\ \A k \in Cells : k # x /\ k # b => nx2[k] = nx[k]
      /\ pv2[x] = Nil /\ pv2[a] = b /\ \A k \in Cells : k # x /\ k # a => pv2[k] = pv[k]
      /\ lv2 = lv \ {x} /\ sz2 = [sz EXCEPT ![l] = @ - 1]
  <2>1. /\ nx2 = [nx EXCEPT ![b] = a, ![x] = Nil] /\ pv2 = [pv EXCEPT ![a] = b, ![x] = Nil]
        /\ lv2 = lv \ {x} /\ sz2 = [sz EXCEPT ![l] = @ - 1]
    <3>1. TakenOut(nx, pv, sz, lv, l, x, nx2, pv2, sz2, lv2)
      OBVIOUS
    <3> HIDE DEF x, a, b
    <3> QED BY <1>4, <3>1, Zenon DEF TakenOut
  <2> HIDE DEF x, a, b
  <2>2. nx2 \in [Cells -> Cells \cup {Nil}] /\ pv2 \in [Cells -> Cells \cup {Nil}]
    BY <1>2, <1>4, <2>1
  <2>3. nx2[x] = Nil /\ nx2[b] = a /\ \A k \in Cells : k # x /\ k # b => nx2[k] = nx[k]
    BY <1>2, <1>4, <2>1
  <2>4. pv2[x] = Nil /\ pv2[a] = b /\ \A k \in Cells : k # x /\ k # a => pv2[k] = pv[k]
    BY <1>2, <1>4, <2>1
  <2> QED BY <2>1, <2>2, <2>3, <2>4, Zenon
<1> HIDE DEF c, d, x, a, b
<1>6. ASSUME NEW k \in Lists, k \in lv, NEW i \in 0..Len(ch[k])
      PROVE  /\ At(k, ch[k], i) \in Cells /\ At(k, ch[k], i + 1) \in Cells
             /\ At(k, ch[k], i) = b => k = l /\ i = m - 1
             /\ At(k, ch[k], i) = x => k = l /\ i = m
             /\ At(k, ch[k], i + 1) = a => k = l /\ i = m
             /\ At(k, ch[k], i + 1) = x => k = l /\ i = m - 1
             /\ nx[At(k, ch[k], i)] = At(k, ch[k], i + 1)
             /\ pv[At(k, ch[k], i + 1)] = At(k, ch[k], i)
  <2>1. ch[k] \in Seq(Links) /\ Len(ch[k]) \in Nat /\ RingOf(nx, pv, k, ch[k])
    BY <1>6, RingFacts
  <2>2. /\ At(k, ch[k], i) \in Cells /\ At(k, ch[k], i + 1) \in Cells
    BY <2>1, AtFacts
  <2>3. m - 1 \in 0..Len(ch[l]) /\ m \in 0..Len(ch[l]) /\ (m - 1) + 1 = m
    BY <1>1 DEF c
  <2>4. /\ At(k, ch[k], i) = At(l, ch[l], m - 1) => k = l /\ i = m - 1
        /\ At(k, ch[k], i) = At(l, ch[l], m) => k = l /\ i = m
        /\ At(k, ch[k], i + 1) = At(l, ch[l], m + 1) => k = l /\ i = m
        /\ At(k, ch[k], i + 1) = At(l, ch[l], (m - 1) + 1) => k = l /\ i = m - 1
    <3> DEFINE o == m - 1
    <3>1. o \in 0..Len(ch[l]) /\ l \in lv /\ AreRings(ch, nx, pv, sz, lv)
      BY <2>3
    <3> HIDE DEF o
    <3>2. /\ At(k, ch[k], i) = At(l, ch[l], o) => k = l /\ i = o
          /\ At(k, ch[k], i + 1) = At(l, ch[l], o + 1) => k = l /\ i = o
      BY <1>6, <3>1, Disjoint
    <3>3. /\ At(k, ch[k], i) = At(l, ch[l], m) => k = l /\ i = m
          /\ At(k, ch[k], i + 1) = At(l, ch[l], m + 1) => k = l /\ i = m
      BY <1>6, <2>3, <3>1, Disjoint
    <3> QED BY <3>2, <3>3 DEF o
  <2>5. /\ b = At(l, ch[l], m - 1) /\ x = At(l, ch[l], m) /\ a = At(l, ch[l], m + 1)
        /\ x = At(l, ch[l], (m - 1) + 1)
    BY <1>4, <2>3 DEF a, b, c
  <2> QED BY <2>1, <2>2, <2>4, <2>5 DEF RingOf
<1>7. ASSUME NEW i \in 0..n
      PROVE  /\ At(l, c, i) \in Cells /\ At(l, c, i + 1) \in Cells
             /\ At(l, c, i) = b => i = m - 1
             /\ At(l, c, i) = x => i = m
             /\ At(l, c, i + 1) = a => i = m
             /\ At(l, c, i + 1) = x => i = m - 1
             /\ nx[At(l, c, i)] = At(l, c, i + 1)
             /\ pv[At(l, c, i + 1)] = At(l, c, i)
  BY <1>6 DEF c
<1>8. ASSUME NEW j \in Int
      PROVE  /\ 0 <= j /\ j < m => At(l, d, j) = At(l, c, j)
             /\ m <= j /\ j <= n => At(l, d, j) = At(l, c, j + 1)
  <2>1. j \in 1..m /\ j < m => j \in 1..n /\ j \in 1..(n - 1)
    BY <1>1
  <2>2. m <= j /\ j <= n - 1 => j + 1 \in 1..n /\ j \in 1..(n - 1)
    BY <1>1
  <2>3. j = n => j \notin 1..(n - 1) /\ j + 1 \notin 1..n
    BY <1>1
  <2> QED BY <1>1, <1>3, <2>1, <2>2, <2>3 DEF At
<1>9. RingOf(nx2, pv2, l, d)
  <2> SUFFICES ASSUME NEW i \in 0..(n - 1)
               PROVE  nx2[At(l, d, i)] = At(l, d, i + 1) /\ pv2[At(l, d, i + 1)] = At(l, d, i)
    BY <1>3 DEF RingOf
  <2>1. CASE i < m - 1
    <3>1. At(l, d, i) = At(l, c, i) /\ At(l, d, i + 1) = At(l, c, i + 1) /\ i \in 0..n
      BY <1>1, <1>8, <2>1
    <3> QED BY <1>1, <1>5, <1>7, <2>1, <3>1
  <2>2. CASE i = m - 1
    <3>1. At(l, d, i) = b /\ At(l, d, i + 1) = a
      BY <1>1, <1>8, <2>2 DEF a, b
    <3> QED BY <1>5, <3>1
  <2>3. CASE m <= i
    <3>1. At(l, d, i) = At(l, c, i + 1) /\ At(l, d, i + 1) = At(l, c, (i + 1) + 1) /\ i + 1 \in 0..n
      BY <1>1, <1>8, <2>3, SMTT(30)
    <3> QED BY <1>1, <1>5, <1>7, <2>3, <3>1
  <2> QED BY <1>1, <2>1, <2>2, <2>3
<1>10. /\ sz2 \in [Lists -> Nat] /\ lv2 \subseteq Cells
       /\ \A k \in Lists : sz2[k] = Len(dh[k]) /\ (k \notin lv2 => dh[k] = << >>)
  <2>1. ASSUME NEW k \in Lists, k # l PROVE sz2[k] = Len(dh[k]) /\ (k \notin lv2 => dh[k] = << >>)
    BY <1>2, <1>3, <1>4, <1>5, <2>1, RingFacts, ListAssumption
  <2>2. l \in lv2 /\ sz2[l] = n - 1 /\ n - 1 \in Nat
    BY <1>1, <1>2, <1>4, <1>5, ListAssumption
  <2> QED BY <1>1, <1>2, <1>3, <1>4, <1>5, <2>1, <2>2 DEF d
<1>11. ASSUME NEW k \in Links PROVE k \in lv2 <=> \E h \in Lists : \E i \in 1..Len(dh[h]) : k = dh[h][i]
  <2>1. ASSUME NEW i \in 1..n, i # m PROVE \E j \in 1..(n - 1) : d[j] = c[i]
    <3>1. CASE i < m
      <4>1. i \in 1..(n - 1) /\ d[i] = c[i]
        BY <1>1, <1>3, <3>1
      <4> QED BY <4>1
    <3>2. CASE m < i
      <4>1. i - 1 \in 1..(n - 1) /\ ~(i - 1 < m) /\ (i - 1) + 1 = i
        BY <1>1, <3>2
      <4>2. d[i - 1] = c[i]
        BY <1>3, <4>1
      <4> QED BY <4>1, <4>2
    <3> QED BY <1>1, <2>1, <3>1, <3>2
  <2>2. ASSUME NEW j \in 1..(n - 1) PROVE \E i \in 1..n : i # m /\ d[j] = c[i]
    <3>1. CASE j < m
      <4>1. j \in 1..n /\ d[j] = c[j] /\ j # m
        BY <1>1, <1>3, <3>1
      <4> QED BY <4>1
    <3>2. CASE ~(j < m)
      <4>1. j + 1 \in 1..n /\ d[j] = c[j + 1] /\ j + 1 # m
        BY <1>1, <1>3, <3>2
      <4> QED BY <4>1
    <3> QED BY <3>1, <3>2
  <2>3. k \in lv <=> \E h \in Lists : \E i \in 1..Len(ch[h]) : k = ch[h][i]
    BY DEF AreRings, HaveChains
  <2>4. ASSUME NEW h \in Lists, NEW i \in 1..Len(ch[h]) PROVE ch[h][i] = x <=> h = l /\ i = m
    <3>1. i \in 0..Len(ch[h]) /\ Len(ch[h]) \in Nat /\ h \in lv /\ At(h, ch[h], i) = ch[h][i]
      BY RingFacts, AtFacts
    <3> QED BY <1>6, <3>1 DEF x
  <2>5. ASSUME k \in lv, k # x PROVE \E h \in Lists : \E i \in 1..Len(dh[h]) : k = dh[h][i]
    <3>1. PICK h \in Lists : \E i \in 1..Len(ch[h]) : k = ch[h][i]
      BY <2>3, <2>5
    <3>2. CASE h = l
      <4>1. PICK i \in 1..n : k = c[i] /\ i # m
        BY <1>4, <2>5, <3>1, <3>2 DEF c
      <4>2. \E j \in 1..Len(d) : d[j] = k
        BY <1>3, <2>1, <4>1
      <4> QED BY <3>2, <4>2 DEF d
    <3>3. CASE h # l
      BY <1>3, <3>1, <3>3
    <3> QED BY <3>2, <3>3
  <2>6. ASSUME NEW h \in Lists, NEW i \in 1..Len(dh[h]), k = dh[h][i] PROVE k \in lv /\ k # x
    <3>1. CASE h = l
      <4>1. \E j \in 1..n : j # m /\ k = c[j]
        BY <1>3, <2>2, <2>6, <3>1 DEF d
      <4>2. PICK j \in 1..Len(ch[l]) : j # m /\ k = ch[l][j]
        BY <4>1 DEF c
      <4> QED BY <2>3, <2>4, <4>2
    <3>2. CASE h # l
      <4>1. i \in 1..Len(ch[h]) /\ k = ch[h][i]
        BY <1>3, <2>6, <3>2
      <4> QED BY <2>3, <2>4, <3>2, <4>1
    <3> QED BY <3>1, <3>2
  <2> QED BY <1>5, <2>5, <2>6
<1>12. \A k \in Cells \ lv2 : nx2[k] = Nil /\ pv2[k] = Nil
  <2>1. (a \in lv /\ b \in lv)
    <3>1. \A i \in 1..n : c[i] \in lv
      BY RingFacts DEF c
    <3> QED BY <1>1, <1>4, <3>1 DEF At, a, b
  <2> QED BY <1>2, <1>5, <2>1
<1>13. Untouched({l}, ch, nx, pv, lv, dh, nx2, pv2, lv2)
  <2>1. x \notin Lists
    BY <1>4, ListAssumption
  <2>2. ASSUME NEW k \in Lists \ {l}, k \in lv, NEW i \in 0..Len(ch[k])
        PROVE  /\ nx2[At(k, ch[k], i)] = nx[At(k, ch[k], i)]
               /\ pv2[At(k, ch[k], i + 1)] = pv[At(k, ch[k], i + 1)]
    BY <1>5, <1>6, <2>2
  <2> QED BY <1>3, <1>5, <2>1, <2>2 DEF Untouched
<1>14. HaveChains(dh, nx2, pv2, sz2, lv2)
  BY <1>3, <1>5, <1>10, <1>11, <1>12 DEF HaveChains
<1>15. Relinks({l}, dh, nx2, pv2, lv2)
  BY <1>9 DEF Relinks, d
<1> QED BY <1>13, <1>14, <1>15, Relinked, Zenon

\* A new list n.
HeadMade(nx, pv, lv, n, nx2, pv2, lv2) ==
  nx2 = [nx EXCEPT ![n] = n] /\ pv2 = [pv EXCEPT ![n] = n] /\ lv2 = lv \cup {n}

LEMMA NewRing ==
  ASSUME NEW ch, NEW nx, NEW pv, NEW sz, NEW lv, AreRings(ch, nx, pv, sz, lv), NEW n \in Lists, n \notin lv,
         NEW nx2, NEW pv2, NEW lv2, HeadMade(nx, pv, lv, n, nx2, pv2, lv2)
  PROVE  AreRings(ch, nx2, pv2, sz, lv2)
<1>1. /\ ch \in [Lists -> Seq(Links)] /\ nx \in [Cells -> Cells \cup {Nil}]
      /\ pv \in [Cells -> Cells \cup {Nil}] /\ sz \in [Lists -> Nat] /\ lv \subseteq Cells
      /\ \A k \in Cells \ lv : nx[k] = Nil /\ pv[k] = Nil
  BY DEF AreRings, HaveChains
<1>2. /\ nx2 \in [Cells -> Cells \cup {Nil}] /\ pv2 \in [Cells -> Cells \cup {Nil}] /\ n \in Cells
      /\ nx2[n] = n /\ pv2[n] = n /\ lv2 = lv \cup {n}
      /\ \A c \in Cells : c # n => nx2[c] = nx[c] /\ pv2[c] = pv[c]
  BY <1>1 DEF HeadMade, Cells
<1>3. HaveChains(ch, nx2, pv2, sz, lv2)
  <2>1. \A c \in Links : c \in lv2 <=> c \in lv
    BY <1>2, ListAssumption
  <2> QED BY <1>1, <1>2, <2>1 DEF AreRings, HaveChains
<1>4. Untouched({n}, ch, nx, pv, lv, ch, nx2, pv2, lv2)
  <2>1. ASSUME NEW k \in Lists \ {n}, k \in lv, NEW i \in 0..Len(ch[k])
        PROVE  /\ nx2[At(k, ch[k], i)] = nx[At(k, ch[k], i)]
               /\ pv2[At(k, ch[k], i + 1)] = pv[At(k, ch[k], i + 1)]
    <3>1. ch[k] \in Seq(Links) /\ Len(ch[k]) \in Nat /\ k \in Lists
      BY <2>1, RingFacts
    <3>2. ASSUME NEW j \in Int PROVE At(k, ch[k], j) \in Cells /\ At(k, ch[k], j) # n
      <4>1. At(k, ch[k], j) \in Cells /\ (j \in 1..Len(ch[k]) => At(k, ch[k], j) \in Links)
        BY <3>1, AtFacts
      <4>2. j \notin 1..Len(ch[k]) => At(k, ch[k], j) = k
        BY <3>1, AtFacts
      <4> QED BY <2>1, <4>1, <4>2, ListAssumption
    <3>3. i \in Int /\ i + 1 \in Int
      OBVIOUS
    <3> QED BY <1>2, <3>2, <3>3
  <2> QED BY <1>2, <2>1 DEF Untouched
<1>5. Relinks({n}, ch, nx2, pv2, lv2)
  <2>1. ch[n] = << >>
    BY RingFacts
  <2>2. RingOf(nx2, pv2, n, ch[n])
    BY <1>2, <2>1 DEF RingOf, At
  <2> QED BY <2>2 DEF Relinks
<1> QED BY <1>3, <1>4, <1>5, Relinked, Zenon

\* Two chains are made of the chain of l: the links from place m on are the
\* chain of the new list n.
CutOut(nx, pv, sz, lv, l, n, b, a, first, last, count, nx2, pv2, sz2, lv2) ==
  /\ nx2 = [nx EXCEPT ![b] = a, ![n] = first, ![last] = n]
  /\ pv2 = [pv EXCEPT ![a] = b, ![n] = last, ![first] = n]
  /\ sz2 = [sz EXCEPT ![l] = @ - count, ![n] = count] /\ lv2 = lv \cup {n}

Without(c, m, count) == [j \in 1..(Len(c) - count) |-> IF j < m THEN c[j] ELSE c[j + count]]
Piece(c, m, count) == [j \in 1..count |-> c[m + j - 1]]

CutChains(ch, l, n, m, count, dh) ==
  dh = [ch EXCEPT ![l] = Without(ch[l], m, count), ![n] = Piece(ch[l], m, count)]

\* The ends of the piece, and what is before and behind it.
CutPlaces(ch, l, m, count, b, a, first, last) ==
  /\ m \in Nat /\ 1 <= m /\ count \in Nat /\ 1 <= count /\ m + count <= Len(ch[l]) + 1
  /\ b = At(l, ch[l], m - 1) /\ a = At(l, ch[l], m + count)
  /\ first = At(l, ch[l], m) /\ last = At(l, ch[l], m + count - 1)

LEMMA CutRing ==
  ASSUME NEW ch, NEW nx, NEW pv, NEW sz, NEW lv, AreRings(ch, nx, pv, sz, lv),
         NEW l \in Lists, l \in lv, NEW n \in Lists, n \notin lv,
         NEW m, NEW count, NEW b, NEW a, NEW first, NEW last, CutPlaces(ch, l, m, count, b, a, first, last),
         NEW nx2, NEW pv2, NEW sz2, NEW lv2,
         CutOut(nx, pv, sz, lv, l, n, b, a, first, last, count, nx2, pv2, sz2, lv2),
         NEW dh, CutChains(ch, l, n, m, count, dh)
  PROVE  /\ AreRings(dh, nx2, pv2, sz2, lv2)
         /\ Len(dh[l]) = Len(ch[l]) - count /\ At(l, dh[l], m) = a /\ At(l, dh[l], m - 1) = b
<1> USE DEF CutPlaces
<1> DEFINE c == ch[l]
           d == dh[l]
           e == dh[n]
           s == Len(c)
           z == m + count - 1
<1>1. /\ c \in Seq(Links) /\ s \in Nat /\ sz[l] = s /\ RingOf(nx, pv, l, c)
      /\ m - 1 \in 0..s /\ m \in 1..s /\ z \in 1..s /\ z \in 0..s /\ z + 1 = m + count /\ (m - 1) + 1 = m
      /\ m \in 0..s /\ z >= m
  BY RingFacts, SMTT(60)
<1>2. /\ ch \in [Lists -> Seq(Links)] /\ nx \in [Cells -> Cells \cup {Nil}]
      /\ pv \in [Cells -> Cells \cup {Nil}] /\ sz \in [Lists -> Nat] /\ lv \subseteq Cells
      /\ \A k \in Cells \ lv : nx[k] = Nil /\ pv[k] = Nil
  BY DEF AreRings, HaveChains
<1>3. /\ d \in Seq(Links) /\ Len(d) = s - count
      /\ \A j \in 1..(s - count) : d[j] = IF j < m THEN c[j] ELSE c[j + count]
      /\ e \in Seq(Links) /\ Len(e) = count /\ \A j \in 1..count : e[j] = c[m + j - 1]
      /\ \A k \in Lists \ {l, n} : dh[k] = ch[k]
      /\ dh \in [Lists -> Seq(Links)]
  <2>1. l # n
    OBVIOUS
  <2>2. /\ d = Without(c, m, count) /\ e = Piece(c, m, count)
        /\ \A k \in Lists \ {l, n} : dh[k] = ch[k]
    BY <1>2, <2>1 DEF CutChains
  <2>3. /\ d \in Seq(Links) /\ Len(d) = s - count
        /\ \A j \in 1..(s - count) : d[j] = IF j < m THEN c[j] ELSE c[j + count]
        /\ e \in Seq(Links) /\ Len(e) = count /\ \A j \in 1..count : e[j] = c[m + j - 1]
    <3>1. c \in Seq(Links) /\ m + count <= Len(c) + 1 /\ s = Len(c)
      BY <1>1
    <3> HIDE DEF c, d, e, s, z
    <3>2. s - count \in Nat /\ \A k \in 1..s : c[k] \in Links
      BY <1>1, <3>1, ElementOfSeq
    <3>3. d = [j \in 1..(s - count) |-> IF j < m THEN c[j] ELSE c[j + count]]
      BY <2>2, <3>1 DEF Without
    <3>4. e = [j \in 1..count |-> c[m + j - 1]]
      BY <2>2, <3>1 DEF Piece
    <3>5. d \in [1..(s - count) -> Links]
      BY <1>1, <3>1, <3>2, <3>3
    <3>6. e \in [1..count -> Links]
      BY <1>1, <3>1, <3>2, <3>4
    <3>7. d \in Seq(Links) /\ Len(d) = s - count
      BY <3>2, <3>5
    <3>8. e \in Seq(Links) /\ Len(e) = count
      BY <3>6
    <3> QED BY <3>3, <3>4, <3>7, <3>8
  <2>4. dh \in [Lists -> Seq(Links)]
    <3>1. dh = [ch EXCEPT ![l] = d, ![n] = e]
      BY <2>2, Zenon DEF CutChains
    <3> HIDE DEF d, e
    <3> QED BY <1>2, <2>3, <3>1
  <2> QED BY <2>2, <2>3, <2>4
<1>4. /\ a \in Cells /\ b \in Cells /\ first \in Cells /\ last \in Cells /\ n \in Cells
      /\ a \in lv /\ b \in lv /\ first \in lv /\ last \in lv /\ first \in Links /\ last \in Links
      /\ b # last /\ a # first /\ nx[last] = a /\ pv[first] = b
  <2>0. /\ b = At(l, c, m - 1) /\ first = At(l, c, m) /\ last = At(l, c, z) /\ a = At(l, c, z + 1)
        /\ first = At(l, c, (m - 1) + 1)
    BY <1>1
  <2>1. /\ a \in Cells /\ b \in Cells /\ first \in Cells /\ last \in Cells /\ n \in Cells
        /\ first \in Links /\ last \in Links
    BY <1>1, <2>0, AtFacts DEF Cells
  <2>2. a \in lv /\ b \in lv /\ first \in lv /\ last \in lv
    <3>1. \A i \in 1..s : c[i] \in lv
      BY RingFacts
    <3> QED BY <1>1, <2>0, <3>1 DEF At
  <2>3. nx[last] = a /\ pv[first] = b
    <3> HIDE DEF c, z
    <3> QED BY <1>1, <2>0 DEF RingOf
  <2>4. b # last /\ a # first
    <3>1. m - 1 # z
      OBVIOUS
    <3>2. m - 1 \in 0..Len(ch[l]) /\ z \in 0..Len(ch[l])
      BY <1>1
    <3>3. /\ At(l, ch[l], m - 1) = At(l, ch[l], z) => m - 1 = z
          /\ At(l, ch[l], (m - 1) + 1) = At(l, ch[l], z + 1) => m - 1 = z
      <4> HIDE DEF z
      <4> DEFINE y == m - 1
      <4>1. y \in 0..Len(ch[l])
        BY <3>2
      <4> HIDE DEF y
      <4>2. /\ At(l, ch[l], y) = At(l, ch[l], z) => y = z
            /\ At(l, ch[l], y + 1) = At(l, ch[l], z + 1) => y = z
        BY <3>2, <4>1, Disjoint
      <4> QED BY <4>2 DEF y
    <3> HIDE DEF z
    <3> QED BY <2>0, <3>1, <3>3
  <2> QED BY <2>1, <2>2, <2>3, <2>4
<1>5. /\ nx2 \in [Cells -> Cells \cup {Nil}] /\ pv2 \in [Cells -> Cells \cup {Nil}]
      /\ nx2[b] = a /\ nx2[n] = first /\ nx2[last] = n
      /\ \A k \in Cells : k # b /\ k # n /\ k # last => nx2[k] = nx[k]
      /\ pv2[a] = b /\ pv2[n] = last /\ pv2[first] = n
      /\ \A k \in Cells : k # a /\ k # n /\ k # first => pv2[k] = pv[k]
      /\ lv2 = lv \cup {n} /\ sz2 = [sz EXCEPT ![l] = @ - count, ![n] = count]
  <2>1. /\ nx2 = [nx EXCEPT ![b] = a, ![n] = first, ![last] = n]
        /\ pv2 = [pv EXCEPT ![a] = b, ![n] = last, ![first] = n]
        /\ lv2 = lv \cup {n} /\ sz2 = [sz EXCEPT ![l] = @ - count, ![n] = count]
    BY Zenon DEF CutOut
  <2>2. nx2 \in [Cells -> Cells \cup {Nil}] /\ pv2 \in [Cells -> Cells \cup {Nil}]
    BY <1>2, <1>4, <2>1
  <2>3. b # n /\ n # last /\ b # last /\ a # n /\ n # first /\ a # first
    BY <1>4
  <2>4. /\ nx2[b] = a /\ nx2[n] = first /\ nx2[last] = n
        /\ \A k \in Cells : k # b /\ k # n /\ k # last => nx2[k] = nx[k]
    BY <1>2, <1>4, <2>1, <2>3
  <2>5. /\ pv2[a] = b /\ pv2[n] = last /\ pv2[first] = n
        /\ \A k \in Cells : k # a /\ k # n /\ k # first => pv2[k] = pv[k]
    BY <1>2, <1>4, <2>1, <2>3
  <2> QED BY <2>1, <2>2, <2>4, <2>5, Zenon
<1>6. ASSUME NEW k \in Lists, k \in lv, NEW i \in 0..Len(ch[k])
      PROVE  /\ At(k, ch[k], i) \in Cells /\ At(k, ch[k], i + 1) \in Cells
             /\ At(k, ch[k], i) # n /\ At(k, ch[k], i + 1) # n
             /\ At(k, ch[k], i) = b => k = l /\ i = m - 1
             /\ At(k, ch[k], i) = last => k = l /\ i = z
             /\ At(k, ch[k], i + 1) = a => k = l /\ i = z
             /\ At(k, ch[k], i + 1) = first => k = l /\ i = m - 1
             /\ nx[At(k, ch[k], i)] = At(k, ch[k], i + 1)
             /\ pv[At(k, ch[k], i + 1)] = At(k, ch[k], i)
  <2>1. ch[k] \in Seq(Links) /\ Len(ch[k]) \in Nat /\ RingOf(nx, pv, k, ch[k])
    BY <1>6, RingFacts
  <2>2. /\ At(k, ch[k], i) \in Cells /\ At(k, ch[k], i + 1) \in Cells
        /\ At(k, ch[k], i) # n /\ At(k, ch[k], i + 1) # n
    <3>1. \A j \in 1..Len(ch[k]) : ch[k][j] \in lv
      BY <1>6, RingFacts
    <3>2. At(k, ch[k], i) \in lv /\ At(k, ch[k], i + 1) \in lv
      BY <1>6, <3>1 DEF At
    <3> QED BY <1>2, <3>2
  <2>3. m - 1 \in 0..Len(ch[l]) /\ z \in 0..Len(ch[l]) /\ (m - 1) + 1 = m /\ z + 1 = m + count
    BY <1>1
  <2> HIDE DEF z
  <2>4. /\ At(k, ch[k], i) = At(l, ch[l], m - 1) => k = l /\ i = m - 1
        /\ At(k, ch[k], i) = At(l, ch[l], z) => k = l /\ i = z
        /\ At(k, ch[k], i + 1) = At(l, ch[l], z + 1) => k = l /\ i = z
        /\ At(k, ch[k], i + 1) = At(l, ch[l], (m - 1) + 1) => k = l /\ i = m - 1
    BY <1>6, <2>3, Disjoint, SMTT(60)
  <2>5. /\ b = At(l, ch[l], m - 1) /\ last = At(l, ch[l], z) /\ a = At(l, ch[l], z + 1)
        /\ first = At(l, ch[l], (m - 1) + 1)
    BY <2>3 DEF z
  <2> QED BY <2>1, <2>2, <2>4, <2>5 DEF RingOf
<1>7. ASSUME NEW i \in 0..s
      PROVE  /\ At(l, c, i) \in Cells /\ At(l, c, i + 1) \in Cells
             /\ At(l, c, i) # n /\ At(l, c, i + 1) # n
             /\ At(l, c, i) = b => i = m - 1
             /\ At(l, c, i) = last => i = z
             /\ At(l, c, i + 1) = a => i = z
             /\ At(l, c, i + 1) = first => i = m - 1
             /\ nx[At(l, c, i)] = At(l, c, i + 1)
             /\ pv[At(l, c, i + 1)] = At(l, c, i)
  <2> HIDE DEF z
  <2> QED BY <1>6
<1>0. b = At(l, c, m - 1) /\ first = At(l, c, m) /\ last = At(l, c, z) /\ a = At(l, c, m + count)
  OBVIOUS
<1>00. m + count <= s + 1 /\ l # n /\ z = m + count - 1
  OBVIOUS
<1> HIDE DEF c, d, e, z
<1>8. ASSUME NEW j \in Int
      PROVE  /\ 0 <= j /\ j < m => At(l, d, j) = At(l, c, j)
             /\ m <= j /\ j <= s - count + 1 => At(l, d, j) = At(l, c, j + count)
  <2>0. m <= s - count + 1
    BY <1>1, <1>00
  <2>1. j \in 1..m /\ j < m => j \in 1..s /\ j \in 1..(s - count)
    BY <1>1, <1>00, <2>0
  <2>2. m <= j /\ j <= s - count => j + count \in 1..s /\ j \in 1..(s - count)
    BY <1>1, <1>00
  <2>3. j = s - count + 1 => j \notin 1..(s - count) /\ j + count \notin 1..s
    BY <1>1, <1>00
  <2>4. ASSUME 0 <= j, j < m PROVE At(l, d, j) = At(l, c, j)
    BY <1>1, <1>3, <1>00, <2>1, <2>4 DEF At
  <2>5. ASSUME m <= j, j <= s - count PROVE At(l, d, j) = At(l, c, j + count)
    <3>1. ~(j < m)
      BY <1>1, <2>5
    <3> QED BY <1>1, <1>3, <2>2, <2>5, <3>1 DEF At
  <2>6. ASSUME j = s - count + 1 PROVE At(l, d, j) = At(l, c, j + count)
    BY <1>1, <1>3, <2>3, <2>6 DEF At
  <2>7. j <= s - count + 1 => j <= s - count \/ j = s - count + 1
    BY <1>1, SMTT(30)
  <2> QED BY <2>4, <2>5, <2>6, <2>7
<1>9. ASSUME NEW j \in Int
      PROVE  /\ j = 0 \/ j = count + 1 => At(n, e, j) = n
             /\ 1 <= j /\ j <= count => At(n, e, j) = At(l, c, m + j - 1)
  <2>1. 1 <= j /\ j <= count => m + j - 1 \in 1..s
    BY <1>1, <1>00, SMTT(60)
  <2> QED BY <1>1, <1>3, <2>1, SMTT(60) DEF At
<1>10. RingOf(nx2, pv2, l, d)
  <2> SUFFICES ASSUME NEW i \in 0..(s - count)
               PROVE  nx2[At(l, d, i)] = At(l, d, i + 1) /\ pv2[At(l, d, i + 1)] = At(l, d, i)
    BY <1>3 DEF RingOf
  <2>1. CASE i < m - 1
    <3>1. /\ i \in Int /\ 0 <= i /\ i < m /\ i + 1 \in Int /\ 0 <= i + 1 /\ i + 1 < m
          /\ i \in 0..s /\ i # z /\ i # m - 1
      BY <1>1, <1>00, <2>1
    <3>2. At(l, d, i) = At(l, c, i) /\ At(l, d, i + 1) = At(l, c, i + 1)
      BY <1>8, <3>1
    <3> QED BY <1>5, <1>7, <3>1, <3>2, SMTT(60)
  <2>2. CASE i = m - 1
    <3>1. At(l, d, i) = At(l, c, m - 1)
      BY <1>1, <1>8, <2>2
    <3>2. At(l, d, i + 1) = At(l, c, m + count)
      BY <1>1, <1>8, <1>00, <2>2, SMTT(30)
    <3> QED BY <1>0, <1>5, <3>1, <3>2
  <2>3. CASE m <= i
    <3> DEFINE y == i + count
    <3>1. /\ i \in Int /\ m <= i /\ i <= s - count + 1 /\ y = i + count
          /\ i + 1 \in Int /\ m <= i + 1 /\ i + 1 <= s - count + 1 /\ y + 1 = (i + 1) + count
          /\ y \in 0..s /\ y # m - 1 /\ y # z
      BY <1>1, <1>00, <2>3
    <3> HIDE DEF y
    <3>2. At(l, d, i) = At(l, c, y) /\ At(l, d, i + 1) = At(l, c, y + 1)
      BY <1>8, <3>1
    <3> QED BY <1>5, <1>7, <3>1, <3>2, SMTT(60)
  <2> QED BY <1>1, <2>1, <2>2, <2>3
<1>11. RingOf(nx2, pv2, n, e)
  <2> SUFFICES ASSUME NEW i \in 0..count
               PROVE  nx2[At(n, e, i)] = At(n, e, i + 1) /\ pv2[At(n, e, i + 1)] = At(n, e, i)
    BY <1>3 DEF RingOf
  <2>1. CASE i = 0
    <3>1. At(n, e, i) = n /\ At(n, e, i + 1) = At(l, c, m)
      BY <1>1, <1>9, <2>1
    <3> QED BY <1>0, <1>5, <3>1
  <2>2. CASE i = count
    <3>1. At(n, e, i) = At(l, c, z) /\ At(n, e, i + 1) = n
      BY <1>1, <1>9, <1>00, <2>2
    <3> QED BY <1>0, <1>5, <3>1
  <2>3. CASE 0 < i /\ i < count
    <3> DEFINE y == m + i - 1
    <3>1. /\ At(n, e, i) = At(l, c, y) /\ At(n, e, i + 1) = At(l, c, y + 1)
          /\ y \in 0..s /\ y # m - 1 /\ y # z
      BY <1>1, <1>9, <1>00, <2>3, SMTT(60)
    <3> HIDE DEF y
    <3> QED BY <1>5, <1>7, <3>1
  <2> QED BY <2>1, <2>2, <2>3
<1>12. /\ sz2 \in [Lists -> Nat] /\ lv2 \subseteq Cells
       /\ \A k \in Lists : sz2[k] = Len(dh[k]) /\ (k \notin lv2 => dh[k] = << >>)
  <2>1. sz2[l] = s - count /\ sz2[n] = count /\ sz2 \in [Lists -> Nat] /\ \A k \in Lists \ {l, n} : sz2[k] = sz[k]
    <3>1. s - count \in Nat
      BY <1>1, <1>00
    <3>2. sz2[l] = sz[l] - count /\ sz2[n] = count /\ \A k \in Lists \ {l, n} : sz2[k] = sz[k]
      BY <1>2, <1>5, <1>00
    <3>3. sz2 = [sz EXCEPT ![l] = s - count, ![n] = count]
      BY <1>1, <1>5, Zenon
    <3>4. sz2 \in [Lists -> Nat]
      BY <1>2, <3>1, <3>3
    <3> QED BY <1>1, <3>1, <3>2, <3>4
  <2>2. ASSUME NEW k \in Lists \ {l, n} PROVE sz2[k] = Len(dh[k]) /\ (k \notin lv2 => dh[k] = << >>)
    BY <1>2, <1>3, <1>5, <2>1, RingFacts, SMTT(60)
  <2>3. sz2[l] = Len(dh[l]) /\ sz2[n] = Len(dh[n]) /\ l \in lv2 /\ n \in lv2
    BY <1>3, <1>5, <2>1 DEF d, e
  <2> QED BY <1>2, <1>4, <1>5, <2>1, <2>2, <2>3
<1>13. ASSUME NEW k \in Links PROVE k \in lv2 <=> \E h \in Lists : \E i \in 1..Len(dh[h]) : k = dh[h][i]
  <2>1. ASSUME NEW i \in 1..s
        PROVE  (\E j \in 1..(s - count) : d[j] = c[i]) \/ (\E j \in 1..count : e[j] = c[i])
    <3>1. CASE i < m
      <4>1. i \in 1..(s - count)
        BY <1>1, <1>00, <3>1, SMTT(60)
      <4>2. d[i] = c[i]
        BY <1>3, <3>1, <4>1
      <4> QED BY <4>1, <4>2
    <3>2. CASE z < i
      <4>1. i - count \in 1..(s - count) /\ ~(i - count < m) /\ (i - count) + count = i
        BY <1>1, <1>00, <3>2
      <4>2. d[i - count] = c[i]
        BY <1>3, <4>1
      <4> QED BY <4>1, <4>2
    <3>3. CASE m <= i /\ i <= z
      <4>1. i - m + 1 \in 1..count /\ m + (i - m + 1) - 1 = i
        BY <1>1, <1>00, <3>3
      <4>2. e[i - m + 1] = c[i]
        BY <1>3, <4>1
      <4> QED BY <4>1, <4>2
    <3> QED BY <1>1, <3>1, <3>2, <3>3
  <2>2. ASSUME NEW j \in 1..(s - count) PROVE \E i \in 1..s : d[j] = c[i]
    <3>1. j \in 1..s /\ j + count \in 1..s /\ (d[j] = c[j] \/ d[j] = c[j + count])
      BY <1>1, <1>3, SMTT(60)
    <3> QED BY <3>1
  <2>3. ASSUME NEW j \in 1..count PROVE \E i \in 1..s : e[j] = c[i]
    <3>1. m + j - 1 \in 1..s /\ e[j] = c[m + j - 1]
      BY <1>1, <1>3, <1>00, SMTT(60)
    <3> QED BY <3>1
  <2>4. k \in lv <=> \E h \in Lists : \E i \in 1..Len(ch[h]) : k = ch[h][i]
    BY DEF AreRings, HaveChains
  <2>5. k # n
    BY ListAssumption
  <2>6. ch[n] = << >> /\ \A i \in 1..Len(ch[n]) : FALSE
    <3>1. ch[n] = << >>
      BY RingFacts
    <3> QED BY <3>1
  <2>7. ASSUME k \in lv PROVE \E h \in Lists : \E i \in 1..Len(dh[h]) : k = dh[h][i]
    <3>1. PICK h \in Lists : \E i \in 1..Len(ch[h]) : k = ch[h][i]
      BY <2>4, <2>7
    <3>2. CASE h = l
      <4>1. PICK i \in 1..s : k = c[i]
        BY <3>1, <3>2 DEF c
      <4> QED BY <1>3, <2>1, <4>1, ZenonT(60) DEF d, e
    <3>3. CASE h # l
      BY <1>3, <2>6, <3>1, <3>3, SMTT(60)
    <3> QED BY <3>2, <3>3
  <2>8. ASSUME NEW h \in Lists, NEW i \in 1..Len(dh[h]), k = dh[h][i] PROVE k \in lv
    <3>1. CASE h = l
      BY <1>3, <2>2, <2>4, <2>8, <3>1 DEF c, d
    <3>2. CASE h = n
      BY <1>3, <2>3, <2>4, <2>8, <3>2 DEF c, e
    <3>3. CASE h # l /\ h # n
      BY <1>3, <2>4, <2>8, <3>3
    <3> QED BY <3>1, <3>2, <3>3
  <2> QED BY <1>5, <2>5, <2>7, <2>8
<1>14. \A k \in Cells \ lv2 : nx2[k] = Nil /\ pv2[k] = Nil
  BY <1>2, <1>4, <1>5
<1>15. Untouched({l, n}, ch, nx, pv, lv, dh, nx2, pv2, lv2)
  <2>1. ASSUME NEW k \in Lists \ {l, n}, k \in lv, NEW i \in 0..Len(ch[k])
        PROVE  /\ nx2[At(k, ch[k], i)] = nx[At(k, ch[k], i)]
               /\ pv2[At(k, ch[k], i + 1)] = pv[At(k, ch[k], i + 1)]
    BY <1>5, <1>6, <2>1
  <2> QED BY <1>3, <1>5, <2>1 DEF Untouched
<1>16. HaveChains(dh, nx2, pv2, sz2, lv2)
  BY <1>3, <1>5, <1>12, <1>13, <1>14 DEF HaveChains
<1>17. Relinks({l, n}, dh, nx2, pv2, lv2)
  BY <1>10, <1>11 DEF Relinks, d, e
<1>18. AreRings(dh, nx2, pv2, sz2, lv2)
  BY <1>15, <1>16, <1>17, Relinked, Zenon
<1>19. At(l, d, m) = a /\ At(l, d, m - 1) = b
  BY <1>0, <1>1, <1>8, <1>00
<1> QED BY <1>3, <1>18, <1>19 DEF c, d

\* The links of r go into the chain of l, at place m; r is freed.
FilledIn(nx, pv, sz, lv, l, r, b, at, first, last, nx2, pv2, sz2, lv2) ==
  /\ nx2 = [nx EXCEPT ![last] = at, ![b] = first, ![r] = Nil]
  /\ pv2 = [pv EXCEPT ![first] = b, ![at] = last, ![r] = Nil]
  /\ sz2 = [sz EXCEPT ![l] = @ + sz[r], ![r] = 0] /\ lv2 = lv \ {r}

Joined(c, m, e) ==
  [j \in 1..(Len(c) + Len(e)) |-> IF j < m THEN c[j]
                                  ELSE IF j < m + Len(e) THEN e[j - m + 1] ELSE c[j - Len(e)]]

FilledChains(ch, l, r, m, dh) == dh = [ch EXCEPT ![l] = Joined(ch[l], m, ch[r]), ![r] = << >>]

LEMMA FillRing ==
  ASSUME NEW ch, NEW nx, NEW pv, NEW sz, NEW lv, AreRings(ch, nx, pv, sz, lv),
         NEW l \in Lists, l \in lv, NEW r \in Lists, r \in lv, r # l, 1 <= Len(ch[r]),
         NEW m \in Nat, 1 <= m, m <= Len(ch[l]) + 1,
         NEW b, b = At(l, ch[l], m - 1), NEW at, at = At(l, ch[l], m),
         NEW first, first = At(r, ch[r], 1), NEW last, last = At(r, ch[r], Len(ch[r])),
         NEW nx2, NEW pv2, NEW sz2, NEW lv2,
         FilledIn(nx, pv, sz, lv, l, r, b, at, first, last, nx2, pv2, sz2, lv2),
         NEW dh, FilledChains(ch, l, r, m, dh)
  PROVE  AreRings(dh, nx2, pv2, sz2, lv2)
<1> DEFINE c == ch[l]
           d == dh[l]
           e == ch[r]
           s == Len(c)
           t == Len(e)
<1>1. /\ c \in Seq(Links) /\ s \in Nat /\ sz[l] = s /\ RingOf(nx, pv, l, c)
      /\ e \in Seq(Links) /\ t \in Nat /\ sz[r] = t /\ RingOf(nx, pv, r, e)
      /\ m - 1 \in 0..s /\ (m - 1) + 1 = m /\ m <= s + 1 /\ 1 <= t /\ t \in 0..t /\ 0 \in 0..t
  BY RingFacts
<1>2. /\ ch \in [Lists -> Seq(Links)] /\ nx \in [Cells -> Cells \cup {Nil}]
      /\ pv \in [Cells -> Cells \cup {Nil}] /\ sz \in [Lists -> Nat] /\ lv \subseteq Cells
      /\ \A k \in Cells \ lv : nx[k] = Nil /\ pv[k] = Nil
  BY DEF AreRings, HaveChains
<1>3. /\ d \in Seq(Links) /\ Len(d) = s + t
      /\ \A j \in 1..(s + t) : d[j] = IF j < m THEN c[j] ELSE IF j < m + t THEN e[j - m + 1] ELSE c[j - t]
      /\ dh[r] = << >> /\ \A k \in Lists \ {l, r} : dh[k] = ch[k]
      /\ dh \in [Lists -> Seq(Links)]
  <2>2. /\ d = Joined(c, m, e) /\ dh[r] = << >> /\ \A k \in Lists \ {l, r} : dh[k] = ch[k]
    BY <1>2 DEF FilledChains
  <2>3. /\ d \in Seq(Links) /\ Len(d) = s + t
        /\ \A j \in 1..(s + t) :
             d[j] = IF j < m THEN c[j] ELSE IF j < m + t THEN e[j - m + 1] ELSE c[j - t]
    <3>1. s = Len(c) /\ t = Len(e)
      OBVIOUS
    <3> HIDE DEF c, d, e, s, t
    <3>2. s + t \in Nat /\ (\A k \in 1..s : c[k] \in Links) /\ \A k \in 1..t : e[k] \in Links
      BY <1>1, <3>1, ElementOfSeq
    <3>3. d = [j \in 1..(s + t) |-> IF j < m THEN c[j] ELSE IF j < m + t THEN e[j - m + 1] ELSE c[j - t]]
      BY <2>2, <3>1 DEF Joined
    <3>4. ASSUME NEW j \in 1..(s + t) PROVE d[j] \in Links
      <4>1. /\ j < m => j \in 1..s
            /\ ~(j < m) /\ j < m + t => j - m + 1 \in 1..t
            /\ ~(j < m + t) => j - t \in 1..s
        BY <1>1
      <4> QED BY <3>2, <3>3, <4>1
    <3>5. d \in [1..(s + t) -> Links]
      BY <3>3, <3>4
    <3>6. d \in Seq(Links) /\ Len(d) = s + t
      BY <3>2, <3>5
    <3> QED BY <3>3, <3>6
  <2>4. dh \in [Lists -> Seq(Links)]
    <3>1. dh = [ch EXCEPT ![l] = d, ![r] = << >>]
      BY <2>2, Zenon DEF FilledChains
    <3> HIDE DEF d
    <3> QED BY <1>2, <2>3, <3>1, SMTT(60)
  <2> QED BY <2>2, <2>3, <2>4
<1>4. /\ at \in Cells /\ b \in Cells /\ first \in Cells /\ last \in Cells /\ r \in Cells
      /\ at \in lv /\ b \in lv /\ first \in lv /\ last \in lv /\ first \in Links /\ last \in Links
      /\ at # r /\ b # r /\ first # r /\ last # r /\ b # last /\ at # first
  <2>1. /\ at \in Cells /\ b \in Cells /\ first \in Cells /\ last \in Cells /\ r \in Cells
        /\ first \in Links /\ last \in Links
    BY <1>1, AtFacts DEF Cells
  <2>2. at \in lv /\ b \in lv /\ first \in lv /\ last \in lv
    <3>1. (\A i \in 1..s : c[i] \in lv) /\ \A i \in 1..t : e[i] \in lv
      BY RingFacts
    <3> QED BY <1>1, <3>1 DEF At
  <2>3. at # r /\ b # r /\ first # r /\ last # r
    <3>1. (\A i \in 1..s : c[i] \in Links) /\ \A i \in 1..t : e[i] \in Links
      BY RingFacts
    <3> QED BY <1>1, <3>1, ListAssumption, SMTT(60) DEF At
  <2>4. b # last /\ at # first
    <3> DEFINE y == m - 1
    <3>1. y \in 0..Len(ch[l]) /\ t \in 0..Len(ch[r]) /\ 0 \in 0..Len(ch[r]) /\ y + 1 = m /\ 0 + 1 = 1
      BY <1>1
    <3>2. b = At(l, ch[l], y) /\ at = At(l, ch[l], y + 1) /\ first = At(r, ch[r], 0 + 1) /\ last = At(r, ch[r], t)
      BY <3>1
    <3> HIDE DEF y, t
    <3>3. /\ At(l, ch[l], y) = At(r, ch[r], t) => l = r /\ y = t
          /\ At(l, ch[l], y + 1) = At(r, ch[r], 0 + 1) => l = r /\ y = 0
      BY <3>1, Disjoint
    <3> QED BY <3>2, <3>3
  <2> QED BY <2>1, <2>2, <2>3, <2>4
<1>5. /\ nx2 \in [Cells -> Cells \cup {Nil}] /\ pv2 \in [Cells -> Cells \cup {Nil}]
      /\ nx2[last] = at /\ nx2[b] = first /\ nx2[r] = Nil
      /\ \A k \in Cells : k # last /\ k # b /\ k # r => nx2[k] = nx[k]
      /\ pv2[first] = b /\ pv2[at] = last /\ pv2[r] = Nil
      /\ \A k \in Cells : k # first /\ k # at /\ k # r => pv2[k] = pv[k]
      /\ lv2 = lv \ {r} /\ sz2 = [sz EXCEPT ![l] = @ + sz[r], ![r] = 0]
  <2>1. /\ nx2 = [nx EXCEPT ![last] = at, ![b] = first, ![r] = Nil]
        /\ pv2 = [pv EXCEPT ![first] = b, ![at] = last, ![r] = Nil]
        /\ lv2 = lv \ {r} /\ sz2 = [sz EXCEPT ![l] = @ + sz[r], ![r] = 0]
    BY Zenon DEF FilledIn
  <2>2. nx2 \in [Cells -> Cells \cup {Nil}] /\ pv2 \in [Cells -> Cells \cup {Nil}]
    BY <1>2, <1>4, <2>1
  <2>3. /\ nx2[last] = at /\ nx2[b] = first /\ nx2[r] = Nil
        /\ \A k \in Cells : k # last /\ k # b /\ k # r => nx2[k] = nx[k]
    BY <1>2, <1>4, <2>1
  <2>4. /\ pv2[first] = b /\ pv2[at] = last /\ pv2[r] = Nil
        /\ \A k \in Cells : k # first /\ k # at /\ k # r => pv2[k] = pv[k]
    BY <1>2, <1>4, <2>1
  <2> QED BY <2>1, <2>2, <2>3, <2>4, Zenon
<1>6. ASSUME NEW k \in Lists, k \in lv, NEW i \in 0..Len(ch[k])
      PROVE  /\ At(k, ch[k], i) \in Cells /\ At(k, ch[k], i + 1) \in Cells
             /\ At(k, ch[k], i) = b => k = l /\ i = m - 1
             /\ At(k, ch[k], i) = last => k = r /\ i = t
             /\ At(k, ch[k], i) = r => k = r
             /\ At(k, ch[k], i + 1) = at => k = l /\ i = m - 1
             /\ At(k, ch[k], i + 1) = first => k = r /\ i = 0
             /\ At(k, ch[k], i + 1) = r => k = r
             /\ nx[At(k, ch[k], i)] = At(k, ch[k], i + 1)
             /\ pv[At(k, ch[k], i + 1)] = At(k, ch[k], i)
  <2>1. ch[k] \in Seq(Links) /\ Len(ch[k]) \in Nat /\ RingOf(nx, pv, k, ch[k])
    BY <1>6, RingFacts
  <2>2. /\ At(k, ch[k], i) \in Cells /\ At(k, ch[k], i + 1) \in Cells
        /\ At(k, ch[k], i) = r => k = r
        /\ At(k, ch[k], i + 1) = r => k = r
    <3>1. \A j \in 1..Len(ch[k]) : ch[k][j] \in Links
      BY <1>6, RingFacts
    <3>2. At(k, ch[k], i) \in Links \cup {k} /\ At(k, ch[k], i + 1) \in Links \cup {k}
      BY <1>6, <3>1 DEF At
    <3> QED BY <3>2, ListAssumption DEF Cells
  <2>3. /\ m - 1 \in 0..Len(ch[l]) /\ (m - 1) + 1 = m /\ t \in 0..Len(ch[r]) /\ 0 \in 0..Len(ch[r]) /\ 0 + 1 = 1
        /\ t = Len(ch[r])
    BY <1>1
  <2> HIDE DEF t
  <2>4. /\ At(k, ch[k], i) = At(l, ch[l], m - 1) => k = l /\ i = m - 1
        /\ At(k, ch[k], i) = At(r, ch[r], t) => k = r /\ i = t
        /\ At(k, ch[k], i + 1) = At(l, ch[l], (m - 1) + 1) => k = l /\ i = m - 1
        /\ At(k, ch[k], i + 1) = At(r, ch[r], 0 + 1) => k = r /\ i = 0
    BY <1>6, <2>3, Disjoint, SMTT(60)
  <2>5. /\ b = At(l, ch[l], m - 1) /\ last = At(r, ch[r], t) /\ at = At(l, ch[l], (m - 1) + 1)
        /\ first = At(r, ch[r], 0 + 1)
    BY <2>3
  <2> QED BY <2>1, <2>2, <2>4, <2>5 DEF RingOf
<1>7. ASSUME NEW i \in 0..s
      PROVE  /\ At(l, c, i) \in Cells /\ At(l, c, i + 1) \in Cells
             /\ At(l, c, i) = b => i = m - 1
             /\ At(l, c, i) # last /\ At(l, c, i) # r
             /\ At(l, c, i + 1) = at => i = m - 1
             /\ At(l, c, i + 1) # first /\ At(l, c, i + 1) # r
             /\ nx[At(l, c, i)] = At(l, c, i + 1)
             /\ pv[At(l, c, i + 1)] = At(l, c, i)
  <2> HIDE DEF t
  <2> QED BY <1>6
<1>8. ASSUME NEW i \in 1..(t - 1)
      PROVE  /\ At(r, e, i) \in Cells /\ At(r, e, i + 1) \in Cells
             /\ At(r, e, i) # b /\ At(r, e, i) # last /\ At(r, e, i) # r
             /\ At(r, e, i + 1) # at /\ At(r, e, i + 1) # first /\ At(r, e, i + 1) # r
             /\ nx[At(r, e, i)] = At(r, e, i + 1)
             /\ pv[At(r, e, i + 1)] = At(r, e, i)
  <2>1. i \in 0..t /\ i # t /\ i # 0 /\ i \in 1..t /\ i + 1 \in 1..t
    BY <1>1
  <2>2. At(r, e, i) \in Links /\ At(r, e, i + 1) \in Links
    BY <1>1, <2>1, AtFacts
  <2>3. At(r, e, i) # r /\ At(r, e, i + 1) # r
    BY <2>2, ListAssumption
  <2> QED BY <1>6, <2>1, <2>3
<1>0. b = At(l, c, m - 1) /\ at = At(l, c, m) /\ first = At(r, e, 1) /\ last = At(r, e, t)
  OBVIOUS
<1> HIDE DEF c, d, e, s, t
<1>9. ASSUME NEW j \in Int
      PROVE  /\ 0 <= j /\ j < m => At(l, d, j) = At(l, c, j)
             /\ m <= j /\ j < m + t => At(l, d, j) = At(r, e, j - m + 1)
             /\ m + t <= j /\ j <= s + t + 1 => At(l, d, j) = At(l, c, j - t)
  <2>0. Len(c) = s /\ Len(e) = t
    BY DEF s, t
  <2>1. ASSUME 0 <= j, j < m PROVE At(l, d, j) = At(l, c, j)
    <3>1. j \in 1..s <=> j \in 1..(s + t)
      BY <1>1, <2>1
    <3> QED BY <1>1, <1>3, <2>0, <2>1, <3>1 DEF At
  <2>2. ASSUME m <= j, j < m + t PROVE At(l, d, j) = At(r, e, j - m + 1)
    <3>1. j \in 1..(s + t) /\ j - m + 1 \in 1..t /\ ~(j < m)
      BY <1>1, <2>2, SMTT(30)
    <3> QED BY <1>3, <2>0, <2>2, <3>1 DEF At
  <2>3. ASSUME m + t <= j, j <= s + t PROVE At(l, d, j) = At(l, c, j - t)
    <3>1. j \in 1..(s + t) /\ j - t \in 1..s /\ ~(j < m) /\ ~(j < m + t)
      BY <1>1, <2>3, SMTT(30)
    <3> QED BY <1>3, <2>0, <3>1 DEF At
  <2>4. ASSUME j = s + t + 1 PROVE At(l, d, j) = At(l, c, j - t)
    <3>1. j \notin 1..(s + t) /\ j - t \notin 1..s
      BY <1>1, <2>4
    <3> QED BY <1>3, <2>0, <3>1 DEF At
  <2>5. j <= s + t + 1 => j <= s + t \/ j = s + t + 1
    BY <1>1
  <2> QED BY <2>1, <2>2, <2>3, <2>4, <2>5
<1>10. RingOf(nx2, pv2, l, d)
  <2> SUFFICES ASSUME NEW i \in 0..(s + t)
               PROVE  nx2[At(l, d, i)] = At(l, d, i + 1) /\ pv2[At(l, d, i + 1)] = At(l, d, i)
    BY <1>3 DEF RingOf
  <2>1. CASE i < m - 1
    <3>1. i \in Int /\ 0 <= i /\ i < m /\ i + 1 \in Int /\ 0 <= i + 1 /\ i + 1 < m /\ i \in 0..s /\ i # m - 1
      BY <1>1, <2>1
    <3>2. At(l, d, i) = At(l, c, i) /\ At(l, d, i + 1) = At(l, c, i + 1)
      BY <1>9, <3>1
    <3> QED BY <1>5, <1>7, <3>1, <3>2
  <2>2. CASE i = m - 1
    <3>1. i \in Int /\ 0 <= i /\ i < m /\ i + 1 \in Int /\ m <= i + 1 /\ i + 1 < m + t /\ (i + 1) - m + 1 = 1
      BY <1>1, <2>2
    <3>2. At(l, d, i) = At(l, c, m - 1)
      BY <1>9, <2>2, <3>1
    <3>3. At(l, d, i + 1) = At(r, e, 1)
      BY <1>9, <3>1
    <3> QED BY <1>0, <1>5, <3>2, <3>3
  <2>3. CASE m <= i /\ i < m + t - 1
    <3> DEFINE y == i - m + 1
    <3>1. /\ i \in Int /\ i + 1 \in Int /\ m <= i /\ i < m + t /\ m <= i + 1 /\ i + 1 < m + t
          /\ y = i - m + 1 /\ y + 1 = (i + 1) - m + 1 /\ y \in 1..(t - 1)
      BY <1>1, <2>3
    <3> HIDE DEF y
    <3>2. At(l, d, i) = At(r, e, y) /\ At(l, d, i + 1) = At(r, e, y + 1)
      BY <1>9, <3>1
    <3> QED BY <1>5, <1>8, <3>1, <3>2
  <2>4. CASE i = m + t - 1
    <3>0. m \in Int /\ t \in Int /\ s \in Int /\ i \in Int /\ 1 <= t /\ m <= s + 1
      BY <1>1
    <3>1. /\ i \in Int /\ m <= i /\ i < m + t /\ i - m + 1 = t
          /\ i + 1 \in Int /\ m + t <= i + 1 /\ i + 1 <= s + t + 1 /\ (i + 1) - t = m
      BY <2>4, <3>0
    <3>2. At(l, d, i) = At(r, e, t)
      BY <1>9, <3>1
    <3>3. At(l, d, i + 1) = At(l, c, m)
      BY <1>9, <3>1
    <3> QED BY <1>0, <1>5, <3>2, <3>3
  <2>5. CASE m + t <= i
    <3> DEFINE y == i - t
    <3>1. /\ i \in Int /\ i + 1 \in Int /\ m + t <= i /\ i <= s + t + 1 /\ m + t <= i + 1 /\ i + 1 <= s + t + 1
          /\ y = i - t /\ y + 1 = (i + 1) - t /\ y \in 0..s /\ y # m - 1
      BY <1>1, <2>5
    <3> HIDE DEF y
    <3>2. At(l, d, i) = At(l, c, y) /\ At(l, d, i + 1) = At(l, c, y + 1)
      BY <1>9, <3>1
    <3> QED BY <1>5, <1>7, <3>1, <3>2
  <2>6. i < m - 1 \/ i = m - 1 \/ (m <= i /\ i < m + t - 1) \/ i = m + t - 1 \/ m + t <= i
    BY <1>1
  <2> QED BY <2>1, <2>2, <2>3, <2>4, <2>5, <2>6
<1>11. l # r
  OBVIOUS
<1>12. /\ sz2 \in [Lists -> Nat] /\ lv2 \subseteq Cells
       /\ \A k \in Lists : sz2[k] = Len(dh[k]) /\ (k \notin lv2 => dh[k] = << >>)
  <2>1. sz2[l] = s + t /\ sz2[r] = 0 /\ sz2 \in [Lists -> Nat] /\ \A k \in Lists \ {l, r} : sz2[k] = sz[k]
    <3>1. sz2 = [sz EXCEPT ![l] = s + t, ![r] = 0]
      BY <1>1, <1>5, Zenon
    <3>2. s + t \in Nat
      BY <1>1
    <3> QED BY <1>2, <1>11, <3>1, <3>2
  <2>2. ASSUME NEW k \in Lists \ {l, r} PROVE sz2[k] = Len(dh[k]) /\ (k \notin lv2 => dh[k] = << >>)
    BY <1>2, <1>3, <1>5, <2>1, RingFacts
  <2>3. sz2[l] = Len(dh[l]) /\ l \in lv2
    BY <1>3, <1>5, <1>11, <2>1 DEF d
  <2>4. sz2[r] = Len(dh[r]) /\ dh[r] = << >>
    BY <1>3, <2>1
  <2> QED BY <1>2, <1>4, <1>5, <2>1, <2>2, <2>3, <2>4
<1>13. ASSUME NEW k \in Links PROVE k \in lv2 <=> \E h \in Lists : \E i \in 1..Len(dh[h]) : k = dh[h][i]
  <2>1. ASSUME NEW i \in 1..s PROVE \E j \in 1..(s + t) : d[j] = c[i]
    <3>1. CASE i < m
      <4>1. i \in 1..(s + t)
        BY <1>1
      <4>2. d[i] = c[i]
        BY <1>3, <3>1, <4>1
      <4> QED BY <4>1, <4>2
    <3>2. CASE m <= i
      <4>1. i + t \in 1..(s + t) /\ ~(i + t < m) /\ ~(i + t < m + t) /\ (i + t) - t = i
        BY <1>1, <3>2
      <4>2. d[i + t] = c[i]
        BY <1>3, <4>1
      <4> QED BY <4>1, <4>2
    <3> QED BY <1>1, <3>1, <3>2
  <2>2. ASSUME NEW i \in 1..t PROVE \E j \in 1..(s + t) : d[j] = e[i]
    <3>1. /\ m + i - 1 \in 1..(s + t) /\ ~(m + i - 1 < m) /\ m + i - 1 < m + t
          /\ (m + i - 1) - m + 1 = i
      BY <1>1
    <3>2. d[m + i - 1] = e[i]
      BY <1>3, <3>1
    <3> QED BY <3>1, <3>2
  <2>3. ASSUME NEW j \in 1..(s + t)
        PROVE  (\E i \in 1..s : d[j] = c[i]) \/ (\E i \in 1..t : d[j] = e[i])
    <3>1. /\ j < m => j \in 1..s
          /\ ~(j < m) /\ j < m + t => j - m + 1 \in 1..t
          /\ ~(j < m + t) => j - t \in 1..s
      BY <1>1
    <3>2. CASE j < m
      BY <1>3, <3>1, <3>2
    <3>3. CASE ~(j < m) /\ j < m + t
      BY <1>3, <3>1, <3>3
    <3>4. CASE ~(j < m + t)
      <4>1. ~(j < m)
        BY <1>1, <3>4
      <4> QED BY <1>3, <3>1, <3>4, <4>1
    <3> QED BY <3>2, <3>3, <3>4
  <2>4. k \in lv <=> \E h \in Lists : \E i \in 1..Len(ch[h]) : k = ch[h][i]
    BY DEF AreRings, HaveChains
  <2>5. k # r
    BY ListAssumption
  <2>6. \A i \in 1..Len(dh[r]) : FALSE
    BY <1>3
  <2>7. ASSUME k \in lv PROVE \E h \in Lists : \E i \in 1..Len(dh[h]) : k = dh[h][i]
    <3>1. PICK h \in Lists : \E i \in 1..Len(ch[h]) : k = ch[h][i]
      BY <2>4, <2>7
    <3>2. CASE h = l
      <4>1. PICK i \in 1..s : k = c[i]
        BY <3>1, <3>2 DEF c, s
      <4> QED BY <1>3, <2>1, <4>1 DEF d
    <3>3. CASE h = r
      <4>1. PICK i \in 1..t : k = e[i]
        BY <3>1, <3>3 DEF e, t
      <4> QED BY <1>3, <2>2, <4>1 DEF d
    <3>4. CASE h # l /\ h # r
      BY <1>3, <3>1, <3>4
    <3> QED BY <3>2, <3>3, <3>4
  <2>8. ASSUME NEW h \in Lists, NEW i \in 1..Len(dh[h]), k = dh[h][i] PROVE k \in lv
    <3>1. CASE h = l
      <4>1. (\E j \in 1..Len(ch[l]) : k = ch[l][j]) \/ (\E j \in 1..Len(ch[r]) : k = ch[r][j])
        BY <1>3, <2>3, <2>8, <3>1 DEF c, d, e, s, t
      <4> QED BY <2>4, <4>1
    <3>2. CASE h = r
      BY <2>6, <3>2
    <3>3. CASE h # l /\ h # r
      BY <1>3, <2>4, <2>8, <3>3
    <3> QED BY <3>1, <3>2, <3>3
  <2> QED BY <1>5, <2>5, <2>7, <2>8
<1>14. \A k \in Cells \ lv2 : nx2[k] = Nil /\ pv2[k] = Nil
  BY <1>2, <1>4, <1>5
<1>15. Untouched({l, r}, ch, nx, pv, lv, dh, nx2, pv2, lv2)
  <2>1. ASSUME NEW k \in Lists \ {l, r}, k \in lv, NEW i \in 0..Len(ch[k])
        PROVE  /\ nx2[At(k, ch[k], i)] = nx[At(k, ch[k], i)]
               /\ pv2[At(k, ch[k], i + 1)] = pv[At(k, ch[k], i + 1)]
    BY <1>5, <1>6, <2>1
  <2> QED BY <1>3, <1>5, <2>1 DEF Untouched
<1>16. HaveChains(dh, nx2, pv2, sz2, lv2)
  BY <1>3, <1>5, <1>12, <1>13, <1>14 DEF HaveChains
<1>17. Relinks({l, r}, dh, nx2, pv2, lv2)
  BY <1>5, <1>10 DEF Relinks, d
<1> QED BY <1>15, <1>16, <1>17, Relinked, Zenon

\* The links of l are freed, and l itself too if it keeps no head.
Emptied(nx, pv, sz, lv, l, links, head, nx2, pv2, sz2, lv2) ==
  /\ nx2 = [c \in Cells |-> IF c = l THEN head ELSE IF c \in links THEN Nil ELSE nx[c]]
  /\ pv2 = [c \in Cells |-> IF c = l THEN head ELSE IF c \in links THEN Nil ELSE pv[c]]
  /\ sz2 = [sz EXCEPT ![l] = 0]
  /\ lv2 = IF head = l THEN lv \ links ELSE lv \ ({l} \cup links)

Chained(ch, l) == {ch[l][i] : i \in 1..Len(ch[l])}

HasChain(ch, l, e, dh) == dh = [ch EXCEPT ![l] = e]

LEMMA EmptyRing ==
  ASSUME NEW ch, NEW nx, NEW pv, NEW sz, NEW lv, AreRings(ch, nx, pv, sz, lv), NEW l \in Lists, l \in lv,
         NEW links, links = Chained(ch, l), NEW head \in {l, Nil},
         NEW nx2, NEW pv2, NEW sz2, NEW lv2,
         Emptied(nx, pv, sz, lv, l, links, head, nx2, pv2, sz2, lv2),
         NEW dh, HasChain(ch, l, << >>, dh)
  PROVE  AreRings(dh, nx2, pv2, sz2, lv2)
<1>1. /\ ch \in [Lists -> Seq(Links)] /\ nx \in [Cells -> Cells \cup {Nil}]
      /\ pv \in [Cells -> Cells \cup {Nil}] /\ sz \in [Lists -> Nat] /\ lv \subseteq Cells
      /\ \A k \in Cells \ lv : nx[k] = Nil /\ pv[k] = Nil
  BY DEF AreRings, HaveChains
<1>2. l \in Cells /\ l # Nil /\ links \subseteq Links /\ links \subseteq Cells /\ l \notin links
  <2>1. \A i \in 1..Len(ch[l]) : ch[l][i] \in Links
    BY RingFacts
  <2> QED BY <2>1, ListAssumption DEF Cells, Chained
<1>3. /\ nx2 \in [Cells -> Cells \cup {Nil}] /\ pv2 \in [Cells -> Cells \cup {Nil}]
      /\ nx2[l] = head /\ pv2[l] = head
      /\ \A k \in links : nx2[k] = Nil /\ pv2[k] = Nil
      /\ \A k \in Cells \ ({l} \cup links) : nx2[k] = nx[k] /\ pv2[k] = pv[k]
      /\ sz2 \in [Lists -> Nat] /\ sz2[l] = 0 /\ \A k \in Lists \ {l} : sz2[k] = sz[k]
      /\ lv2 \subseteq Cells /\ (head = l => lv2 = lv \ links) /\ (head = Nil => lv2 = lv \ ({l} \cup links))
  <2>1. nx2 \in [Cells -> Cells \cup {Nil}] /\ pv2 \in [Cells -> Cells \cup {Nil}]
    BY <1>1, <1>2 DEF Emptied
  <2>2. /\ nx2[l] = head /\ pv2[l] = head
        /\ \A k \in links : nx2[k] = Nil /\ pv2[k] = Nil
        /\ \A k \in Cells \ ({l} \cup links) : nx2[k] = nx[k] /\ pv2[k] = pv[k]
    BY <1>1, <1>2 DEF Emptied
  <2>3. sz2 \in [Lists -> Nat] /\ sz2[l] = 0 /\ \A k \in Lists \ {l} : sz2[k] = sz[k]
    BY <1>1 DEF Emptied
  <2>4. lv2 \subseteq Cells /\ (head = l => lv2 = lv \ links) /\ (head = Nil => lv2 = lv \ ({l} \cup links))
    BY <1>1, <1>2 DEF Emptied
  <2> QED BY <2>1, <2>2, <2>3, <2>4, Zenon
<1>4. /\ dh \in [Lists -> Seq(Links)] /\ dh[l] = << >> /\ \A k \in Lists \ {l} : dh[k] = ch[k]
  <2>1. << >> \in Seq(Links)
    OBVIOUS
  <2> QED BY <1>1, <2>1 DEF HasChain
<1>5. ASSUME NEW k \in Lists \ {l}, k \in lv, NEW i \in 0..(Len(ch[k]) + 1)
      PROVE  At(k, ch[k], i) \in Cells \ ({l} \cup links)
  <2>1. ch[k] \in Seq(Links) /\ Len(ch[k]) \in Nat
    BY <1>5, RingFacts
  <2>2. At(k, ch[k], i) \in Cells
    BY <2>1, AtFacts
  <2>3. CASE i \in 1..Len(ch[k])
    <3>1. At(k, ch[k], i) \in Links
      BY <2>1, <2>3, AtFacts
    <3>2. ASSUME NEW j \in 1..Len(ch[l]) PROVE At(k, ch[k], i) # ch[l][j]
      <4>1. j \in 0..Len(ch[l]) /\ i \in 0..Len(ch[k]) /\ At(l, ch[l], j) = ch[l][j]
        BY <2>3 DEF At
      <4>2. At(k, ch[k], i) = At(l, ch[l], j) => k = l /\ i = j
        BY <1>5, <4>1, Disjoint
      <4> QED BY <1>5, <4>1, <4>2
    <3> QED BY <2>2, <3>1, <3>2, ListAssumption DEF Chained
  <2>4. CASE i \notin 1..Len(ch[k])
    <3>1. At(k, ch[k], i) = k
      BY <2>4 DEF At
    <3> QED BY <1>2, <1>5, <2>2, <3>1, ListAssumption
  <2> QED BY <2>3, <2>4
<1>6. Untouched({l}, ch, nx, pv, lv, dh, nx2, pv2, lv2)
  <2>1. ASSUME NEW k \in Lists \ {l}, k \in lv, NEW i \in 0..Len(ch[k])
        PROVE  /\ nx2[At(k, ch[k], i)] = nx[At(k, ch[k], i)]
               /\ pv2[At(k, ch[k], i + 1)] = pv[At(k, ch[k], i + 1)]
    <3>1. i \in 0..(Len(ch[k]) + 1) /\ i + 1 \in 0..(Len(ch[k]) + 1)
      <4>1. Len(ch[k]) \in Nat
        BY RingFacts
      <4> QED BY <4>1
    <3> QED BY <1>3, <1>5, <2>1, <3>1
  <2>2. ASSUME NEW k \in Lists \ {l} PROVE k \in lv2 <=> k \in lv
    BY <1>2, <1>3, ListAssumption
  <2> QED BY <1>4, <2>1, <2>2 DEF Untouched
<1>7. Relinks({l}, dh, nx2, pv2, lv2)
  <2> SUFFICES ASSUME l \in lv2 PROVE RingOf(nx2, pv2, l, dh[l])
    BY DEF Relinks
  <2>1. nx2[l] = l /\ pv2[l] = l
    BY <1>2, <1>3
  <2> QED BY <1>4, <2>1 DEF RingOf, At
<1>8. ASSUME NEW k \in Links PROVE k \in lv2 <=> \E h \in Lists : \E i \in 1..Len(dh[h]) : k = dh[h][i]
  <2>1. k \in lv <=> \E h \in Lists : \E i \in 1..Len(ch[h]) : k = ch[h][i]
    BY DEF AreRings, HaveChains
  <2>2. k \in lv2 <=> k \in lv /\ k \notin links
    BY <1>2, <1>3, ListAssumption
  <2>3. \A i \in 1..Len(dh[l]) : FALSE
    BY <1>4
  <2>4. ASSUME k \in lv, k \notin links PROVE \E h \in Lists : \E i \in 1..Len(dh[h]) : k = dh[h][i]
    <3>1. PICK h \in Lists : \E i \in 1..Len(ch[h]) : k = ch[h][i]
      BY <2>1, <2>4
    <3>2. h # l
      BY <2>4, <3>1 DEF Chained
    <3> QED BY <1>4, <3>1, <3>2
  <2>5. ASSUME NEW h \in Lists, NEW i \in 1..Len(dh[h]), k = dh[h][i] PROVE k \in lv /\ k \notin links
    <3>1. h # l
      BY <2>3
    <3>2. i \in 1..Len(ch[h]) /\ k = ch[h][i]
      BY <1>4, <2>5, <3>1
    <3>3. h \in lv /\ i \in 0..(Len(ch[h]) + 1) /\ At(h, ch[h], i) = ch[h][i]
      <4>1. Len(ch[h]) \in Nat /\ (h \notin lv => ch[h] = << >>)
        BY RingFacts
      <4> QED BY <3>2, <4>1 DEF At
    <3> QED BY <1>5, <2>1, <3>1, <3>2, <3>3
  <2> QED BY <2>2, <2>4, <2>5
<1>9. \A k \in Lists : sz2[k] = Len(dh[k]) /\ (k \notin lv2 => dh[k] = << >>)
  <2>1. ASSUME NEW k \in Lists \ {l} PROVE sz2[k] = Len(dh[k]) /\ (k \notin lv2 => dh[k] = << >>)
    <3>1. sz[k] = Len(ch[k]) /\ (k \notin lv => ch[k] = << >>)
      BY RingFacts
    <3> QED BY <1>3, <1>4, <1>6, <3>1 DEF Untouched
  <2> QED BY <1>3, <1>4, <2>1
<1>10. \A k \in Cells \ lv2 : nx2[k] = Nil /\ pv2[k] = Nil
  <2>1. ASSUME NEW k \in Cells \ lv2 PROVE nx2[k] = Nil /\ pv2[k] = Nil
    <3>1. CASE head = l
      <4>1. k \in links \/ k \notin lv
        BY <1>3, <2>1, <3>1
      <4>2. k # l
        BY <1>2, <1>3, <2>1, <3>1
      <4> QED BY <1>1, <1>3, <2>1, <4>1, <4>2
    <3>2. CASE head = Nil
      <4>1. k = l \/ k \in links \/ k \notin lv
        BY <1>3, <2>1, <3>2
      <4> QED BY <1>1, <1>3, <2>1, <3>2, <4>1
    <3> QED BY <3>1, <3>2
  <2> QED BY <2>1
<1>11. HaveChains(dh, nx2, pv2, sz2, lv2)
  BY <1>3, <1>4, <1>8, <1>9, <1>10 DEF HaveChains
<1> QED BY <1>6, <1>7, <1>11, Relinked, Zenon

\* A new list n with the new links e.
Cloned(nx, pv, sz, lv, n, e, nx2, pv2, sz2, lv2) ==
  /\ nx2 \in [Cells -> Cells \cup {Nil}] /\ pv2 \in [Cells -> Cells \cup {Nil}]
  /\ RingOf(nx2, pv2, n, e)
  /\ \A k \in Cells : k # n /\ (\A i \in 1..Len(e) : k # e[i]) => nx2[k] = nx[k] /\ pv2[k] = pv[k]
  /\ sz2 = [sz EXCEPT ![n] = Len(e)]
  /\ lv2 = lv \cup {n} \cup {e[i] : i \in 1..Len(e)}

LEMMA CloneRing ==
  ASSUME NEW ch, NEW nx, NEW pv, NEW sz, NEW lv, AreRings(ch, nx, pv, sz, lv), NEW n \in Lists, n \notin lv,
         NEW e \in Seq(Links), \A i \in 1..Len(e) : e[i] \notin lv,
         NEW nx2, NEW pv2, NEW sz2, NEW lv2, Cloned(nx, pv, sz, lv, n, e, nx2, pv2, sz2, lv2),
         NEW dh, HasChain(ch, n, e, dh)
  PROVE  AreRings(dh, nx2, pv2, sz2, lv2)
<1>1. /\ ch \in [Lists -> Seq(Links)] /\ nx \in [Cells -> Cells \cup {Nil}]
      /\ pv \in [Cells -> Cells \cup {Nil}] /\ sz \in [Lists -> Nat] /\ lv \subseteq Cells
      /\ \A k \in Cells \ lv : nx[k] = Nil /\ pv[k] = Nil
  BY DEF AreRings, HaveChains
<1>2. Len(e) \in Nat /\ \A i \in 1..Len(e) : e[i] \in Links
  BY LenProperties, ElementOfSeq
<1>3. /\ dh \in [Lists -> Seq(Links)] /\ dh[n] = e /\ \A k \in Lists \ {n} : dh[k] = ch[k]
  BY <1>1 DEF HasChain
<1>4. /\ nx2 \in [Cells -> Cells \cup {Nil}] /\ pv2 \in [Cells -> Cells \cup {Nil}]
      /\ \A k \in Cells : k # n /\ (\A i \in 1..Len(e) : k # e[i]) => nx2[k] = nx[k] /\ pv2[k] = pv[k]
      /\ sz2 = [sz EXCEPT ![n] = Len(e)]
      /\ lv2 = lv \cup {n} \cup {e[i] : i \in 1..Len(e)}
  BY DEF Cloned
<1>5. ASSUME NEW k \in Lists \ {n}, k \in lv, NEW i \in 0..(Len(ch[k]) + 1)
      PROVE  LET x == At(k, ch[k], i) IN x \in Cells /\ x # n /\ \A j \in 1..Len(e) : x # e[j]
  <2>1. ch[k] \in Seq(Links) /\ Len(ch[k]) \in Nat /\ \A j \in 1..Len(ch[k]) : ch[k][j] \in lv
    BY <1>5, RingFacts
  <2>2. At(k, ch[k], i) \in Cells
    BY <2>1, AtFacts
  <2>3. At(k, ch[k], i) \in lv
    BY <1>5, <2>1 DEF At
  <2> QED BY <2>2, <2>3
<1>6. Untouched({n}, ch, nx, pv, lv, dh, nx2, pv2, lv2)
  <2>1. ASSUME NEW k \in Lists \ {n}, k \in lv, NEW i \in 0..Len(ch[k])
        PROVE  /\ nx2[At(k, ch[k], i)] = nx[At(k, ch[k], i)]
               /\ pv2[At(k, ch[k], i + 1)] = pv[At(k, ch[k], i + 1)]
    <3>1. i \in 0..(Len(ch[k]) + 1) /\ i + 1 \in 0..(Len(ch[k]) + 1)
      <4>1. Len(ch[k]) \in Nat
        BY RingFacts
      <4> QED BY <4>1
    <3> QED BY <1>4, <1>5, <2>1, <3>1
  <2>2. ASSUME NEW k \in Lists \ {n} PROVE k \in lv2 <=> k \in lv
    BY <1>2, <1>4, ListAssumption
  <2> QED BY <1>3, <2>1, <2>2 DEF Untouched
<1>7. Relinks({n}, dh, nx2, pv2, lv2)
  BY <1>3 DEF Relinks, Cloned
<1>8. ASSUME NEW k \in Links PROVE k \in lv2 <=> \E h \in Lists : \E i \in 1..Len(dh[h]) : k = dh[h][i]
  <2>1. k \in lv <=> \E h \in Lists : \E i \in 1..Len(ch[h]) : k = ch[h][i]
    BY DEF AreRings, HaveChains
  <2>2. k \in lv2 <=> k \in lv \/ \E i \in 1..Len(e) : k = e[i]
    BY <1>4, ListAssumption
  <2>3. \A i \in 1..Len(ch[n]) : FALSE
    <3>1. ch[n] = << >>
      BY RingFacts
    <3> QED BY <3>1
  <2>4. ASSUME k \in lv PROVE \E h \in Lists : \E i \in 1..Len(dh[h]) : k = dh[h][i]
    <3>1. PICK h \in Lists : \E i \in 1..Len(ch[h]) : k = ch[h][i]
      BY <2>1, <2>4
    <3> QED BY <1>3, <2>3, <3>1
  <2>5. ASSUME NEW h \in Lists, NEW i \in 1..Len(dh[h]), k = dh[h][i]
        PROVE  k \in lv \/ \E j \in 1..Len(e) : k = e[j]
    <3>1. CASE h = n
      BY <1>3, <2>5, <3>1
    <3>2. CASE h # n
      BY <1>3, <2>1, <2>5, <3>2
    <3> QED BY <3>1, <3>2
  <2> QED BY <1>3, <2>2, <2>4, <2>5
<1>9. sz2 \in [Lists -> Nat] /\ \A k \in Lists : sz2[k] = Len(dh[k]) /\ (k \notin lv2 => dh[k] = << >>)
  <2>0. sz2 \in [Lists -> Nat] /\ sz2[n] = Len(e) /\ \A k \in Lists \ {n} : sz2[k] = sz[k]
    BY <1>1, <1>2, <1>4
  <2>1. ASSUME NEW k \in Lists \ {n} PROVE sz2[k] = Len(dh[k]) /\ (k \notin lv2 => dh[k] = << >>)
    <3>1. sz[k] = Len(ch[k]) /\ (k \notin lv => ch[k] = << >>)
      BY RingFacts
    <3> QED BY <1>3, <1>6, <2>0, <3>1 DEF Untouched
  <2>2. n \in lv2
    BY <1>4
  <2> QED BY <1>3, <2>0, <2>1, <2>2
<1>10. lv2 \subseteq Cells /\ \A k \in Cells \ lv2 : nx2[k] = Nil /\ pv2[k] = Nil
  BY <1>1, <1>2, <1>4 DEF Cells
<1>11. HaveChains(dh, nx2, pv2, sz2, lv2)
  BY <1>3, <1>4, <1>8, <1>9, <1>10 DEF HaveChains
<1> QED BY <1>6, <1>7, <1>11, Relinked, Zenon

\* x is in the ring of list l, behind one place of it and before another.
InRing(ch, l, x) == /\ \E i \in 0..Len(ch[l]) : x = At(l, ch[l], i)
                    /\ \E j \in 0..Len(ch[l]) : x = At(l, ch[l], j + 1)

\* What is allocated is in a ring.
LEMMA Places ==
  ASSUME NEW ch, NEW nx, NEW pv, NEW sz, NEW lv, AreRings(ch, nx, pv, sz, lv), NEW x \in lv
  PROVE  \E l \in Lists : l \in lv /\ InRing(ch, l, x)
<1>1. x \in Lists \/ x \in Links
  BY DEF AreRings, HaveChains, Cells
<1>2. CASE x \in Lists
  <2>1. Len(ch[x]) \in Nat /\ 0 \in 0..Len(ch[x])
    BY <1>2, RingFacts
  <2>2. At(x, ch[x], 0) = x /\ At(x, ch[x], Len(ch[x]) + 1) = x /\ Len(ch[x]) \in 0..Len(ch[x])
    BY <2>1 DEF At
  <2> QED BY <1>2, <2>1, <2>2 DEF InRing
<1>3. CASE x \in Links
  <2>0. PICK l \in Lists : \E i \in 1..Len(ch[l]) : x = ch[l][i]
    BY <1>3 DEF AreRings, HaveChains
  <2>1. PICK i \in 1..Len(ch[l]) : x = ch[l][i]
    BY <2>0
  <2>2. Len(ch[l]) \in Nat /\ l \in lv
    <3>1. Len(ch[l]) \in Nat /\ (l \notin lv => ch[l] = << >>)
      BY RingFacts
    <3> QED BY <2>1, <3>1
  <2>3. i \in 0..Len(ch[l]) /\ i - 1 \in 0..Len(ch[l]) /\ x = At(l, ch[l], i) /\ x = At(l, ch[l], (i - 1) + 1)
    BY <2>1, <2>2 DEF At
  <2> QED BY <2>2, <2>3 DEF InRing
<1> QED BY <1>1, <1>2, <1>3

\* The places of a ring are allocated.
LEMMA AllThere ==
  ASSUME NEW ch, NEW nx, NEW pv, NEW sz, NEW lv, AreRings(ch, nx, pv, sz, lv), NEW l \in Lists, l \in lv,
         NEW i \in Int
  PROVE  At(l, ch[l], i) \in lv
<1>1. \A j \in 1..Len(ch[l]) : ch[l][j] \in lv
  BY RingFacts
<1> QED BY <1>1 DEF At

\* The links of a list are its chain.
LEMMA LinkedFacts ==
  ASSUME NEW ch, AreRings(ch, next, prev, size, live), NEW l \in Lists, l \in live
  PROVE  /\ size[l] = Len(ch[l]) /\ size[l] \in Nat
         /\ \A i \in 1..size[l] : After(l, i) = ch[l][i]
         /\ Linked(l) = {ch[l][i] : i \in 1..Len(ch[l])}
         /\ next[After(l, size[l])] = l
         /\ next[l] = At(l, ch[l], 1) /\ prev[l] = At(l, ch[l], size[l])
<1>1. ch[l] \in Seq(Links) /\ Len(ch[l]) \in Nat /\ size[l] = Len(ch[l]) /\ RingOf(next, prev, l, ch[l])
  BY RingFacts
<1>2. ASSUME NEW i \in 0..size[l] PROVE After(l, i) = At(l, ch[l], i)
  <2>1. i \in Nat /\ 0 \in 0..(Len(ch[l]) + 1) /\ 0 + i <= Len(ch[l]) + 1 /\ 0 + i = i
    BY <1>1
  <2>2. At(l, ch[l], 0) = l
    BY DEF At
  <2>3. After(At(l, ch[l], 0), i) = At(l, ch[l], 0 + i)
    BY <1>1, <2>1, AfterFacts
  <2> QED BY <2>1, <2>2, <2>3
<1>3. \A i \in 1..size[l] : After(l, i) = ch[l][i]
  BY <1>1, <1>2 DEF At
<1>4. next[After(l, size[l])] = l
  <2>1. size[l] \in 0..Len(ch[l]) /\ size[l] \in 0..size[l]
    BY <1>1
  <2>2. next[At(l, ch[l], size[l])] = At(l, ch[l], size[l] + 1)
    BY <1>1, <2>1 DEF RingOf
  <2>3. At(l, ch[l], size[l] + 1) = l
    BY <1>1 DEF At
  <2> QED BY <1>2, <2>1, <2>2, <2>3
<1>5. next[l] = At(l, ch[l], 1) /\ prev[l] = At(l, ch[l], size[l])
  <2>1. 0 \in 0..Len(ch[l]) /\ size[l] \in 0..Len(ch[l]) /\ 0 + 1 = 1
    BY <1>1
  <2>2. next[At(l, ch[l], 0)] = At(l, ch[l], 0 + 1) /\ prev[At(l, ch[l], size[l] + 1)] = At(l, ch[l], size[l])
    BY <1>1, <2>1 DEF RingOf
  <2>3. At(l, ch[l], 0) = l /\ At(l, ch[l], size[l] + 1) = l
    BY <1>1 DEF At
  <2> QED BY <2>1, <2>2, <2>3
<1>6. Linked(l) = {ch[l][i] : i \in 1..Len(ch[l])}
  BY <1>1, <1>3 DEF Linked
<1> QED BY <1>1, <1>3, <1>4, <1>5, <1>6

LEMMA InvRings == ListInv => Rings
<1> SUFFICES ASSUME ListInv PROVE Rings
  OBVIOUS
<1>1. PICK ch : AreRings(ch, next, prev, size, live) /\ Walking(ch)
  BY DEF ListInv
<1>2. Objects(pObj, live) /\ live \subseteq Cells /\ \A c \in Cells \ live : next[c] = Nil /\ prev[c] = Nil
  BY <1>1 DEF ListInv, AreRings, HaveChains
<1>3. ASSUME NEW c \in live
      PROVE  next[c] \in live /\ prev[c] \in live /\ prev[next[c]] = c /\ next[prev[c]] = c
  <2>1. PICK l \in Lists : l \in live /\ InRing(ch, l, c)
    BY <1>1, Places
  <2>2. RingOf(next, prev, l, ch[l])
    BY <1>1, <2>1, RingFacts
  <2>3. PICK i \in 0..Len(ch[l]) : c = At(l, ch[l], i)
    BY <2>1 DEF InRing
  <2>4. PICK j \in 0..Len(ch[l]) : c = At(l, ch[l], j + 1)
    BY <2>1 DEF InRing
  <2>5. next[c] = At(l, ch[l], i + 1) /\ prev[At(l, ch[l], i + 1)] = At(l, ch[l], i)
    BY <2>2, <2>3 DEF RingOf
  <2>6. prev[c] = At(l, ch[l], j) /\ next[At(l, ch[l], j)] = At(l, ch[l], j + 1)
    BY <2>2, <2>4 DEF RingOf
  <2>7. At(l, ch[l], i + 1) \in live /\ At(l, ch[l], j) \in live
    <3>1. i + 1 \in Int /\ j \in Int
      OBVIOUS
    <3> QED BY <1>1, <2>1, <3>1, AllThere
  <2> QED BY <2>3, <2>4, <2>5, <2>6, <2>7
<1>4. ListTypeOK
  <2>1. \A c \in live : pObj[c] \in Items <=> c \in Links
    BY <1>2 DEF Objects
  <2>2. \A c \in Cells \ live : pObj[c] = Nil
    BY <1>2, ListAssumption DEF Objects
  <2>3. li = NoWalk \/ {li.list, li.cur} \subseteq live
    <3> SUFFICES ASSUME li # NoWalk PROVE li.list \in live /\ li.cur \in live
      OBVIOUS
    <3>1. li.list \in Lists /\ li.list \in live /\ \E i \in 0..Len(ch[li.list]) : li.cur = At(li.list, ch[li.list], i)
      BY <1>1 DEF Walking
    <3>2. PICK i \in 0..Len(ch[li.list]) : li.cur = At(li.list, ch[li.list], i)
      BY <3>1
    <3>3. i \in Int
      OBVIOUS
    <3> QED BY <1>1, <3>1, <3>2, <3>3, AllThere
  <2> QED BY <1>2, <1>3, <2>1, <2>2, <2>3 DEF ListTypeOK
<1>5. ASSUME NEW l \in Lists \cap live PROVE Cardinality(Linked(l)) = size[l] /\ next[After(l, size[l])] = l
  <2>1. /\ size[l] = Len(ch[l]) /\ size[l] \in Nat /\ Linked(l) = {ch[l][i] : i \in 1..Len(ch[l])}
        /\ next[After(l, size[l])] = l
    BY <1>1, LinkedFacts
  <2>2. ASSUME NEW i \in 1..size[l], NEW j \in 1..size[l], ch[l][i] = ch[l][j] PROVE i = j
    <3>1. /\ i \in 0..Len(ch[l]) /\ j \in 0..Len(ch[l])
          /\ At(l, ch[l], i) = ch[l][i] /\ At(l, ch[l], j) = ch[l][j]
      BY <2>1 DEF At
    <3>2. At(l, ch[l], i) = At(l, ch[l], j) => l = l /\ i = j
      BY <1>1, <3>1, Disjoint
    <3> QED BY <2>2, <3>1, <3>2
  <2> DEFINE A == 1..size[l]
             B == Linked(l)
             f == ch[l]
  <2>3. IsFiniteSet(A) /\ Cardinality(A) = size[l]
    BY <2>1, FS_Interval
  <2>4. (\A x \in A : f[x] \in B) /\ \A y \in B : \E x \in A : y = f[x]
    BY <2>1
  <2>5. \A x, y \in A : f[x] = f[y] => x = y
    BY <2>2
  <2> HIDE DEF A, B, f
  <2>6. Cardinality(B) = Cardinality(A)
    BY <2>3, <2>4, <2>5, Images
  <2> QED BY <2>1, <2>3, <2>6 DEF B
<1>6. live \cap Links = UNION {Linked(l) : l \in Lists \cap live}
  <2>1. ASSUME NEW c \in live \cap Links PROVE \E l \in Lists \cap live : c \in Linked(l)
    <3>0. PICK l \in Lists : \E i \in 1..Len(ch[l]) : c = ch[l][i]
      BY <1>1 DEF AreRings, HaveChains
    <3>1. PICK i \in 1..Len(ch[l]) : c = ch[l][i]
      BY <3>0
    <3>2. l \in live
      <4>1. l \notin live => ch[l] = << >>
        BY <1>1, RingFacts
      <4> QED BY <4>1
    <3> QED BY <1>1, <3>1, <3>2, LinkedFacts
  <2>2. ASSUME NEW l \in Lists \cap live, NEW c \in Linked(l) PROVE c \in live \cap Links
    <3>1. Linked(l) = {ch[l][i] : i \in 1..Len(ch[l])}
      BY <1>1, LinkedFacts
    <3> QED BY <1>1, <3>1, RingFacts
  <2> QED BY <2>1, <2>2
<1>7. ASSUME NEW k \in Lists \cap live, NEW l \in Lists \cap live, k # l PROVE Linked(k) \cap Linked(l) = {}
  <2>1. Linked(k) = {ch[k][i] : i \in 1..Len(ch[k])} /\ Linked(l) = {ch[l][i] : i \in 1..Len(ch[l])}
    BY <1>1, LinkedFacts
  <2>2. ASSUME NEW i \in 1..Len(ch[k]), NEW j \in 1..Len(ch[l]) PROVE ch[k][i] # ch[l][j]
    <3>1. /\ i \in 0..Len(ch[k]) /\ j \in 0..Len(ch[l])
          /\ At(k, ch[k], i) = ch[k][i] /\ At(l, ch[l], j) = ch[l][j]
      BY DEF At
    <3>2. At(k, ch[k], i) = At(l, ch[l], j) => k = l /\ i = j
      BY <1>1, <3>1, Disjoint
    <3> QED BY <1>7, <3>1, <3>2
  <2> QED BY <2>1, <2>2
<1> QED BY <1>3, <1>4, <1>5, <1>6, <1>7 DEF Rings


\* The state of the lists: the chains ch, and a walk.
Holding(ch) == AreRings(ch, next, prev, size, live) /\ Walking(ch) /\ Objects(pObj, live)

\* A walk stays where it is, in a list that is left alone.
LEMMA WalkStays ==
  ASSUME NEW ch, Walking(ch), UNCHANGED li, NEW dh,
         \A k \in Lists : k \in live /\ k = li.list => k \in live' /\ dh[k] = ch[k]
  PROVE  Walking(dh)'
<1>1. CASE li = NoWalk
  BY <1>1 DEF Walking, NoWalk
<1>2. CASE li # NoWalk
  BY <1>2 DEF Walking
<1> QED BY <1>1, <1>2

\* A link with an object, at any place of a list.
LEMMA InsertStep ==
  ASSUME NEW ch, Holding(ch), NEW l \in Lists, MayRelink(l), NEW m \in 1..(Len(ch[l]) + 1), NEW o \in Items,
         NEW at, at = At(l, ch[l], m), Insert(l, at, o), UNCHANGED li
  PROVE  ListInv'
<1>0. PICK x : x = NewLink
  OBVIOUS
<1> DEFINE dh == [ch EXCEPT ![l] = InsertAt(ch[l], m, x)]
<1>1. x \in Links /\ x \notin live
  BY <1>0 DEF Insert, Full, NewLink, Spare
<1>2. l \in live /\ li.list # l /\ AreRings(ch, next, prev, size, live) /\ Walking(ch) /\ Objects(pObj, live)
  BY DEF Holding, MayRelink, There
<1>3. /\ LinkedIn(next, prev, size, live, l, At(l, ch[l], m), x, next', prev', size', live')
      /\ pObj' = [pObj EXCEPT ![x] = o] /\ live' = live \cup {x}
  BY <1>0 DEF Insert, LinkedIn
<1>4. NewChain(ch, l, m, x, dh)
  BY DEF NewChain
<1>5. \A k \in Lists : k # l => dh[k] = ch[k]
  BY <1>2 DEF AreRings, HaveChains
<1> HIDE DEF dh
<1>6. AreRings(dh, next', prev', size', live')
  BY <1>1, <1>2, <1>3, <1>4, InsertRing
<1>7. Walking(dh)'
  BY <1>2, <1>3, <1>5, WalkStays
<1>8. Objects(pObj', live')
  <2>1. pObj \in [Cells -> Items \cup {Nil}] /\ x \in Cells /\ x \in Links
    BY <1>1, <1>2 DEF Objects, Cells
  <2>2. pObj' \in [Cells -> Items \cup {Nil}] /\ pObj'[x] = o /\ \A c \in Cells : c # x => pObj'[c] = pObj[c]
    BY <1>3, <2>1
  <2> QED BY <1>2, <1>3, <2>1, <2>2 DEF Objects
<1> QED BY <1>6, <1>7, <1>8 DEF ListInv

\* A link is taken out.
LEMMA ExtractStep ==
  ASSUME NEW ch, Holding(ch), NEW l \in Lists, MayRelink(l), NEW m \in 1..Len(ch[l]),
         NEW x, x = ch[l][m], Extract(l, x), UNCHANGED li
  PROVE  ListInv'
<1> DEFINE dh == [ch EXCEPT ![l] = RemoveAt(ch[l], m)]
<1>2. l \in live /\ li.list # l /\ AreRings(ch, next, prev, size, live) /\ Walking(ch) /\ Objects(pObj, live)
  BY DEF Holding, MayRelink, There
<1>1. x \in Links /\ x \in live
  BY <1>2, RingFacts
<1>3. /\ TakenOut(next, prev, size, live, l, ch[l][m], next', prev', size', live')
      /\ pObj' = [pObj EXCEPT ![x] = Nil] /\ live' = live \ {x}
  BY DEF Extract, TakenOut
<1>4. ShortChain(ch, l, m, dh)
  BY DEF ShortChain
<1>5. \A k \in Lists : k # l => dh[k] = ch[k]
  BY <1>2 DEF AreRings, HaveChains
<1> HIDE DEF dh
<1>6. AreRings(dh, next', prev', size', live')
  BY <1>2, <1>3, <1>4, ExtractRing
<1>7. Walking(dh)'
  <2>1. \A k \in Lists : k # x
    BY <1>1, ListAssumption
  <2> QED BY <1>2, <1>3, <1>5, <2>1, WalkStays
<1>8. Objects(pObj', live')
  <2>1. pObj \in [Cells -> Items \cup {Nil}] /\ x \in Cells /\ x \in Links
    BY <1>1, <1>2 DEF Objects, Cells
  <2>2. pObj' \in [Cells -> Items \cup {Nil}] /\ pObj'[x] = Nil /\ \A c \in Cells : c # x => pObj'[c] = pObj[c]
    BY <1>3, <2>1
  <2> QED BY <1>2, <1>3, <2>1, <2>2, ListAssumption DEF Objects
<1> QED BY <1>6, <1>7, <1>8 DEF ListInv

\* A new list.
LEMMA NewStep ==
  ASSUME NEW ch, Holding(ch), LL_new
  PROVE  ListInv'
<1> DEFINE n == NewList
<1>1. n \in Lists /\ n \notin live
  BY DEF LL_new, Unlisted, NewList
<1> HIDE DEF n
<1>2. AreRings(ch, next, prev, size, live) /\ Walking(ch) /\ Objects(pObj, live)
  BY DEF Holding
<1>3. /\ HeadMade(next, prev, live, n, next', prev', live') /\ size' = size /\ pObj' = pObj /\ UNCHANGED li
      /\ live' = live \cup {n}
  BY DEF LL_new, HeadMade, n, ListReturn
<1>4. AreRings(ch, next', prev', size', live')
  <2>1. AreRings(ch, next', prev', size, live')
    BY <1>1, <1>2, <1>3, NewRing
  <2> QED BY <1>3, <2>1
<1>5. Walking(ch)'
  BY <1>2, <1>3, WalkStays
<1>6. Objects(pObj', live')
  BY <1>1, <1>2, <1>3, ListAssumption DEF Objects
<1> QED BY <1>4, <1>5, <1>6 DEF ListInv

\* The links of a list are freed, and perhaps its head.
LEMMA EmptyStep ==
  ASSUME NEW ch, Holding(ch), NEW l \in Lists, MayRelink(l), NEW head \in {l, Nil},
         NEW links, links = Chained(ch, l),
         Emptied(next, prev, size, live, l, links, head, next', prev', size', live'),
         pObj' = [c \in Cells |-> IF c \in links THEN Nil ELSE pObj[c]], UNCHANGED li
  PROVE  ListInv'
<1> DEFINE dh == [ch EXCEPT ![l] = << >>]
<1>1. l \in live /\ li.list # l /\ AreRings(ch, next, prev, size, live) /\ Walking(ch) /\ Objects(pObj, live)
  BY DEF Holding, MayRelink, There
<1>2. links \subseteq Links /\ live' = IF head = l THEN live \ links ELSE live \ ({l} \cup links)
  <2>1. \A i \in 1..Len(ch[l]) : ch[l][i] \in Links
    BY <1>1, RingFacts
  <2> QED BY <2>1 DEF Emptied, Chained
<1>3. \A k \in Lists : k # l => dh[k] = ch[k]
  BY <1>1 DEF AreRings, HaveChains
<1>4. HasChain(ch, l, << >>, dh)
  BY DEF HasChain
<1> HIDE DEF dh
<1>5. AreRings(dh, next', prev', size', live')
  BY <1>1, <1>4, EmptyRing
<1>6. Walking(dh)'
  <2>1. \A k \in Lists : k # l => (k \in live' <=> k \in live)
    BY <1>2, ListAssumption
  <2> QED BY <1>1, <1>3, <2>1, WalkStays
<1>7. Objects(pObj', live')
  <2>1. pObj \in [Cells -> Items \cup {Nil}] /\ links \subseteq Cells
    BY <1>1, <1>2 DEF Objects, Cells
  <2>2. /\ pObj' \in [Cells -> Items \cup {Nil}]
        /\ \A c \in Cells : pObj'[c] = IF c \in links THEN Nil ELSE pObj[c]
    BY <2>1
  <2>3. \A c \in Links : c \in live' <=> c \in live /\ c \notin links
    BY <1>2, ListAssumption
  <2> QED BY <1>1, <2>1, <2>2, <2>3, ListAssumption DEF Objects
<1> QED BY <1>5, <1>6, <1>7 DEF ListInv

\* No list changes.
LEMMA RingStays ==
  ASSUME NEW ch, Holding(ch), Nothing, Walking(ch)'
  PROVE  ListInv'
<1>1. AreRings(ch, next, prev, size, live) /\ Objects(pObj, live)
  BY DEF Holding
<1>2. next' = next /\ prev' = prev /\ pObj' = pObj /\ size' = size /\ live' = live
  BY DEF Nothing, ring
<1> QED BY <1>1, <1>2 DEF ListInv

LEMMA NothingStep ==
  ASSUME NEW ch, Holding(ch), Nothing, UNCHANGED li
  PROVE  ListInv'
<1>1. Walking(ch) /\ live' = live
  BY DEF Holding, Nothing, ring
<1>2. Walking(ch)'
  BY <1>1, WalkStays
<1> QED BY <1>2, RingStays

\* The link at a position is one of the list.
LEMMA GetLinkPlace ==
  ASSUME NEW ch, Holding(ch), NEW l \in Lists, l \in live, NEW item \in Int, GetLink(l, item) # Nil
  PROVE  \E m \in 1..Len(ch[l]) : GetLink(l, item) = ch[l][m]
<1>1. AreRings(ch, next, prev, size, live)
  BY DEF Holding
<1>2. size[l] = Len(ch[l]) /\ Len(ch[l]) \in Nat
  BY <1>1, RingFacts
<1>3. CASE item \in 0..(size[l] - 1)
  <2>1. item + 1 \in 1..Len(ch[l]) /\ GetLink(l, item) = ch[l][item + 1]
    BY <1>1, <1>2, <1>3, GetLinkFacts
  <2> QED BY <2>1
<1>4. CASE item \in (-size[l])..(-1)
  <2>1. size[l] + item + 1 \in 1..Len(ch[l]) /\ GetLink(l, item) = ch[l][size[l] + item + 1]
    BY <1>1, <1>2, <1>4, GetLinkFacts
  <2> QED BY <2>1
<1>5. item \in 0..(size[l] - 1) \/ item \in (-size[l])..(-1)
  <2>1. item \in (-size[l])..(size[l] - 1)
    BY <1>1, GetLinkFacts
  <2> QED BY <1>2, <2>1
<1> QED BY <1>3, <1>4, <1>5

LEMMA PushSteps ==
  ASSUME NEW ch, Holding(ch), NEW l \in Lists, NEW o \in Items, LL_push(l, o) \/ LL_unshift(l, o)
  PROVE  ListInv'
<1>0. MayRelink(l) /\ l \in live /\ UNCHANGED li
  BY DEF LL_push, LL_unshift, ListReturn, MayRelink, There
<1>1. AreRings(ch, next, prev, size, live)
  BY DEF Holding
<1>2. Len(ch[l]) \in Nat /\ At(l, ch[l], Len(ch[l]) + 1) = l /\ next[l] = At(l, ch[l], 1)
  <2>1. Len(ch[l]) \in Nat
    BY <1>1, RingFacts
  <2> QED BY <1>0, <1>1, <2>1, LinkedFacts DEF At
<1>3. CASE LL_push(l, o)
  <2>1. Insert(l, l, o) /\ Len(ch[l]) + 1 \in 1..(Len(ch[l]) + 1)
    BY <1>2, <1>3 DEF LL_push
  <2> QED BY <1>0, <1>2, <2>1, InsertStep
<1>4. CASE LL_unshift(l, o)
  <2>1. Insert(l, next[l], o) /\ 1 \in 1..(Len(ch[l]) + 1)
    BY <1>2, <1>4 DEF LL_unshift
  <2> QED BY <1>0, <1>2, <2>1, InsertStep
<1> QED BY <1>3, <1>4

LEMMA InsertAction ==
  ASSUME NEW ch, Holding(ch), NEW l \in Lists, NEW item \in Int, NEW o \in Items, LL_insert(l, item, o)
  PROVE  ListInv'
<1>0. MayRelink(l) /\ l \in live /\ UNCHANGED li
  BY DEF LL_insert, ListReturn, MayRelink, There
<1>1. AreRings(ch, next, prev, size, live)
  BY DEF Holding
<1>2. Len(ch[l]) \in Nat
  BY <1>1, RingFacts
<1>3. CASE Behind(l, item) = Nil
  <2>1. Nothing
    BY <1>3 DEF LL_insert
  <2> QED BY <1>0, <2>1, NothingStep
<1>4. CASE Behind(l, item) # Nil
  <2>1. Insert(l, Behind(l, item), o)
    BY <1>4 DEF LL_insert
  <2>2. \E m \in 1..(Len(ch[l]) + 1) : Behind(l, item) = At(l, ch[l], m)
    <3>1. CASE Behind(l, item) = l
      <4>1. Len(ch[l]) + 1 \in 1..(Len(ch[l]) + 1) /\ At(l, ch[l], Len(ch[l]) + 1) = l
        BY <1>2 DEF At
      <4> QED BY <3>1, <4>1
    <3>2. CASE Behind(l, item) # l
      <4>1. PICK k \in Int : Behind(l, item) = GetLink(l, k)
        BY <3>2 DEF Behind
      <4>2. PICK m \in 1..Len(ch[l]) : GetLink(l, k) = ch[l][m]
        BY <1>0, <1>4, <4>1, GetLinkPlace
      <4>3. m \in 1..(Len(ch[l]) + 1) /\ At(l, ch[l], m) = ch[l][m]
        BY <1>2 DEF At
      <4> QED BY <4>1, <4>2, <4>3
    <3> QED BY <3>1, <3>2
  <2>3. PICK m \in 1..(Len(ch[l]) + 1) : Behind(l, item) = At(l, ch[l], m)
    BY <2>2
  <2> QED BY <1>0, <2>1, <2>3, InsertStep
<1> QED BY <1>3, <1>4

\* A link of the list is taken, or none.
LEMMA TakeStep ==
  ASSUME NEW ch, Holding(ch), NEW l \in Lists, NEW c, NEW fn, NEW args, Take(l, c, fn, args),
         c # Nil => \E m \in 1..Len(ch[l]) : c = ch[l][m]
  PROVE  ListInv'
<1>0. MayRelink(l) /\ UNCHANGED li
  BY DEF Take, ListReturn
<1>1. CASE c = Nil
  <2>1. Nothing
    BY <1>1 DEF Take
  <2> QED BY <1>0, <2>1, NothingStep
<1>2. CASE c # Nil
  <2>1. Extract(l, c)
    BY <1>2 DEF Take
  <2>2. PICK m \in 1..Len(ch[l]) : c = ch[l][m]
    BY <1>2
  <2> QED BY <1>0, <2>1, <2>2, ExtractStep
<1> QED BY <1>1, <1>2

LEMMA TakeActions ==
  ASSUME NEW ch, Holding(ch), NEW l \in Lists, NEW item \in Int,
         LL_pop(l) \/ LL_shift(l) \/ LL_extract(l, item)
  PROVE  ListInv'
<1>0. l \in live
  BY DEF LL_pop, LL_shift, LL_extract, Take, MayRelink, There
<1>1. AreRings(ch, next, prev, size, live)
  BY DEF Holding
<1>2. /\ Len(ch[l]) \in Nat /\ size[l] = Len(ch[l])
      /\ next[l] = At(l, ch[l], 1) /\ prev[l] = At(l, ch[l], size[l])
  BY <1>0, <1>1, LinkedFacts
<1>3. CASE LL_pop(l)
  <2> DEFINE c == IF size[l] = 0 THEN Nil ELSE prev[l]
  <2>1. Take(l, c, "LL_pop", <<l>>)
    BY <1>3 DEF LL_pop
  <2>2. c # Nil => \E m \in 1..Len(ch[l]) : c = ch[l][m]
    <3> SUFFICES ASSUME c # Nil PROVE \E m \in 1..Len(ch[l]) : c = ch[l][m]
      OBVIOUS
    <3>1. Len(ch[l]) \in 1..Len(ch[l]) /\ c = prev[l]
      BY <1>2
    <3>2. c = ch[l][Len(ch[l])]
      BY <1>2, <3>1 DEF At
    <3> QED BY <3>1, <3>2
  <2> HIDE DEF c
  <2> QED BY <2>1, <2>2, TakeStep
<1>4. CASE LL_shift(l)
  <2> DEFINE c == IF size[l] = 0 THEN Nil ELSE next[l]
  <2>1. Take(l, c, "LL_shift", <<l>>)
    BY <1>4 DEF LL_shift
  <2>2. c # Nil => \E m \in 1..Len(ch[l]) : c = ch[l][m]
    <3> SUFFICES ASSUME c # Nil PROVE \E m \in 1..Len(ch[l]) : c = ch[l][m]
      OBVIOUS
    <3>1. 1 \in 1..Len(ch[l]) /\ c = next[l]
      BY <1>2
    <3>2. c = ch[l][1]
      BY <1>2, <3>1 DEF At
    <3> QED BY <3>1, <3>2
  <2> HIDE DEF c
  <2> QED BY <2>1, <2>2, TakeStep
<1>5. CASE LL_extract(l, item)
  <2> DEFINE c == GetLink(l, item)
  <2>1. Take(l, c, "LL_extract", <<l, item>>)
    BY <1>5 DEF LL_extract
  <2>2. c # Nil => \E m \in 1..Len(ch[l]) : c = ch[l][m]
    BY <1>0, GetLinkPlace
  <2> HIDE DEF c
  <2> QED BY <2>1, <2>2, TakeStep
<1> QED BY <1>3, <1>4, <1>5

LEMMA EmptyActions ==
  ASSUME NEW ch, Holding(ch), NEW l \in Lists, LL_delete(l) \/ LL_flush(l) \/ LL_destroy(l)
  PROVE  ListInv'
<1>0. l \in live /\ MayRelink(l) /\ UNCHANGED li
  BY DEF LL_delete, LL_flush, LL_destroy, ListReturn, MayRelink, There
<1>1. AreRings(ch, next, prev, size, live) /\ Objects(pObj, live)
  BY DEF Holding
<1> DEFINE links == Chained(ch, l)
<1>2. Linked(l) = links /\ size[l] = Len(ch[l]) /\ size[l] \in Nat
  BY <1>0, <1>1, LinkedFacts DEF Chained
<1>3. /\ links \subseteq Links /\ size \in [Lists -> Nat] /\ pObj \in [Cells -> Items \cup {Nil}]
      /\ \A c \in Links : c \notin Lists
      /\ pObj[l] = Nil /\ l \in Cells /\ l # Nil
  <2>1. \A i \in 1..Len(ch[l]) : ch[l][i] \in Links
    BY <1>1, RingFacts
  <2>2. l \in Cells /\ l # Nil /\ l \notin Links
    BY ListAssumption DEF Cells
  <2> QED BY <1>1, <2>1, <2>2, ListAssumption DEF Chained, AreRings, HaveChains, Objects
<1> HIDE DEF links
<1>4. CASE LL_flush(l)
  <2>1. Emptied(next, prev, size, live, l, links, l, next', prev', size', live')
    BY <1>2, <1>4, Zenon DEF LL_flush, Emptied
  <2>2. pObj' = [c \in Cells |-> IF c \in links THEN Nil ELSE pObj[c]]
    BY <1>2, <1>4, Zenon DEF LL_flush
  <2> QED BY <1>0, <2>1, <2>2, EmptyStep DEF links
<1>5. ASSUME Gone({l} \cup links) PROVE ListInv'
  <2>1. Emptied(next, prev, size, live, l, links, Nil, next', prev', size', live')
    <3>1. next' = [c \in Cells |-> IF c = l THEN Nil ELSE IF c \in links THEN Nil ELSE next[c]]
      BY <1>5 DEF Gone
    <3>2. prev' = [c \in Cells |-> IF c = l THEN Nil ELSE IF c \in links THEN Nil ELSE prev[c]]
      BY <1>5 DEF Gone
    <3>3. size' = [size EXCEPT ![l] = 0]
      BY <1>3, <1>5 DEF Gone
    <3>4. live' = live \ ({l} \cup links)
      BY <1>5 DEF Gone
    <3> QED BY <1>3, <3>1, <3>2, <3>3, <3>4, Zenon DEF Emptied
  <2>2. pObj' = [c \in Cells |-> IF c \in links THEN Nil ELSE pObj[c]]
    BY <1>3, <1>5 DEF Gone
  <2> QED BY <1>0, <2>1, <2>2, EmptyStep DEF links
<1>6. CASE LL_destroy(l)
  BY <1>2, <1>5, <1>6 DEF LL_destroy
<1>7. CASE LL_delete(l)
  <2>1. CASE size[l] = 0
    <3>1. links = {}
      BY <1>2, <2>1 DEF links, Chained
    <3>2. Gone({l})
      BY <1>7, <2>1 DEF LL_delete
    <3>3. {l} = {l} \cup links
      BY <3>1
    <3> QED BY <1>5, <3>2, <3>3, Zenon
  <2>2. CASE size[l] # 0
    <3>1. Nothing
      BY <1>7, <2>2 DEF LL_delete
    <3> QED BY <1>0, <3>1, NothingStep
  <2> QED BY <2>1, <2>2
<1> QED BY <1>4, <1>6, <1>7

LEMMA GetStep ==
  ASSUME NEW ch, Holding(ch), NEW l \in Lists, NEW item \in Int, LL_get(l, item)
  PROVE  ListInv'
<1>1. Nothing /\ UNCHANGED li
  BY DEF LL_get, ListReturn
<1> QED BY <1>1, NothingStep

\* A walk begins at the head of its list and goes from link to link.
LEMMA WalkSteps ==
  ASSUME NEW ch, Holding(ch), (\E l \in Lists : LI_init(l)) \/ LI_next \/ LI_prev
  PROVE  ListInv'
<1>1. AreRings(ch, next, prev, size, live) /\ Walking(ch)
  BY DEF Holding
<1>2. Nothing /\ live' = live
  BY DEF LI_init, LI_next, LI_prev, Along, Nothing, ring
<1>3. CASE \E l \in Lists : LI_init(l)
  <2>1. PICK l \in Lists : LI_init(l)
    BY <1>3
  <2>2. l \in live /\ li' = [list |-> l, cur |-> l]
    BY <2>1 DEF LI_init, There
  <2>3. 0 \in 0..Len(ch[l]) /\ At(l, ch[l], 0) = l
    <3>1. Len(ch[l]) \in Nat
      BY <1>1, RingFacts
    <3> QED BY <3>1 DEF At
  <2>4. Walking(ch)'
    BY <1>2, <2>2, <2>3 DEF Walking
  <2> QED BY <1>2, <2>4, RingStays
<1>4. ASSUME NEW to, NEW fn, Along(to, fn),
             \A l \in Lists : l \in live =>
               \A i \in 0..Len(ch[l]) : \E j \in 0..Len(ch[l]) : to[At(l, ch[l], i)] = At(l, ch[l], j)
      PROVE  ListInv'
  <2> DEFINE l == li.list
  <2>1. li # NoWalk
    BY <1>4 DEF Along
  <2>2. li = [list |-> l, cur |-> li.cur] /\ l \in Lists /\ l \in live
    BY <1>1, <2>1 DEF Walking
  <2>3. PICK i \in 0..Len(ch[l]) : li.cur = At(l, ch[l], i)
    BY <1>1, <2>1 DEF Walking
  <2>4. PICK j \in 0..Len(ch[l]) : to[At(l, ch[l], i)] = At(l, ch[l], j)
    BY <1>4, <2>2, <2>3
  <2>5. CASE to[li.cur] = l
    <3>1. li' = NoWalk
      BY <1>4, <2>5 DEF Along
    <3>2. Walking(ch)'
      BY <3>1 DEF Walking, NoWalk
    <3> QED BY <1>2, <3>2, RingStays
  <2>6. CASE to[li.cur] # l
    <3>1. li' = [li EXCEPT !.cur = to[li.cur]]
      BY <1>4, <2>6 DEF Along
    <3>2. li' = [list |-> l, cur |-> At(l, ch[l], j)]
      <4>1. to[li.cur] = At(l, ch[l], j)
        BY <2>3, <2>4
      <4> HIDE DEF l
      <4> QED BY <2>2, <3>1, <4>1
    <3>3. PICK k : k = l
      OBVIOUS
    <3>4. li'.list = k /\ li'.cur = At(k, ch[k], j) /\ li' = [list |-> li'.list, cur |-> li'.cur] /\ k \in Lists /\ k \in live'
      <4> HIDE DEF l
      <4> QED BY <1>2, <2>2, <3>2, <3>3
    <3>5. j \in 0..Len(ch[k])
      BY <3>3
    <3>6. Walking(ch)'
      <4> HIDE DEF l
      <4> QED BY <3>4, <3>5 DEF Walking
    <3> QED BY <1>2, <3>6, RingStays
  <2> QED BY <2>5, <2>6
<1>5. CASE LI_next
  <2>1. ASSUME NEW l \in Lists, l \in live, NEW i \in 0..Len(ch[l])
        PROVE  \E j \in 0..Len(ch[l]) : next[At(l, ch[l], i)] = At(l, ch[l], j)
    <3>1. RingOf(next, prev, l, ch[l]) /\ Len(ch[l]) \in Nat
      BY <1>1, <2>1, RingFacts
    <3>2. next[At(l, ch[l], i)] = At(l, ch[l], i + 1)
      BY <3>1 DEF RingOf
    <3>3. CASE i < Len(ch[l])
      <4>1. i + 1 \in 0..Len(ch[l])
        BY <3>1, <3>3
      <4> QED BY <3>2, <4>1
    <3>4. CASE i = Len(ch[l])
      <4>1. 0 \in 0..Len(ch[l]) /\ At(l, ch[l], i + 1) = At(l, ch[l], 0)
        BY <3>1, <3>4 DEF At
      <4> QED BY <3>2, <4>1
    <3> QED BY <3>1, <3>3, <3>4
  <2>2. Along(next, "LI_next")
    BY <1>5 DEF LI_next
  <2> QED BY <1>4, <2>1, <2>2
<1>6. CASE LI_prev
  <2>1. ASSUME NEW l \in Lists, l \in live, NEW i \in 0..Len(ch[l])
        PROVE  \E j \in 0..Len(ch[l]) : prev[At(l, ch[l], i)] = At(l, ch[l], j)
    <3>1. RingOf(next, prev, l, ch[l]) /\ Len(ch[l]) \in Nat
      BY <1>1, <2>1, RingFacts
    <3>3. CASE 0 < i
      <4>1. i - 1 \in 0..Len(ch[l]) /\ (i - 1) + 1 = i
        BY <3>1, <3>3
      <4>2. prev[At(l, ch[l], (i - 1) + 1)] = At(l, ch[l], i - 1)
        BY <3>1, <4>1 DEF RingOf
      <4> QED BY <4>1, <4>2
    <3>4. CASE i = 0
      <4>1. Len(ch[l]) \in 0..Len(ch[l]) /\ At(l, ch[l], Len(ch[l]) + 1) = At(l, ch[l], i)
        BY <3>1, <3>4 DEF At
      <4>2. prev[At(l, ch[l], Len(ch[l]) + 1)] = At(l, ch[l], Len(ch[l]))
        BY <3>1, <4>1 DEF RingOf
      <4> QED BY <4>1, <4>2
    <3> QED BY <3>1, <3>3, <3>4
  <2>2. Along(prev, "LI_prev")
    BY <1>6 DEF LI_prev
  <2> QED BY <1>4, <2>1, <2>2
<1> QED BY <1>3, <1>5, <1>6

\* Sorting gives the links other objects.
LEMMA SortStep ==
  ASSUME NEW ch, Holding(ch), NEW l \in Lists, LL_sort(l)
  PROVE  ListInv'
<1>0. /\ l \in live /\ UNCHANGED li
      /\ next' = next /\ prev' = prev /\ size' = size /\ live' = live
  BY DEF LL_sort, ListReturn, MayRelink, There
<1>1. AreRings(ch, next, prev, size, live) /\ Walking(ch) /\ Objects(pObj, live)
  BY DEF Holding
<1>2. Walking(ch)'
  BY <1>0, <1>1, WalkStays
<1>3. Objects(pObj', live)
  <2>1. CASE size[l] <= 1
    BY <1>1, <2>1 DEF LL_sort
  <2>2. CASE ~(size[l] <= 1)
    <3> DEFINE objs == [i \in 1..size[l] |-> pObj[After(l, i)]]
               done == QuickSort(objs, 1, size[l])
               place(c) == CHOOSE i \in 1..size[l] : After(l, i) = c
    <3>1. pObj' = [c \in Cells |-> IF c \in Linked(l) THEN done[place(c)] ELSE pObj[c]]
      BY <2>2 DEF LL_sort
    <3>2. /\ size[l] = Len(ch[l]) /\ size[l] \in Nat /\ \A i \in 1..size[l] : After(l, i) = ch[l][i]
          /\ Linked(l) = {ch[l][i] : i \in 1..Len(ch[l])}
      BY <1>0, <1>1, LinkedFacts
    <3>3. \A i \in 1..Len(ch[l]) : ch[l][i] \in Links /\ ch[l][i] \in live /\ pObj[ch[l][i]] \in Items
      <4>1. \A i \in 1..Len(ch[l]) : ch[l][i] \in Links /\ ch[l][i] \in live
        BY <1>1, RingFacts
      <4> QED BY <1>1, <4>1 DEF Objects, Cells
    <3>4. objs \in [1..size[l] -> Items]
      BY <3>2, <3>3
    <3>5. objs \in Seq(Items) /\ Len(objs) = size[l] /\ 1 < size[l]
      <4> HIDE DEF objs
      <4> QED BY <2>2, <3>2, <3>4
    <3> HIDE DEF objs
    <3>6. Rearranged(objs, done, 1, size[l])
      BY <3>2, <3>5, QuickSortFacts
    <3> HIDE DEF done
    <3>7. \A i \in 1..size[l] : done[i] \in Items
      <4>1. done \in Seq(Items) /\ Len(done) = size[l]
        BY <3>5, <3>6 DEF Rearranged
      <4> QED BY <4>1, ElementOfSeq
    <3>8. ASSUME NEW c \in Linked(l) PROVE place(c) \in 1..size[l] /\ c \in Links /\ c \in live
      <4>1. \E i \in 1..size[l] : After(l, i) = c
        BY <3>2
      <4> QED BY <3>2, <3>3, <4>1
    <3> HIDE DEF place
    <3>9. pObj \in [Cells -> Items \cup {Nil}] /\ \A c \in Cells : pObj[c] \in Items <=> c \in Links /\ c \in live
      BY <1>1 DEF Objects
    <3>10. \A c \in Linked(l) : done[place(c)] \in Items
      BY <3>7, <3>8
    <3>11. \A c \in Cells : pObj'[c] = IF c \in Linked(l) THEN done[place(c)] ELSE pObj[c]
      BY <3>1
    <3>12. pObj' \in [Cells -> Items \cup {Nil}]
      BY <3>1, <3>9, <3>10
    <3> QED BY <3>8, <3>9, <3>10, <3>11, <3>12 DEF Objects
  <2> QED BY <2>1, <2>2
<1> QED BY <1>0, <1>1, <1>2, <1>3 DEF ListInv

\* Where there is room for n links, there are n different addresses.
LEMMA RoomFor ==
  ASSUME NEW n \in Nat, n <= Cardinality(Spare)
  PROVE  \E f \in [1..n -> Spare] : IsInjective(f)
<1>1. IsFiniteSet(Spare)
  <2>1. Spare \subseteq Links /\ IsFiniteSet(Links)
    BY ListAssumption DEF Spare
  <2> QED BY <2>1, FS_Subset
<1> DEFINE k == Cardinality(Spare)
<1>2. k \in Nat /\ ExistsBijection(1..k, Spare)
  BY <1>1, FS_CardinalityType
<1>3. PICK g \in [1..k -> Spare] : IsInjective(g)
  BY <1>2 DEF ExistsBijection, Bijection, Injection
<1> HIDE DEF k
<1> DEFINE f == [i \in 1..n |-> g[i]]
<1>4. 1..n \subseteq 1..k
  BY <1>2 DEF k
<1>5. f \in [1..n -> Spare]
  BY <1>3, <1>4
<1>6. IsInjective(f)
  BY <1>3, <1>4 DEF IsInjective
<1> QED BY <1>5, <1>6

LEMMA CloneStep ==
  ASSUME NEW ch, Holding(ch), NEW l \in Lists, LL_clone(l)
  PROVE  ListInv'
<1>0. l \in live /\ UNCHANGED li /\ Unlisted /\ size[l] <= Cardinality(Spare)
  BY DEF LL_clone, ListReturn, There
<1>1. AreRings(ch, next, prev, size, live) /\ Walking(ch) /\ Objects(pObj, live)
  BY DEF Holding
<1>2. /\ size[l] = Len(ch[l]) /\ size[l] \in Nat /\ \A i \in 1..size[l] : After(l, i) = ch[l][i]
  BY <1>0, <1>1, LinkedFacts
<1> DEFINE D == NewList
           E == CHOOSE f \in [1..size[l] -> Spare] : IsInjective(f)
           atE(i) == IF i \in 1..size[l] THEN E[i] ELSE D
           placeE(c) == CHOOSE i \in 1..size[l] : E[i] = c
<1>a. /\ next' = [c \in Cells |-> IF c = D THEN atE(1)
                                  ELSE IF c \in Range(E) THEN atE(placeE(c) + 1) ELSE next[c]]
      /\ prev' = [c \in Cells |-> IF c = D THEN atE(size[l])
                                  ELSE IF c \in Range(E) THEN atE(placeE(c) - 1) ELSE prev[c]]
      /\ pObj' = [c \in Cells |-> IF c \in Range(E) THEN pObj[After(l, placeE(c))] ELSE pObj[c]]
      /\ size' = [size EXCEPT ![D] = size[l]]
      /\ live' = live \cup {D} \cup Range(E)
  BY DEF LL_clone
<1>7a. E \in [1..size[l] -> Spare] /\ IsInjective(E)
  <2>1. \E f \in [1..size[l] -> Spare] : IsInjective(f)
    BY <1>0, <1>2, RoomFor
  <2> QED BY <2>1
<1>4a. D \in Lists /\ D \notin live
  BY <1>0 DEF Unlisted, NewList
<1> HIDE DEF D, E
<1>3. PICK d : d = D
  OBVIOUS
<1>4. d \in Lists /\ d \notin live
  BY <1>3, <1>4a
<1>5. PICK n : n = size[l]
  OBVIOUS
<1>6. PICK e : e = E
  OBVIOUS
<1>7. e \in [1..n -> Spare] /\ IsInjective(e) /\ n \in Nat
  BY <1>2, <1>5, <1>6, <1>7a
<1>8. /\ e \in Seq(Links) /\ Len(e) = n
      /\ \A i \in 1..n : e[i] \in Links /\ e[i] \notin live /\ e[i] \in Cells /\ e[i] # d
      /\ \A i, j \in 1..n : e[i] = e[j] => i = j
      /\ Range(e) = {e[i] : i \in 1..n}
  <2>1. \A i \in 1..n : e[i] \in Links /\ e[i] \notin live /\ e[i] \in Cells /\ e[i] # d
    BY <1>4, <1>7, ListAssumption DEF Spare, Cells
  <2>2. e \in [1..n -> Links]
    BY <1>7, <2>1
  <2>3. e \in Seq(Links) /\ Len(e) = n
    BY <1>7, <2>2
  <2>4. \A i, j \in 1..n : e[i] = e[j] => i = j
    BY <1>7 DEF IsInjective
  <2>5. Range(e) = {e[i] : i \in 1..n}
    BY <1>7 DEF Range
  <2> QED BY <2>1, <2>3, <2>4, <2>5
<1> DEFINE at(i) == IF i \in 1..n THEN e[i] ELSE d
           place(c) == CHOOSE i \in 1..n : e[i] = c
<1>9. /\ \A c \in Cells : next'[c] = IF c = d THEN at(1)
                                  ELSE IF c \in Range(e) THEN at(place(c) + 1) ELSE next[c]
      /\ \A c \in Cells : prev'[c] = IF c = d THEN at(n)
                                  ELSE IF c \in Range(e) THEN at(place(c) - 1) ELSE prev[c]
      /\ \A c \in Cells : pObj'[c] = IF c \in Range(e) THEN pObj[After(l, place(c))] ELSE pObj[c]
      /\ next' = [c \in Cells |-> next'[c]] /\ prev' = [c \in Cells |-> prev'[c]]
      /\ pObj' = [c \in Cells |-> pObj'[c]]
      /\ size' = [size EXCEPT ![d] = n]
      /\ live' = live \cup {d} \cup Range(e)
  <2>1. \A i : at(i) = atE(i)
    BY <1>3, <1>5, <1>6
  <2>2. \A c : place(c) = placeE(c)
    BY <1>5, <1>6
  <2> HIDE DEF at, place, atE, placeE
  <2>3. \A c \in Cells : next'[c] = IF c = D THEN atE(1)
                                  ELSE IF c \in Range(E) THEN atE(placeE(c) + 1) ELSE next[c]
    BY <1>a
  <2>4. \A c \in Cells : prev'[c] = IF c = D THEN atE(size[l])
                                  ELSE IF c \in Range(E) THEN atE(placeE(c) - 1) ELSE prev[c]
    BY <1>a
  <2>5. \A c \in Cells : pObj'[c] = IF c \in Range(E) THEN pObj[After(l, placeE(c))] ELSE pObj[c]
    BY <1>a
  <2>6. /\ next' = [c \in Cells |-> next'[c]] /\ prev' = [c \in Cells |-> prev'[c]]
        /\ pObj' = [c \in Cells |-> pObj'[c]]
    BY <1>a
  <2>7. size' = [size EXCEPT ![d] = n] /\ live' = live \cup {d} \cup Range(e)
    BY <1>3, <1>5, <1>6, <1>a
  <2>8. Range(e) = Range(E)
    BY <1>6
  <2> QED BY <1>3, <1>5, <2>1, <2>2, <2>3, <2>4, <2>5, <2>6, <2>7, <2>8
<1>10. \A i \in Int : at(i) = At(d, e, i) /\ at(i) \in Cells
  BY <1>4, <1>8 DEF At, Cells
<1>11. \A i \in 1..n : place(e[i]) = i
  BY <1>8
<1>12. /\ next \in [Cells -> Cells \cup {Nil}] /\ prev \in [Cells -> Cells \cup {Nil}]
       /\ pObj \in [Cells -> Items \cup {Nil}] /\ ch \in [Lists -> Seq(Links)]
  BY <1>1 DEF AreRings, HaveChains, Objects
<1> HIDE DEF at, place
<1>13. \A c \in Range(e) : place(c) \in 1..n /\ c = e[place(c)]
  BY <1>8, <1>11
<1>14. Cloned(next, prev, size, live, d, e, next', prev', size', live')
  <2>1. next' \in [Cells -> Cells \cup {Nil}] /\ prev' \in [Cells -> Cells \cup {Nil}]
    <3>1. at(1) \in Cells /\ at(n) \in Cells
      BY <1>7, <1>10
    <3>2. \A c \in Range(e) : at(place(c) + 1) \in Cells /\ at(place(c) - 1) \in Cells
      BY <1>7, <1>10, <1>13
    <3>3. \A c \in Cells : next[c] \in Cells \cup {Nil} /\ prev[c] \in Cells \cup {Nil}
      BY <1>12
    <3>4. \A c \in Cells : next'[c] \in Cells \cup {Nil}
      BY <1>9, <3>1, <3>2, <3>3
    <3>5. \A c \in Cells : prev'[c] \in Cells \cup {Nil}
      BY <1>9, <3>1, <3>2, <3>3
    <3>6. next' = [c \in Cells |-> next'[c]] /\ prev' = [c \in Cells |-> prev'[c]]
      BY <1>9
    <3> QED BY <3>4, <3>5, <3>6
  <2>2. RingOf(next', prev', d, e)
    <3> SUFFICES ASSUME NEW i \in 0..n
                 PROVE  next'[At(d, e, i)] = At(d, e, i + 1) /\ prev'[At(d, e, i + 1)] = At(d, e, i)
      BY <1>8 DEF RingOf
    <3>0. d \in Cells /\ n \in Int /\ i \in Int /\ i + 1 \in Int
      BY <1>4, <1>7 DEF Cells
    <3>1. next'[At(d, e, i)] = At(d, e, i + 1)
      <4>1. CASE i = 0
        <5>1. At(d, e, i) = d
          BY <4>1 DEF At
        <5>2. next'[d] = at(1) /\ i + 1 = 1
          BY <1>9, <3>0, <4>1
        <5> QED BY <1>10, <5>1, <5>2
      <4>2. CASE i # 0
        <5>1. i \in 1..n /\ At(d, e, i) = e[i] /\ e[i] \in Range(e)
          BY <1>8, <4>2 DEF At
        <5>2. next'[e[i]] = at(i + 1)
          BY <1>8, <1>9, <1>11, <5>1
        <5> QED BY <1>10, <3>0, <5>1, <5>2
      <4> QED BY <4>1, <4>2
    <3>2. prev'[At(d, e, i + 1)] = At(d, e, i)
      <4>1. CASE i = n
        <5>1. At(d, e, i + 1) = d
          BY <1>7, <1>8, <4>1 DEF At
        <5>2. prev'[d] = at(n)
          BY <1>9, <3>0
        <5> QED BY <1>10, <3>0, <4>1, <5>1, <5>2
      <4>2. CASE i # n
        <5>1. i + 1 \in 1..n /\ At(d, e, i + 1) = e[i + 1] /\ e[i + 1] \in Range(e) /\ (i + 1) - 1 = i
          BY <1>7, <1>8, <4>2 DEF At
        <5>2. prev'[e[i + 1]] = at((i + 1) - 1)
          <6>1. PICK j : j = i + 1
            OBVIOUS
          <6>2. prev'[e[j]] = at(j - 1)
            BY <1>8, <1>9, <1>11, <5>1, <6>1
          <6> QED BY <6>1, <6>2
        <5> QED BY <1>10, <3>0, <5>1, <5>2
      <4> QED BY <4>1, <4>2
    <3> QED BY <3>1, <3>2
  <2>3. \A k \in Cells : k # d /\ (\A i \in 1..Len(e) : k # e[i]) => next'[k] = next[k] /\ prev'[k] = prev[k]
    BY <1>8, <1>9
  <2>4. size' = [size EXCEPT ![d] = Len(e)] /\ live' = live \cup {d} \cup {e[i] : i \in 1..Len(e)}
    BY <1>8, <1>9
  <2> QED BY <2>1, <2>2, <2>3, <2>4, Zenon DEF Cloned
<1> DEFINE dh == [ch EXCEPT ![d] = e]
<1>15. HasChain(ch, d, e, dh) /\ \A k \in Lists : k # d => dh[k] = ch[k]
  BY <1>12 DEF HasChain
<1> HIDE DEF dh
<1>16. AreRings(dh, next', prev', size', live')
  <2>1. \A i \in 1..Len(e) : e[i] \notin live
    BY <1>8
  <2> QED BY <1>1, <1>4, <1>8, <1>14, <1>15, <2>1, CloneRing
<1>17. Walking(dh)'
  BY <1>0, <1>1, <1>4, <1>9, <1>15, WalkStays
<1>18. Objects(pObj', live')
  <2>1. \A c \in Range(e) : pObj[After(l, place(c))] \in Items
    <3>1. \A i \in 1..Len(ch[l]) : ch[l][i] \in Links /\ ch[l][i] \in live
      BY <1>1, RingFacts
    <3>2. \A i \in 1..Len(ch[l]) : pObj[ch[l][i]] \in Items
      BY <1>1, <3>1 DEF Objects, Cells
    <3> QED BY <1>2, <1>5, <1>13, <3>2
  <2>2. pObj' \in [Cells -> Items \cup {Nil}]
    BY <1>9, <1>12, <2>1
  <2>3. \A c \in Cells : pObj'[c] = IF c \in Range(e) THEN pObj[After(l, place(c))] ELSE pObj[c]
    BY <1>9
  <2>4. \A c \in Range(e) : c \in Links /\ c \in live'
    BY <1>8, <1>9
  <2>5. \A c \in Links : c \notin Range(e) => (c \in live' <=> c \in live)
    BY <1>4, <1>9, ListAssumption
  <2> QED BY <1>1, <2>1, <2>2, <2>3, <2>4, <2>5 DEF Objects
<1> QED BY <1>16, <1>17, <1>18 DEF ListInv

\* What is taken from place m on ends at the end of the list.
LEMMA TakenFacts ==
  ASSUME NEW ch, Holding(ch), NEW l \in Lists, l \in live, NEW m \in 1..Len(ch[l]), NEW at, at = At(l, ch[l], m),
         NEW want \in Nat, NEW t, t = TakenLinks(at, want)
  PROVE  t \in Nat /\ m + t <= Len(ch[l]) + 1
<1>1. AreRings(ch, next, prev, size, live) /\ Objects(pObj, live)
  BY DEF Holding
<1> DEFINE c == ch[l]
           s == Len(ch[l])
           q == s + 1 - m
<1>2. c \in Seq(Links) /\ s \in Nat /\ s = Len(c) /\ RingOf(next, prev, l, c) /\ q \in Nat /\ 1 <= q
  BY <1>1, RingFacts
<1>3. ASSUME NEW j \in 1..q PROVE pObj[After(at, j)] = Nil <=> j = q
  <2>1. After(at, j) = At(l, c, m + j)
    <3>1. m \in 0..(Len(c) + 1) /\ j \in Nat /\ m + j <= Len(c) + 1 /\ at = At(l, c, m)
      BY <1>2
    <3> HIDE DEF c
    <3> QED BY <1>2, <3>1, AfterFacts
  <2>2. CASE j = q
    <3>1. At(l, c, m + j) = l
      BY <1>2, <2>2 DEF At
    <3>2. pObj[l] = Nil
      BY <1>1, ListAssumption DEF Objects, Cells
    <3> QED BY <2>1, <2>2, <3>1, <3>2
  <2>3. CASE j # q
    <3>1. m + j \in 1..s /\ At(l, c, m + j) = c[m + j]
      BY <1>2, <2>3 DEF At
    <3>2. c[m + j] \in Links /\ c[m + j] \in live
      BY <1>1, <3>1, RingFacts
    <3>3. pObj[c[m + j]] \in Items
      BY <1>1, <3>2 DEF Objects, Cells
    <3> QED BY <2>1, <2>3, <3>1, <3>3, ListAssumption
  <2> QED BY <2>2, <2>3
<1>4. CASE want = 0
  BY <1>2, <1>4 DEF TakenLinks
<1>5. CASE want # 0
  <2> DEFINE Ends(n) == /\ n = want \/ pObj[After(at, n)] = Nil
                        /\ \A k \in 1..(n - 1) : pObj[After(at, k)] # Nil
  <2>1. t = CHOOSE n \in 1..want : Ends(n)
    BY <1>5 DEF TakenLinks
  <2>2. \E n \in 1..want : Ends(n)
    <3> HIDE DEF q
    <3>1. CASE want <= q
      <4>1. want \in 1..want /\ \A k \in 1..(want - 1) : k \in 1..q /\ k # q
        BY <1>2, <1>5, <3>1
      <4>2. Ends(want)
        BY <1>3, <4>1
      <4> QED BY <4>1, <4>2
    <3>2. CASE q < want
      <4>1. q \in 1..want /\ q \in 1..q /\ \A k \in 1..(q - 1) : k \in 1..q /\ k # q
        BY <1>2, <3>2
      <4>2. Ends(q)
        BY <1>3, <4>1
      <4> QED BY <4>1, <4>2
    <3> QED BY <1>2, <3>1, <3>2
  <2> HIDE DEF Ends
  <2>3. t \in 1..want /\ Ends(t)
    BY <2>1, <2>2
  <2>4. t <= q
    <3> SUFFICES ASSUME ~(t <= q) PROVE FALSE
      OBVIOUS
    <3> HIDE DEF q
    <3>1. q \in 1..(t - 1) /\ q \in 1..q
      BY <1>2, <2>3
    <3> QED BY <1>3, <2>3, <3>1 DEF Ends
  <2> QED BY <1>2, <2>3, <2>4
<1> QED BY <1>4, <1>5

\* There are t links from place m on.
InReach(ch, l, m, t) == m \in Nat /\ 1 <= m /\ t \in Nat /\ m + t <= Len(ch[l]) + 1

\* There are rings again; the lists but k and l have the chains they had, and at
\* is at place m of l.
LeavesRings(ch, nx, pv, sz, lv, k, l, m, at) ==
  \E dh : /\ AreRings(dh, nx, pv, sz, lv) /\ InReach(dh, l, m, 0) /\ at = At(l, dh[l], m)
          /\ \A j \in Lists : j # l /\ j # k => dh[j] = ch[j]

\* What a cut leaves behind: the links of l but those it took, which are in n.
LEMMA CutMakesRings ==
  ASSUME NEW ch, Holding(ch), NEW l \in Lists, l \in live, NEW n \in Lists, n \notin live,
         NEW m, NEW t, InReach(ch, l, m, t), NEW at, at = At(l, ch[l], m),
         NEW cut, cut = Cut(l, at, t, n)
  PROVE  LeavesRings(ch, cut.next, cut.prev, cut.size, live \cup {n}, n, l, m, cut.at)
<1> USE DEF InReach
<1>1. AreRings(ch, next, prev, size, live)
  BY DEF Holding
<1>2. /\ ch[l] \in Seq(Links) /\ Len(ch[l]) \in Nat /\ RingOf(next, prev, l, ch[l])
      /\ ch \in [Lists -> Seq(Links)]
  BY <1>1, RingFacts DEF AreRings, HaveChains
<1>3. CASE t = 0
  <2>1. /\ cut.next = [next EXCEPT ![n] = n] /\ cut.prev = [prev EXCEPT ![n] = n]
        /\ cut.size = size /\ cut.at = at
    BY <1>3 DEF Cut
  <2>2. HeadMade(next, prev, live, n, cut.next, cut.prev, live \cup {n})
    BY <2>1, Zenon DEF HeadMade
  <2>3. AreRings(ch, cut.next, cut.prev, size, live \cup {n})
    BY <1>1, <2>2, NewRing
  <2>4. InReach(ch, l, m, 0)
    BY <1>2, <1>3
  <2> QED BY <2>1, <2>3, <2>4 DEF LeavesRings
<1>4. CASE t # 0
  <2> DEFINE b == At(l, ch[l], m - 1)
             a == At(l, ch[l], m + t)
             last == At(l, ch[l], m + t - 1)
             dh == [ch EXCEPT ![l] = Without(ch[l], m, t), ![n] = Piece(ch[l], m, t)]
  <2>1. After(at, t - 1) = last
    <3>1. m \in 0..(Len(ch[l]) + 1) /\ t - 1 \in Nat /\ m + (t - 1) <= Len(ch[l]) + 1 /\ m + (t - 1) = m + t - 1
      BY <1>2, <1>4
    <3> QED BY <1>2, <3>1, AfterFacts
  <2>2. prev[at] = b /\ next[last] = a
    <3>1. m - 1 \in 0..Len(ch[l]) /\ (m - 1) + 1 = m /\ m + t - 1 \in 0..Len(ch[l]) /\ (m + t - 1) + 1 = m + t
      BY <1>2, <1>4
    <3>2. /\ prev[At(l, ch[l], (m - 1) + 1)] = At(l, ch[l], m - 1)
          /\ next[At(l, ch[l], m + t - 1)] = At(l, ch[l], (m + t - 1) + 1)
      BY <1>2, <3>1 DEF RingOf
    <3> QED BY <3>1, <3>2
  <2>3. /\ cut.next = [next EXCEPT ![b] = a, ![n] = at, ![last] = n]
        /\ cut.prev = [prev EXCEPT ![a] = b, ![n] = last, ![at] = n]
        /\ cut.size = [size EXCEPT ![l] = @ - t, ![n] = t] /\ cut.at = a
    <3> HIDE DEF a, b, last
    <3> QED BY <1>4, <2>1, <2>2 DEF Cut
  <2>4. CutOut(next, prev, size, live, l, n, b, a, at, last, t, cut.next, cut.prev, cut.size, live \cup {n})
    <3> HIDE DEF a, b, last
    <3> QED BY <2>3, Zenon DEF CutOut
  <2>5. CutChains(ch, l, n, m, t, dh) /\ \A k \in Lists : k # l /\ k # n => dh[k] = ch[k]
    BY <1>2 DEF CutChains
  <2> HIDE DEF dh
  <2>6. CutPlaces(ch, l, m, t, b, a, at, last)
    BY <1>4 DEF CutPlaces
  <2> HIDE DEF a, b, last
  <2>7. /\ AreRings(dh, cut.next, cut.prev, cut.size, live \cup {n})
        /\ Len(dh[l]) = Len(ch[l]) - t /\ At(l, dh[l], m) = a
    BY <1>1, <2>4, <2>5, <2>6, CutRing, SMTT(60)
  <2>8. InReach(dh, l, m, 0)
    BY <1>2, <2>7
  <2> QED BY <2>3, <2>5, <2>7, <2>8, SMTT(60) DEF LeavesRings
<1> QED BY <1>3, <1>4

Joins(ch, dh, nx, pv, sz, lv, l, r) ==
  AreRings(dh, nx, pv, sz, lv) /\ \A k \in Lists : k # l /\ k # r => dh[k] = ch[k]

\* Then the links of r are put in.
LEMMA FillMakesRings ==
  ASSUME NEW ch, NEW cut, NEW lv, AreRings(ch, cut.next, cut.prev, cut.size, lv),
         NEW l \in Lists, l \in lv, NEW r \in Lists, r \in lv, r # l, 1 <= Len(ch[r]),
         NEW m, InReach(ch, l, m, 0), cut.at = At(l, ch[l], m),
         NEW done, done = Fill(cut, l, r)
  PROVE  \E dh : Joins(ch, dh, done.next, done.prev, done.size, lv \ {r}, l, r)
<1> USE DEF InReach
<1> DEFINE b == At(l, ch[l], m - 1)
           at == At(l, ch[l], m)
           first == At(r, ch[r], 1)
           last == At(r, ch[r], Len(ch[r]))
           dh == [ch EXCEPT ![l] = Joined(ch[l], m, ch[r]), ![r] = << >>]
<1>1. /\ Len(ch[l]) \in Nat /\ RingOf(cut.next, cut.prev, l, ch[l])
      /\ Len(ch[r]) \in Nat /\ RingOf(cut.next, cut.prev, r, ch[r]) /\ ch \in [Lists -> Seq(Links)]
  BY RingFacts DEF AreRings, HaveChains
<1>2. cut.at = at /\ cut.prev[at] = b /\ cut.next[r] = first /\ cut.prev[r] = last
  <2>1. /\ m - 1 \in 0..Len(ch[l]) /\ (m - 1) + 1 = m /\ 0 \in 0..Len(ch[r]) /\ 0 + 1 = 1
        /\ Len(ch[r]) \in 0..Len(ch[r])
    BY <1>1
  <2>2. /\ cut.prev[At(l, ch[l], (m - 1) + 1)] = At(l, ch[l], m - 1)
        /\ cut.next[At(r, ch[r], 0)] = At(r, ch[r], 0 + 1)
        /\ cut.prev[At(r, ch[r], Len(ch[r]) + 1)] = At(r, ch[r], Len(ch[r]))
    BY <1>1, <2>1 DEF RingOf
  <2>3. At(r, ch[r], 0) = r /\ At(r, ch[r], Len(ch[r]) + 1) = r
    BY <1>1 DEF At
  <2> QED BY <2>1, <2>2, <2>3
<1>3. FilledChains(ch, l, r, m, dh) /\ \A k \in Lists : k # l /\ k # r => dh[k] = ch[k]
  BY <1>1 DEF FilledChains
<1>4. /\ b = At(l, ch[l], m - 1) /\ at = At(l, ch[l], m)
      /\ first = At(r, ch[r], 1) /\ last = At(r, ch[r], Len(ch[r]))
  OBVIOUS
<1> HIDE DEF b, at, first, last, dh
<1>5. /\ done.next = [cut.next EXCEPT ![last] = at, ![b] = first, ![r] = Nil]
      /\ done.prev = [cut.prev EXCEPT ![first] = b, ![at] = last, ![r] = Nil]
      /\ done.size = [cut.size EXCEPT ![l] = @ + cut.size[r], ![r] = 0]
  BY <1>2 DEF Fill
<1>6. FilledIn(cut.next, cut.prev, cut.size, lv, l, r, b, at, first, last,
               done.next, done.prev, done.size, lv \ {r})
  BY <1>5, Zenon DEF FilledIn
<1>7. AreRings(dh, done.next, done.prev, done.size, lv \ {r})
  <2>1. m \in Nat /\ 1 <= m /\ m <= Len(ch[l]) + 1
    BY <1>1
  <2> QED BY <1>3, <1>4, <1>6, <2>1, FillRing
<1> QED BY <1>3, <1>7 DEF Joins

LEMMA SpliceStep ==
  ASSUME NEW ch, Holding(ch), NEW l \in Lists, NEW offset \in Int, NEW length \in Int, NEW r \in Lists \cup {Nil},
         Spliceable(l, offset, length, r), LL_splice(l, offset, length, r)
  PROVE  ListInv'
<1> DEFINE N == NewList
           at == IF offset = size[l] THEN l ELSE GetLink(l, offset)
           want == IF length >= 0 THEN length ELSE IF offset < 0 THEN -offset ELSE size[l] - offset
           T == TakenLinks(at, want)
           cut == Cut(l, at, T, N)
           done == IF r = Nil THEN cut ELSE Fill(cut, l, r)
<1>1. /\ l \in live /\ li.list # l /\ UNCHANGED li /\ Unlisted
      /\ at = Nil => Nothing
      /\ at # Nil => /\ next' = done.next /\ prev' = done.prev /\ size' = done.size
                     /\ pObj' = pObj /\ live' = (live \cup {N}) \ {r}
  BY DEF LL_splice, ListReturn, MayRelink, There
<1>2. AreRings(ch, next, prev, size, live) /\ Walking(ch) /\ Objects(pObj, live)
  BY DEF Holding
<1>3. N \in Lists /\ N \notin live /\ N # Nil /\ l # Nil
  BY <1>1, ListAssumption DEF Unlisted, NewList
<1>4. size[l] = Len(ch[l]) /\ Len(ch[l]) \in Nat
  BY <1>2, RingFacts
<1> HIDE DEF N
<1>5. CASE at = Nil
  BY <1>1, <1>5, NothingStep
<1>6. CASE at # Nil
  <2>1. \E m \in Nat : 1 <= m /\ at = At(l, ch[l], m) /\ T \in Nat /\ m + T <= Len(ch[l]) + 1
    <3>1. CASE offset = size[l]
      <4>1. want = 0
        BY <1>4, <3>1 DEF Spliceable
      <4>2. T = 0
        BY <4>1 DEF TakenLinks
      <4>3. at = At(l, ch[l], Len(ch[l]) + 1)
        BY <1>4, <3>1 DEF At
      <4> HIDE DEF at, T
      <4> QED BY <1>4, <4>2, <4>3
    <3>2. CASE offset # size[l]
      <4>1. at = GetLink(l, offset) /\ GetLink(l, offset) # Nil
        BY <1>6, <3>2
      <4>2. PICK m \in 1..Len(ch[l]) : GetLink(l, offset) = ch[l][m]
        BY <1>1, <4>1, GetLinkPlace
      <4>3. offset \in (-size[l])..(size[l] - 1)
        BY <1>1, <1>2, <4>1, GetLinkFacts
      <4>4. want \in Nat
        BY <1>4, <4>3
      <4>5. at = At(l, ch[l], m)
        BY <4>1, <4>2 DEF At
      <4> HIDE DEF at, want
      <4>6. T \in Nat /\ m + T <= Len(ch[l]) + 1
        BY <1>1, <4>4, <4>5, TakenFacts
      <4> HIDE DEF T
      <4> QED BY <4>5, <4>6
    <3> QED BY <3>1, <3>2
  <2>2. PICK m \in Nat : 1 <= m /\ at = At(l, ch[l], m) /\ T \in Nat /\ m + T <= Len(ch[l]) + 1
    BY <2>1
  <2> HIDE DEF at, T
  <2>3. PICK n : n = N
    OBVIOUS
  <2>4. cut = Cut(l, at, T, n) /\ n \in Lists /\ n \notin live
    BY <1>3, <2>3
  <2> HIDE DEF cut
  <2>5. PICK dh : /\ AreRings(dh, cut.next, cut.prev, cut.size, live \cup {n})
                  /\ InReach(dh, l, m, 0) /\ cut.at = At(l, dh[l], m)
                  /\ \A k \in Lists : k # l /\ k # n => dh[k] = ch[k]
    <3>1. InReach(ch, l, m, T)
      BY <2>2 DEF InReach
    <3>2. LeavesRings(ch, cut.next, cut.prev, cut.size, live \cup {n}, n, l, m, cut.at)
      BY <1>1, <2>2, <2>4, <3>1, CutMakesRings
    <3> QED BY <3>2, Zenon DEF LeavesRings
  <2>6. /\ next' = done.next /\ prev' = done.prev /\ size' = done.size
        /\ pObj' = pObj /\ live' = (live \cup {n}) \ {r}
    BY <1>1, <1>6, <2>3
  <2>7. \E eh : /\ AreRings(eh, next', prev', size', live')
                /\ \A k \in Lists : k # l /\ k # n /\ k # r => eh[k] = ch[k]
    <3>1. CASE r = Nil
      <4>1. live' = live \cup {n}
        <5>1. Nil \notin live /\ n # Nil
          BY <1>2, <2>4, ListAssumption DEF AreRings, HaveChains, Cells
        <5> QED BY <2>6, <3>1, <5>1
      <4>2. AreRings(dh, next', prev', size', live')
        BY <2>5, <2>6, <3>1, <4>1
      <4> QED BY <2>5, <4>2
    <3>2. CASE r # Nil
      <4>1. r \in Lists /\ r \in live /\ r # l /\ r # n /\ size[r] > 0
        BY <2>4, <3>2 DEF Spliceable, MayRelink, There
      <4>2. 1 <= Len(dh[r])
        <5>1. dh[r] = ch[r] /\ size[r] = Len(ch[r]) /\ Len(ch[r]) \in Nat
          BY <1>2, <2>5, <4>1, RingFacts
        <5> QED BY <4>1, <5>1
      <4>3. done = Fill(cut, l, r) /\ l \in live \cup {n} /\ r \in live \cup {n}
        BY <1>1, <3>2, <4>1
      <4> HIDE DEF done
      <4>4. PICK lv : lv = live \cup {n}
        OBVIOUS
      <4>5. PICK eh : Joins(dh, eh, done.next, done.prev, done.size, lv \ {r}, l, r)
        <5>1. AreRings(dh, cut.next, cut.prev, cut.size, lv) /\ l \in lv /\ r \in lv
          BY <2>5, <4>3, <4>4
        <5> QED BY <2>5, <4>1, <4>2, <4>3, <5>1, FillMakesRings
      <4>6. AreRings(eh, next', prev', size', live')
        BY <2>6, <4>4, <4>5 DEF Joins
      <4> QED BY <2>5, <4>5, <4>6 DEF Joins
    <3> QED BY <3>1, <3>2
  <2>8. PICK eh : /\ AreRings(eh, next', prev', size', live')
                  /\ \A k \in Lists : k # l /\ k # n /\ k # r => eh[k] = ch[k]
    BY <2>7
  <2>9. Walking(eh)'
    <3>1. r = Nil \/ li.list # r
      BY DEF Spliceable, MayRelink
    <3>2. \A k \in Lists : k \in live /\ k = li.list => k \in live' /\ eh[k] = ch[k]
      BY <1>1, <2>4, <2>6, <2>8, <3>1, ListAssumption
    <3> QED BY <1>1, <1>2, <3>2, WalkStays
  <2>10. Objects(pObj', live')
    <3>1. \A c \in Links : c \in live' <=> c \in live
      BY <2>4, <2>6, ListAssumption
    <3> QED BY <1>2, <2>6, <3>1 DEF Objects
  <2> QED BY <2>8, <2>9, <2>10 DEF ListInv
<1> QED BY <1>5, <1>6

-----------------------------------------------------------------------------

LEMMA InitRings == ListInit => ListInv
<1> SUFFICES ASSUME ListInit PROVE ListInv
  OBVIOUS
<1> DEFINE ch == [l \in Lists |-> << >>]
<1>1. /\ next = [c \in Cells |-> Nil] /\ prev = [c \in Cells |-> Nil]
      /\ pObj = [c \in Cells |-> Nil] /\ size = [l \in Lists |-> 0] /\ live = {} /\ li = NoWalk
  BY DEF ListInit
<1>2. << >> \in Seq(Links) /\ Len(<< >>) = 0 /\ \A i \in 1..0 : FALSE
  OBVIOUS
<1>3. ch \in [Lists -> Seq(Links)] /\ \A l \in Lists : ch[l] = << >> /\ Len(ch[l]) = 0
  BY <1>2
<1> HIDE DEF ch
<1>4. \A l \in Lists : \A i \in 1..Len(ch[l]) : FALSE
  BY <1>2, <1>3
<1>5. HaveChains(ch, next, prev, size, live)
  BY <1>1, <1>3, <1>4 DEF HaveChains
<1>6. AreRings(ch, next, prev, size, live)
  BY <1>1, <1>5 DEF AreRings
<1>7. Walking(ch)
  BY <1>1 DEF Walking
<1>8. Objects(pObj, live)
  BY <1>1, ListAssumption DEF Objects
<1> QED BY <1>6, <1>7, <1>8 DEF ListInv

LEMMA NextRings == ListInv /\ [ListNext]_listVars => ListInv'
<1> SUFFICES ASSUME ListInv, [ListNext]_listVars PROVE ListInv'
  OBVIOUS
<1>1. PICK ch : Holding(ch)
  BY DEF ListInv, Holding
<1>2. CASE UNCHANGED listVars
  BY <1>1, <1>2, NothingStep DEF listVars, Nothing, ring
<1>3. ASSUME NEW l \in Lists,
             \/ LL_delete(l) \/ LL_flush(l) \/ LL_destroy(l) \/ LL_pop(l) \/ LL_shift(l)
             \/ LL_sort(l) \/ LL_clone(l) \/ LI_init(l)
      PROVE  ListInv'
  <2>1. CASE LL_delete(l) \/ LL_flush(l) \/ LL_destroy(l)
    BY <1>1, <2>1, EmptyActions
  <2>2. CASE LL_pop(l) \/ LL_shift(l)
    <3>1. 0 \in Int
      OBVIOUS
    <3> QED BY <1>1, <2>2, <3>1, TakeActions
  <2>3. CASE LL_sort(l)
    BY <1>1, <2>3, SortStep
  <2>4. CASE LL_clone(l)
    BY <1>1, <2>4, CloneStep
  <2>5. CASE LI_init(l)
    BY <1>1, <2>5, WalkSteps
  <2> QED BY <1>3, <2>1, <2>2, <2>3, <2>4, <2>5
<1>4. ASSUME NEW l \in Lists, NEW o \in Items, LL_push(l, o) \/ LL_unshift(l, o) PROVE ListInv'
  BY <1>1, <1>4, PushSteps
<1>5. ASSUME NEW l \in Lists PROVE size[l] \in Nat
  BY <1>1 DEF Holding, AreRings, HaveChains
<1>6. ASSUME NEW l \in Lists, NEW item \in Positions(l),
             LL_extract(l, item) \/ LL_get(l, item) \/ \E o \in Items : LL_insert(l, item, o)
      PROVE  ListInv'
  <2>1. item \in Int
    BY <1>5 DEF Positions
  <2>2. CASE LL_extract(l, item)
    BY <1>1, <2>1, <2>2, TakeActions
  <2>3. CASE LL_get(l, item)
    BY <1>1, <2>1, <2>3, GetStep
  <2>4. CASE \E o \in Items : LL_insert(l, item, o)
    BY <1>1, <2>1, <2>4, InsertAction
  <2> QED BY <1>6, <2>2, <2>3, <2>4
<1>7. ASSUME NEW l \in Lists, NEW offset \in Positions(l), NEW length \in Lengths(l), NEW r \in Lists \cup {Nil},
             Spliceable(l, offset, length, r), LL_splice(l, offset, length, r)
      PROVE  ListInv'
  <2>1. offset \in Int /\ length \in Int
    BY <1>5 DEF Positions, Lengths
  <2> QED BY <1>1, <1>7, <2>1, SpliceStep
<1>8. CASE LL_new
  BY <1>1, <1>8, NewStep
<1>9. CASE LI_next \/ LI_prev
  BY <1>1, <1>9, WalkSteps
<1> QED BY <1>2, <1>3, <1>4, <1>6, <1>7, <1>8, <1>9 DEF ListNext

\* Rings (util/list.c): whatever is pushed, inserted, extracted, spliced, cloned,
\* sorted and freed, the links are in rings, forwards as backwards, of as many
\* links as the sizes say, and no link is in two of them or in none.
THEOREM ListsAreRings == ListSpec => []Rings
<1>1. ListInit => ListInv
  BY InitRings
<1>2. ListInv /\ [ListNext]_listVars => ListInv'
  BY NextRings
<1>3. ListInv => Rings
  BY InvRings
<1> QED BY <1>1, <1>2, <1>3, PTL DEF ListSpec

=============================================================================
