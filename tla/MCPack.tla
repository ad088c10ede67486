------------------------------- MODULE MCPack -------------------------------
(***************************************************************************)
(* Types, data and strings for Pack.  Each table of types is about one     *)
(* thing: tags in nested structs, dimensions, flexible members, bitfields, *)
(* formats, and members in the same place.                                 *)
(*                                                                         *)
(* What is checked of the values that unpack returns is here, too: it is   *)
(* told with recursive operators.                                          *)
(***************************************************************************)
EXTENDS Pack

Leaf(size, signed) == [is |-> "leaf", size |-> size, signed |-> signed,
                       order |-> None, format |-> None]
Byte  == Leaf(1, TRUE)
Short2 == Leaf(2, FALSE)
Of(s)      == [is |-> "struct",  name |-> s]
Typedef(t) == [is |-> "typedef", name |-> t]

Decl(id, offset, item) ==
  [id |-> id, offset |-> offset, item |-> item, dims |-> << >>, open |-> FALSE,
   pointer |-> FALSE, bits |-> NoBits, order |-> None, format |-> None, dim |-> NoDim]
Dims(d, dims) == [d EXCEPT !.dims = dims, !.open = dims[1] = 0]
Bits(d, size, pos, bits) == [d EXCEPT !.bits = [size |-> size, pos |-> pos, bits |-> bits]]

Mem(type, d)    == [type |-> type, decl |-> d, inlined |-> FALSE]
Unnamed(s, off) == [type |-> Of(s), decl |-> Decl("", off, 0), inlined |-> TRUE]
Def(size, tag, members) ==
  [size |-> size, order |-> tag, format |-> None, defined |-> TRUE, members |-> members]

ByMember(id) == [by |-> "member", id |-> id]
Fixed(n)     == [by |-> "fixed", n |-> n]
AsFlexible   == [by |-> "flexible"]

\* Calls with the struct A of these tables, with data and strings.
Setup(structs, typedefs, data, given, o, apart) ==
  [structs |-> structs, typedefs |-> typedefs, order |-> o, apart |-> apart,
   top |-> [type |-> Of("A"), decl |-> Decl("", 0, 0), level |-> 0],
   size |-> structs.A.size, data |-> data, given |-> given]
With(T, typedefs, datas, givens, orders, apart) ==
  {Setup(t, typedefs, d, g, o, apart) : t \in T, d \in datas, g \in givens, o \in orders}

Upto(n) == [i \in 1 .. n |-> i]
NoTypedefs == [T |-> [type |-> Byte, decl |-> Decl("T", 0, 1)]]
Tags == {None, "BE", "LE"}

\* A ByteOrder tag on a member, its struct, and the typedef and the enum inside.
Nested ==
  UNION {With(
    {[A |-> Def(10, None, <<Mem(Short2, Decl("a", 0, 2)),
                            Mem(Of("B"), [Decl("b", 2, 6) EXCEPT !.order = x]),
                            Mem(Short2, Decl("c", 8, 2))>>),
      B |-> Def(6, y, <<Mem(Typedef("T"), Dims(Decl("t", 0, 2), <<2>>)),
                        Mem([Short2 EXCEPT !.order = z], Decl("e", 4, 2))>>)] : x \in Tags, y \in {None, "LE"}},
    [T |-> [type |-> Short2, decl |-> [Decl("T", 0, 2) EXCEPT !.order = z]]],
    {Hash([a |-> IV(258), b |-> Hash([t |-> Array(<<IV(772), IV(1286)>>), e |-> IV(3)]), c |-> IV(1)]),
     Hash([b |-> Hash([t |-> Array(<<Undef>>)]), c |-> IV(515)]),
     Hash([b |-> IV(7), c |-> Undef])},
    {Upto(10)}, {"BE", "LE"}, TRUE) : z \in {None, "LE"}}

\* The dimension of an array is in a member before it, perhaps in a nested or an
\* unnamed struct, or it is fixed by the tag; another struct lies in between.
Dimensions ==
  With({[A |-> Def(6, None, <<n, Mem(Of("B"), Decl("b", 1, 2)),
                              Mem(Of("B"), [Dims(Decl("v", 4, 2), <<1>>) EXCEPT !.dim = dim])>>),
         B |-> Def(2, None, <<Mem(Short2, Decl("s", 0, 2))>>),
         C |-> Def(1, None, <<Mem(Byte, Decl("n", 0, 1))>>)] :
           n \in {Mem(Byte, Decl("n", 0, 1)), Unnamed("C", 0)},
           dim \in {ByMember("n"), ByMember("gone"), Fixed(2), AsFlexible}},
       NoTypedefs,
       {Hash([n |-> IV(k), b |-> Hash([s |-> IV(9)]),
              v |-> Array([i \in 1 .. 2 |-> Hash([s |-> IV(300 * i)])])]) : k \in {-1, 0, 1, 3}}
       \cup {Hash([n |-> IV(k), v |-> Array(<< >>)]) : k \in {-9, 2}}
       \cup {Hash([v |-> Array(<<Undef, Hash([s |-> IV(5)])>>)])},
       {<< >>, <<2, 0, 7>>}, {"BE"}, TRUE)

\* Structs with a dimension of their own, in one that has one, too; one that is
\* negative so that the array would end a byte before the string.
Rows ==
  LET n      == Mem(Byte, Decl("n", 0, 1))
      v(off) == Mem(Byte, [Dims(Decl("v", off, 1), <<2>>) EXCEPT !.dim = ByMember("n")])
      row(k, s) == Hash([n |-> IV(k), v |-> Array(s)])
  IN  With({[A |-> Def(9, None, <<n, Mem(Of("B"), Dims(Decl("b", 1, 3), <<2>>)), v(7)>>),
             B |-> Def(3, None, <<n, v(1)>>)]},
           NoTypedefs,
           {Hash([n |-> IV(a), b |-> Array(<<row(b, <<IV(5), IV(6)>>), row(1, <<IV(7)>>)>>), v |-> Array(<<IV(8)>>)]) :
              a \in {0, 2}, b \in {0, 1, 2}}
           \cup {row(-8, <<IV(5)>>), row(-9, <<IV(5)>>), Hash([n |-> Str(<<7>>), v |-> Array(<<IV(5)>>)]),
                 Hash([b |-> Array(<<Undef, row(-6, <<IV(4)>>), row(1, << >>)>>)])},
           {<< >>, <<2, 1, 3, 4, 2>>}, {"BE"}, TRUE)

\* Members without a declared dimension: of integers, pairs, structs, and behind
\* an array of pairs.
FlexibleTables ==
  LET n == Mem(Byte, Decl("n", 0, 1)) IN
  {[A |-> Def(2, None, <<n, m>>), B |-> Def(3, None, <<Mem(Short2, Decl("s", 0, 2)), Mem(Byte, Decl("y", 2, 1))>>)] :
     m \in {Mem(Short2, Dims(Decl("v", 2, 2), <<0>>)),
            Mem(Byte, Dims(Decl("v", 2, 1), <<0, 2>>)),
            Mem(Of("B"), Dims(Decl("v", 2, 3), <<0>>))}}
FlexibleData ==
  {Hash([n |-> IV(5), v |-> Array([i \in 1 .. k |-> e])]) :
     k \in 0 .. 2, e \in {IV(770), Array(<<IV(6), IV(7)>>), Hash([s |-> IV(1), y |-> IV(2)])}}
  \cup {Hash([n |-> IV(5)]), Hash([v |-> Undef]), Undef}
Flexibles == With(FlexibleTables, NoTypedefs, FlexibleData, {<< >>, Upto(2)}, {"LE"}, TRUE)

\* Bitfields in one unit, which know no tags, and a pointer.
Bitfields ==
  With({[A |-> Def(5, "LE", <<Mem(Leaf(2, TRUE), Bits(Decl("a", 0, 2), 2, 0, 5)),
                              Mem(Typedef("T"), Bits(Decl("b", 0, 2), 2, 5, 10)),
                              Mem(Short2, Decl("", 0, 2)),
                              Mem(Byte, [Decl("p", 2, 2) EXCEPT !.pointer = TRUE]),
                              Mem(Of("C"), Decl("u", 4, 0))>>),
         C |-> [Def(0, None, << >>) EXCEPT !.defined = FALSE]]},
       [T |-> [type |-> Short2, decl |-> [Decl("T", 0, 2) EXCEPT !.order = "LE"]]],
       {Hash([a |-> IV(a), b |-> IV(b), p |-> IV(513)]) : a \in {-16, -1, 15}, b \in {0, 700}}
       \cup {Hash([b |-> IV(600)]), Hash([u |-> IV(1)])},
       {Upto(5), <<255, 255>>}, {"BE", "LE"}, TRUE)

\* Arrays of bytes as strings, of declared, open and tagged dimensions, and
\* an enum and a struct with a format.
Formats ==
  LET v(dims) == Dims(Decl("v", 1, 1), dims) IN
  With({[A |-> Def(4, None, <<Mem(Byte, Decl("n", 0, 1)),
                              Mem(Byte, [d EXCEPT !.format = f])>>)] :
          f \in {"Binary", "String"},
          d \in {v(<<3>>), [v(<<3>>) EXCEPT !.dim = ByMember("n")],
                 [v(<<1, 2>>) EXCEPT !.dim = AsFlexible], v(<<0, 2>>)}}
       \cup {[A |-> Def(4, "LE", <<Mem(Byte, Decl("n", 0, 1)),
                                   Mem(t, [Decl("v", 1, 3) EXCEPT !.order = "BE"])>>),
              B |-> [Def(3, "BE", << >>) EXCEPT !.format = "String"]] :
               t \in {Of("B"), [Leaf(3, TRUE) EXCEPT !.format = "Binary"]}},
       NoTypedefs,
       {Hash([n |-> IV(k), v |-> s]) : k \in {-2, 2, 3}, s \in {Str(<<7, 8>>), Str(<<9, 8, 7, 6, 5>>), Undef}},
       {<< >>, <<2, 77, 78, 79>>}, {"BE"}, TRUE)

\* Data that are no strings, where strings are expected.
Numbers ==
  With({[A |-> Def(3, None, <<Mem(Byte, [Dims(Decl("v", 0, 1), <<3>>) EXCEPT !.format = f])>>)] :
          f \in {"Binary", "String"}},
       NoTypedefs, {Hash([v |-> IV(7)]), Hash([v |-> Array(<<IV(7)>>)])}, {<< >>, <<1, 2>>}, {"LE"}, FALSE)

\* A union, and two members of one name.
Overlaps ==
  With({[A |-> Def(2, None, <<Mem(Short2, Decl("s", 0, 2)),
                              Mem(Byte, [Dims(Decl("v", 0, 1), <<2>>) EXCEPT !.order = "BE"]),
                              Mem(Byte, Decl("s", 1, 1))>>)]},
       NoTypedefs,
       {Hash([s |-> IV(258)]), Hash([v |-> Array(<<IV(3)>>)]), Hash([s |-> IV(9), v |-> IV(1)])},
       {<<1>>, Upto(4)}, {"LE"}, FALSE)

\* A member expression, one with a dimension, and a typedef of an array as the type of a call.
Tops ==
  LET row == [type |-> Typedef("T"), decl |-> Dims(Decl("m", 2, 2), <<2, 2>>), level |-> 1]
      t   == [type |-> Typedef("T"), decl |-> Decl("", 0, 0), level |-> 0]
      v   == [type |-> Typedef("T"), decl |-> [Dims(Decl("v", 2, 2), <<2>>) EXCEPT !.dim = ByMember("n")],
              level |-> 0]
  IN  {[s EXCEPT !.top = p.top, !.size = p.size] :
         s \in With({[A |-> Def(10, None, << >>)]},
                    [T |-> [type |-> Byte, decl |-> [Dims(Decl("T", 0, 1), <<2>>) EXCEPT !.order = "LE"]]],
                    {Array(<<Array(<<IV(1), IV(2)>>), IV(-3)>>), Array(<<IV(4)>>)},
                    {<< >>, Upto(9)}, {"BE"}, TRUE),
         p \in {[top |-> row, size |-> 4], [top |-> t, size |-> 2], [top |-> v, size |-> 4]}}

AllSetups == Nested \cup Dimensions \cup Rows \cup Flexibles \cup Bitfields \cup Formats
             \cup Overlaps \cup Numbers \cup Tops

\* The data, and what is in them, which is nested three deep.
Parts(v) ==
  CASE v.is = "array" -> {v.elems[i] : i \in DOMAIN v.elems}
    [] v.is = "hash"  -> {v.keys[id] : id \in DOMAIN v.keys}
    [] OTHER -> {}
Inside(V) == V \cup UNION {Parts(v) : v \in V}
AllData == Inside(Inside(Inside({s.data : s \in AllSetups}))) \cup {Undef}

\* One digit.
AllText == [v \in AllData |-> <<55>>]

-----------------------------------------------------------------------------
(* What pack promises about the data, in terms of what unpack returns: the *)
(* members that there are data for have the value they were given, and all *)
(* others the value they had.                                              *)

\* Two strings are the same as far as both go.
SameStart(s, t) == \A i \in DOMAIN s \cap DOMAIN t : s[i] = t[i]

\* What the data sv have for an element or a member.
Elem(sv, i) == IF sv.is = "array" /\ i \in DOMAIN sv.elems THEN sv.elems[i] ELSE Undef
Key(sv, id) == IF sv.is = "hash" /\ id \in DOMAIN sv.keys THEN sv.keys[id] ELSE Undef

\* The value `new' is `old' with the data sv put over it.  Data of a kind that
\* does not fit the type are ignored.  The string may have grown where nothing
\* was before, and an array may have another number of elements now.  A packed
\* string is compared as far as it goes: the code leaves what is behind it in
\* place, and writes no terminating zero.
RECURSIVE Overlays(_, _, _)
Overlays(sv, old, new) ==
  CASE sv.is \in {"int", "string"} /\ new.is = "int" -> new = IV(SvIV(sv))
    [] sv.is = "string" /\ new.is = "string" -> SameStart(sv.chars, new.chars)
    [] new.is = "array" /\ old.is \in {"array", "undef"} ->
         \A i \in DOMAIN new.elems : Overlays(Elem(sv, i), Elem(old, i), new.elems[i])
    [] new.is = "hash" /\ old.is \in {"hash", "undef"} ->
         \A id \in DOMAIN new.keys : Overlays(Key(sv, id), Key(old, id), new.keys[id])
    [] OTHER ->
         \/ old = Undef \/ new = old
         \/ old.is = "string" /\ new.is = "string" /\ SameStart(old.chars, new.chars)

\* The values at the bottom of nested arrays.
RECURSIVE Leaves(_)
Leaves(v) == IF v.is = "array" THEN UNION {Leaves(v.elems[i]) : i \in DOMAIN v.elems} ELSE {v}

\* The hash h of the struct of that name, and those in it, have the elements that
\* their own members say.
RECURSIVE Counted(_, _)
Counted(name, h) ==
  h.is = "hash" => \A i \in DOMAIN setup.structs[name].members :
    LET m == setup.structs[name].members[i]
        d == m.decl
        v == Under(h, d.id)
        n == Under(h, d.dim.id)
    IN  IF m.inlined THEN Counted(m.type.name, h)
        ELSE /\ d.dim.by = "member" /\ v.is = "array" =>
                  Len(v.elems) = IF n.is = "int" THEN Max({0, n.val}) ELSE 0
             /\ m.type.is = "struct" /\ ~d.pointer =>
                  \A w \in Leaves(v) : Counted(m.type.name, w)

\* An array whose dimension is in another member has as many elements as that
\* member of the same struct says, in every struct that unpack returns: in nested
\* ones, the elements of an array, and those that the string ends in, and not as
\* many as the member of that name of a struct around it (dimension.c:284, with
\* PACK->parent of pack.c:1413).
OwnDimension ==
  mode = "done" /\ setup.top.type.is = "struct" =>
    \A i \in DOMAIN results : \A h \in Leaves(results[i]) : Counted(setup.top.type.name, h)

\* pack with three arguments changes the members it is given data for, and no
\* others, through nested and unnamed structs, typedefs, arrays of any kind,
\* bitfields that share a unit and byte order tags: what unpack returns for the
\* result is what it returned for the string, with the data put over it.  Where
\* members lie in the same place this cannot be (pack.c:782 and 1352).
PutsDataOver ==
  mode = "done" /\ string = packed /\ setup.apart =>
    Overlays(setup.data, before, results[Len(results)])

=============================================================================
