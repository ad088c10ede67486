------------------------------ MODULE MCLayout ------------------------------
(***************************************************************************)
(* Type tables for Layout: an outer struct A whose members may be an inner *)
(* struct or union B, with bitfields before, behind and inside of it, and  *)
(* a few tables of three levels.                                           *)
(***************************************************************************)
EXTENDS Layout

Plain(size, align) == [kind |-> "plain", size |-> size, align |-> align,
                       bits |-> 0, of |-> "", count |-> 1]
Bit(width, size)   == [kind |-> "bits", size |-> size, align |-> size,
                       bits |-> width, of |-> "", count |-> 1]
Comp(s, n)         == [kind |-> "comp", size |-> 0, align |-> 0,
                       bits |-> 0, of |-> s, count |-> n]
Unnamed(s)         == [Comp(s, 1) EXCEPT !.kind = "unnamed"]

Def(kind, pack, members) ==
  [kind |-> kind, pack |-> pack, complete |-> TRUE, members |-> members]

\* Declared, never defined.
Undefined == [kind |-> "struct", pack |-> 0, complete |-> FALSE, members |-> << >>]

SeqsUpTo(S, n) == UNION {[1 .. k -> S] : k \in 1 .. n}

Inner == {Def(k, 0, m) : k \in {"struct", "union"},
                         m \in SeqsUpTo({Plain(5, 1), Plain(4, 4), Bit(3, 4)}, 2)}

OuterMembers == {Plain(1, 1), Bit(3, 4), Bit(7, 1), Bit(0, 2), Bit(30, 4)}

\* One member of A is B, or an array of two, or B without a declarator.
WithInner(T) == UNION {{[b EXCEPT ![i] = c] : i \in DOMAIN b,
                                              c \in {Comp("B", 2), Unnamed("B")}} : b \in T}

Deep ==
  {[A |-> Def("struct", p, <<Bit(3, 4), Comp("B", 1), Bit(5, 4)>>),
    B |-> Def("struct", q, <<Plain(1, 1), m, Comp("C", 1), Bit(9, 4)>>),
    C |-> Def(k, r, <<Bit(4, 4), Plain(2, 2)>>)] :
      p \in {0, 2}, q \in {0, 1}, r \in {0, 1}, k \in {"struct", "union"},
      m \in {Plain(4, 4), Bit(11, 2)}}
  \cup {[A |-> Def("struct", 0, <<Plain(1, 1), Comp("B", 3), Bit(3, 4)>>), B |-> Undefined]}

\* The tables T, with an engine and the options.
With(T, class, alignment, compound, order) ==
  {[defs |-> d, class |-> class, alignment |-> alignment,
    compound |-> compound, order |-> order] : d \in T}

NestedTables ==
  {[A |-> Def("struct", 0, a), B |-> b] :
     a \in WithInner(SeqsUpTo(OuterMembers, 3)), b \in Inner}

NestedSetups == With(NestedTables, "Generic", 4, 1, "BE")

\* Two structs that contain each other, which the parser lets pass, in deep
\* tables.
DeepTables ==
  Deep \cup
  {[A |-> Def("struct", p, <<Bit(3, 4), Comp("B", 1), Plain(4, 4)>>),
    B |-> Def(k, q, <<Plain(1, 1), Comp("A", 1), Bit(5, 4)>>)] :
      p \in {0, 2}, q \in {0, 1}, k \in {"struct", "union"}}

\* With #pragma pack in force for one struct or the other, and a bitfield that
\* is wider than its type.
PackedTables ==
  {[A |-> Def("struct", p, a), B |-> Def("struct", q, b)] :
     p \in {0, 2}, q \in {0, 1},
     a \in WithInner(SeqsUpTo({Plain(1, 1), Bit(3, 4), Bit(9, 2), Bit(30, 4)}, 3)),
     b \in SeqsUpTo({Bit(7, 2), Bit(9, 1)}, 2)}

\* Bitfields up to the width of a block.
SimpleTables ==
  {[A |-> Def("struct", 0, a), B |-> Def("struct", 0, b)] :
     a \in WithInner(SeqsUpTo({Plain(2, 2), Bit(0, 4), Bit(5, 4), Bit(32, 4)}, 3)),
     b \in SeqsUpTo({Plain(1, 1), Bit(30, 4)}, 2)}

\* Unions of bitfields and other members.
UnionTables ==
  {[A |-> Def("union", 0, a)] :
     a \in SeqsUpTo({Plain(1, 1), Plain(8, 8), Plain(10, 1), Bit(3, 4), Bit(30, 4)}, 3)}

AllSetups ==
  NestedSetups
  \cup With(DeepTables, "Generic", 8, 1, "LE")
  \cup With(DeepTables, "Generic", 4, 2, "LE")
  \cup With(UnionTables, "Generic", 4, 1, "LE")
  \cup With(PackedTables, "Microsoft", 8, 1, "LE")
  \cup With(SimpleTables, "Simple", 8, 1, "BE")

=============================================================================
