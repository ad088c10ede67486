------------------------------- MODULE MCTags -------------------------------
(***************************************************************************)
(* Types to ask Member about, and types to tag.  The expressions tagged    *)
(* are looked up by Member.                                                *)
(***************************************************************************)
EXTENDS Member, Tags, TLC

Plain      == [is |-> "basic"]
Of(s)      == [is |-> "struct", name |-> s]
Typedef(t) == [is |-> "typedef", name |-> t]

Decl(id, offset, item) ==
  [id |-> id, offset |-> offset, size |-> item, item |-> item, dims |-> << >>, open |-> FALSE,
   pointer |-> FALSE, bitfield |-> FALSE]
Array(d, dims) == [d EXCEPT !.dims = dims, !.size = d.item * Product(dims)]
Open(d, dims)  == [d EXCEPT !.dims = <<0>> \o dims, !.size = 0, !.open = TRUE]
Pointer(d)     == [d EXCEPT !.pointer = TRUE]

\* A declaration with one declarator, and with two of a type.
Mem(type, d)       == [type |-> type, offset |-> d.offset, size |-> d.size, ds |-> <<d>>]
Both(type, d, e)   == [type |-> type, offset |-> d.offset, size |-> e.offset + e.size - d.offset,
                       ds |-> <<d, e>>]
InUnion(type, d, e) == [type |-> type, offset |-> 0, size |-> IF d.size > e.size THEN d.size ELSE e.size,
                       ds |-> <<d, e>>]
Unnam(type, offset, size) == [type |-> type, offset |-> offset, size |-> size, ds |-> << >>]
Struct(size, decls) == [union |-> FALSE, defined |-> TRUE, size |-> size, decls |-> decls]
Union(size, decls)  == [union |-> TRUE, defined |-> TRUE, size |-> size, decls |-> decls]
Def(type, d)       == [type |-> type, decl |-> d]

\* Arrays of structs through typedefs, with padding in them and behind them.
InArrays ==
  [structs  |-> [A |-> Struct(28, <<Mem(Plain, Decl("a", 0, 1)),
                                    Mem(Typedef("T"), Array(Decl("t", 4, 8), <<2>>)),
                                    Mem(Of("B"), Pointer(Decl("p", 20, 4))),
                                    Mem(Plain, Open(Decl("f", 24, 2), <<2>>))>>),
                 B |-> Struct(4, <<Mem(Plain, Decl("x", 0, 1)),
                                   Mem(Plain, Decl("y", 2, 2))>>)],
   typedefs |-> [T |-> Def(Typedef("U"), Array(Decl("T", -1, 4), <<2>>)),
                 U |-> Def(Of("B"), Decl("U", -1, 4))]]

\* Unnamed structs and unions, one inside the other.
Unnameds ==
  [structs  |-> [A |-> Struct(12, <<Mem(Plain, Decl("a", 0, 2)),
                                    Unnam(Typedef("V"), 4, 6),
                                    Mem(Plain, Decl("z", 10, 1))>>),
                 U |-> Union(6, <<Unnam(Of("S"), 0, 4),
                                  InUnion(Plain, Array(Decl("b", 0, 2), <<3>>), Decl("d", 0, 1))>>),
                 S |-> Struct(4, <<Mem(Plain, Decl("x", 0, 1)), Mem(Plain, Decl("y", 2, 2))>>)],
   typedefs |-> [V |-> Def(Typedef("W"), Decl("V", -1, 6)),
                 W |-> Def(Of("U"), Decl("W", -1, 6))]]

\* Members of a union that pad, cover and hit an offset, in all orders.
Ranked ==
  LET ms == {Mem(Of("P"), Decl("p", 0, 4)), Mem(Plain, Array(Decl("o", 0, 4), <<2>>)),
             Mem(Typedef("H"), Decl("h", 0, 4)), Unnam(Of("Q"), 0, 3)}
  IN  {[structs |-> [A |-> Struct(12, <<Mem(Of("R"), Decl("r", 0, 8)), Both(Plain, Decl("e", 8, 1), Decl("g", 10, 2))>>),
                     R |-> Union(8, s),
                     P |-> Struct(4, <<Mem(Plain, Decl("v", 0, 1)), Mem(Plain, Decl("w", 2, 1))>>),
                     Q |-> Struct(3, <<Mem(Plain, Decl("q", 0, 1)), Mem(Plain, Decl("r", 2, 1))>>)],
        typedefs |-> [H |-> Def(Plain, Array(Decl("H", -1, 1), <<2, 2>>))]] : s \in SetToSeqs(ms)}

\* A struct that is a type of its own, and a member of another.
Tagged ==
  [structs  |-> [A |-> Struct(10, <<Mem(Of("B"), Decl("b", 0, 8)), Mem(Plain, Decl("z", 8, 1))>>),
                 B |-> Struct(8, <<Mem(Plain, Decl("n", 0, 1)),
                                   Mem(Plain, Array(Decl("v", 2, 2), <<2>>)),
                                   Mem(Plain, Decl("w", 6, 1))>>)],
   typedefs |-> [T |-> Def(Plain, Decl("T", -1, 1))]]

MCTables == {InArrays, Unnameds, Tagged} \cup Ranked

-----------------------------------------------------------------------------
(* Expressions and calls.                                                  *)

MCPlaces  == {"B", "B.v", "int"}
MCExprs   == {"B", "B.v", "A.b.v", "int"}
MCMembers == {"n", "w"}

Dot(x) == <<Sym("."), Id(x)>>
Looked == [B |-> [type |-> Of("B"), expr |-> << >>, place |-> "B"]]
          @@ ("B.v" :> [type |-> Of("B"), expr |-> Dot("v"), place |-> "B.v"])
          @@ ("A.b.v" :> [type |-> Of("A"), expr |-> Dot("b") \o Dot("v"), place |-> "B.v"])

\* get_member_info for the expressions, of which "int" is a basic type.
Look(e) ==
  IF e = "int" THEN [place |-> "int", kind |-> "basic", bitfield |-> FALSE, usable |-> {}]
  ELSE LET m == get_member_info(Looked[e].type, Looked[e].expr)
       IN  [place |-> Looked[e].place, kind |-> Kind(m),
            bitfield |-> m.decl # NoDecl /\ m.decl.bitfield,
            usable |-> {x \in MCMembers : Usable(m, <<Id(x)>>)}]

Code(f) == [is |-> "code", sub |-> f]
List(f) == [is |-> "list", sub |-> f]
Bad     == [is |-> "bad"]
None    == [is |-> "none"]
HookHash(h) == [is |-> "hash", hooks |-> h]
String(x) == [is |-> "string", string |-> x]
Member(e) == [is |-> "member", expr |-> e]

Call(e, name, val) == [expr |-> e, name |-> name, val |-> val]

\* Two hooks at a time, one of them removed, an unknown one and one that is no
\* hook; the dimension from a member, one behind the array, and a hook.
MCCalls ==
  {Call("B", "Hooks", v) :
     v \in {HookHash([pack |-> Code("f")]), HookHash([pack |-> Undef]),
            HookHash([pack |-> List("f"), unpack |-> Code("g")]),
            HookHash([pack |-> Code("g"), other |-> Code("f")]),
            HookHash([pack |-> Code("g"), unpack |-> Bad]), Bad, Undef}}
  \cup {Call("A.b.v", "Dimension", v) : v \in {Member("n"), Member("w"), List("f")}}
  \cup {Call("B.v", "Dimension", v) : v \in {[is |-> "fixed", n |-> -1], Undef}}
  \cup {Call("B.v", "Format", v) : v \in {String("other")}}
  \cup {Call("int", "ByteOrder", String("BigEndian")), Call("B", "Dimension", List("f"))}

\* What those of them do that C.pm and tests/203_warnings.t allow.
MCChanges ==
  {[place |-> "B", name |-> "Hooks", to |-> v] :
     v \in {[pack |-> Code("f")], [pack |-> None],
            [pack |-> List("f"), unpack |-> Code("g")]}}
  \cup {[place |-> "B.v", name |-> "Dimension", to |-> v] : v \in {Member("n"), List("f")}}
  \cup {[place |-> "int", name |-> "ByteOrder", to |-> String("BigEndian")]}

\* The questions of Member read no tags and leave nothing behind: one is asked
\* of each of the other types, and of the types to tag none is.
MCInit == InitMember /\ where = (IF types = Tagged THEN [e \in Exprs |-> Look(e)]
                                 ELSE [e \in Exprs |-> Look("int")]) /\ Init

MCNext == \/ types = Tagged /\ Next /\ UNCHANGED <<types, asked>>
          \/ types # Tagged /\ asked = NotAsked /\ NextMember /\ UNCHANGED vars

MCSpec == MCInit /\ [][MCNext]_<<types, asked, vars>>

TagSymmetry == Permutations(Objs) \cup Permutations(Arrays)

=============================================================================
