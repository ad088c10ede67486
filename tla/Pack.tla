-------------------------------- MODULE Pack --------------------------------
(***************************************************************************)
(* pack and unpack: cbc/pack.c and xsubs/pack.xs.                          *)
(*                                                                         *)
(* The functions of pack.c call each other along the type; here `todo' is  *)
(* the stack of what is still to be done, its head the call that runs, and *)
(* an action is a call up to those it makes.  A behaviour unpacks a string *)
(* (`before'), packs data into it as the method with three arguments does, *)
(* cuts off an end of the result and unpacks that, in scalar or in list    *)
(* context.                                                                *)
(*                                                                         *)
(* A Perl value is a record that says what it is: undef, an integer, a     *)
(* string, an array or a hash.  A string is one that Perl takes for zero,  *)
(* not a number or the name of an enumerator.  Hooks, warnings and floats  *)
(* are left out.                                                           *)
(***************************************************************************)
EXTENDS ByteOrder, FiniteSetsExt, TLC

CONSTANTS
  Setups,     \* the types, the call and its data: see SetupsAssumption
  Data,       \* the Perl values that are packed, with what they hold
  Text,       \* what Perl prints for such a value that is no string
  Word,       \* 2^w for a machine with w-bit longs
  Memory,     \* the bytes, and the elements of an array, that Perl can have
  PtrSize     \* the option PointerSize

VARIABLES
  setup,      \* the element of Setups this behaviour is about
  mode,       \* "before", "pack", "after", then "done"; or who died, and of what
  todo,       \* the calls under way
  results,    \* values unpacked so far; the containers under way at the end
  before,     \* history: what the first unpack returned
  packed,     \* history: the string that pack left
  string,     \* the bytes of the string, SvCUR of them
  len,        \* PACKLEN
  order,      \* PACK->order
  parent,     \* PACK->parent
  reach       \* history: how far the call has read or written

vars == <<setup, mode, todo, results, before, packed, string, len, order, parent, reach>>

-----------------------------------------------------------------------------
(* Values.                                                                 *)

Undef     == [is |-> "undef"]
IV(v)     == [is |-> "int",    val   |-> v]
Str(s)    == [is |-> "string", chars |-> s]
Array(s)  == [is |-> "array",  elems |-> s]
Hash(f)   == [is |-> "hash",   keys  |-> f]

-----------------------------------------------------------------------------
(* Declarators.  A declarator [id, offset, item, dims, open, pointer,      *)
(* bits, order, format, dim] has the bits of a bitfield, the order of a    *)
(* ByteOrder tag, a Format and a Dimension tag; `open' says that the first *)
(* of dims is [], which the code has as zero.                              *)

None     == "none"
NoBits   == [bits |-> 0, pos |-> 0, size |-> 0]
NoDim    == [by |-> None]

\* The bytes of what d declares behind its first n dimensions.
ItemSize(d, n) ==
  LET size[i \in 0 .. Len(d.dims)] ==
        IF i = 0 THEN d.item ELSE size[i - 1] * d.dims[Len(d.dims) + 1 - i]
  IN  size[Len(d.dims) - n]

\* pDecl->size.
DeclSize(d) == ItemSize(d, 0)

\* dimension_from_member and sv_to_dimension: what cannot be found, and what
\* is no number, counts as zero.
FromMember(id) ==
  IF parent.is = "hash" /\ id \in DOMAIN parent.keys /\ parent.keys[id].is = "int"
  THEN parent.keys[id].val ELSE 0

\* dimtag_eval.
dimtag_eval(tag, avail) ==
  CASE tag.by = "flexible" -> avail
    [] tag.by = "fixed"    -> tag.n
    [] tag.by = "member"   -> FromMember(tag.id)

-----------------------------------------------------------------------------
(* What there is to pack: the values, and the types that the parser, the   *)
(* layout and the tags leave.                                              *)

Octets == 0 .. 255

ASSUME MachineAssumption ==
  /\ PtrSize \in Nat \ {0} /\ Memory \in Nat /\ Word \in Nat
  /\ PtrSize <= Memory /\ 4 * Memory < Word

ASSUME DataAssumption ==
  /\ Undef \in Data
  /\ \A v \in Data :
       /\ v.is \in {"undef", "int", "string", "array", "hash"}
       /\ v.is = "undef"  => v = Undef
       /\ v.is = "int"    => v.val \in Int
       /\ v.is = "string" => v.chars \in Seq(Octets) /\ Len(v.chars) <= Memory
       /\ v.is = "array"  => v.elems \in Seq(Data) /\ Len(v.elems) <= Memory
       /\ v.is = "hash"   => \A id \in DOMAIN v.keys : v.keys[id] \in Data
       /\ v.is \in {"int", "array", "hash"} =>
            Text[v] \in Seq(Octets) /\ Len(Text[v]) <= Memory

IsTags(tags) ==
  tags.order \in Orders \cup {None} /\ tags.format \in {None, "Binary", "String"}

IsDim(tag) ==
  \/ tag = NoDim
  \/ tag.by = "flexible" \/ tag.by = "member"
  \/ tag.by = "fixed" /\ tag.n \in Nat

IsType(s, t) ==
  /\ t.is \in {"leaf", "struct", "typedef"}
  /\ t.is = "leaf"    => t.size \in 1 .. Memory /\ t.signed \in BOOLEAN /\ IsTags(t)
  /\ t.is = "struct"  => t.name \in DOMAIN s.structs
  /\ t.is = "typedef" => t.name \in DOMAIN s.typedefs

\* get_type_info, of one object of type t that d declares.
SizeOf(s, t, d) ==
  CASE d.pointer -> PtrSize
    [] ~d.pointer /\ t.is = "leaf"    -> t.size
    [] ~d.pointer /\ t.is = "struct"  -> s.structs[t.name].size
    [] ~d.pointer /\ t.is = "typedef" -> DeclSize(s.typedefs[t.name].decl)

\* Only the first dimension can be open; only an array has a Dimension tag, and
\* prepare_pack_format and pack_type assert that its elements have a size.  The
\* positive products that GROW_BUFFER is given for an array do not overflow, even
\* with a position and the NUL added.
IsArrayOf(d) ==
  /\ d.item > 0 /\ \A i \in 2 .. Len(d.dims) : d.dims[i] > 0
  /\ \A n \in 0 .. Len(d.dims) : ItemSize(d, n) <= Memory
  /\ Memory * ItemSize(d, 1) + Memory + 1 < Word
  /\ d.dim.by = "fixed" => d.dim.n * ItemSize(d, 1) + Memory + 1 < Word
  /\ d.dim.by = "member" =>
       \A v \in Data : v.is = "int" => v.val * ItemSize(d, 1) + Memory + 1 < Word

IsDeclared(s, t, d) ==
  /\ IsType(s, t) /\ IsTags(d) /\ IsDim(d.dim)
  /\ d.open \in BOOLEAN /\ d.pointer \in BOOLEAN
  /\ d.item \in 0 .. Memory /\ d.dims \in Seq(Nat)
  /\ d.dims = << >> => d.dim = NoDim
  /\ d.dims # << >> => d.item = SizeOf(s, t, d) /\ IsArrayOf(d)

\* The typedefs that lead to an integer, the largest set of its kind.
Integral(s) ==
  UNION {N \in SUBSET DOMAIN s.typedefs :
           \A n \in N : LET def == s.typedefs[n] IN
             /\ def.decl.dims = << >> /\ ~def.decl.pointer /\ def.decl.format = None
             /\ \/ def.type.is = "leaf"
                \/ def.type.is = "typedef" /\ def.type.name \in N}

\* A bitfield is an integer, as pack_type asserts.
IsBits(s, t, d, b) ==
  /\ b.bits \in Nat /\ b.pos \in Nat /\ b.size \in 0 .. Memory
  /\ b.bits > 0 =>
       /\ d.dims = << >> /\ ~d.pointer /\ d.format = None
       /\ \/ t.is = "leaf"
          \/ t.is = "typedef" /\ t.name \in Integral(s)

\* The bytes of an object that d declares, behind its first n dimensions.
Extent(s, t, d, n, bits) ==
  CASE bits.bits > 0 -> bits.size
    [] bits.bits = 0 /\ n >= Len(d.dims) -> SizeOf(s, t, d)
    [] bits.bits = 0 /\ n < Len(d.dims)  -> ItemSize(d, n)

\* A member lies in its struct.
IsMember(s, size, m) ==
  /\ m.inlined \in BOOLEAN /\ m.decl.offset \in Nat
  /\ m.inlined =>
       /\ m.type.is = "struct" /\ m.type.name \in DOMAIN s.structs
       /\ m.decl.offset + s.structs[m.type.name].size <= size
  /\ ~m.inlined =>
       /\ IsDeclared(s, m.type, m.decl) /\ IsBits(s, m.type, m.decl, m.decl.bits)
       /\ m.decl.offset + Extent(s, m.type, m.decl, 0, m.decl.bits) <= size

IsStruct(s, def) ==
  /\ def.defined \in BOOLEAN /\ IsTags(def) /\ def.size \in 0 .. Memory
  /\ def.members \in Seq({def.members[i] : i \in DOMAIN def.members})
  /\ \A i \in DOMAIN def.members : IsMember(s, def.size, def.members[i])

\* dimtag_parse takes the name of a member only within a struct.
IsTypedef(s, def) ==
  /\ IsDeclared(s, def.type, def.decl) /\ def.decl.dim.by # "member"
  /\ def.decl.item = SizeOf(s, def.type, def.decl)

ASSUME SetupsAssumption ==
  \A s \in Setups :
    /\ \A n \in DOMAIN s.structs  : IsStruct(s, s.structs[n])
    /\ \A n \in DOMAIN s.typedefs : IsTypedef(s, s.typedefs[n])
    /\ IsDeclared(s, s.top.type, s.top.decl)
    /\ s.top.level \in 0 .. Len(s.top.decl.dims)
    /\ Extent(s, s.top.type, s.top.decl, s.top.level, NoBits) <= Memory
    /\ s.order \in Orders /\ s.size \in 0 .. Memory
    /\ s.data \in Data
    /\ s.given \in Seq(Octets) /\ Len(s.given) <= Memory

-----------------------------------------------------------------------------
(* The stack of calls.                                                     *)

\* pack_type or unpack_type: level is its argument `dimension', sv what is
\* to be packed.  History: `want' is the byte order of the innermost tag
\* around it.
Type(type, decl, level, bits, at, sv, want) ==
  [do |-> "type", type |-> type, decl |-> decl, level |-> level,
   bits |-> bits, at |-> at, sv |-> sv, want |-> want]

\* pack_struct or unpack_struct; when inlined, unpack_struct is given a hash.
Struct(name, inlined, at, sv, want) ==
  [do |-> "struct", name |-> name, inlined |-> inlined, at |-> at, sv |-> sv, want |-> want]

\* One turn of the loop of unpack_struct.
Member(m, at, want) == [do |-> "member", m |-> m, at |-> at, want |-> want]

SetOrder(o)  == [do |-> "order", order |-> o]      \* RESTORE_BYTEORDER, pk_unpack
SetParent(p) == [do |-> "parent", parent |-> p]    \* PACK->parent = p
StoreKey(id) == [do |-> "store", id |-> id]        \* hv_store
StoreElem    == [do |-> "append"]                  \* av_store

Unpacking == mode \in {"before", "after"}
Running(do) == todo # << >> /\ Head(todo).do = do

\* A mutant of Calls: the byte order is not restored.
Calls_keepsOrder(items) == todo' = items \o Tail(todo)

\* The call at the head makes these calls; what it set is restored behind them.
Calls(items) == todo' = items \o <<SetOrder(order)>> \o Tail(todo)

\* SET_BYTEORDER.
Tagged(tag, o) == IF tag = None THEN o ELSE tag

Push(v) == results' = <<v>> \o results

OutOfMemory ==
  /\ mode' = IF Unpacking THEN "unpack died" ELSE "pack died"
  /\ todo' = << >>
  /\ UNCHANGED <<setup, results, before, packed, string, len, order, parent, reach>>

\* Zero runs from the end of what is known of the string, which has the bytes of
\* the struct with the dimension at least, through all of the memory, and no
\* process survives that; the call it happens to is still there.
Overrun ==
  /\ mode' = "pack overran"
  /\ reach' = Word
  /\ UNCHANGED <<setup, todo, results, before, packed, string, len, order, parent>>

-----------------------------------------------------------------------------
(* The buffer.                                                             *)

Zeros(n) == [i \in 1 .. n |-> 0]

\* n bytes of s at a position; what is behind its end is not ours to read, see
\* InBuffer.
At(s, at, n) == [i \in 1 .. n |-> IF at + i <= Len(s) THEN s[at + i] ELSE 0]

\* GROW_BUFFER computes in unsigned long.  It knows `len' bytes of the string,
\* asks SvGROW for what is required and a NUL, makes the string as long as is
\* required, and fills it up with zeros.
Required(at, size) == (at + size) % Word
Asked(at, size) == (Required(at, size) + 1) % Word
Grown(at, size) ==
  IF Required(at, size) > len
  THEN SubSeq(string, 1, len) \o Zeros(Required(at, size) - len)
  ELSE string

\* It does not come back: there is not so much memory, or SvGROW is asked for
\* nothing, has enough of it, and what is then filled up has no end.
Exhausted(at, size) == Required(at, size) > len /\ Asked(at, size) \notin 1 .. Memory + 1
Fail(at, size) == IF Asked(at, size) = 0 THEN Overrun ELSE OutOfMemory

\* GROW_BUFFER(size), then the bytes b are written at the position.
Write(at, size, b) ==
  LET s == Grown(at, size)
  IN  /\ string' = [i \in 1 .. Len(s) |-> IF i - at \in DOMAIN b THEN b[i - at] ELSE s[i]]
      /\ len' = Max({len, Required(at, size)})
      /\ reach' = IF b = << >> THEN reach ELSE Max({reach, at + Len(b)})

\* A mutant of Short: only the first byte is checked.
Short_firstByte(at, size) == at + 1 > len

\* CHECK_BUFFER fails.
Short(at, size) == at + size > len

\* newSVpvn and its like: what is returned for the bytes up to `to'.
Read(to, v) == Push(v) /\ reach' = Max({reach, to})

-----------------------------------------------------------------------------
(* What both directions do alike.                                          *)

IsFormat(t)  == t.level = 0 /\ t.decl.format # None
IsArray(t)   == ~IsFormat(t) /\ t.level < Len(t.decl.dims)
IsScalar(t)  == ~IsFormat(t) /\ ~IsArray(t)
IsLeaf(t)    == IsScalar(t) /\ (t.decl.pointer \/ t.type.is = "leaf")

\* The byte order from here on, when it was o: with the tag of the declarator.
InDecl(t, o)   == IF t.level = 0 THEN Tagged(t.decl.order, o) ELSE o
InStruct(c, o) == IF c.inlined THEN o ELSE Tagged(setup.structs[c.name].order, o)

\* An enum has tags; a basic type and a pointer have none.
LeafTag(t)  == IF t.decl.pointer THEN None ELSE t.type.order
LeafSize(t) == CASE t.bits.bits > 0 -> t.bits.size
                 [] t.bits.bits = 0 /\ t.decl.pointer  -> PtrSize
                 [] t.bits.bits = 0 /\ ~t.decl.pointer -> t.type.size
LeafFormat(t) == IF t.decl.pointer THEN None ELSE t.type.format

\* SF_INT_ARGS: a bitfield has the byte order of the object.
LeafOrder(t) == IF t.bits.bits > 0 THEN setup.order
                ELSE Tagged(LeafTag(t), InDecl(t, order))

\* The elements of an array, when there is data for so many.
Counts(t) == t.level = 0 /\ (t.decl.dim # NoDim \/ t.decl.open)
Elements(t, avail) ==
  CASE ~Counts(t)                            -> t.decl.dims[t.level + 1]
    [] Counts(t) /\ t.decl.dim # NoDim        -> dimtag_eval(t.decl.dim, avail)
    [] Counts(t) /\ t.decl.dim = NoDim        -> avail

\* prepare_pack_format; an unsigned int is narrower than a long.
Flexible(d) ==
  d.dims # << >> /\ IF d.dim # NoDim THEN d.dim.by = "flexible" ELSE DeclSize(d) = 0
FormatSize(d) ==
  CASE Flexible(d)                      -> ItemSize(d, 1)
    [] ~Flexible(d) /\ d.dim # NoDim     ->
         (ItemSize(d, 1) * dimtag_eval(d.dim, 0)) % (Word \div 4)
    [] ~Flexible(d) /\ d.dim = NoDim     -> DeclSize(d)

UpToNul(s) ==
  LET nul == SelectInSeq(s, LAMBDA c : c = 0)
  IN  IF nul = 0 THEN s ELSE SubSeq(s, 1, nul - 1)

\* pack_type and unpack_type follow a typedef, or come to a struct.
Follow ==
  /\ Running("type")
  /\ LET t == Head(todo) IN
     /\ IsScalar(t) /\ ~IsLeaf(t)
     /\ t.type.is = "struct" => setup.structs[t.type.name].defined
     /\ order' = InDecl(t, order)
     /\ Calls(<<IF t.type.is = "typedef"
                THEN LET def == setup.typedefs[t.type.name]
                     IN  Type(def.type, def.decl, 0, t.bits, t.at, t.sv, InDecl(t, t.want))
                ELSE Struct(t.type.name, FALSE, t.at, t.sv, InDecl(t, t.want))>>)
  /\ UNCHANGED <<setup, mode, results, before, packed, string, len, parent, reach>>

\* WARN_UNDEF_STRUCT.
SkipUndefined ==
  /\ Running("type")
  /\ LET t == Head(todo)
     IN  IsScalar(t) /\ ~IsLeaf(t) /\ t.type.is = "struct"
         /\ ~setup.structs[t.type.name].defined
  /\ IF Unpacking THEN Push(Undef) ELSE UNCHANGED results
  /\ todo' = Tail(todo)
  /\ UNCHANGED <<setup, mode, before, packed, string, len, order, parent, reach>>

RestoreOrder ==
  /\ Running("order")
  /\ order' = Head(todo).order
  /\ todo' = Tail(todo)
  /\ UNCHANGED <<setup, mode, results, before, packed, string, len, parent, reach>>

-----------------------------------------------------------------------------
(* pack.                                                                   *)

Packs(do) == mode = "pack" /\ Running(do)

\* SvPV.
Chars(sv) == CASE sv.is = "undef"  -> << >>
               [] sv.is = "string" -> sv.chars
               [] sv.is \in {"int", "array", "hash"} -> Text[sv]

\* pack_format.
PackFormat(format, size, flexible, at, sv) ==
  LET s    == Chars(sv)
      n    == IF flexible /\ format = "String" THEN Len(UpToNul(s)) + 1 ELSE Len(s)
      room == IF flexible THEN size * ((n + size - 1) \div size) ELSE size
      some == Min({n, room})
      b    == IF format = "Binary" THEN SubSeq(s, 1, some)
              ELSE [i \in 1 .. some |-> IF i <= Len(UpToNul(s)) THEN s[i] ELSE 0]
  IN  CASE flexible /\ sv = Undef -> UNCHANGED <<mode, string, len, reach>> /\ todo' = Tail(todo)
        [] ~(flexible /\ sv = Undef) /\ Exhausted(at, room) -> Fail(at, room)
        [] ~(flexible /\ sv = Undef) /\ ~Exhausted(at, room) ->
             /\ Write(at, room, IF sv = Undef THEN << >> ELSE b)
             /\ todo' = Tail(todo)
             /\ UNCHANGED mode

PackFormatTag ==
  /\ Packs("type")
  /\ LET t == Head(todo) IN
     \/ /\ IsFormat(t)
        /\ PackFormat(t.decl.format, FormatSize(t.decl), Flexible(t.decl), t.at, t.sv)
     \/ /\ IsLeaf(t) /\ LeafFormat(t) # None
        /\ PackFormat(LeafFormat(t), LeafSize(t), FALSE, t.at, t.sv)
  /\ UNCHANGED <<setup, results, before, packed, order, parent>>

\* SvIV and SvUV.
SvIV(sv) == IF sv.is = "int" THEN sv.val ELSE 0

\* pack_basic, pack_enum and pack_pointer: space is made for what is undefined
\* as well, and a reference is not stored.
PackLeaf ==
  /\ Packs("type")
  /\ LET t    == Head(todo)
         size == LeafSize(t)
         s    == Grown(t.at, size)
         was  == At(s, t.at, size)
     IN  /\ IsLeaf(t) /\ LeafFormat(t) = None
         /\ IF Exhausted(t.at, size) THEN Fail(t.at, size) ELSE
              /\ Write(t.at, size,
                       IF t.sv.is \notin {"int", "string"} THEN << >>
                       ELSE store_integer(was, t.bits.bits, t.bits.pos, LeafOrder(t), SvIV(t.sv)))
              /\ todo' = Tail(todo)
              /\ UNCHANGED mode
  /\ UNCHANGED <<setup, results, before, packed, order, parent>>

\* pack_type with an array: elements that there are no data for are skipped.
PackArray ==
  /\ Packs("type")
  /\ LET t     == Head(todo)
         size  == ItemSize(t.decl, t.level + 1)
         avail == Len(t.sv.elems)
         n     == Elements(t, avail)
     IN  /\ IsArray(t) /\ t.sv.is = "array"
         /\ IF Counts(t) /\ Exhausted(t.at, n * size) THEN Fail(t.at, n * size) ELSE
              /\ IF Counts(t) THEN Write(t.at, n * size, << >>)
                              ELSE UNCHANGED <<string, len, reach>>
              /\ Calls([i \in 1 .. Min({n, avail}) |->
                          Type(t.type, t.decl, t.level + 1, NoBits, t.at + (i - 1) * size,
                               t.sv.elems[i], InDecl(t, t.want))])
              /\ order' = InDecl(t, order)
              /\ UNCHANGED mode
  /\ UNCHANGED <<setup, results, before, packed, parent>>

\* The same with anything else: space is made for the declared elements.
PackNoArray ==
  /\ Packs("type")
  /\ LET t    == Head(todo)
         size == ItemSize(t.decl, t.level)
     IN  /\ IsArray(t) /\ t.sv.is # "array"
         /\ IF Exhausted(t.at, size) THEN Fail(t.at, size) ELSE
              Write(t.at, size, << >>) /\ todo' = Tail(todo) /\ UNCHANGED mode
  /\ UNCHANGED <<setup, results, before, packed, order, parent>>

\* A mutant of MemberCalls: a parent that is set is kept, up to the outermost.
MemberCalls_outermost(c, m, want) ==
  LET d == m.decl IN
  CASE m.inlined -> <<Struct(m.type.name, TRUE, c.at + d.offset, c.sv, want)>>
    [] ~m.inlined /\ d.id \in DOMAIN c.sv.keys ->
         <<SetParent(IF parent = Undef THEN c.sv ELSE parent),
           Type(m.type, d, 0, d.bits, c.at + d.offset, c.sv.keys[d.id], want),
           SetParent(parent)>>
    [] ~m.inlined /\ d.id \notin DOMAIN c.sv.keys -> << >>

\* The calls of pack_struct for its member m.
MemberCalls(c, m, want) ==
  LET d == m.decl IN
  CASE m.inlined -> <<Struct(m.type.name, TRUE, c.at + d.offset, c.sv, want)>>
    [] ~m.inlined /\ d.id \in DOMAIN c.sv.keys ->
         <<SetParent(c.sv),
           Type(m.type, d, 0, d.bits, c.at + d.offset, c.sv.keys[d.id], want),
           SetParent(Undef)>>
    [] ~m.inlined /\ d.id \notin DOMAIN c.sv.keys -> << >>

PackStruct ==
  /\ Packs("struct")
  /\ LET c   == Head(todo)
         def == setup.structs[c.name]
     IN  IF ~c.inlined /\ def.format # None
         THEN PackFormat(def.format, def.size, FALSE, c.at, c.sv) /\ UNCHANGED order
         ELSE /\ order' = InStruct(c, order)
              /\ Calls(IF c.sv.is # "hash" THEN << >>
                       ELSE FlattenSeq([i \in DOMAIN def.members |->
                              MemberCalls(c, def.members[i], InStruct(c, c.want))]))
              /\ UNCHANGED <<mode, string, len, reach>>
  /\ UNCHANGED <<setup, results, before, packed, parent>>

PackParent ==
  /\ Packs("parent")
  /\ parent' = Head(todo).parent
  /\ todo' = Tail(todo)
  /\ UNCHANGED <<setup, mode, results, before, packed, string, len, order, reach>>

-----------------------------------------------------------------------------
(* unpack.                                                                 *)

Unpacks(do) == Unpacking /\ Running(do)

\* unpack_format.
UnpackFormat(format, size, flexible, at) ==
  LET left == len - at
      n    == IF flexible THEN left - (left % size) ELSE size
      s    == At(string, at, n)
  IN  IF Short(at, size) THEN Push(Str(<< >>)) /\ UNCHANGED reach
      ELSE Read(at + n, Str(IF format = "Binary" THEN s ELSE UpToNul(s)))

UnpackFormatTag ==
  /\ Unpacks("type")
  /\ LET t == Head(todo) IN
     \/ /\ IsFormat(t)
        /\ UnpackFormat(t.decl.format, FormatSize(t.decl), Flexible(t.decl), t.at)
     \/ /\ IsLeaf(t) /\ LeafFormat(t) # None
        /\ UnpackFormat(LeafFormat(t), LeafSize(t), FALSE, t.at)
  /\ todo' = Tail(todo)
  /\ UNCHANGED <<setup, mode, before, packed, string, len, order, parent>>

\* unpack_basic, unpack_enum and unpack_pointer: what the string is too short
\* for is undefined.
UnpackLeaf ==
  /\ Unpacks("type")
  /\ LET t     == Head(todo)
         end   == t.at + LeafSize(t)
         v     == fetch_integer(At(string, t.at, LeafSize(t)), ~t.decl.pointer /\ t.type.signed,
                                t.bits.bits, t.bits.pos, LeafOrder(t))
     IN  /\ IsLeaf(t) /\ LeafFormat(t) = None
         /\ IF Short(t.at, LeafSize(t)) THEN Push(Undef) /\ UNCHANGED reach
                                        ELSE Read(end, IV(v))
  /\ todo' = Tail(todo)
  /\ UNCHANGED <<setup, mode, before, packed, string, len, order, parent>>

\* An unsigned long as a long.
AsLong(w) == IF 2 * w >= Word THEN w - Word ELSE w

\* unpack_type with an array: the division is one of unsigned longs.
UnpackArray ==
  /\ Unpacks("type")
  /\ LET t     == Head(todo)
         size  == ItemSize(t.decl, t.level + 1)
         avail == AsLong(((len - t.at + size - 1) % Word) \div size)
         n     == Max({0, Elements(t, avail)})
     IN  /\ IsArray(t)
         /\ IF n > Memory THEN OutOfMemory ELSE
              /\ Push(Array(<< >>))
              /\ Calls(FlattenSeq([i \in 1 .. n |->
                   <<Type(t.type, t.decl, t.level + 1, NoBits, t.at + (i - 1) * size,
                          Undef, InDecl(t, t.want)),
                     StoreElem>>]))
              /\ order' = InDecl(t, order)
              /\ UNCHANGED mode
  /\ UNCHANGED <<setup, before, packed, string, len, parent, reach>>

UnpackAppend ==
  /\ Unpacks("append")
  /\ results' = <<Array(Append(results[2].elems, results[1]))>> \o Tail(Tail(results))
  /\ todo' = Tail(todo)
  /\ UNCHANGED <<setup, mode, before, packed, string, len, order, parent, reach>>

UnpackStruct ==
  /\ Unpacks("struct")
  /\ LET c   == Head(todo)
         def == setup.structs[c.name]
     IN  IF ~c.inlined /\ def.format # None
         THEN /\ UnpackFormat(def.format, def.size, FALSE, c.at)
              /\ todo' = Tail(todo)
              /\ UNCHANGED order
         ELSE /\ IF c.inlined THEN UNCHANGED results ELSE Push(Hash(<< >>))
              /\ order' = InStruct(c, order)
              /\ Calls([i \in DOMAIN def.members |->
                          Member(def.members[i], c.at, InStruct(c, c.want))])
              /\ UNCHANGED reach
  /\ UNCHANGED <<setup, mode, before, packed, string, len, parent>>

\* A mutant of UnpackMember: the parent is the hash of the outermost struct.
UnpackMember_outermost ==
  /\ Unpacks("member")
  /\ LET c == Head(todo)
         d == c.m.decl
         h == Head(results)
     IN  IF c.m.inlined
         THEN /\ todo' = <<Struct(c.m.type.name, TRUE, c.at + d.offset, Undef, c.want)>> \o Tail(todo)
              /\ UNCHANGED parent
         ELSE IF d.id = "" \/ d.id \in DOMAIN h.keys
         THEN todo' = Tail(todo) /\ UNCHANGED parent
         ELSE /\ parent' = results[Len(results)]
              /\ todo' = <<Type(c.m.type, d, 0, d.bits, c.at + d.offset, Undef, c.want),
                           StoreKey(d.id)>> \o Tail(todo)
  /\ UNCHANGED <<setup, mode, results, before, packed, string, len, order, reach>>

\* The hash under way is the one result that is not finished yet.
UnpackMember ==
  /\ Unpacks("member")
  /\ LET c == Head(todo)
         d == c.m.decl
         h == Head(results)
     IN  IF c.m.inlined
         THEN /\ todo' = <<Struct(c.m.type.name, TRUE, c.at + d.offset, Undef, c.want)>> \o Tail(todo)
              /\ UNCHANGED parent
         ELSE IF d.id = "" \/ d.id \in DOMAIN h.keys      \* used more than once
         THEN todo' = Tail(todo) /\ UNCHANGED parent
         ELSE /\ parent' = h
              /\ todo' = <<Type(c.m.type, d, 0, d.bits, c.at + d.offset, Undef, c.want),
                           StoreKey(d.id)>> \o Tail(todo)
  /\ UNCHANGED <<setup, mode, results, before, packed, string, len, order, reach>>

\* hv_store.
Stored(h, id, v) == [k \in DOMAIN h.keys \cup {id} |-> IF k = id THEN v ELSE h.keys[k]]

UnpackStore ==
  /\ Unpacks("store")
  /\ results' = <<Hash(Stored(results[2], Head(todo).id, results[1]))>> \o Tail(Tail(results))
  /\ parent' = Undef
  /\ todo' = Tail(todo)
  /\ UNCHANGED <<setup, mode, before, packed, string, len, order, reach>>

-----------------------------------------------------------------------------
(* The methods.                                                            *)

\* pk_pack and pk_unpack for the type of the call, with the data sv.
Top(at, sv) ==
  Type(setup.top.type, setup.top.decl, setup.top.level, NoBits, at, sv, setup.order)

\* The string of a call of pack, at least as long as its type: shorter ones, and
\* that of a call without one, are filled up with zeros.
Given == setup.given \o Zeros(Max({0, setup.size - Len(setup.given)}))

Init ==
  /\ setup \in Setups
  /\ mode = "before"
  /\ string = Given
  /\ len = Len(Given)
  /\ todo = <<Top(0, Undef)>>
  /\ order = setup.order
  /\ results = << >> /\ before = Undef /\ packed = << >>
  /\ parent = Undef
  /\ reach = 0

\* CBC::pack hands over the size of the type as the length.
BeginPack ==
  /\ mode = "before" /\ todo = << >>
  /\ mode' = "pack"
  /\ before' = Head(results)
  /\ results' = << >>
  /\ len' = setup.size
  /\ reach' = 0
  /\ todo' = <<Top(0, setup.data)>>
  /\ order' = setup.order
  /\ parent' = Undef
  /\ UNCHANGED <<setup, packed, string>>

\* CBC::unpack of the first k bytes of what pack has left: in scalar context
\* once, in list context as often as the type fits in.
BeginUnpack(k, scalar) ==
  /\ mode = "pack" /\ todo = << >>
  /\ mode' = "after"
  /\ packed' = string
  /\ string' = SubSeq(string, 1, k)
  /\ len' = k
  /\ reach' = 0
  /\ LET count == IF scalar \/ setup.size = 0 THEN 1 ELSE k \div setup.size
     IN  todo' = FlattenSeq([i \in 1 .. count |->
                   <<SetOrder(setup.order), Top((i - 1) * setup.size, Undef)>>])
  /\ parent' = Undef
  /\ UNCHANGED <<setup, results, before, order>>

EndUnpack ==
  /\ mode = "after" /\ todo = << >>
  /\ mode' = "done"
  /\ UNCHANGED <<setup, todo, results, before, packed, string, len, order, parent, reach>>

Ended == mode \in {"done", "pack died", "pack overran", "unpack died"}

Next ==
  \/ Follow \/ SkipUndefined \/ RestoreOrder
  \/ PackFormatTag \/ PackLeaf \/ PackArray \/ PackNoArray \/ PackStruct \/ PackParent
  \/ UnpackFormatTag \/ UnpackLeaf \/ UnpackArray \/ UnpackAppend
  \/ UnpackStruct \/ UnpackMember \/ UnpackStore
  \/ BeginPack
  \/ \E k \in 0 .. Len(string), scalar \in BOOLEAN : BeginUnpack(k, scalar)
  \/ EndUnpack
  \/ Ended /\ UNCHANGED vars

Spec == Init /\ [][Next]_vars

-----------------------------------------------------------------------------
(* Properties.                                                             *)

\* The buffer and the string hold bytes, and every call that runs knows where.
TypeOK ==
  /\ mode \in {"before", "pack", "after", "done", "pack died", "pack overran", "unpack died"}
  /\ order \in Orders
  /\ parent.is \in {"undef", "hash"}
  /\ \A i \in DOMAIN string : string[i] \in Octets
  /\ len \in 0 .. Memory
  /\ reach \in 0 .. IF mode = "pack overran" THEN Word ELSE Memory

\* GROW_BUFFER and CHECK_BUFFER stand before every access, and neither direction
\* touches memory outside of the string, however long it is and whatever the
\* dimensions are that tags and data yield (pack.c:62 to 88); with one exception,
\* which GROW_BUFFER itself makes, and only where the data say that an array has
\* a negative number of elements (pack.c:1194).
InBuffer ==
  /\ TypeOK
  /\ mode # "pack overran" => reach <= len /\ len <= Len(string)
  /\ mode = "pack overran" =>
       /\ Running("type") /\ Head(todo).decl.dim.by = "member"
       /\ FromMember(Head(todo).decl.dim.id) < 0

\* A ByteOrder tag applies to what is declared inside of the tagged type or
\* member, with its innermost tag, and to nothing behind it: each call starts
\* with the order of its place, whatever calls came before (pack.c:98 to 118).
InScope ==
  todo # << >> /\ Head(todo).do \in {"type", "struct", "member"} =>
    order = Head(todo).want

\* A dimension is looked up in another member.  A call for such a member itself
\* has no parent (dimension.c:284).
TakesDimension(t) == t.level = 0 /\ t.decl.dim.by = "member" /\ t.decl # setup.top.decl

\* What a hash has under a name.
Under(h, id) == IF id \in DOMAIN h.keys THEN h.keys[id] ELSE Undef

\* When a dimension is looked up, PACK->parent is the hash of the very struct that
\* the array is a member of, although every struct in between sets it and clears
\* it (pack.c:835 and 1413): the data that are packed into the array are what
\* that hash has under the array's name, and the array that is unpacked is put
\* into that hash, which has got none of that name yet.
ParentInPlace ==
  Running("type") /\ TakesDimension(Head(todo)) =>
    LET id == Head(todo).decl.id IN
    /\ parent.is = "hash"
    /\ mode = "pack" => Head(todo).sv = Under(parent, id)
    /\ Unpacking     => parent = Head(results) /\ id \notin DOMAIN parent.keys
                        /\ Head(Tail(todo)) = StoreKey(id)

=============================================================================
