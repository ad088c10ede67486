------------------------------- MODULE Layout -------------------------------
(***************************************************************************)
(* The layout of structs and unions (ctlib/layout.c): offsets, sizes and   *)
(* alignments are computed on demand, member by member, and when a member  *)
(* is itself a struct that has no layout yet, the layouter calls itself.   *)
(* All these calls share one bitfield layouter object, pLP->bflayouter.    *)
(*                                                                         *)
(* The call stack of layout_compound_generic is the variable stack; a step *)
(* is what one round of its member loop does between two calls.  Layouts   *)
(* are asked for by update_parse_info, which goes through the list of all  *)
(* structs, and by sizeof expressions the parser evaluates while there are *)
(* structs without layout; the model lets any struct be asked for.         *)
(*                                                                         *)
(* A member is [kind, size, align, bits, of, count]: "plain" members have  *)
(* a size and an alignment, "bits" a width in bits and the size of their   *)
(* type; "comp" members are count structs or unions, named by of, and      *)
(* "unnamed" ones are structs without a declarator.                        *)
(***************************************************************************)
EXTENDS BLEngine, Sequences

CONSTANTS Setups,  \* what can be laid out, and how: [defs, class, alignment, compound, order]
          IntSize  \* option IntSize

Sizes  == {1, 2, 4, 8}
Aligns == {1, 2, 4, 8, 16}

\* No field is wider than its engine can take: Generic_push would never return,
\* and Simple, whose blocks have four bytes, would run over.
Fits(c, bits, size) == /\ c = "Generic" => bits <= 8 * size
                       /\ c = "Simple"  => bits <= 32

\* The parser's tables: types have sizes and alignments, clamped by the packing
\* to powers of two; the integer types of bitfields are aligned for their
\* sizes, and the structs that members are of are in the table.
MemberTyped(u, pack, m) ==
  /\ m.size \in Nat /\ m.align \in Nat /\ m.bits \in Nat /\ m.count \in Nat
  /\ \/ m.kind = "plain" /\ Lesser(m.align, pack) \in Aligns
     \/ /\ m.kind = "bits" /\ m.size \in Sizes /\ m.align = m.size
        /\ Fits(u.class, m.bits, m.size)
     \/ m.kind \in {"comp", "unnamed"} /\ m.of \in DOMAIN u.defs

StructTyped(u, d) ==
  /\ d.kind \in {"struct", "union"} /\ d.pack \in Aligns \cup {0} /\ d.complete \in BOOLEAN
  /\ Len(d.members) \in Nat
  /\ \A i \in 1 .. Len(d.members) :
       MemberTyped(u, IF d.pack > 0 THEN d.pack ELSE u.alignment, d.members[i])

ASSUME LayoutAssumption ==
  /\ IntSize \in Sizes
  /\ \A u \in Setups : /\ u.class \in Classes /\ u.order \in ByteOrders
                       /\ {u.alignment, u.compound} \subseteq Aligns
                       /\ \A s \in DOMAIN u.defs : StructTyped(u, u.defs[s])

VARIABLES setup,     \* the type table, parsed before, and the options
          bl,        \* the bitfield layouter
          info,      \* struct |-> [align, size] of Struct; align 0: no layout yet
          placed,    \* struct |-> what the declarators hold, member by member
          stack,     \* calls in progress, the innermost last: [struct, i, inb]
          spoiled    \* history: structs a nested layout or an error interfered with

vars == <<setup, bl, info, placed, stack, spoiled>>

\* struct |-> [kind, pack, complete, members].
defs == setup.defs

\* The options Alignment, CompoundAlignment, ByteOrder, and the engine.
Alignment         == setup.alignment
CompoundAlignment == setup.compound
ByteOrder         == setup.order
Class             == setup.class

Structs == DOMAIN defs

\* LAYOUT_ALIGNMENT or the #pragma pack the struct was defined under.
PackOf(s) == IF defs[s].pack > 0 THEN defs[s].pack ELSE Alignment

IsComp(m) == m.kind \in {"comp", "unnamed"}

\* Faulty variants of the operators below stand in front of them, each named
\* for its fault; the mutation checks put them in the place of the original.
NoLayout_always(s) == defs[s].complete

NoLayout(s) == defs[s].complete /\ info[s].align = 0

Greater(a, b) == IF a > b THEN a ELSE b

\* A declarator that was given no place: a separator of width zero.
Nowhere == [offset |-> 0, size |-> 0, bits |-> 0, pos |-> 0]

Init == /\ setup \in Setups
        /\ bl = bl_create(Class)
        /\ info = [s \in Structs |-> [align |-> 0, size |-> 0]]
        /\ placed = [s \in Structs |-> << >>]
        /\ stack = << >>
        /\ spoiled = {}

-----------------------------------------------------------------------------

Depth   == Len(stack)
Frame   == stack[Depth]
Current == Frame.struct
Kind    == defs[Current].kind
Done    == Frame.i > Len(defs[Current].members)
Member  == defs[Current].members[Frame.i]

OnStack(s) == \E k \in 1 .. Depth : stack[k].struct = s

\* get_type_info_generic for the current member; a struct that was declared
\* but never defined counts as an int.
TypeInfo(m) ==
  IF ~IsComp(m) THEN [size |-> m.size, align |-> m.align]
  ELSE IF ~defs[m.of].complete THEN [size |-> m.count * IntSize, align |-> IntSize]
  ELSE [size |-> m.count * info[m.of].size, align |-> info[m.of].align]

\* layout_compound_generic up to its loop.  History: a call in progress with
\* another packing will go on with the wrong MAX_ALIGN.
Begin(s) ==
  /\ NoLayout(s)
  /\ spoiled' = spoiled \cup {stack[k].struct : k \in {k \in 1 .. Depth :
                                PackOf(stack[k].struct) # PackOf(s)}}
  /\ info' = [info EXCEPT ![s].align = Lesser(PackOf(s), CompoundAlignment)]
  /\ bl' = [bl EXCEPT !.max_align = PackOf(s), !.byte_order = ByteOrder]
  /\ stack' = Append(stack, [struct |-> s, i |-> 1, inb |-> FALSE])

\* update_parse_info, or a sizeof in the source text.
Ask(s) ==
  /\ stack = << >>
  /\ Begin(s)
  /\ UNCHANGED <<setup, placed>>

\* FINISH_BITFIELD, if a run of bitfields is open: the layouter and the
\* struct's [align, size] after it.
Finished ==
  IF Frame.inb
  THEN LET b == bl_finalize(Class, bl)
       IN  [bl |-> b, info |-> [align |-> b.align, size |-> b.offset]]
  ELSE [bl |-> bl, info |-> info[Current]]

\* (Does not enter a struct while a run of bitfields is open further out.)
Descend_unlessRunOpen ==
  /\ stack # << >> /\ ~Done
  /\ IsComp(Member)
  /\ Member.kind = "unnamed" => ~Frame.inb
  /\ \A k \in 1 .. Depth - 1 : ~stack[k].inb
  /\ Begin(Member.of)
  /\ UNCHANGED <<setup, placed>>

\* get_type_info_generic finds a member's struct without a layout.
Descend ==
  /\ stack # << >> /\ ~Done
  /\ IsComp(Member)
  /\ Member.kind = "unnamed" => ~Frame.inb
  /\ Begin(Member.of)
  /\ UNCHANGED <<setup, placed>>

\* An unnamed struct ends a run of bitfields before its type is looked at.
EndRun ==
  /\ stack # << >> /\ ~Done
  /\ Member.kind = "unnamed" /\ Frame.inb
  /\ bl' = Finished.bl
  /\ info' = [info EXCEPT ![Current] = Finished.info]
  /\ stack' = [stack EXCEPT ![Depth].inb = FALSE]
  /\ UNCHANGED <<setup, placed, spoiled>>

\* A member that is not a bitfield.  History: a member that contains this very
\* struct is taken as far as it has got.
Place ==
  LET t     == TypeInfo(Member)
      f     == Finished
      align == Lesser(t.align, PackOf(Current))
      at    == IF Kind = "struct" THEN RoundUp(f.info.size, align) ELSE 0
  IN  /\ stack # << >> /\ ~Done
      /\ Member.kind # "bits"
      /\ IsComp(Member) => ~NoLayout(Member.of)
      /\ Member.kind = "unnamed" => ~Frame.inb
      /\ bl' = f.bl
      /\ info' = [info EXCEPT ![Current] =
                    [align |-> Greater(align, f.info.align),
                     size  |-> Greater(at + t.size, f.info.size)]]
      /\ placed' = [placed EXCEPT ![Current] =
                      Append(@, [offset |-> at, size |-> t.size, bits |-> 0, pos |-> 0])]
      /\ stack' = [stack EXCEPT ![Depth].i = @ + 1, ![Depth].inb = FALSE]
      /\ spoiled' = IF IsComp(Member) /\ OnStack(Member.of) THEN spoiled \cup {Current} ELSE spoiled
      /\ UNCHANGED setup

Opened_keepsAlign ==
  IF Frame.inb THEN bl
  ELSE [bl_reset(Class, bl) EXCEPT
          !.offset = IF Kind = "struct" THEN info[Current].size ELSE 0]

\* The layouter's object when the current bitfield is pushed: at the first one
\* of a run it is reset and told where the run begins.
Opened ==
  IF Frame.inb THEN bl
  ELSE [bl_reset(Class, bl) EXCEPT
          !.align  = info[Current].align,
          !.offset = IF Kind = "struct" THEN info[Current].size ELSE 0]

Pushed == bl_push(Class, Opened, Member.bits, Member.size, Member.align)

\* A bitfield.  In a union every bitfield is a run of its own.  History: the
\* reset takes the layouter away from calls that are in the middle of a run.
PushBits ==
  /\ stack # << >> /\ ~Done
  /\ Member.kind = "bits"
  /\ \E pushed \in {Pushed} :
       /\ ~pushed.refused
       /\ placed' = [placed EXCEPT ![Current] =
                       Append(@, IF Member.bits = 0 THEN Nowhere ELSE pushed.decl)]
       /\ IF Kind = "struct"
          THEN /\ bl' = pushed.bl
               /\ info' = info
               /\ stack' = [stack EXCEPT ![Depth].i = @ + 1, ![Depth].inb = TRUE]
          ELSE /\ bl' = bl_finalize(Class, pushed.bl)
               /\ info' = [info EXCEPT ![Current] = [align |-> bl'.align, size |-> bl'.offset]]
               /\ stack' = [stack EXCEPT ![Depth].i = @ + 1]
  /\ spoiled' = IF Frame.inb THEN spoiled
                ELSE spoiled \cup {stack[k].struct : k \in {k \in 1 .. Depth - 1 : stack[k].inb}}
  /\ UNCHANGED setup

\* The layouter refuses the field: a fatal error, which as a Perl exception
\* leaves all the calls in progress at once.
Fatal ==
  /\ stack # << >> /\ ~Done
  /\ Member.kind = "bits"
  /\ Pushed.refused
  /\ bl' = Pushed.bl
  /\ stack' = << >>
  /\ spoiled' = spoiled \cup {stack[k].struct : k \in 1 .. Depth}
  /\ UNCHANGED <<setup, info, placed>>

\* The end of the loop: pad the struct and return to the caller.
Return ==
  LET f == Finished
  IN  /\ stack # << >> /\ Done
      /\ bl' = f.bl
      /\ info' = [info EXCEPT ![Current] =
                    [f.info EXCEPT !.size = RoundUp(@, f.info.align)]]
      /\ stack' = SubSeq(stack, 1, Depth - 1)
      /\ UNCHANGED <<setup, placed, spoiled>>

Step == Descend \/ EndRun \/ Place \/ PushBits \/ Fatal \/ Return

Next == Step \/ \E s \in Structs : Ask(s)

Spec == Init /\ [][Next]_vars

\* A call runs to its end; whether a struct is asked for is the user's affair.
FairSpec == Spec /\ WF_vars(Step)

-----------------------------------------------------------------------------

\* The struct has a layout that users of it can see.
LaidOut(s) == defs[s].complete /\ info[s].align > 0 /\ ~OnStack(s)

\* The bits member i of struct s occupies.
Extent(s, i) ==
  LET d == placed[s][i]
  IN  IF defs[s].members[i].kind = "bits" THEN BitRange(d, ByteOrder)
      ELSE [lo |-> Bits(d.offset), hi |-> Bits(d.offset + d.size)]

Empty(s, i) == Extent(s, i).lo = Extent(s, i).hi

HasBits(s) == \E i \in 1 .. Len(defs[s].members) : defs[s].members[i].kind = "bits"

\* Types: no offset, size or position that the nested calls and the layouter
\* compute ever becomes negative, and alignments are powers of two.
TypeOK ==
  /\ \A s \in Structs : info[s].align \in {0, 1, 2, 4, 8, 16} /\ info[s].size \in Nat
  /\ \A s \in Structs : \A i \in 1 .. Len(placed[s]) :
       placed[s][i].offset \in Nat /\ placed[s][i].pos \in Nat
  /\ bl.offset \in Nat
  /\ Class # "Simple" => bl.bit_offset \in Nat
  /\ \A k \in 1 .. Depth :
       stack[k] \in [struct : Structs, i : Nat \ {0}, inb : BOOLEAN]
  /\ spoiled \subseteq Structs
  \* A struct is under way at most once, also when structs contain each other,
  \* and a call that has come to a member has placed exactly those before it.
  /\ \A k \in 1 .. Depth :
       /\ Len(placed[stack[k].struct]) = stack[k].i - 1
       /\ \A l \in 1 .. Depth : stack[k].struct = stack[l].struct => k = l

\* The layout of a struct by GCC's rule, members taken one by one: the end of
\* the last member in bits, the alignment of the struct, the members' extents.
GccMember(s, l, m) ==
  LET t  == TypeInfo(m)
      al == Lesser(t.align, PackOf(s))
      lo == IF m.kind # "bits" THEN RoundUp(l.end, Bits(al))
            ELSE IF m.bits = 0 THEN RoundUp(l.end, Bits(m.size))
            ELSE Target(l.end, m.bits, m.size)
      hi == lo + (IF m.kind = "bits" THEN m.bits ELSE Bits(t.size))
  IN  [end |-> hi, align |-> Greater(al, l.align),
       extents |-> Append(l.extents, [lo |-> lo, hi |-> hi])]

GccLayout(s) ==
  LET members == defs[s].members
      upTo[i \in 0 .. Len(members)] ==
        IF i = 0 THEN [end |-> 0, align |-> Lesser(PackOf(s), CompoundAlignment),
                       extents |-> << >>]
        ELSE GccMember(s, upTo[i - 1], members[i])
      l == upTo[Len(members)]
  IN  [l EXCEPT !.end = RoundUp(@, Bits(l.align))]

Unpacked(s) ==
  \A i \in 1 .. Len(defs[s].members) :
    defs[s].members[i].kind = "bits" => defs[s].members[i].size <= PackOf(s)

\* With the Generic engine a struct is laid out as GCC does it, whatever was
\* laid out before it and with whatever the shared layouter was left in, as
\* long as nothing interferes during its own layout.
AsGcc ==
  Class = "Generic" => \A s \in Structs \ spoiled :
    LaidOut(s) /\ defs[s].kind = "struct" /\ Unpacked(s) =>
      LET g == GccLayout(s) IN
      /\ info[s].align = g.align
      /\ Bits(info[s].size) = g.end
      /\ \A i \in 1 .. Len(placed[s]) :
           placed[s][i] # Nowhere => Extent(s, i) = g.extents[i]

\* In a struct nothing interfered with, members follow one another without
\* sharing a bit, bitfields and others alike, and end within the struct, as do
\* the units that the Generic engine has bitfields read from and written to.
\* (The Generic engine needs types no larger than the alignment for that.)  A
\* union without bitfields is as large as each of its members.
Followed(s) ==
  LET Live == {i \in 1 .. Len(placed[s]) : ~Empty(s, i)} IN
  /\ \A i, j \in Live : i < j => Extent(s, i).hi <= Extent(s, j).lo
  /\ \A i \in Live : Extent(s, i).lo >= 0 /\ Extent(s, i).hi <= Bits(info[s].size)
  /\ Class = "Generic" => \A i \in 1 .. Len(placed[s]) :
                            placed[s][i].offset + placed[s][i].size <= info[s].size

MembersDisjoint ==
  \A s \in {t \in Structs \ spoiled : LaidOut(t)} :
    /\ defs[s].kind = "struct" /\ (Class = "Generic" => Unpacked(s)) => Followed(s)
    /\ defs[s].kind = "union" /\ ~HasBits(s) =>
         \A i \in 1 .. Len(placed[s]) : Extent(s, i).hi <= Bits(info[s].size)

\* Arrays of a struct keep its members aligned: the size is a multiple of the
\* alignment, and every member that is no bitfield is aligned for its type,
\* clamped by the packing, and so is the struct.  (With the Simple engine a run
\* of bitfields sets the struct's alignment to that of a block, and this holds
\* where no member asks for more.)
Aligned ==
  /\ TypeOK
  /\ \A s \in Structs \ spoiled : LaidOut(s) =>
       /\ info[s].size % info[s].align = 0
       /\ \A i \in 1 .. Len(placed[s]) :
            LET m == defs[s].members[i]
                a == Lesser(TypeInfo(m).align, PackOf(s))
            IN  m.kind # "bits" => placed[s][i].offset % a = 0 /\ info[s].align % a = 0

\* A layout that can be seen never changes again.
LayoutIsFinal ==
  [][\A s \in Structs : LaidOut(s) =>
       info'[s] = info[s] /\ placed'[s] = placed[s]]_vars

\* Whatever is nested in whatever, every call comes to its end.
CallsReturn == stack # << >> ~> stack = << >>

\* The claims of the documentation about GCC and about bitfields, without
\* regard for what happened on the way.
NeverOverlap ==
  \A s \in Structs : LaidOut(s) /\ defs[s].kind = "struct" =>
    \A i, j \in 1 .. Len(placed[s]) :
      i < j /\ ~Empty(s, i) /\ ~Empty(s, j) => Extent(s, i).hi <= Extent(s, j).lo

=============================================================================
