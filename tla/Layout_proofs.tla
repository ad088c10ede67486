--------------------------- MODULE Layout_proofs ----------------------------
(***************************************************************************)
(* Structs are laid out soundly whatever is nested in whatever, for all    *)
(* tables of types, all options and all engines.                           *)
(***************************************************************************)
EXTENDS Layout, TLAPS

\* The lemmas about the engines; none of them is about the variables.
Eng == INSTANCE EngineRun_proofs
         WITH Starts <- {}, Requests <- {}, Packs <- {}, StructAligns <- {},
              BlockSizes <- {}, MaxPushes <- 0, class <- "Generic",
              pc <- "idle", decls <- << >>, pushes <- << >>, sound <- TRUE

-----------------------------------------------------------------------------
(* Arithmetic. *)

\* The lesser of two alignments is an alignment.
LEMMA LesserFacts ==
  ASSUME NEW x \in Aligns, NEW y \in Aligns
  PROVE  Lesser(x, y) \in Aligns /\ Lesser(x, y) <= x /\ Lesser(x, y) <= y
BY DEF Lesser, Aligns

\* Of a size and an alignment the lesser is a size.
LEMMA SizeFacts ==
  ASSUME NEW x \in Sizes, NEW y \in Aligns
  PROVE  Lesser(x, y) \in Sizes /\ Lesser(x, y) <= x
BY DEF Lesser, Aligns, Sizes

\* An alignment is a multiple of every smaller one.
LEMMA Divides ==
  ASSUME NEW x \in Aligns, NEW y \in Aligns, x <= y
  PROVE  y % x = 0
BY DEF Aligns

\* The next boundary is one, and less than one step away.
LEMMA RoundUpFacts ==
  ASSUME NEW x \in Nat, NEW m \in Aligns
  PROVE  /\ RoundUp(x, m) \in Nat /\ x <= RoundUp(x, m)
         /\ RoundUp(x, m) % m = 0
<1>1. CASE m = 1
  BY <1>1 DEF RoundUp
<1>2. CASE m = 2
  BY <1>2 DEF RoundUp
<1>3. CASE m = 4
  BY <1>3 DEF RoundUp
<1>4. CASE m = 8
  BY <1>4 DEF RoundUp
<1>5. CASE m = 16
  BY <1>5 DEF RoundUp
<1> QED BY <1>1, <1>2, <1>3, <1>4, <1>5 DEF Aligns

\* What begins below x on a boundary of m ends within x rounded up to a multiple.
LEMMA UnitEnds ==
  ASSUME NEW x \in Nat, NEW m \in Sizes, NEW al \in Aligns, m <= al,
         NEW o \in Nat, o % m = 0, o < x
  PROVE  o + m <= RoundUp(x, al)
<1> DEFINE y == RoundUp(x, al)
<1>1. y \in Nat /\ x <= y /\ y % al = 0
  BY RoundUpFacts
<1> HIDE DEF y
<1>2. y % m = 0
  <2>1. CASE al = 1
    BY <1>1, <2>1 DEF Sizes
  <2>2. CASE al = 2
    BY <1>1, <2>2 DEF Sizes
  <2>3. CASE al = 4
    BY <1>1, <2>3 DEF Sizes
  <2>4. CASE al = 8
    BY <1>1, <2>4 DEF Sizes
  <2>5. CASE al = 16
    BY <1>1, <2>5 DEF Sizes
  <2> QED BY <2>1, <2>2, <2>3, <2>4, <2>5 DEF Aligns
<1>3. o + m <= y
  <2>1. CASE m = 1
    BY <1>1, <2>1
  <2>2. CASE m = 2
    BY <1>1, <1>2, <2>2
  <2>3. CASE m = 4
    BY <1>1, <1>2, <2>3
  <2>4. CASE m = 8
    BY <1>1, <1>2, <2>4
  <2> QED BY <2>1, <2>2, <2>3, <2>4 DEF Sizes
<1> QED BY <1>3 DEF y

-----------------------------------------------------------------------------
(* The layouter's object, whatever has interfered with the run it is in. *)

Decl == [offset : Nat, size : Nat, bits : Nat, pos : Nat]

TypeSane(b) ==
  /\ b \in [max_align : Aligns \cup {0}, align : Aligns \cup {0}, offset : Nat,
            byte_order : ByteOrders, bit_offset : Nat,
            cur_type_size : Sizes \cup {0}, cur_type_align : Sizes \cup {0}]
  /\ b.cur_type_size # 0 => b.cur_type_align # 0

BlockSane(b) ==
  b \in [max_align : Aligns \cup {0}, align : Aligns \cup {0}, offset : Nat,
         byte_order : ByteOrders, block_size : {4}, pos : Nat, bits_left : 0 .. 32]

Sane(c, b) == /\ c \in Classes
              /\ c = "Simple" => BlockSane(b)
              /\ c # "Simple" => TypeSane(b)
              /\ c = "Microsoft" => b.bit_offset <= 8 * b.cur_type_size

\* Once a struct is being laid out the packing is known.
Ready(c, b) == Sane(c, b) /\ b.max_align \in Aligns

\* In the middle of a run that nothing has interfered with.
Good(c, b) == /\ Ready(c, b)
              /\ c = "Generic" => Eng!GenGood(b)
              /\ c = "Microsoft" => Eng!MsGood(b)

\* The position of the engine.
Pos(c, b) == CASE c = "Generic"   -> Generic_position(b)
               [] c = "Microsoft" -> Microsoft_position(b)
               [] c = "Simple"    -> Simple_position(b)

\* The fields of the object that all engines have.
LEMMA SaneFacts ==
  ASSUME NEW c, NEW b, Sane(c, b)
  PROVE  /\ b.offset \in Nat /\ b.align \in Aligns \cup {0} /\ b.byte_order \in ByteOrders
         /\ b.max_align \in Aligns \cup {0}
         /\ c # "Simple" => b.bit_offset \in Nat
         /\ Pos(c, b) \in Nat
<1>1. CASE c = "Simple"
  <2>1. /\ b.offset \in Nat /\ b.align \in Aligns \cup {0} /\ b.byte_order \in ByteOrders
        /\ b.max_align \in Aligns \cup {0} /\ b.block_size = 4 /\ b.pos \in Nat /\ b.bits_left \in 0 .. 32
    BY <1>1 DEF Sane, BlockSane
  <2> QED BY <1>1, <2>1 DEF Pos, Simple_position, Bits
<1>2. CASE c # "Simple"
  <2>1. /\ b.offset \in Nat /\ b.align \in Aligns \cup {0} /\ b.byte_order \in ByteOrders
        /\ b.max_align \in Aligns \cup {0} /\ b.bit_offset \in Nat
    BY <1>2 DEF Sane, TypeSane
  <2>2. c \in {"Generic", "Microsoft"}
    BY <1>2 DEF Sane, Classes
  <2> QED BY <2>1, <2>2 DEF Pos, Generic_position, Microsoft_position, Bits
<1> QED BY <1>1, <1>2

\* bl_create.
LEMMA CreateSane ==
  ASSUME NEW c \in Classes
  PROVE  Sane(c, bl_create(c))
BY DEF Classes, Sane, TypeSane, BlockSane, bl_create, Generic_init, Microsoft_init,
       Simple_init, ByteOrders, Aligns, Sizes

\* layout_compound_generic sets the packing and the byte order.
Headed(b, p, o) == [b EXCEPT !.max_align = p, !.byte_order = o]

LEMMA HeaderSane ==
  ASSUME NEW c, NEW b, Sane(c, b), NEW p \in Aligns, NEW o \in ByteOrders,
         NEW t, t = Headed(b, p, o)
  PROVE  /\ Ready(c, t) /\ t.max_align = p /\ t.byte_order = o /\ t.align = b.align
         /\ b.max_align = p /\ b.byte_order = o => t = b
<1>0. t = [b EXCEPT !.max_align = p, !.byte_order = o]
  BY DEF Headed
<1>1. CASE c = "Simple"
  <2>1. BlockSane(b)
    BY <1>1 DEF Sane
  <2>2. t = [max_align |-> p, align |-> b.align, offset |-> b.offset, byte_order |-> o,
             block_size |-> b.block_size, pos |-> b.pos, bits_left |-> b.bits_left]
    BY <1>0, <2>1 DEF BlockSane
  <2>3. b.max_align = p /\ b.byte_order = o => t = b
    BY <1>0, <2>1 DEF BlockSane
  <2> QED BY <1>1, <2>1, <2>2, <2>3 DEF Sane, Ready, BlockSane
<1>2. CASE c # "Simple"
  <2>1. TypeSane(b)
    BY <1>2 DEF Sane
  <2>2. t = [max_align |-> p, align |-> b.align, offset |-> b.offset, byte_order |-> o,
             bit_offset |-> b.bit_offset, cur_type_size |-> b.cur_type_size,
             cur_type_align |-> b.cur_type_align]
    BY <1>0, <2>1 DEF TypeSane
  <2>3. b.max_align = p /\ b.byte_order = o => t = b
    BY <1>0, <2>1 DEF TypeSane
  <2>4. TypeSane(t)
    BY <2>1, <2>2 DEF TypeSane
  <2> QED BY <1>2, <2>2, <2>3, <2>4 DEF Sane, Ready
<1> QED BY <1>1, <1>2

\* The first field of a run finds the object cleared, whatever was left in it.
Cleared(c, b, a, n) == [bl_reset(c, b) EXCEPT !.align = a, !.offset = n]

LEMMA OpenedGood ==
  ASSUME NEW c, NEW b, Ready(c, b), NEW a \in Aligns, NEW n \in Nat
  PROVE  LET t == Cleared(c, b, a, n) IN
         /\ Good(c, t) /\ t.align = a /\ Pos(c, t) = Bits(n)
         /\ t.max_align = b.max_align /\ t.byte_order = b.byte_order
<1> DEFINE t == Cleared(c, b, a, n)
<1>1. CASE c = "Simple"
  <2>1. /\ BlockSane(b) /\ b.max_align \in Aligns /\ b.byte_order \in ByteOrders
        /\ b.block_size = 4
    BY <1>1 DEF Sane, Ready, BlockSane
  <2>2. t = [[b EXCEPT !.offset = @ + (b.block_size - (@ % b.block_size)),
                       !.pos = 0, !.bits_left = Bits(b.block_size)]
               EXCEPT !.align = a, !.offset = n]
    BY <1>1 DEF Cleared, bl_reset, Simple_reset
  <2> HIDE DEF t
  <2>3. t = [max_align |-> b.max_align, align |-> a, offset |-> n, byte_order |-> b.byte_order,
             block_size |-> 4, pos |-> 0, bits_left |-> 32]
    <3>1. Bits(b.block_size) = 32
      BY <2>1 DEF Bits
    <3> QED BY <2>1, <2>2, <3>1 DEF BlockSane
  <2>4. BlockSane(t)
    BY <2>1, <2>3 DEF BlockSane
  <2>5. Pos(c, t) = Bits(n)
    <3>1. t.offset = n /\ t.pos = 0 /\ t.block_size = 4 /\ t.bits_left = 32
      BY <2>3
    <3>2. Pos(c, t) = Simple_position(t)
      BY <1>1 DEF Pos
    <3> QED BY <3>1, <3>2 DEF Simple_position, Bits
  <2>6. Good(c, t)
    BY <1>1, <2>1, <2>3, <2>4 DEF Sane, Ready, Good, Classes
  <2> QED BY <2>3, <2>5, <2>6 DEF t
<1>2. CASE c # "Simple"
  <2>1. /\ TypeSane(b) /\ c \in {"Generic", "Microsoft"} /\ b.max_align \in Aligns
        /\ b.byte_order \in ByteOrders
    BY <1>2 DEF Sane, Ready, Classes, TypeSane
  <2>2. t = [[b EXCEPT !.bit_offset = 0, !.cur_type_size = 0, !.cur_type_align = 0]
               EXCEPT !.align = a, !.offset = n]
    BY <2>1 DEF Cleared, bl_reset, Generic_reset, Microsoft_reset
  <2> HIDE DEF t
  <2>3. t = [max_align |-> b.max_align, align |-> a, offset |-> n, byte_order |-> b.byte_order,
             bit_offset |-> 0, cur_type_size |-> 0, cur_type_align |-> 0]
    BY <2>1, <2>2 DEF TypeSane
  <2>4. TypeSane(t) /\ a \in Nat
    <3>1. a \in Nat
      BY DEF Aligns
    <3>2. t.cur_type_size = 0
      BY <2>3
    <3>3. t \in [max_align : Aligns \cup {0}, align : Aligns \cup {0}, offset : Nat,
                 byte_order : ByteOrders, bit_offset : Nat,
                 cur_type_size : Sizes \cup {0}, cur_type_align : Sizes \cup {0}]
      BY <2>1, <2>3
    <3> QED BY <3>1, <3>2, <3>3 DEF TypeSane
  <2>5. Eng!GenGood(t) /\ Eng!MsGood(t)
    <3>1. Eng!Aligns = Aligns /\ Eng!Sizes = Sizes /\ Eng!ByteOrders = ByteOrders
      BY DEF Eng!Aligns, Eng!Sizes, Eng!ByteOrders, ByteOrders, Aligns, Sizes
    <3>2. t \in Eng!TypeObj
      BY <2>1, <2>3, <2>4, <3>1 DEF Eng!TypeObj
    <3>3. t.max_align \in Aligns /\ t.cur_type_size = 0 /\ t.bit_offset = 0
      BY <2>1, <2>3
    <3> QED BY <3>1, <3>2, <3>3 DEF Eng!GenGood, Eng!MsGood
  <2>6. Pos(c, t) = Bits(n)
    <3>1. t.offset = n /\ t.bit_offset = 0
      BY <2>3
    <3> QED BY <2>1, <3>1 DEF Pos, Generic_position, Microsoft_position, Bits
  <2>7. Good(c, t)
    BY <1>2, <2>1, <2>3, <2>4, <2>5 DEF Sane, Ready, Good, Classes
  <2> QED BY <2>3, <2>6, <2>7 DEF t
<1> QED BY <1>1, <1>2
\* A record of the fields of TypeSane is what its fields say.
LEMMA TypeRecord ==
  ASSUME NEW b, TypeSane(b)
  PROVE  /\ b.max_align \in Aligns \cup {0} /\ b.align \in Aligns \cup {0} /\ b.align \in Nat
         /\ b.offset \in Nat /\ b.byte_order \in ByteOrders /\ b.bit_offset \in Nat
         /\ b.cur_type_size \in Sizes \cup {0} /\ b.cur_type_align \in Sizes \cup {0}
         /\ b = [max_align |-> b.max_align, align |-> b.align, offset |-> b.offset,
                 byte_order |-> b.byte_order, bit_offset |-> b.bit_offset,
                 cur_type_size |-> b.cur_type_size, cur_type_align |-> b.cur_type_align]
<1>1. b.align \in Nat
  BY DEF TypeSane, Aligns
<1> QED BY <1>1 DEF TypeSane

\* A record with such fields is sane.
LEMMA RecordType ==
  ASSUME NEW m \in Aligns \cup {0}, NEW a \in Aligns \cup {0}, NEW o \in Nat, NEW y \in ByteOrders,
         NEW k \in Nat, NEW s \in Sizes, NEW al \in Sizes
  PROVE  TypeSane([max_align |-> m, align |-> a, offset |-> o, byte_order |-> y, bit_offset |-> k,
                   cur_type_size |-> s, cur_type_align |-> al])
<1>1. al # 0
  BY DEF Sizes
<1> QED BY <1>1 DEF TypeSane

\* What an engine with types leaves as it is, or raises.
Kept(b, t) == /\ t.max_align = b.max_align /\ t.byte_order = b.byte_order
              /\ t.align >= b.align

\* Generic_push turns to the field's type,
LEMMA GenRetypeSane ==
  ASSUME NEW b, TypeSane(b), b.max_align \in Aligns, NEW s \in Sizes
  PROVE  LET q == Generic_retype(b, s, s) IN
         TypeSane(q) /\ q.cur_type_size = s /\ Kept(b, q)
<1> DEFINE q == Generic_retype(b, s, s)
<1>0. b.align \in Nat
  BY TypeRecord
<1>1. CASE b.cur_type_size = s
  <2>1. q = b
    BY <1>1 DEF Generic_retype
  <2> QED BY <1>0, <1>1, <2>1 DEF Kept
<1>2. CASE b.cur_type_size # s
  <2> DEFINE al  == Lesser(s, b.max_align)
             d   == b.offset % al
             alg == IF al > b.align THEN al ELSE b.align
  <2>1. q = [b EXCEPT !.align = alg, !.offset = @ - d, !.bit_offset = @ + Bits(d),
                      !.cur_type_size = s, !.cur_type_align = al]
    BY <1>2, Zenon DEF Generic_retype
  <2>2. al \in Sizes
    BY SizeFacts
  <2>3. d \in Nat /\ d <= b.offset
    <3> HIDE DEF al
    <3>1. b.offset \in Nat
      BY TypeRecord
    <3> QED BY <2>2, <3>1, Eng!BoundaryFacts DEF Sizes, Eng!Sizes
  <2>4. alg \in Aligns \cup {0} /\ alg >= b.align
    <3>1. al \in Aligns /\ al \in Nat
      BY <2>2 DEF Sizes, Aligns
    <3> HIDE DEF al
    <3>2. b.align \in Aligns \cup {0}
      BY TypeRecord
    <3> QED BY <1>0, <3>1, <3>2
  <2> HIDE DEF q, d, alg, al
  <2>5. q = [max_align |-> b.max_align, align |-> alg, offset |-> b.offset - d,
             byte_order |-> b.byte_order, bit_offset |-> b.bit_offset + Bits(d),
             cur_type_size |-> s, cur_type_align |-> al]
    BY <2>1 DEF TypeSane
  <2>6. b.offset - d \in Nat /\ b.bit_offset + Bits(d) \in Nat
    BY <2>3, TypeRecord DEF Bits
  <2>7. TypeSane(q)
    BY <2>2, <2>4, <2>5, <2>6, TypeRecord, RecordType
  <2> QED BY <2>4, <2>5, <2>7 DEF Kept, q
<1> QED BY <1>1, <1>2

\* moves on until the field fits,
LEMMA GenMovedSane ==
  ASSUME NEW b, TypeSane(b), NEW s \in Sizes, b.cur_type_size = s,
         NEW bits \in Nat, bits <= 8 * s
  PROVE  LET u == Generic_moved(b, bits) IN
         TypeSane(u) /\ u.cur_type_size = s /\ Kept(b, u) /\ u.bit_offset + bits <= 8 * s
<1> DEFINE u  == Generic_moved(b, bits)
           n  == Generic_rounds(b, bits)
           al == b.cur_type_align
           x  == b.bit_offset + bits - 8 * s
<1>1. /\ al \in Sizes /\ x \in Int /\ b.bit_offset \in Nat /\ b.offset \in Nat /\ s \in Nat
      /\ b.align \in Nat
  BY TypeRecord DEF TypeSane, Sizes
<1>2. n = IF x <= 0 THEN 0 ELSE (x + 8 * al - 1) \div (8 * al)
  BY DEF Generic_rounds, Bits
<1> HIDE DEF n, al, x
<1>3. n \in Nat /\ n * al \in Nat /\ x <= 8 * (n * al)
  <2>1. CASE al = 1
    BY <1>1, <1>2, <2>1
  <2>2. CASE al = 2
    BY <1>1, <1>2, <2>2
  <2>3. CASE al = 4
    BY <1>1, <1>2, <2>3
  <2>4. CASE al = 8
    BY <1>1, <1>2, <2>4
  <2> QED BY <1>1, <2>1, <2>2, <2>3, <2>4 DEF Sizes
<1> DEFINE by == n * al
           bo == IF b.bit_offset > 8 * by THEN b.bit_offset - 8 * by ELSE 0
<1>4. u = [b EXCEPT !.offset = @ + by, !.bit_offset = bo]
  BY DEF Generic_moved, Generic_after, Bits, n, al
<1> HIDE DEF u
<1>5. by \in Nat /\ x <= 8 * by
  BY <1>3
<1> HIDE DEF by
<1>6. bo \in Nat /\ bo + bits <= 8 * s /\ b.offset + by \in Nat
  BY <1>1, <1>5 DEF x
<1> HIDE DEF bo
<1>7. u = [max_align |-> b.max_align, align |-> b.align, offset |-> b.offset + by,
           byte_order |-> b.byte_order, bit_offset |-> bo,
           cur_type_size |-> s, cur_type_align |-> al]
  BY <1>1, <1>4 DEF TypeSane, al
<1>8. TypeSane(u)
  BY <1>1, <1>6, <1>7, TypeRecord, RecordType
<1> QED BY <1>1, <1>6, <1>7, <1>8 DEF Kept, u
\* A field that ends within its unit has its position in the unit.
LEMMA DeclTyped ==
  ASSUME NEW o \in Nat, NEW s \in Sizes, NEW bits \in Nat, NEW used \in Nat,
         NEW order \in ByteOrders, used + bits <= 8 * s
  PROVE  [offset |-> o, size |-> s, bits |-> bits, pos |-> UnitPos(order, s, used, bits)] \in Decl
<1>1. s \in Nat
  BY DEF Sizes
<1>2. UnitPos(order, s, used, bits) \in Nat
  BY <1>1 DEF UnitPos, Bits
<1> QED BY <1>1, <1>2 DEF Decl

\* and places it.
LEMMA GenPushSane ==
  ASSUME NEW b, TypeSane(b), b.max_align \in Aligns, NEW s \in Sizes, NEW bits \in Nat, bits <= 8 * s
  PROVE  LET p == Generic_push(b, bits, s, s) IN
         /\ ~p.refused /\ TypeSane(p.bl) /\ Kept(b, p.bl)
         /\ p.decl \in Decl /\ p.decl.bits = bits
<1> DEFINE p == Generic_push(b, bits, s, s)
           q == Generic_retype(b, s, s)
           u == Generic_moved(q, bits)
           t == Generic_place(u, bits)
           d == Generic_decl(u, bits)
<1>1. p = [refused |-> FALSE, bl |-> t, decl |-> d]
  BY DEF Generic_push
<1>2. TypeSane(q) /\ q.cur_type_size = s /\ Kept(b, q)
  BY GenRetypeSane
<1> HIDE DEF q
<1>3. TypeSane(u) /\ u.cur_type_size = s /\ Kept(q, u) /\ u.bit_offset + bits <= 8 * s
  BY <1>2, GenMovedSane
<1> HIDE DEF u
<1>4. /\ u.offset \in Nat /\ u.bit_offset \in Nat /\ u.align \in Nat /\ q.align \in Nat
      /\ b.align \in Nat /\ s \in Nat /\ u.byte_order \in ByteOrders
      /\ u.cur_type_align \in Sizes
  BY <1>2, <1>3, TypeRecord DEF TypeSane, Sizes
<1>5. Kept(b, u)
  BY <1>2, <1>3, <1>4 DEF Kept
<1>6. TypeSane(t) /\ Kept(u, t)
  <2>1. CASE bits > 0
    <3>1. t = [u EXCEPT !.bit_offset = @ + bits]
      BY <2>1 DEF Generic_place
    <3> HIDE DEF t
    <3>2. t = [max_align |-> u.max_align, align |-> u.align, offset |-> u.offset,
               byte_order |-> u.byte_order, bit_offset |-> u.bit_offset + bits,
               cur_type_size |-> s, cur_type_align |-> u.cur_type_align]
      BY <1>3, <3>1 DEF TypeSane
    <3>3. TypeSane(t)
      <4>1. u.bit_offset + bits \in Nat
        BY <1>4
      <4> QED BY <1>3, <1>4, <3>2, <4>1, TypeRecord, RecordType
    <3> QED BY <1>4, <3>2, <3>3 DEF Kept
  <2>2. CASE ~(bits > 0) /\ u.bit_offset > 0
    <3> DEFINE o == u.offset + (s - (u.offset % s))
    <3>1. t = [u EXCEPT !.offset = o, !.bit_offset = 0]
      BY <1>3, <2>2 DEF Generic_place
    <3>2. o \in Nat
      BY <1>4, Eng!BoundaryFacts DEF Sizes, Eng!Sizes
    <3> HIDE DEF t, o
    <3>3. t = [max_align |-> u.max_align, align |-> u.align, offset |-> o,
               byte_order |-> u.byte_order, bit_offset |-> 0,
               cur_type_size |-> s, cur_type_align |-> u.cur_type_align]
      BY <1>3, <3>1 DEF TypeSane
    <3>4. TypeSane(t)
      BY <1>3, <1>4, <3>2, <3>3, TypeRecord, RecordType
    <3> QED BY <1>4, <3>3, <3>4 DEF Kept
  <2>3. CASE ~(bits > 0) /\ ~(u.bit_offset > 0)
    <3>1. t = u
      BY <2>3 DEF Generic_place
    <3> QED BY <1>3, <1>4, <3>1 DEF Kept
  <2> QED BY <2>1, <2>2, <2>3
<1> HIDE DEF t
<1>7. d \in Decl /\ d.bits = bits
  <2> DEFINE w == Generic_usedBytes(u.bit_offset + bits)
  <2>1. w \in Sizes /\ u.bit_offset + bits <= 8 * w
    <3>1. s <= 8 /\ u.bit_offset + bits <= 64
      BY <1>3, <1>4 DEF Sizes
    <3> QED BY <1>4, <3>1 DEF Generic_usedBytes, Bits, Sizes
  <2>2. d = [offset |-> u.offset, size |-> w, bits |-> bits,
             pos |-> UnitPos(u.byte_order, w, u.bit_offset, bits)]
    BY DEF Generic_decl
  <2> HIDE DEF w, d
  <2> QED BY <1>4, <2>1, <2>2, DeclTyped
<1> HIDE DEF d
<1>8. Kept(b, t)
  <2>1. t.align \in Nat
    BY <1>6, TypeRecord
  <2> QED BY <1>4, <1>5, <1>6, <2>1 DEF Kept
<1> HIDE DEF p
<1>9. /\ ~p.refused /\ TypeSane(p.bl) /\ Kept(b, p.bl)
      /\ p.decl \in Decl /\ p.decl.bits = bits
  BY <1>1, <1>6, <1>7, <1>8
<1> QED BY <1>9 DEF p

\* Microsoft leaves a unit that is in use.
LEMMA MsNextSane ==
  ASSUME NEW b, TypeSane(b)
  PROVE  LET l == Microsoft_nextUnit(b) IN
         /\ TypeSane(l) /\ Kept(b, l) /\ l.bit_offset = 0 /\ l.cur_type_size = b.cur_type_size
         /\ l.cur_type_align = b.cur_type_align
<1> DEFINE l == Microsoft_nextUnit(b)
<1>1. /\ b.offset \in Nat /\ b.bit_offset \in Nat /\ b.align \in Nat /\ b.cur_type_size \in Nat
  BY TypeRecord DEF Sizes
<1>2. CASE b.bit_offset > 0
  <2>1. l = [b EXCEPT !.offset = @ + b.cur_type_size, !.bit_offset = 0]
    BY <1>2 DEF Microsoft_nextUnit
  <2> HIDE DEF l
  <2>2. l = [max_align |-> b.max_align, align |-> b.align, offset |-> b.offset + b.cur_type_size,
             byte_order |-> b.byte_order, bit_offset |-> 0,
             cur_type_size |-> b.cur_type_size, cur_type_align |-> b.cur_type_align]
    BY <2>1 DEF TypeSane
  <2>3. b.offset + b.cur_type_size \in Nat
    BY <1>1
  <2>4. TypeSane(l)
    BY <2>2, <2>3 DEF TypeSane
  <2> QED BY <1>1, <2>2, <2>4 DEF Kept, l
<1>3. CASE ~(b.bit_offset > 0)
  <2>1. l = b /\ b.bit_offset = 0
    BY <1>1, <1>3 DEF Microsoft_nextUnit
  <2> QED BY <1>1, <2>1 DEF Kept
<1> QED BY <1>2, <1>3

\* and turns to a boundary of the field's type,
LEMMA MsRetypeSane ==
  ASSUME NEW b, TypeSane(b), b.max_align \in Aligns, NEW s \in Sizes,
         b.bit_offset <= 8 * b.cur_type_size
  PROVE  LET q == Microsoft_retype(b, s, s) IN
         TypeSane(q) /\ q.cur_type_size = s /\ Kept(b, q) /\ q.bit_offset <= 8 * s
<1> DEFINE q == Microsoft_retype(b, s, s)
<1>0. b.align \in Nat
  BY TypeRecord
<1>1. CASE b.cur_type_size = s
  <2>1. q = b
    BY <1>1 DEF Microsoft_retype
  <2> QED BY <1>0, <1>1, <2>1 DEF Kept
<1>2. CASE b.cur_type_size # s
  <2> DEFINE al  == Lesser(s, b.max_align)
             l   == Microsoft_nextUnit(b)
             d   == l.offset % al
             o   == IF d = 0 THEN l.offset ELSE l.offset + (al - d)
             alg == IF al > l.align THEN al ELSE l.align
  <2>1. q = [l EXCEPT !.align = alg, !.offset = o, !.cur_type_size = s, !.cur_type_align = al]
    BY <1>2, Zenon DEF Microsoft_retype
  <2>2. al \in Sizes
    BY SizeFacts
  <2>3. TypeSane(l) /\ Kept(b, l) /\ l.bit_offset = 0
    BY MsNextSane
  <2> HIDE DEF l, al
  <2>4. l.offset \in Nat /\ l.align \in Nat /\ l.align \in Aligns \cup {0} /\ al \in Nat /\ al \in Aligns
    BY <2>2, <2>3, TypeRecord DEF Sizes, Aligns
  <2>5. o \in Nat
    BY <2>2, <2>4, Eng!BoundaryFacts DEF Sizes, Eng!Sizes
  <2>6. alg \in Aligns \cup {0} /\ alg >= l.align
    BY <2>4
  <2> HIDE DEF q, d, alg, o
  <2>7. q = [max_align |-> l.max_align, align |-> alg, offset |-> o,
             byte_order |-> l.byte_order, bit_offset |-> 0,
             cur_type_size |-> s, cur_type_align |-> al]
    BY <2>1, <2>3 DEF TypeSane
  <2>8. TypeSane(q)
    BY <2>2, <2>3, <2>5, <2>6, <2>7, TypeRecord, RecordType
  <2>9. alg \in Nat
    BY <2>6 DEF Aligns
  <2>10. q.bit_offset <= 8 * s
    BY <2>7 DEF Sizes
  <2> QED BY <1>0, <2>3, <2>4, <2>6, <2>7, <2>8, <2>9, <2>10 DEF Kept, q
<1> QED BY <1>1, <1>2

\* and refuses a field that is too wide.
LEMMA MsPushSane ==
  ASSUME NEW b, TypeSane(b), b.max_align \in Aligns, NEW s \in Sizes, NEW bits \in Nat,
         b.bit_offset <= 8 * b.cur_type_size
  PROVE  LET p == Microsoft_push(b, bits, s, s) IN
         /\ TypeSane(p.bl) /\ Kept(b, p.bl) /\ p.bl.bit_offset <= 8 * p.bl.cur_type_size
         /\ ~p.refused => p.decl \in Decl /\ p.decl.bits = bits
<1> DEFINE p == Microsoft_push(b, bits, s, s)
           q == Microsoft_retype(b, s, s)
           u == Microsoft_unit(q, bits)
           t == Microsoft_place(q, bits)
           d == Microsoft_decl(q, bits)
<1>1. p = IF Microsoft_tooWide(q, bits) THEN [refused |-> TRUE, bl |-> q]
          ELSE [refused |-> FALSE, bl |-> t, decl |-> d]
  BY DEF Microsoft_push
<1>2. TypeSane(q) /\ q.cur_type_size = s /\ Kept(b, q) /\ q.bit_offset <= 8 * s
  BY MsRetypeSane
<1>3. t = [u EXCEPT !.bit_offset = @ + bits]
  BY DEF Microsoft_place
<1>4. d = [offset |-> u.offset, size |-> u.cur_type_size, bits |-> bits,
           pos |-> UnitPos(u.byte_order, u.cur_type_size, u.bit_offset, bits)]
  BY DEF Microsoft_decl
<1>5. CASE Microsoft_tooWide(q, bits)
  <2>1. p = [refused |-> TRUE, bl |-> q]
    BY <1>1, <1>5
  <2> HIDE DEF p, q
  <2>2. /\ TypeSane(p.bl) /\ Kept(b, p.bl) /\ p.bl.bit_offset <= 8 * p.bl.cur_type_size
        /\ p.refused
    BY <1>2, <2>1
  <2> QED BY <2>2 DEF p, q
<1>6. CASE ~Microsoft_tooWide(q, bits)
  <2>0. u = IF bits = 0 \/ bits > 8 * s - q.bit_offset THEN Microsoft_nextUnit(q) ELSE q
    BY <1>2 DEF Microsoft_unit, Bits
  <2>1. p = [refused |-> FALSE, bl |-> t, decl |-> d]
    BY <1>1, <1>6
  <2>2. bits <= 8 * s
    BY <1>2, <1>6 DEF Microsoft_tooWide, Bits, Sizes
  <2> HIDE DEF q
  <2>3. q.bit_offset \in Nat /\ q.align \in Nat
    BY <1>2, TypeRecord
  <2>4. TypeSane(u) /\ u.cur_type_size = s /\ Kept(q, u) /\ u.bit_offset + bits <= 8 * s
    <3> HIDE DEF u
    <3>1. CASE bits = 0 \/ bits > 8 * s - q.bit_offset
      <4>1. u = Microsoft_nextUnit(q)
        BY <2>0, <3>1
      <4>2. /\ TypeSane(u) /\ Kept(q, u) /\ u.bit_offset = 0 /\ u.cur_type_size = q.cur_type_size
        BY <1>2, <4>1, MsNextSane
      <4> QED BY <1>2, <2>2, <4>2
    <3>2. CASE ~(bits = 0 \/ bits > 8 * s - q.bit_offset)
      <4>1. u = q
        BY <2>0, <3>2
      <4>2. q.bit_offset + bits <= 8 * s
        BY <2>3, <3>2 DEF Sizes
      <4> QED BY <1>2, <2>3, <4>1, <4>2 DEF Kept
    <3> QED BY <3>1, <3>2
  <2> HIDE DEF u, t, d
  <2>5. /\ u.offset \in Nat /\ u.bit_offset \in Nat /\ u.align \in Nat /\ u.byte_order \in ByteOrders
        /\ u.cur_type_align \in Sizes /\ b.align \in Nat
    BY <2>4, TypeRecord DEF TypeSane, Sizes
  <2>6. t = [max_align |-> u.max_align, align |-> u.align, offset |-> u.offset,
             byte_order |-> u.byte_order, bit_offset |-> u.bit_offset + bits,
             cur_type_size |-> s, cur_type_align |-> u.cur_type_align]
    BY <1>3, <2>4 DEF TypeSane
  <2>7. TypeSane(t)
    <3>1. u.bit_offset + bits \in Nat
      BY <2>5
    <3> QED BY <2>4, <2>5, <2>6, <3>1, TypeRecord, RecordType
  <2>8. t.bit_offset <= 8 * t.cur_type_size
    BY <2>4, <2>6
  <2>9. Kept(b, t)
    BY <1>2, <2>3, <2>4, <2>5, <2>6 DEF Kept
  <2>10. d \in Decl /\ d.bits = bits
    BY <1>4, <2>4, <2>5, DeclTyped
  <2> HIDE DEF p
  <2>11. /\ TypeSane(p.bl) /\ Kept(b, p.bl) /\ p.bl.bit_offset <= 8 * p.bl.cur_type_size
         /\ p.decl \in Decl /\ p.decl.bits = bits
    BY <2>1, <2>7, <2>8, <2>9, <2>10
  <2> QED BY <2>11 DEF p
<1> QED BY <1>5, <1>6
\* The Simple engine takes the next block when the field does not fit.
LEMMA SimPushSane ==
  ASSUME NEW b, BlockSane(b), NEW bits \in Nat, bits <= 32
  PROVE  LET p == Simple_push(b, bits) IN
         /\ ~p.refused /\ BlockSane(p.bl) /\ Kept(b, p.bl)
         /\ p.decl \in Decl /\ p.decl.bits = bits
<1> DEFINE p == Simple_push(b, bits)
           u == Simple_block(b, bits)
           t == Simple_place(b, bits)
           d == Simple_decl(b, bits)
<1>1. p = [refused |-> FALSE, bl |-> t, decl |-> d]
  BY DEF Simple_push
<1>2. t = [u EXCEPT !.bits_left = @ - bits]
  BY DEF Simple_place
<1>3. d = [offset |-> u.offset + u.pos, size |-> u.block_size, bits |-> bits,
           pos |-> UnitPos(u.byte_order, u.block_size, Bits(u.block_size) - u.bits_left, bits)]
  BY DEF Simple_decl
<1>4. /\ b.max_align \in Aligns \cup {0} /\ b.align \in Aligns \cup {0} /\ b.offset \in Nat
      /\ b.byte_order \in ByteOrders /\ b.block_size = 4 /\ b.pos \in Nat /\ b.bits_left \in 0 .. 32
      /\ b.align \in Nat
  BY DEF BlockSane, Aligns
<1>5. /\ BlockSane(u) /\ bits <= u.bits_left /\ u.max_align = b.max_align
      /\ u.byte_order = b.byte_order /\ u.align = b.align
  <2>1. CASE bits = 0 \/ bits > b.bits_left
    <3>1. u = [b EXCEPT !.pos = @ + 4, !.bits_left = 32]
      BY <1>4, <2>1 DEF Simple_block, Bits
    <3> HIDE DEF u
    <3>2. u = [max_align |-> b.max_align, align |-> b.align, offset |-> b.offset,
               byte_order |-> b.byte_order, block_size |-> 4, pos |-> b.pos + 4, bits_left |-> 32]
      BY <1>4, <3>1 DEF BlockSane
    <3>3. b.pos + 4 \in Nat /\ 32 \in 0 .. 32
      BY <1>4
    <3> QED BY <1>4, <3>2, <3>3 DEF BlockSane
  <2>2. CASE ~(bits = 0 \/ bits > b.bits_left)
    <3>1. u = b
      BY <2>2 DEF Simple_block
    <3> QED BY <1>4, <2>2, <3>1
  <2> QED BY <2>1, <2>2
<1> HIDE DEF u, t, d
<1>6. /\ u.max_align \in Aligns \cup {0} /\ u.align \in Aligns \cup {0} /\ u.offset \in Nat
      /\ u.byte_order \in ByteOrders /\ u.block_size = 4 /\ u.pos \in Nat /\ u.bits_left \in 0 .. 32
  BY <1>5 DEF BlockSane
<1>7. t = [max_align |-> u.max_align, align |-> u.align, offset |-> u.offset,
           byte_order |-> u.byte_order, block_size |-> 4, pos |-> u.pos,
           bits_left |-> u.bits_left - bits]
  BY <1>2, <1>5, <1>6 DEF BlockSane
<1>8. u.bits_left - bits \in 0 .. 32
  BY <1>5, <1>6
<1>9. BlockSane(t) /\ Kept(b, t)
  <2>1. BlockSane(t)
    BY <1>6, <1>7, <1>8 DEF BlockSane
  <2> QED BY <1>4, <1>5, <1>7, <2>1 DEF Kept
<1>10. d \in Decl /\ d.bits = bits
  <2> DEFINE used == 32 - u.bits_left
  <2>1. used \in Nat /\ used + bits <= 8 * 4 /\ u.offset + u.pos \in Nat /\ 4 \in Sizes
    BY <1>5, <1>6 DEF Sizes
  <2>2. d = [offset |-> u.offset + u.pos, size |-> 4, bits |-> bits,
             pos |-> UnitPos(u.byte_order, 4, used, bits)]
    BY <1>3, <1>6 DEF Bits
  <2> HIDE DEF used
  <2> QED BY <1>6, <2>1, <2>2, DeclTyped
<1> HIDE DEF p
<1>11. /\ ~p.refused /\ BlockSane(p.bl) /\ Kept(b, p.bl)
       /\ p.decl \in Decl /\ p.decl.bits = bits
  BY <1>1, <1>9, <1>10
<1> QED BY <1>11 DEF p

\* bl_push, whatever the object has been through.
LEMMA PushSane ==
  ASSUME NEW c, NEW b, Ready(c, b), NEW s \in Sizes, NEW bits \in Nat, Fits(c, bits, s)
  PROVE  LET p == bl_push(c, b, bits, s, s) IN
         /\ Ready(c, p.bl) /\ Kept(b, p.bl)
         /\ ~p.refused => p.decl \in Decl /\ p.decl.bits = bits
<1> DEFINE p == bl_push(c, b, bits, s, s)
<1>1. c \in Classes /\ b.max_align \in Aligns
  BY DEF Ready, Sane
<1>2. CASE c = "Simple"
  <2>1. p = Simple_push(b, bits)
    BY <1>2 DEF bl_push
  <2>2. BlockSane(b) /\ bits <= 32
    BY <1>2 DEF Ready, Sane, Fits
  <2>3. /\ BlockSane(p.bl) /\ Kept(b, p.bl) /\ p.decl \in Decl /\ p.decl.bits = bits
    BY <2>1, <2>2, SimPushSane
  <2> HIDE DEF p
  <2>4. Ready(c, p.bl)
    BY <1>1, <1>2, <2>3 DEF Ready, Sane, Kept
  <2> QED BY <2>3, <2>4 DEF p
<1>3. CASE c = "Generic"
  <2>1. p = Generic_push(b, bits, s, s)
    BY <1>3 DEF bl_push
  <2>2. TypeSane(b) /\ bits <= 8 * s
    BY <1>3 DEF Ready, Sane, Fits
  <2>3. TypeSane(p.bl) /\ Kept(b, p.bl) /\ p.decl \in Decl /\ p.decl.bits = bits
    BY <1>1, <2>1, <2>2, GenPushSane
  <2> HIDE DEF p
  <2>4. Ready(c, p.bl)
    BY <1>1, <1>3, <2>3 DEF Ready, Sane, Kept
  <2> QED BY <2>3, <2>4 DEF p
<1>4. CASE c = "Microsoft"
  <2>1. p = Microsoft_push(b, bits, s, s)
    BY <1>4 DEF bl_push
  <2>2. TypeSane(b) /\ b.bit_offset <= 8 * b.cur_type_size
    BY <1>4 DEF Ready, Sane
  <2>3. /\ TypeSane(p.bl) /\ Kept(b, p.bl) /\ p.bl.bit_offset <= 8 * p.bl.cur_type_size
        /\ ~p.refused => p.decl \in Decl /\ p.decl.bits = bits
    BY <1>1, <2>1, <2>2, MsPushSane
  <2> HIDE DEF p
  <2>4. Ready(c, p.bl)
    BY <1>1, <1>4, <2>3 DEF Ready, Sane, Kept
  <2> QED BY <2>3, <2>4 DEF p
<1> QED BY <1>1, <1>2, <1>3, <1>4 DEF Classes

\* bl_finalize rounds the end of the run up to bytes; only Simple, which knows
\* no types, gives the struct an alignment of its own.
LEMMA FinalizeSane ==
  ASSUME NEW c, NEW b, Ready(c, b)
  PROVE  LET t == bl_finalize(c, b) IN
         /\ Ready(c, t) /\ t.max_align = b.max_align /\ t.byte_order = b.byte_order
         /\ c # "Simple" => t.align = b.align
         /\ c = "Simple" => t.align = 4
         /\ t.offset \in Nat
<1> DEFINE t == bl_finalize(c, b)
<1>1. c \in Classes /\ b.max_align \in Aligns
  BY DEF Ready, Sane
<1>2. CASE c = "Simple"
  <2> DEFINE e == IF b.bits_left # 32 THEN b.pos + 4 ELSE b.pos
  <2>1. BlockSane(b)
    BY <1>2 DEF Ready, Sane
  <2>2. /\ b.align \in Aligns \cup {0} /\ b.offset \in Nat
        /\ b.byte_order \in ByteOrders /\ b.block_size = 4 /\ b.pos \in Nat /\ b.bits_left \in 0 .. 32
    BY <2>1 DEF BlockSane
  <2>3. t = [b EXCEPT !.pos = e, !.offset = @ + e, !.align = 4]
    BY <1>2, <2>2 DEF bl_finalize, Simple_finalize, Bits
  <2>4. e \in Nat /\ b.offset + e \in Nat /\ 4 \in Aligns
    BY <2>2 DEF Aligns
  <2> HIDE DEF t, e
  <2>5. t = [max_align |-> b.max_align, align |-> 4, offset |-> b.offset + e,
             byte_order |-> b.byte_order, block_size |-> 4, pos |-> e,
             bits_left |-> b.bits_left]
    BY <2>1, <2>2, <2>3 DEF BlockSane
  <2>6. BlockSane(t)
    BY <1>1, <2>2, <2>4, <2>5 DEF BlockSane
  <2>7. Ready(c, t)
    BY <1>1, <1>2, <2>5, <2>6 DEF Ready, Sane
  <2> QED BY <1>2, <2>4, <2>5, <2>7 DEF t
<1>3. CASE c # "Simple"
  <2> DEFINE o == IF c = "Generic" THEN b.offset + (b.bit_offset + 7) \div 8
                  ELSE IF b.bit_offset > 0 THEN b.offset + b.cur_type_size ELSE b.offset
  <2>1. TypeSane(b) /\ c \in {"Generic", "Microsoft"}
    BY <1>1, <1>3 DEF Ready, Sane, Classes
  <2>2. /\ b.offset \in Nat /\ b.bit_offset \in Nat /\ b.cur_type_size \in Nat
    BY <2>1, TypeRecord DEF Sizes
  <2>3. t = [b EXCEPT !.offset = o]
    <3>1. CASE c = "Generic"
      BY <3>1 DEF bl_finalize, Generic_finalize, Bits
    <3>2. CASE c = "Microsoft"
      <4>1. CASE b.bit_offset > 0
        BY <3>2, <4>1 DEF bl_finalize, Microsoft_finalize
      <4>2. CASE ~(b.bit_offset > 0)
        <5>1. t = b /\ o = b.offset
          BY <3>2, <4>2 DEF bl_finalize, Microsoft_finalize
        <5>2. b = [b EXCEPT !.offset = b.offset]
          BY <2>1 DEF TypeSane
        <5> QED BY <5>1, <5>2
      <4> QED BY <4>1, <4>2
    <3> QED BY <2>1, <3>1, <3>2
  <2>4. o \in Nat
    BY <2>2
  <2> HIDE DEF t, o
  <2>5. t = [max_align |-> b.max_align, align |-> b.align, offset |-> o,
             byte_order |-> b.byte_order, bit_offset |-> b.bit_offset,
             cur_type_size |-> b.cur_type_size, cur_type_align |-> b.cur_type_align]
    BY <2>1, <2>3 DEF TypeSane
  <2>6. TypeSane(t)
    BY <2>1, <2>4, <2>5 DEF TypeSane
  <2>7. Ready(c, t)
    BY <1>1, <1>3, <2>5, <2>6 DEF Ready, Sane
  <2> QED BY <1>3, <2>4, <2>5, <2>7 DEF t
<1> QED BY <1>2, <1>3
-----------------------------------------------------------------------------
(* Runs that nothing interferes with: here the engines' own lemmas apply. *)

\* The bit addresses of a field that starts behind `used` bits of its unit.
LEMMA RangeFacts ==
  ASSUME NEW o \in Nat, NEW s \in Nat, NEW bits \in Nat, NEW used \in Nat,
         NEW order \in ByteOrders, NEW d,
         d = [offset |-> o, size |-> s, bits |-> bits, pos |-> UnitPos(order, s, used, bits)]
  PROVE  BitRange(d, order) = [lo |-> 8 * o + used, hi |-> 8 * o + used + bits]
<1>1. d.offset = o /\ d.size = s /\ d.bits = bits /\ d.pos = UnitPos(order, s, used, bits)
  OBVIOUS
<1>2. FirstBit(d, order) = 8 * o + used
  BY <1>1 DEF FirstBit, UnitPos, Bits
<1> QED BY <1>1, <1>2 DEF BitRange

\* Where a push puts a field of some bits, and what it does to the position.
Follows(c, b, s, bits, p) ==
  /\ bits > 0 => /\ Pos(c, b) <= BitRange(p.decl, b.byte_order).lo
                 /\ BitRange(p.decl, b.byte_order).lo \in Int
                 /\ BitRange(p.decl, b.byte_order).hi = BitRange(p.decl, b.byte_order).lo + bits
                 /\ BitRange(p.decl, b.byte_order).hi <= Pos(c, p.bl)
  /\ ~(c = "Generic" /\ bits = 0 /\ s > b.max_align) => Pos(c, b) <= Pos(c, p.bl)
  /\ c = "Generic" =>
       LET al == Lesser(s, b.max_align) IN
       /\ p.decl.size <= s /\ p.decl.offset % al = 0 /\ p.bl.align >= al
       /\ bits > 0 => Bits(p.decl.offset) < Pos(c, p.bl)

LEMMA GenFollows ==
  ASSUME NEW b, Good("Generic", b), NEW s \in Sizes, NEW bits \in Nat, bits <= 8 * s,
         NEW p, p = Generic_push(b, bits, s, s)
  PROVE  Eng!GenGood(p.bl) /\ Follows("Generic", b, s, bits, p)
<1>1. p = Eng!Generic_push(b, bits, s, s)
  BY Zenon DEF Eng!Generic_push, Eng!Generic_moved, Eng!Generic_after, Eng!Generic_retype,
         Eng!Generic_rounds, Eng!Generic_place, Eng!Generic_decl, Eng!Generic_usedBytes,
         Eng!UnitPos, Eng!Lesser, Eng!Bits,
         Generic_push, Generic_moved, Generic_after, Generic_retype,
         Generic_rounds, Generic_place, Generic_decl, Generic_usedBytes, UnitPos, Lesser, Bits
<1>2. /\ \A x : Eng!Generic_position(x) = Generic_position(x)
      /\ \A x, y : Eng!BitRange(x, y) = BitRange(x, y)
      /\ \A x, y : Eng!Lesser(x, y) = Lesser(x, y)
      /\ \A x : Eng!Bits(x) = Bits(x)
      /\ Eng!Sizes = Sizes
  BY DEF Eng!Generic_position, Generic_position, Eng!BitRange, BitRange, Eng!FirstBit, FirstBit,
         Eng!Bits, Bits, Eng!Lesser, Lesser, Eng!Sizes, Sizes
<1> DEFINE u == Eng!Generic_moved(Eng!Generic_retype(b, s, s), bits)
<1>3. Eng!GenGood(b) /\ s \in Eng!Sizes
  BY <1>2 DEF Good
<1>4. /\ Eng!Generic_position(u) \in Int /\ Eng!Generic_position(u) >= Eng!Generic_position(b)
      /\ Eng!GenGood(p.bl)
      /\ p.bl.max_align = b.max_align /\ p.bl.byte_order = b.byte_order
      /\ bits > 0 => Eng!Generic_position(p.bl) = Eng!Generic_position(u) + bits
      /\ bits = 0 /\ s <= b.max_align => Eng!Generic_position(p.bl) >= Eng!Generic_position(b)
      /\ p.bl.cur_type_size = s
      /\ p.decl.bits = bits /\ p.decl.size <= s
      /\ p.decl.offset % Eng!Lesser(s, b.max_align) = 0
      /\ Eng!Bits(p.decl.offset) <= Eng!Generic_position(u)
      /\ Eng!BitRange(p.decl, b.byte_order) =
           [lo |-> Eng!Generic_position(u), hi |-> Eng!Generic_position(u) + bits]
  BY <1>1, <1>3, Eng!GenPush
<1> DEFINE n == Generic_position(u)
           e == BitRange(p.decl, b.byte_order)
<1>5. /\ n \in Int /\ n >= Generic_position(b)
      /\ bits > 0 => Generic_position(p.bl) = n + bits
      /\ bits = 0 /\ s <= b.max_align => Generic_position(p.bl) >= Generic_position(b)
      /\ p.decl.offset % Lesser(s, b.max_align) = 0
      /\ Bits(p.decl.offset) <= n
      /\ e = [lo |-> n, hi |-> n + bits]
  BY <1>2, <1>4
<1>6. p.bl.align >= Lesser(s, b.max_align)
  <2>1. s # 0
    BY DEF Sizes
  <2>2. p.bl.align >= Eng!Lesser(p.bl.cur_type_size, p.bl.max_align)
    BY <1>4, <2>1 DEF Eng!GenGood
  <2> QED BY <1>2, <1>4, <2>2
<1>7. /\ Generic_position(b) \in Int /\ Generic_position(p.bl) \in Int /\ b.max_align \in Nat
      /\ s \in Nat /\ Bits(p.decl.offset) \in Int
  <2>1. b.offset \in Nat /\ b.bit_offset \in Nat /\ b.max_align \in Nat
    BY <1>3 DEF Eng!GenGood, Eng!TypeObj, Eng!Aligns
  <2>2. p.bl.offset \in Nat /\ p.bl.bit_offset \in Nat
    BY <1>4 DEF Eng!GenGood, Eng!TypeObj
  <2>3. p.decl.offset \in Nat
    <3>1. p.decl \in Decl
      <4>1. TypeSane(b) /\ b.max_align \in Aligns
        BY DEF Good, Ready, Sane
      <4> QED BY <4>1, GenPushSane
    <3> QED BY <3>1 DEF Decl
  <2> QED BY <2>1, <2>2, <2>3 DEF Generic_position, Bits, Sizes
<1> HIDE DEF n, e, u
<1>8. Pos("Generic", b) = Generic_position(b) /\ Pos("Generic", p.bl) = Generic_position(p.bl)
  BY DEF Pos
<1>9. bits > 0 => /\ Pos("Generic", b) <= e.lo /\ e.lo \in Int /\ e.hi = e.lo + bits
                  /\ e.hi <= Pos("Generic", p.bl) /\ Bits(p.decl.offset) < Pos("Generic", p.bl)
  BY <1>5, <1>7, <1>8
<1>10. ~(bits = 0 /\ s > b.max_align) => Pos("Generic", b) <= Pos("Generic", p.bl)
  BY <1>5, <1>7, <1>8
<1> QED BY <1>4, <1>5, <1>6, <1>9, <1>10 DEF Follows, e

LEMMA MsFollows ==
  ASSUME NEW b, Good("Microsoft", b), NEW s \in Sizes, NEW bits \in Nat,
         NEW p, p = Microsoft_push(b, bits, s, s), ~p.refused
  PROVE  Eng!MsGood(p.bl) /\ Follows("Microsoft", b, s, bits, p)
<1>1. p = Eng!Microsoft_push(b, bits, s, s)
  BY Zenon DEF Eng!Microsoft_push, Eng!Microsoft_retype, Eng!Microsoft_nextUnit, Eng!Microsoft_unit,
         Eng!Microsoft_tooWide, Eng!Microsoft_place, Eng!Microsoft_decl, Eng!UnitPos,
         Eng!Lesser, Eng!Bits,
         Microsoft_push, Microsoft_retype, Microsoft_nextUnit, Microsoft_unit,
         Microsoft_tooWide, Microsoft_place, Microsoft_decl, UnitPos, Lesser, Bits
<1>2. /\ \A x : Eng!Microsoft_position(x) = Microsoft_position(x)
      /\ \A w, x, y, z : Eng!UnitPos(w, x, y, z) = UnitPos(w, x, y, z)
      /\ Eng!Sizes = Sizes /\ Eng!ByteOrders = ByteOrders
  BY DEF Eng!Microsoft_position, Microsoft_position, Eng!Bits, Bits, Eng!UnitPos, UnitPos,
         Eng!Sizes, Sizes, Eng!ByteOrders, ByteOrders
<1> DEFINE u == Eng!Microsoft_unit(Eng!Microsoft_retype(b, s, s), bits)
<1>3. Eng!MsGood(b) /\ s \in Eng!Sizes
  BY <1>2 DEF Good
<1>4. /\ Eng!MsGood(u) /\ Eng!MsAhead(b, u)
      /\ Eng!MsGood(p.bl)
      /\ p.bl.offset = u.offset /\ p.bl.bit_offset = u.bit_offset + bits
      /\ p.decl = [offset |-> u.offset, size |-> s, bits |-> bits,
                   pos |-> Eng!UnitPos(u.byte_order, s, u.bit_offset, bits)]
  BY <1>1, <1>3, Eng!MsPush
<1>5. u.offset \in Nat /\ u.bit_offset \in Nat /\ u.byte_order \in ByteOrders
  BY <1>2, <1>4 DEF Eng!MsGood, Eng!TypeObj
<1>6. u.byte_order = b.byte_order /\ Microsoft_position(u) >= Microsoft_position(b)
  BY <1>2, <1>4 DEF Eng!MsAhead
<1> HIDE DEF u
<1> DEFINE e == BitRange(p.decl, b.byte_order)
<1>7. e = [lo |-> 8 * u.offset + u.bit_offset, hi |-> 8 * u.offset + u.bit_offset + bits]
  <2>1. s \in Nat
    BY DEF Sizes
  <2>2. p.decl = [offset |-> u.offset, size |-> s, bits |-> bits,
                  pos |-> UnitPos(b.byte_order, s, u.bit_offset, bits)]
    BY <1>2, <1>4, <1>6
  <2> QED BY <1>5, <1>6, <2>1, <2>2, RangeFacts, SMTT(60)
<1>8. Microsoft_position(p.bl) = 8 * u.offset + u.bit_offset + bits
  BY <1>4, <1>5 DEF Microsoft_position, Bits
<1>9. Microsoft_position(u) = 8 * u.offset + u.bit_offset
  BY DEF Microsoft_position, Bits
<1>10. Microsoft_position(b) \in Int
  BY <1>3 DEF Eng!MsGood, Eng!TypeObj, Microsoft_position, Bits
<1>11. Pos("Microsoft", b) = Microsoft_position(b) /\ Pos("Microsoft", p.bl) = Microsoft_position(p.bl)
  BY DEF Pos
<1> HIDE DEF e
<1>12. /\ Pos("Microsoft", b) <= e.lo /\ e.lo \in Int /\ e.hi = e.lo + bits
       /\ e.hi <= Pos("Microsoft", p.bl) /\ Pos("Microsoft", b) <= Pos("Microsoft", p.bl)
  BY <1>5, <1>6, <1>7, <1>8, <1>9, <1>10, <1>11
<1> QED BY <1>4, <1>12 DEF Follows, e

LEMMA SimFollows ==
  ASSUME NEW b, Good("Simple", b), NEW s \in Sizes, NEW bits \in Nat, bits <= 32,
         NEW p, p = Simple_push(b, bits)
  PROVE  Follows("Simple", b, s, bits, p)
<1> DEFINE u == Simple_block(b, bits)
<1>1. BlockSane(b)
  BY DEF Good, Ready, Sane
<1>2. /\ b.offset \in Nat /\ b.byte_order \in ByteOrders /\ b.block_size = 4
      /\ b.pos \in Nat /\ b.bits_left \in 0 .. 32
  BY <1>1 DEF BlockSane
<1>3. /\ u.offset = b.offset /\ u.byte_order = b.byte_order /\ u.block_size = 4
      /\ u.pos \in Nat /\ u.bits_left \in 0 .. 32 /\ bits <= u.bits_left
      /\ 8 * (u.offset + u.pos) + 32 - u.bits_left >= 8 * (b.offset + b.pos) + 32 - b.bits_left
  <2>1. CASE bits = 0 \/ bits > b.bits_left
    <3>1. u = [b EXCEPT !.pos = b.pos + 4, !.bits_left = 32]
      BY <1>2, <2>1 DEF Simple_block, Bits
    <3> HIDE DEF u
    <3>2. /\ u.offset = b.offset /\ u.byte_order = b.byte_order /\ u.block_size = 4
          /\ u.pos = b.pos + 4 /\ u.bits_left = 32
      BY <1>1, <1>2, <3>1 DEF BlockSane
    <3> QED BY <1>2, <3>2
  <2>2. CASE ~(bits = 0 \/ bits > b.bits_left)
    <3>1. u = b
      BY <2>2 DEF Simple_block
    <3> HIDE DEF u
    <3> QED BY <1>2, <2>2, <3>1
  <2> QED BY <2>1, <2>2
<1>4. /\ p.decl = [offset |-> u.offset + u.pos, size |-> u.block_size, bits |-> bits,
                   pos |-> UnitPos(u.byte_order, u.block_size, Bits(u.block_size) - u.bits_left, bits)]
      /\ p.bl = [u EXCEPT !.bits_left = @ - bits]
  BY DEF Simple_push, Simple_decl, Simple_place
<1>5. BlockSane(p.bl)
  BY <1>1, SimPushSane
<1>6. /\ p.bl.offset = u.offset /\ p.bl.pos = u.pos /\ p.bl.block_size = 4
      /\ p.bl.bits_left = u.bits_left - bits
  <2>1. BlockSane(u)
    <3>1. u = b \/ u = [b EXCEPT !.pos = b.pos + 4, !.bits_left = 32]
      BY <1>2 DEF Simple_block, Bits
    <3>2. b.pos + 4 \in Nat /\ 32 \in 0 .. 32
      BY <1>2
    <3> HIDE DEF u
    <3> QED BY <1>1, <3>1, <3>2 DEF BlockSane
  <2> HIDE DEF u
  <2> QED BY <1>3, <1>4, <2>1 DEF BlockSane
<1> HIDE DEF u
<1> DEFINE e == BitRange(p.decl, b.byte_order)
           used == 32 - u.bits_left
<1>7. e = [lo |-> 8 * (u.offset + u.pos) + used, hi |-> 8 * (u.offset + u.pos) + used + bits]
  <2>1. used \in Nat /\ u.offset + u.pos \in Nat /\ 4 \in Nat
    BY <1>2, <1>3
  <2>2. p.decl = [offset |-> u.offset + u.pos, size |-> 4, bits |-> bits,
                  pos |-> UnitPos(b.byte_order, 4, used, bits)]
    BY <1>3, <1>4 DEF Bits
  <2> HIDE DEF used
  <2> QED BY <1>2, <2>1, <2>2, RangeFacts, SMTT(60)
<1>8. /\ Pos("Simple", b) = 8 * (b.offset + b.pos) + 32 - b.bits_left
      /\ Pos("Simple", p.bl) = 8 * (u.offset + u.pos) + 32 - (u.bits_left - bits)
  BY <1>2, <1>6 DEF Pos, Simple_position, Bits
<1> HIDE DEF e
<1>9. /\ Pos("Simple", b) <= e.lo /\ e.lo \in Int /\ e.hi = e.lo + bits
      /\ e.hi <= Pos("Simple", p.bl) /\ Pos("Simple", b) <= Pos("Simple", p.bl)
  <2> DEFINE x == u.offset + u.pos
             y == b.offset + b.pos
             l == u.bits_left
  <2>1. x \in Nat /\ y \in Nat /\ l \in Int /\ b.bits_left \in Int
    BY <1>2, <1>3
  <2>2. 8 * x + 32 - l >= 8 * y + 32 - b.bits_left
    BY <1>3
  <2>3. e.lo = 8 * x + (32 - l) /\ e.hi = 8 * x + (32 - l) + bits
    BY <1>7
  <2>4. Pos("Simple", b) = 8 * y + 32 - b.bits_left /\ Pos("Simple", p.bl) = 8 * x + 32 - (l - bits)
    BY <1>8
  <2> HIDE DEF x, y, l
  <2> QED BY <2>1, <2>2, <2>3, <2>4
<1> QED BY <1>9 DEF Follows, e

\* A push within a run that nothing has interfered with.
LEMMA GoodPush ==
  ASSUME NEW c, NEW b, Good(c, b), NEW s \in Sizes, NEW bits \in Nat, Fits(c, bits, s),
         NEW p, p = bl_push(c, b, bits, s, s), ~p.refused
  PROVE  Good(c, p.bl) /\ Follows(c, b, s, bits, p)
<1>1. Ready(c, b) /\ c \in Classes
  BY DEF Good, Ready, Sane
<1>2. Ready(c, p.bl)
  BY <1>1, PushSane
<1>3. CASE c = "Simple"
  <2>1. p = Simple_push(b, bits) /\ bits <= 32
    BY <1>3 DEF bl_push, Fits
  <2> QED BY <1>2, <1>3, <2>1, SimFollows DEF Good
<1>4. CASE c = "Generic"
  <2>1. p = Generic_push(b, bits, s, s) /\ bits <= 8 * s
    BY <1>4 DEF bl_push, Fits
  <2> QED BY <1>2, <1>4, <2>1, GenFollows DEF Good
<1>5. CASE c = "Microsoft"
  <2>1. p = Microsoft_push(b, bits, s, s)
    BY <1>5 DEF bl_push
  <2> QED BY <1>2, <1>5, <2>1, MsFollows DEF Good
<1> QED BY <1>1, <1>3, <1>4, <1>5 DEF Classes

\* The end of such a run lies behind all its fields.
LEMMA GoodFinalize ==
  ASSUME NEW c, NEW b, Good(c, b)
  PROVE  Pos(c, b) <= Bits(bl_finalize(c, b).offset)
<1>1. c \in Classes
  BY DEF Good, Ready, Sane
<1>2. CASE c = "Simple"
  <2>1. BlockSane(b)
    BY <1>2 DEF Good, Ready, Sane
  <2>2. /\ b.offset \in Nat /\ b.block_size = 4 /\ b.pos \in Nat /\ b.bits_left \in 0 .. 32
    BY <2>1 DEF BlockSane
  <2>3. bl_finalize(c, b).offset = b.offset + (IF b.bits_left # 32 THEN b.pos + 4 ELSE b.pos)
    <3>1. bl_finalize(c, b) = Simple_finalize(b)
      BY <1>2 DEF bl_finalize
    <3> DEFINE e == IF b.bits_left # 32 THEN b.pos + 4 ELSE b.pos
    <3>2. Simple_finalize(b) = [b EXCEPT !.pos = e, !.offset = @ + e, !.align = 4]
      BY <2>2 DEF Simple_finalize, Bits
    <3> HIDE DEF e
    <3>3. Simple_finalize(b).offset = b.offset + e
      BY <2>1, <3>2 DEF BlockSane
    <3> QED BY <3>1, <3>3 DEF e
  <2> QED BY <1>2, <2>2, <2>3 DEF Pos, Simple_position, Bits
<1>3. CASE c = "Generic"
  <2>1. TypeSane(b)
    BY <1>3 DEF Good, Ready, Sane
  <2>2. b.offset \in Nat /\ b.bit_offset \in Nat
    BY <2>1, TypeRecord
  <2>3. bl_finalize(c, b).offset = b.offset + (b.bit_offset + 7) \div 8
    BY <1>3, <2>1 DEF bl_finalize, Generic_finalize, Bits, TypeSane
  <2> QED BY <1>3, <2>2, <2>3 DEF Pos, Generic_position, Bits
<1>4. CASE c = "Microsoft"
  <2>1. TypeSane(b) /\ b.bit_offset <= 8 * b.cur_type_size
    BY <1>4 DEF Good, Ready, Sane
  <2>2. b.offset \in Nat /\ b.bit_offset \in Nat /\ b.cur_type_size \in Nat
    BY <2>1, TypeRecord DEF Sizes
  <2>3. bl_finalize(c, b).offset = IF b.bit_offset > 0 THEN b.offset + b.cur_type_size ELSE b.offset
    BY <1>4, <2>1 DEF bl_finalize, Microsoft_finalize, TypeSane
  <2> QED BY <1>4, <2>1, <2>2, <2>3 DEF Pos, Microsoft_position, Bits
<1> QED BY <1>1, <1>2, <1>3, <1>4 DEF Classes
-----------------------------------------------------------------------------
(* The invariant.  First what holds whatever interferes with a struct. *)

Entry == [align : Aligns \cup {0}, size : Nat]
Call  == [struct : Structs, i : Nat \ {0}, inb : BOOLEAN]

Typed ==
  /\ setup \in Setups
  /\ info \in [Structs -> Entry]
  /\ placed \in [Structs -> Seq(Decl)]
  /\ stack \in Seq(Call)
  /\ spoiled \subseteq Structs
  /\ Sane(Class, bl)

\* A struct nobody has begun with holds nothing, and none too much.
Filled == \A s \in Structs : /\ info[s].align = 0 => placed[s] = << >>
                             /\ Len(placed[s]) <= Len(defs[s].members)

\* The k-th call has placed the members before the one it has come to.
Underway(k) ==
  /\ defs[stack[k].struct].complete /\ info[stack[k].struct].align # 0
  /\ Len(placed[stack[k].struct]) = stack[k].i - 1
  /\ defs[stack[k].struct].kind = "union" => ~stack[k].inb
  /\ stack[k].inb => bl.align # 0

CallsApart == \A k, l \in 1 .. Depth : stack[k].struct = stack[l].struct => k = l

Called == /\ stack # << >> => Ready(Class, bl) /\ bl.byte_order = ByteOrder
          /\ \A k \in 1 .. Depth : Underway(k)
          /\ CallsApart

Orderly == Typed /\ Filled /\ Called

\* Then what holds for a struct until something interferes with it.  A call
\* works with its own packing, and with the run it has open, if any; the calls
\* it has made have opened none.
Undisturbed(k) ==
  /\ bl.max_align = PackOf(stack[k].struct)
  /\ stack[k].inb => /\ Good(Class, bl)
                     /\ Class # "Simple" => bl.align >= info[stack[k].struct].align
                     /\ \A l \in k + 1 .. Depth : ~stack[l].inb

RunsKept == \A k \in 1 .. Depth : stack[k].struct \notin spoiled => Undisturbed(k)

\* How far the struct has got, and its alignment, an open run included.
InRun(s)    == \E k \in 1 .. Depth : stack[k].struct = s /\ stack[k].inb
Reach(s)    == IF InRun(s) THEN Pos(Class, bl) ELSE Bits(info[s].size)
AlignNow(s) == IF InRun(s) THEN bl.align ELSE info[s].align

\* A member that is no bitfield lies on a boundary of its type, and the struct
\* is aligned for it; if it is a struct, that struct will not change again.
AlignedAt(s, i) ==
  LET m == defs[s].members[i]
      a == Lesser(TypeInfo(m).align, PackOf(s))
  IN  m.kind # "bits" =>
        /\ IsComp(m) => LaidOut(m.of) \/ ~defs[m.of].complete
        /\ a \in Aligns /\ placed[s][i].offset % a = 0 /\ a <= info[s].align

StaysAligned == \A s \in Structs \ spoiled :
  /\ \A i \in 1 .. Len(placed[s]) : AlignedAt(s, i)
  /\ LaidOut(s) => info[s].size % info[s].align = 0

\* The members that take up bits follow one another.
Ordered(s) ==
  \A i, j \in 1 .. Len(placed[s]) :
    i < j /\ ~Empty(s, i) /\ ~Empty(s, j) => Extent(s, i).hi <= Extent(s, j).lo

Within(s) ==
  \A i \in 1 .. Len(placed[s]) :
    ~Empty(s, i) => Extent(s, i).lo >= 0 /\ Extent(s, i).hi <= Reach(s)

\* The unit a bitfield is read from begins below the end of the struct, on a
\* boundary of the field's type, for which the struct is aligned.
UnitAt(s, i) ==
  LET m == defs[s].members[i]
      d == placed[s][i]
  IN  IF m.kind = "bits"
      THEN d = Nowhere \/ /\ d.size <= m.size /\ d.offset % m.size = 0
                          /\ m.size <= AlignNow(s) /\ Bits(d.offset) < Reach(s)
      ELSE Bits(d.offset + d.size) <= Reach(s)

Laid(s) ==
  /\ Ordered(s) /\ Within(s)
  /\ Class = "Generic" => \A i \in 1 .. Len(placed[s]) : UnitAt(s, i)
  /\ Class = "Generic" /\ LaidOut(s) =>
       \A i \in 1 .. Len(placed[s]) : placed[s][i].offset + placed[s][i].size <= info[s].size

Covers(s) == \A i \in 1 .. Len(placed[s]) : placed[s][i].offset + placed[s][i].size <= info[s].size

StaysApart == \A s \in Structs \ spoiled :
  /\ defs[s].kind = "struct" /\ (Class = "Generic" => Unpacked(s)) => Laid(s)
  /\ defs[s].kind = "union" /\ ~HasBits(s) => Covers(s)
-----------------------------------------------------------------------------
(* What the tables, the calls and the layouter are like where a call goes on. *)

LEMMA TableFacts ==
  ASSUME setup \in Setups
  PROVE  /\ Class \in Classes /\ ByteOrder \in ByteOrders
         /\ Alignment \in Aligns /\ CompoundAlignment \in Aligns /\ IntSize \in Sizes
         /\ \A s \in Structs : /\ StructTyped(setup, defs[s]) /\ PackOf(s) \in Aligns
                               /\ PackOf(s) = IF defs[s].pack > 0 THEN defs[s].pack ELSE setup.alignment
<1>1. /\ setup.class \in Classes /\ setup.order \in ByteOrders
      /\ setup.alignment \in Aligns /\ setup.compound \in Aligns /\ IntSize \in Sizes
      /\ \A s \in DOMAIN setup.defs : StructTyped(setup, setup.defs[s])
  BY LayoutAssumption
<1>2. ASSUME NEW s \in Structs
      PROVE  PackOf(s) \in Aligns
  <2>1. defs[s].pack \in Aligns \cup {0}
    BY <1>1, <1>2 DEF StructTyped, defs, Structs
  <2> QED BY <1>1, <2>1 DEF PackOf, Alignment, Aligns
<1> QED BY <1>1, <1>2 DEF Class, ByteOrder, Alignment, CompoundAlignment, Structs, defs, PackOf

LEMMA FrameFacts ==
  ASSUME Typed, stack # << >>
  PROVE  /\ Depth \in Nat \ {0} /\ Depth \in 1 .. Depth /\ Frame \in Call
         /\ Current \in Structs /\ info[Current] \in Entry /\ placed[Current] \in Seq(Decl)
<1>1. stack \in Seq(Call)
  BY DEF Typed
<1>2. Depth \in Nat \ {0} /\ Depth \in 1 .. Depth
  BY <1>1 DEF Depth
<1>3. Frame \in Call
  BY <1>1, <1>2 DEF Frame, Depth
<1> QED BY <1>2, <1>3 DEF Typed, Call, Current

LEMMA CallFacts ==
  ASSUME Typed, NEW k \in 1 .. Depth
  PROVE  stack[k] \in Call /\ stack[k].struct \in Structs /\ stack[k].i \in Nat /\ stack[k].inb \in BOOLEAN
<1>1. stack \in Seq(Call) /\ k \in 1 .. Len(stack)
  BY DEF Typed, Depth
<1>2. stack[k] \in Call
  BY <1>1
<1> QED BY <1>2 DEF Call

\* The member a call has come to.
LEMMA MemberFacts ==
  ASSUME Orderly, stack # << >>, ~Done
  PROVE  /\ Frame.i \in 1 .. Len(defs[Current].members)
         /\ Len(placed[Current]) = Frame.i - 1
         /\ MemberTyped(setup, PackOf(Current), Member)
<1>1. Typed /\ setup \in Setups
  BY DEF Orderly, Typed
<1>2. /\ Depth \in 1 .. Depth /\ Frame \in Call /\ Current \in Structs
  BY <1>1, FrameFacts
<1>3. StructTyped(setup, defs[Current]) /\ Len(defs[Current].members) \in Nat
      /\ PackOf(Current) = IF defs[Current].pack > 0 THEN defs[Current].pack ELSE setup.alignment
  BY <1>1, <1>2, TableFacts DEF StructTyped
<1>4. Frame.i \in Nat \ {0} /\ ~(Frame.i > Len(defs[Current].members))
  BY <1>2 DEF Call, Done
<1>5. Frame.i \in 1 .. Len(defs[Current].members)
  BY <1>3, <1>4
<1>6. MemberTyped(setup, PackOf(Current), Member)
  BY <1>3, <1>5 DEF StructTyped, Member
<1>7. Len(placed[Current]) = Frame.i - 1
  <2>1. Underway(Depth)
    BY <1>2 DEF Orderly, Called
  <2> QED BY <2>1 DEF Underway, Frame, Current
<1> QED BY <1>5, <1>6, <1>7

\* A run that was open is ended.
LEMMA FinishedFacts ==
  ASSUME Orderly, stack # << >>
  PROVE  LET f == Finished IN
         /\ Ready(Class, f.bl) /\ f.bl.byte_order = ByteOrder /\ f.bl.max_align = bl.max_align
         /\ f.info \in Entry /\ f.info.align # 0 /\ (bl.align # 0 => f.bl.align # 0)
         /\ ~Frame.inb => f.bl = bl /\ f.info = info[Current]
         /\ Frame.inb => /\ f.info.align = (IF Class = "Simple" THEN 4 ELSE bl.align)
                         /\ f.info.size = bl_finalize(Class, bl).offset
<1>1. Typed /\ Called /\ Ready(Class, bl) /\ bl.byte_order = ByteOrder /\ Underway(Depth)
  <2>1. Depth \in 1 .. Depth
    BY FrameFacts DEF Orderly
  <2> QED BY <2>1 DEF Orderly, Called
<1>2. Current \in Structs /\ info[Current] \in Entry
  BY <1>1, FrameFacts
<1>3. CASE ~Frame.inb
  <2>1. Finished = [bl |-> bl, info |-> info[Current]]
    BY <1>3 DEF Finished
  <2>2. info[Current].align # 0
    BY <1>1 DEF Underway, Current, Frame
  <2> QED BY <1>1, <1>2, <1>3, <2>1, <2>2
<1>4. CASE Frame.inb
  <2> DEFINE t == bl_finalize(Class, bl)
  <2>1. Finished = [bl |-> t, info |-> [align |-> t.align, size |-> t.offset]]
    BY <1>4 DEF Finished
  <2>2. /\ Ready(Class, t) /\ t.max_align = bl.max_align /\ t.byte_order = bl.byte_order
        /\ Class # "Simple" => t.align = bl.align
        /\ Class = "Simple" => t.align = 4
        /\ t.offset \in Nat
    BY <1>1, FinalizeSane
  <2>3. bl.align # 0
    BY <1>1, <1>4 DEF Underway, Frame
  <2>4. t.align \in Aligns \cup {0}
    BY <2>2, SaneFacts DEF Ready
  <2>5. t.align # 0
    BY <2>2, <2>3
  <2> HIDE DEF t
  <2>6. Finished.bl = t /\ Finished.info.align = t.align /\ Finished.info.size = t.offset
        /\ Finished.info \in Entry
    BY <2>1, <2>2, <2>4 DEF Entry
  <2> QED BY <1>1, <1>4, <2>2, <2>5, <2>6 DEF t
<1> QED BY <1>3, <1>4

\* A member's type, once it is known.
LEMMA TypeFacts ==
  ASSUME Orderly, stack # << >>, ~Done, Member.kind # "bits",
         IsComp(Member) => ~NoLayout(Member.of)
  PROVE  LET t == TypeInfo(Member) IN
         t.size \in Nat /\ Lesser(t.align, PackOf(Current)) \in Aligns
<1> DEFINE t == TypeInfo(Member)
<1>1. Typed /\ setup \in Setups /\ Current \in Structs
  BY FrameFacts DEF Orderly, Typed
<1>2. MemberTyped(setup, PackOf(Current), Member)
  BY MemberFacts
<1>3. PackOf(Current) \in Aligns /\ IntSize \in Sizes
  BY <1>1, TableFacts
<1>4. CASE ~IsComp(Member)
  <2>1. t = [size |-> Member.size, align |-> Member.align]
    BY <1>4 DEF TypeInfo
  <2>2. Member.size \in Nat /\ Lesser(Member.align, PackOf(Current)) \in Aligns
    BY <1>2, <1>4 DEF MemberTyped, IsComp
  <2> QED BY <2>1, <2>2
<1>5. CASE IsComp(Member)
  <2>1. Member.of \in Structs /\ Member.count \in Nat
    BY <1>2, <1>5 DEF MemberTyped, IsComp, Structs, defs
  <2>2. CASE ~defs[Member.of].complete
    <3>1. t = [size |-> Member.count * IntSize, align |-> IntSize]
      BY <1>5, <2>2 DEF TypeInfo
    <3>2. Member.count * IntSize \in Nat
      BY <1>3, <2>1 DEF Sizes
    <3>3. Lesser(IntSize, PackOf(Current)) \in Aligns
      BY <1>3, SizeFacts DEF Sizes, Aligns
    <3> QED BY <3>1, <3>2, <3>3
  <2>3. CASE defs[Member.of].complete
    <3> DEFINE e == info[Member.of]
    <3>1. t = [size |-> Member.count * e.size, align |-> e.align]
      BY <1>5, <2>3 DEF TypeInfo
    <3>2. e \in Entry
      BY <1>1, <2>1 DEF Typed
    <3>3. e.align # 0
      BY <1>5, <2>3 DEF NoLayout
    <3>4. e.align \in Aligns /\ e.size \in Nat
      BY <3>2, <3>3 DEF Entry
    <3> HIDE DEF e
    <3>5. Member.count * e.size \in Nat
      BY <2>1, <3>4
    <3>6. Lesser(e.align, PackOf(Current)) \in Aligns
      BY <1>3, <3>4, LesserFacts
    <3> QED BY <3>1, <3>5, <3>6
  <2> QED BY <2>2, <2>3
<1> QED BY <1>4, <1>5

\* The object a bitfield is pushed to.
LEMMA OpenedFacts ==
  ASSUME Orderly, stack # << >>
  PROVE  /\ Ready(Class, Opened) /\ Opened.byte_order = ByteOrder
         /\ Opened.max_align = bl.max_align /\ Opened.align # 0
         /\ Frame.inb => Opened = bl
         /\ ~Frame.inb => /\ Good(Class, Opened) /\ Opened.align = info[Current].align
                          /\ Pos(Class, Opened) =
                               Bits(IF Kind = "struct" THEN info[Current].size ELSE 0)
<1>1. Typed /\ Called /\ Ready(Class, bl) /\ bl.byte_order = ByteOrder /\ Underway(Depth)
  <2>1. Depth \in 1 .. Depth
    BY FrameFacts DEF Orderly
  <2> QED BY <2>1 DEF Orderly, Called
<1>2. Current \in Structs /\ info[Current] \in Entry
  BY <1>1, FrameFacts
<1>3. info[Current].align \in Aligns /\ info[Current].align # 0 /\ info[Current].size \in Nat
  BY <1>1, <1>2 DEF Underway, Current, Frame, Entry
<1>4. CASE Frame.inb
  <2>1. Opened = bl
    BY <1>4 DEF Opened
  <2> QED BY <1>1, <1>4, <2>1 DEF Underway, Frame
<1>5. CASE ~Frame.inb
  <2> DEFINE n == IF Kind = "struct" THEN info[Current].size ELSE 0
             a == info[Current].align
  <2>1. Opened = [bl_reset(Class, bl) EXCEPT !.align = a, !.offset = n]
    BY <1>5 DEF Opened
  <2>2. n \in Nat /\ a \in Aligns /\ a # 0
    BY <1>3
  <2> HIDE DEF n, a
  <2>3. /\ Good(Class, Opened) /\ Opened.align = a /\ Pos(Class, Opened) = Bits(n)
        /\ Opened.max_align = bl.max_align /\ Opened.byte_order = bl.byte_order
    <3> DEFINE t == Cleared(Class, bl, a, n)
    <3>1. /\ Good(Class, t) /\ t.align = a /\ Pos(Class, t) = Bits(n)
          /\ t.max_align = bl.max_align /\ t.byte_order = bl.byte_order
      BY <1>1, <2>2, OpenedGood
    <3> HIDE DEF t
    <3>2. Opened = t
      BY <2>1 DEF t, Cleared
    <3> QED BY <3>1, <3>2
  <2> QED BY <1>1, <1>5, <2>2, <2>3 DEF Good, n, a
<1> QED BY <1>4, <1>5

\* The object after the push, and the declarator.
LEMMA PushedFacts ==
  ASSUME Orderly, stack # << >>, ~Done, Member.kind = "bits"
  PROVE  /\ Ready(Class, Pushed.bl) /\ Pushed.bl.byte_order = ByteOrder
         /\ Pushed.bl.max_align = bl.max_align
         /\ Pushed.bl.align # 0 /\ Pushed.bl.align >= Opened.align
         /\ Member.size \in Sizes /\ Member.bits \in Nat /\ Fits(Class, Member.bits, Member.size)
         /\ Pushed = bl_push(Class, Opened, Member.bits, Member.size, Member.size)
         /\ ~Pushed.refused => Pushed.decl \in Decl /\ Pushed.decl.bits = Member.bits
<1>1. /\ Ready(Class, Opened) /\ Opened.byte_order = ByteOrder
      /\ Opened.max_align = bl.max_align /\ Opened.align # 0
  BY OpenedFacts
<1>2. /\ Member.size \in Sizes /\ Member.bits \in Nat /\ Fits(Class, Member.bits, Member.size)
      /\ Member.align = Member.size
  BY MemberFacts DEF MemberTyped, Class
<1>3. Pushed = bl_push(Class, Opened, Member.bits, Member.size, Member.size)
  BY <1>2 DEF Pushed
<1>4. /\ Ready(Class, Pushed.bl) /\ Kept(Opened, Pushed.bl)
      /\ ~Pushed.refused => Pushed.decl \in Decl /\ Pushed.decl.bits = Member.bits
  BY <1>1, <1>2, <1>3, PushSane
<1>5. Pushed.bl.align # 0
  <2>1. Opened.align \in Nat /\ Pushed.bl.align \in Nat
    BY <1>1, <1>4, SaneFacts DEF Ready, Aligns
  <2> QED BY <1>1, <1>4, <2>1 DEF Kept
<1> QED BY <1>1, <1>2, <1>3, <1>4, <1>5 DEF Kept
-----------------------------------------------------------------------------
(* A step of the innermost call: its struct gets the entry e and holds q, and *)
(* the call becomes g or, at its end, is gone. *)

Top(e, q, g) ==
  /\ stack # << >> /\ setup' = setup
  /\ info' = [info EXCEPT ![Current] = e] /\ e \in Entry /\ e.align # 0
  /\ placed' = [placed EXCEPT ![Current] = q] /\ q \in Seq(Decl)
  /\ stack' \in Seq(Call) /\ Len(stack') \in {Depth, Depth - 1}
  /\ \A k \in 1 .. Len(stack') : stack'[k] = IF k = Depth THEN g ELSE stack[k]
  /\ g \in Call /\ g.struct = Current

\* A layouter that goes on: what a step leaves bl in.
Works == /\ Ready(Class, bl') /\ bl'.byte_order = ByteOrder
         /\ bl'.max_align = bl.max_align /\ (bl.align # 0 => bl'.align # 0)

LEMMA Primes ==
  ASSUME setup' = setup
  PROVE  /\ Class' = Class /\ ByteOrder' = ByteOrder /\ Structs' = Structs /\ defs' = defs
         /\ Call' = Call
         /\ \A s : PackOf(s)' = PackOf(s) /\ HasBits(s)' = HasBits(s) /\ Unpacked(s)' = Unpacked(s)
BY DEF Class, ByteOrder, Structs, defs, Call, PackOf, HasBits, Unpacked, Alignment

\* What such a step does to the tables.
LEMMA TopTables ==
  ASSUME Typed, NEW e, NEW q, NEW g, Top(e, q, g)
  PROVE  /\ info'[Current] = e /\ placed'[Current] = q
         /\ \A s \in Structs : s # Current => info'[s] = info[s] /\ placed'[s] = placed[s]
         /\ info' \in [Structs -> Entry] /\ placed' \in [Structs -> Seq(Decl)]
<1>1. info \in [Structs -> Entry] /\ placed \in [Structs -> Seq(Decl)] /\ Current \in Structs
  BY FrameFacts DEF Typed, Top
<1>2. /\ info' = [info EXCEPT ![Current] = e] /\ e \in Entry
      /\ placed' = [placed EXCEPT ![Current] = q] /\ q \in Seq(Decl)
  BY DEF Top
<1> QED BY <1>1, <1>2

\* And to the calls.
LEMMA TopCalls ==
  ASSUME Typed, NEW e, NEW q, NEW g, Top(e, q, g), NEW k \in 1 .. Depth'
  PROVE  /\ k \in 1 .. Depth
         /\ k = Depth => stack'[k] = g
         /\ k # Depth => stack'[k] = stack[k]
         /\ stack'[k].struct = stack[k].struct
<1>1. Depth \in Nat \ {0} /\ Depth' = Len(stack')
  BY FrameFacts DEF Top, Depth
<1>2. k \in 1 .. Depth
  BY <1>1 DEF Top
<1>3. /\ k = Depth => stack'[k] = g
      /\ k # Depth => stack'[k] = stack[k]
  BY <1>1 DEF Top
<1>4. stack'[k].struct = stack[k].struct
  BY <1>3 DEF Top, Current, Frame
<1> QED BY <1>2, <1>3, <1>4

LEMMA TopOrderly ==
  ASSUME Orderly, NEW e, NEW q, NEW g, Top(e, q, g),
         Len(q) <= Len(defs[Current].members), Len(q) = g.i - 1,
         Kind = "union" => ~g.inb,
         Works, g.inb => bl'.align # 0, spoiled' \subseteq Structs
  PROVE  Orderly'
<1>1. Typed /\ Filled /\ Called /\ CallsApart
  BY DEF Orderly, Called
<1>2. setup' = setup /\ stack # << >> /\ e \in Entry /\ e.align # 0
  BY DEF Top
<1>3. /\ Class' = Class /\ ByteOrder' = ByteOrder /\ Structs' = Structs /\ defs' = defs
      /\ Call' = Call
  BY <1>2, Primes
<1>4. /\ info'[Current] = e /\ placed'[Current] = q
      /\ \A s \in Structs : s # Current => info'[s] = info[s] /\ placed'[s] = placed[s]
      /\ info' \in [Structs -> Entry] /\ placed' \in [Structs -> Seq(Decl)]
  BY <1>1, TopTables
<1>5. Typed'
  <2>1. Sane(Class', bl')
    BY <1>3 DEF Works, Ready
  <2>2. setup' \in Setups /\ stack' \in Seq(Call')
    BY <1>1, <1>2, <1>3 DEF Typed, Top
  <2> QED BY <1>3, <1>4, <2>1, <2>2 DEF Typed
<1>6. Filled'
  <2>1. ASSUME NEW s \in Structs
        PROVE  /\ info'[s].align = 0 => placed'[s] = << >>
               /\ Len(placed'[s]) <= Len(defs[s].members)
    BY <1>1, <1>2, <1>4 DEF Filled
  <2> QED BY <1>3, <2>1 DEF Filled
<1>7. Called'
  <2>1. ASSUME NEW k \in 1 .. Depth'
        PROVE  Underway(k)'
    <3>1. /\ k \in 1 .. Depth
          /\ k = Depth => stack'[k] = g
          /\ k # Depth => stack'[k] = stack[k]
          /\ stack'[k].struct = stack[k].struct
      BY <1>1, TopCalls
    <3>2. Underway(k) /\ stack[k].struct \in Structs /\ Depth \in 1 .. Depth
      BY <1>1, <1>2, <3>1, CallFacts, FrameFacts DEF Called
    <3>3. CASE k = Depth
      <4>1. stack'[k] = g /\ g.struct = Current /\ stack[k].struct = Current
        BY <3>1, <3>3 DEF Top, Current, Frame
      <4>2. defs[Current].complete /\ Kind = defs[Current].kind
        BY <3>2, <4>1 DEF Underway, Kind
      <4> QED BY <1>2, <1>3, <1>4, <4>1, <4>2 DEF Underway
    <3>4. CASE k # Depth
      <4>1. stack[k].struct # Current
        BY <1>1, <3>1, <3>2, <3>4 DEF CallsApart, Current, Frame
      <4>2. stack'[k] = stack[k] /\ info'[stack[k].struct] = info[stack[k].struct]
            /\ placed'[stack[k].struct] = placed[stack[k].struct]
        BY <1>4, <3>1, <3>2, <3>4, <4>1
      <4> QED BY <1>3, <3>2, <4>2 DEF Underway, Works
    <3> QED BY <3>3, <3>4
  <2>2. CallsApart'
    <3>1. ASSUME NEW k \in 1 .. Depth', NEW l \in 1 .. Depth', stack'[k].struct = stack'[l].struct
          PROVE  k = l
      <4>1. k \in 1 .. Depth /\ l \in 1 .. Depth /\ stack[k].struct = stack[l].struct
        BY <1>1, <3>1, TopCalls
      <4> QED BY <1>1, <4>1 DEF CallsApart
    <3> QED BY <3>1 DEF CallsApart
  <2>3. Ready(Class', bl') /\ bl'.byte_order = ByteOrder'
    BY <1>3 DEF Works
  <2> QED BY <2>1, <2>2, <2>3 DEF Called
<1> QED BY <1>5, <1>6, <1>7 DEF Orderly

-----------------------------------------------------------------------------
(* The steps. *)

\* A new call is on top of the others, and of none of their structs.
LEMMA BeginFacts ==
  ASSUME Orderly, NEW s \in Structs, Begin(s), UNCHANGED <<setup, placed>>
  PROVE  /\ info' \in [Structs -> Entry]
         /\ info'[s].align \in Aligns /\ info'[s].size = info[s].size
         /\ placed[s] = << >>
         /\ \A r \in Structs : r # s => info'[r] = info[r]
         /\ stack' \in Seq(Call) /\ Depth \in Nat /\ Depth' = Depth + 1
         /\ stack'[Depth'] = [struct |-> s, i |-> 1, inb |-> FALSE]
         /\ \A k \in 1 .. Depth : stack'[k] = stack[k] /\ stack[k].struct # s
         /\ spoiled \subseteq spoiled' /\ spoiled' \subseteq Structs
         /\ \A k \in 1 .. Depth : PackOf(stack[k].struct) # PackOf(s) => stack[k].struct \in spoiled'
         /\ Ready(Class, bl') /\ bl'.max_align = PackOf(s) /\ bl'.byte_order = ByteOrder
         /\ bl'.align = bl.align
         /\ bl.max_align = PackOf(s) /\ bl.byte_order = ByteOrder => bl' = bl
<1>1. Typed /\ Filled /\ Called /\ setup \in Setups
  BY DEF Orderly, Typed
<1>2. info[s].align = 0 /\ placed[s] = << >> /\ info[s] \in Entry /\ defs[s].complete
  BY <1>1 DEF Begin, NoLayout, Filled, Typed
<1>3. PackOf(s) \in Aligns /\ CompoundAlignment \in Aligns /\ ByteOrder \in ByteOrders
  BY <1>1, TableFacts
<1>4. Lesser(PackOf(s), CompoundAlignment) \in Aligns
  BY <1>3, LesserFacts
<1>5. info \in [Structs -> Entry]
  BY <1>1 DEF Typed
<1>6. /\ info' \in [Structs -> Entry]
      /\ info'[s].align \in Aligns /\ info'[s].size = info[s].size
      /\ \A r \in Structs : r # s => info'[r] = info[r]
  <2> DEFINE a == Lesser(PackOf(s), CompoundAlignment)
  <2>1. info' = [info EXCEPT ![s].align = a] /\ a \in Aligns
    BY <1>4 DEF Begin
  <2> HIDE DEF a
  <2>2. [info[s] EXCEPT !.align = a] = [align |-> a, size |-> info[s].size]
    BY <1>2 DEF Entry
  <2>3. info' = [info EXCEPT ![s] = [align |-> a, size |-> info[s].size]]
    BY <1>5, <2>1, <2>2
  <2>4. [align |-> a, size |-> info[s].size] \in Entry
    BY <1>2, <2>1 DEF Entry
  <2> QED BY <1>5, <2>1, <2>3, <2>4
<1>7. /\ stack' \in Seq(Call) /\ Depth \in Nat /\ Depth' = Depth + 1
      /\ stack'[Depth'] = [struct |-> s, i |-> 1, inb |-> FALSE]
      /\ \A k \in 1 .. Depth : stack'[k] = stack[k]
  <2> DEFINE f == [struct |-> s, i |-> 1, inb |-> FALSE]
  <2>1. f \in Call
    BY DEF Call
  <2>2. stack' = Append(stack, f) /\ stack \in Seq(Call)
    BY <1>1 DEF Begin, Typed
  <2> HIDE DEF f
  <2> QED BY <2>1, <2>2 DEF Depth, f
<1>8. ASSUME NEW k \in 1 .. Depth
      PROVE  stack[k].struct # s
  <2>1. Underway(k)
    BY <1>1 DEF Called
  <2> QED BY <1>2, <2>1 DEF Underway
<1>9. /\ spoiled \subseteq spoiled' /\ spoiled' \subseteq Structs
      /\ \A k \in 1 .. Depth : PackOf(stack[k].struct) # PackOf(s) => stack[k].struct \in spoiled'
  <2>1. spoiled' = spoiled \cup {stack[k].struct : k \in {k \in 1 .. Depth :
                                   PackOf(stack[k].struct) # PackOf(s)}}
    BY DEF Begin
  <2>2. \A k \in 1 .. Depth : stack[k].struct \in Structs
    BY <1>1, CallFacts
  <2> QED BY <1>1, <2>1, <2>2 DEF Typed
<1>10. /\ Ready(Class, bl') /\ bl'.max_align = PackOf(s) /\ bl'.byte_order = ByteOrder
       /\ bl'.align = bl.align
       /\ bl.max_align = PackOf(s) /\ bl.byte_order = ByteOrder => bl' = bl
  <2>1. Sane(Class, bl) /\ bl' = Headed(bl, PackOf(s), ByteOrder)
    BY <1>1 DEF Typed, Begin, Headed
  <2> QED BY <1>3, <2>1, HeaderSane
<1> QED BY <1>2, <1>6, <1>7, <1>8, <1>9, <1>10

LEMMA BeginOrderly ==
  ASSUME Orderly, NEW s \in Structs, Begin(s), UNCHANGED <<setup, placed>>
  PROVE  Orderly'
<1>1. Typed /\ Filled /\ Called /\ CallsApart
  BY DEF Orderly, Called
<1>2. /\ Class' = Class /\ ByteOrder' = ByteOrder /\ Structs' = Structs /\ defs' = defs
      /\ Call' = Call
  BY Primes
<1>3. /\ info' \in [Structs -> Entry]
      /\ info'[s].align \in Aligns
      /\ placed[s] = << >>
      /\ \A r \in Structs : r # s => info'[r] = info[r]
      /\ stack' \in Seq(Call) /\ Depth \in Nat /\ Depth' = Depth + 1
      /\ stack'[Depth'] = [struct |-> s, i |-> 1, inb |-> FALSE]
      /\ \A k \in 1 .. Depth : stack'[k] = stack[k] /\ stack[k].struct # s
      /\ spoiled' \subseteq Structs
      /\ Ready(Class, bl') /\ bl'.byte_order = ByteOrder /\ bl'.align = bl.align
  BY BeginFacts
<1>4. Typed'
  BY <1>1, <1>2, <1>3 DEF Typed, Ready
<1>5. Filled'
  <2>1. ASSUME NEW r \in Structs
        PROVE  /\ info'[r].align = 0 => placed'[r] = << >>
               /\ Len(placed'[r]) <= Len(defs[r].members)
    BY <1>1, <1>3 DEF Filled
  <2> QED BY <1>2, <2>1 DEF Filled
<1>6. Called'
  <2>1. ASSUME NEW k \in 1 .. Depth'
        PROVE  Underway(k)'
    <3>1. CASE k = Depth'
      <4>1. stack'[k].struct = s /\ stack'[k].i = 1 /\ ~stack'[k].inb
        BY <1>3, <3>1
      <4>2. defs[s].complete
        BY DEF Begin, NoLayout
      <4>3. info'[s].align # 0
        BY <1>3 DEF Aligns
      <4>4. Len(placed'[s]) = 0
        BY <1>3
      <4> QED BY <1>2, <4>1, <4>2, <4>3, <4>4 DEF Underway
    <3>2. CASE k # Depth'
      <4>1. k \in 1 .. Depth
        BY <1>3, <3>2
      <4>2. Underway(k) /\ stack[k].struct \in Structs /\ stack[k].struct # s /\ stack'[k] = stack[k]
        BY <1>1, <1>3, <4>1, CallFacts DEF Called
      <4> QED BY <1>2, <1>3, <4>2 DEF Underway
    <3> QED BY <3>1, <3>2
  <2>2. CallsApart'
    <3>1. ASSUME NEW k \in 1 .. Depth', NEW l \in 1 .. Depth', stack'[k].struct = stack'[l].struct
          PROVE  k = l
      <4>1. k \in 1 .. Depth \/ k = Depth'
        BY <1>3
      <4>2. l \in 1 .. Depth \/ l = Depth'
        BY <1>3
      <4> QED BY <1>1, <1>3, <3>1, <4>1, <4>2, SMTT(60) DEF CallsApart
    <3> QED BY <3>1 DEF CallsApart
  <2> QED BY <1>2, <1>3, <2>1, <2>2 DEF Called
<1> QED BY <1>4, <1>5, <1>6 DEF Orderly
\* The innermost call, n members on, in a run of bitfields or not.
Moved(n, inb) == [struct |-> Current, i |-> Frame.i + n, inb |-> inb]

Stepped(n, inb) == [stack EXCEPT ![Depth].i = @ + n, ![Depth].inb = inb]
Advanced(n)     == [stack EXCEPT ![Depth].i = @ + n]
Left(inb)       == [stack EXCEPT ![Depth].inb = inb]

LEMMA MovedFacts ==
  ASSUME Typed, stack # << >>, NEW n \in Nat, NEW inb \in BOOLEAN, NEW t,
         \/ t = Stepped(n, inb)
         \/ n = 0 /\ t = Left(inb)
         \/ inb = Frame.inb /\ t = Advanced(n)
  PROVE  /\ t \in Seq(Call) /\ Len(t) = Depth
         /\ \A k \in 1 .. Len(t) : t[k] = IF k = Depth THEN Moved(n, inb) ELSE stack[k]
         /\ Moved(n, inb) \in Call
<1> DEFINE g == Moved(n, inb)
<1>1. Depth \in 1 .. Depth /\ Depth = Len(stack) /\ stack \in Seq(Call) /\ Depth \in Nat /\ stack[Depth] \in Call
  BY FrameFacts DEF Depth, Typed, Frame
<1>2. g = [struct |-> stack[Depth].struct, i |-> stack[Depth].i + n, inb |-> inb]
  BY DEF Moved, Current, Frame
<1> HIDE DEF g
<1>3. g \in Call
  BY <1>1, <1>2 DEF Call
<1>4. t = [stack EXCEPT ![Depth] = g]
  <2> DEFINE f == stack[Depth]
  <2>1. f \in Call /\ g = [struct |-> f.struct, i |-> f.i + n, inb |-> inb]
    BY <1>1, <1>2
  <2>2. /\ Stepped(n, inb) = [stack EXCEPT ![Depth] = [f EXCEPT !.i = @ + n, !.inb = inb]]
        /\ Advanced(n) = [stack EXCEPT ![Depth] = [f EXCEPT !.i = @ + n]]
        /\ Left(inb) = [stack EXCEPT ![Depth] = [f EXCEPT !.inb = inb]]
    BY <1>1, ZenonT(60) DEF Stepped, Advanced, Left
  <2>3. f.inb = Frame.inb
    BY DEF Frame
  <2> HIDE DEF f
  <2>4. f.i \in Nat
    BY <2>1 DEF Call
  <2>5. [f EXCEPT !.i = @ + n, !.inb = inb] = g
    <3> DEFINE h == [f EXCEPT !.i = @ + n]
    <3>1. h = [struct |-> f.struct, i |-> f.i + n, inb |-> f.inb]
      BY <2>1 DEF Call
    <3>2. [f EXCEPT !.i = @ + n, !.inb = inb] = [h EXCEPT !.inb = inb]
      OBVIOUS
    <3> HIDE DEF h
    <3>3. [h EXCEPT !.inb = inb] = g
      BY <2>1, <3>1
    <3> QED BY <3>2, <3>3
  <2>6. inb = f.inb => [f EXCEPT !.i = @ + n] = g
    BY <2>1 DEF Call
  <2>7. n = 0 => [f EXCEPT !.inb = inb] = g
    BY <2>1, <2>4 DEF Call
  <2> QED BY <2>2, <2>3, <2>5, <2>6, <2>7
<1>5. t \in Seq(Call) /\ Len(t) = Depth
  BY <1>1, <1>3, <1>4
<1>6. \A k \in 1 .. Len(t) : t[k] = IF k = Depth THEN g ELSE stack[k]
  BY <1>1, <1>3, <1>4, <1>5
<1> QED BY <1>3, <1>5, <1>6 DEF g

\* EndRun.
LEMMA EndRunTop ==
  ASSUME Orderly, EndRun
  PROVE  /\ Top(Finished.info, placed[Current], Moved(0, FALSE))
         /\ Works /\ bl' = Finished.bl /\ spoiled' = spoiled
         /\ Frame.inb /\ ~Done /\ Depth' = Depth
<1>1. Typed /\ stack # << >> /\ ~Done /\ Frame.inb
  BY DEF Orderly, EndRun
<1>2. /\ Current \in Structs /\ placed[Current] \in Seq(Decl) /\ placed \in [Structs -> Seq(Decl)]
  BY <1>1, FrameFacts DEF Typed
<1>3. /\ Ready(Class, Finished.bl) /\ Finished.bl.byte_order = ByteOrder
      /\ Finished.bl.max_align = bl.max_align
      /\ Finished.info \in Entry /\ Finished.info.align # 0 /\ (bl.align # 0 => Finished.bl.align # 0)
  BY <1>1, FinishedFacts
<1>4. /\ stack' \in Seq(Call) /\ Len(stack') = Depth
      /\ \A k \in 1 .. Len(stack') : stack'[k] = IF k = Depth THEN Moved(0, FALSE) ELSE stack[k]
      /\ Moved(0, FALSE) \in Call
  <2>1. stack' = Left(FALSE) /\ 0 \in Nat
    BY DEF EndRun, Left
  <2> QED BY <1>1, <2>1, MovedFacts, Zenon
<1>5. /\ bl' = Finished.bl /\ info' = [info EXCEPT ![Current] = Finished.info]
      /\ placed' = [placed EXCEPT ![Current] = placed[Current]] /\ setup' = setup /\ spoiled' = spoiled
  BY <1>2 DEF EndRun
<1>6. Moved(0, FALSE).struct = Current
  BY DEF Moved
<1>7. Depth' = Depth
  BY <1>4 DEF Depth
<1> QED BY <1>1, <1>2, <1>3, <1>4, <1>5, <1>6, <1>7 DEF Top, Works

\* Place.
Clamp == Lesser(TypeInfo(Member).align, PackOf(Current))
At    == IF Kind = "struct" THEN RoundUp(Finished.info.size, Clamp) ELSE 0
Held  == [offset |-> At, size |-> TypeInfo(Member).size, bits |-> 0, pos |-> 0]
Grown == [align |-> Greater(Clamp, Finished.info.align),
          size  |-> Greater(At + TypeInfo(Member).size, Finished.info.size)]

LEMMA PlaceTop ==
  ASSUME Orderly, Place
  PROVE  /\ Top(Grown, Append(placed[Current], Held), Moved(1, FALSE))
         /\ Works /\ bl' = Finished.bl /\ Depth' = Depth
         /\ spoiled' = IF IsComp(Member) /\ OnStack(Member.of) THEN spoiled \cup {Current} ELSE spoiled
         /\ ~Done /\ Member.kind # "bits" /\ (IsComp(Member) => ~NoLayout(Member.of))
         /\ Clamp \in Aligns /\ At \in Nat /\ At % Clamp = 0 /\ Held \in Decl
         /\ Kind = "struct" => Finished.info.size <= At
         /\ Clamp <= Grown.align /\ Finished.info.align <= Grown.align /\ Grown.align \in Aligns
         /\ At + TypeInfo(Member).size <= Grown.size /\ Finished.info.size <= Grown.size
<1>1. /\ Typed /\ stack # << >> /\ ~Done /\ Member.kind # "bits"
      /\ IsComp(Member) => ~NoLayout(Member.of)
  BY DEF Orderly, Place
<1>2. /\ Current \in Structs /\ placed[Current] \in Seq(Decl) /\ placed \in [Structs -> Seq(Decl)]
  BY <1>1, FrameFacts DEF Typed
<1>3. /\ Ready(Class, Finished.bl) /\ Finished.bl.byte_order = ByteOrder
      /\ Finished.bl.max_align = bl.max_align
      /\ Finished.info \in Entry /\ Finished.info.align # 0 /\ (bl.align # 0 => Finished.bl.align # 0)
  BY <1>1, FinishedFacts
<1>4. Finished.info.align \in Aligns /\ Finished.info.size \in Nat
  BY <1>3 DEF Entry
<1>5. TypeInfo(Member).size \in Nat /\ Clamp \in Aligns
  BY <1>1, TypeFacts DEF Clamp
<1>6. /\ At \in Nat /\ At % Clamp = 0
      /\ Kind = "struct" => Finished.info.size <= At
  <2>1. /\ RoundUp(Finished.info.size, Clamp) \in Nat
        /\ Finished.info.size <= RoundUp(Finished.info.size, Clamp)
        /\ RoundUp(Finished.info.size, Clamp) % Clamp = 0
    BY <1>4, <1>5, RoundUpFacts
  <2>2. 0 % Clamp = 0
    BY <1>5 DEF Aligns
  <2> QED BY <2>1, <2>2 DEF At
<1>7. Held \in Decl
  BY <1>5, <1>6 DEF Held, Decl
<1>8. /\ Grown \in Entry /\ Grown.align \in Aligns /\ Grown.align # 0
      /\ Clamp <= Grown.align /\ Finished.info.align <= Grown.align
      /\ At + TypeInfo(Member).size <= Grown.size /\ Finished.info.size <= Grown.size
  <2>1. /\ Grown.align \in Aligns /\ Clamp <= Grown.align /\ Finished.info.align <= Grown.align
    BY <1>4, <1>5 DEF Grown, Greater, Aligns
  <2>2. /\ Grown.size \in Nat
        /\ At + TypeInfo(Member).size <= Grown.size /\ Finished.info.size <= Grown.size
    BY <1>4, <1>5, <1>6 DEF Grown, Greater
  <2>3. Grown = [align |-> Grown.align, size |-> Grown.size]
    BY DEF Grown
  <2>4. Grown.align # 0
    BY <2>1 DEF Aligns
  <2> QED BY <2>1, <2>2, <2>3, <2>4 DEF Entry
<1>9. /\ stack' \in Seq(Call) /\ Len(stack') = Depth
      /\ \A k \in 1 .. Len(stack') : stack'[k] = IF k = Depth THEN Moved(1, FALSE) ELSE stack[k]
      /\ Moved(1, FALSE) \in Call
  <2>1. stack' = Stepped(1, FALSE) /\ 1 \in Nat
    BY DEF Place, Stepped
  <2> QED BY <1>1, <2>1, MovedFacts, Zenon
<1>10. /\ bl' = Finished.bl /\ info' = [info EXCEPT ![Current] = Grown]
       /\ placed' = [placed EXCEPT ![Current] = Append(placed[Current], Held)]
       /\ setup' = setup
       /\ spoiled' = IF IsComp(Member) /\ OnStack(Member.of) THEN spoiled \cup {Current} ELSE spoiled
  <2>1. placed' = [placed EXCEPT ![Current] = Append(@, Held)]
    BY DEF Place, Held, At, Clamp
  <2> QED BY <1>2, <2>1 DEF Place, Grown, At, Clamp
<1>11. Moved(1, FALSE).struct = Current /\ Append(placed[Current], Held) \in Seq(Decl)
  BY <1>2, <1>7 DEF Moved
<1>12. Depth' = Depth
  BY <1>9 DEF Depth
<1> QED BY <1>1, <1>3, <1>5, <1>6, <1>7, <1>8, <1>9, <1>10, <1>11, <1>12 DEF Top, Works

\* PushBits.
Given  == IF Member.bits = 0 THEN Nowhere ELSE Pushed.decl
Ended  == bl_finalize(Class, Pushed.bl)

\* A struct goes on in its run; a union has ended it.
LEMMA PushTop ==
  ASSUME Orderly, PushBits
  PROVE  /\ Kind = "struct" =>
              /\ Top(info[Current], Append(placed[Current], Given), Moved(1, TRUE)) /\ bl' = Pushed.bl
         /\ Kind # "struct" =>
              /\ Top([align |-> Ended.align, size |-> Ended.offset],
                     Append(placed[Current], Given), Moved(1, FALSE))
              /\ bl' = Ended /\ ~Frame.inb
         /\ Works /\ bl'.align # 0 /\ Depth' = Depth
         /\ spoiled' = IF Frame.inb THEN spoiled
                       ELSE spoiled \cup {stack[k].struct : k \in {k \in 1 .. Depth - 1 : stack[k].inb}}
         /\ ~Done /\ Member.kind = "bits" /\ ~Pushed.refused /\ Given \in Decl
<1>1. /\ Typed /\ stack # << >> /\ ~Done /\ Member.kind = "bits" /\ ~Pushed.refused
  BY DEF Orderly, PushBits
<1>2. /\ Current \in Structs /\ placed[Current] \in Seq(Decl) /\ placed \in [Structs -> Seq(Decl)]
      /\ info \in [Structs -> Entry] /\ info[Current] \in Entry /\ Depth \in 1 .. Depth
  BY <1>1, FrameFacts DEF Typed
<1>3. Underway(Depth) /\ defs[Current].kind \in {"struct", "union"}
  <2>1. StructTyped(setup, defs[Current])
    BY <1>1, <1>2, TableFacts DEF Typed
  <2> QED BY <1>2, <2>1 DEF Orderly, Called, StructTyped
<1>4. /\ Ready(Class, Pushed.bl) /\ Pushed.bl.byte_order = ByteOrder
      /\ Pushed.bl.max_align = bl.max_align /\ Pushed.bl.align # 0
      /\ Pushed.decl \in Decl
  BY <1>1, PushedFacts
<1>5. Given \in Decl
  BY <1>4 DEF Given, Nowhere, Decl
<1>6. Append(placed[Current], Given) \in Seq(Decl)
  BY <1>2, <1>5
<1>7. /\ placed' = [placed EXCEPT ![Current] = Append(placed[Current], Given)]
      /\ setup' = setup
      /\ spoiled' = IF Frame.inb THEN spoiled
                    ELSE spoiled \cup {stack[k].struct : k \in {k \in 1 .. Depth - 1 : stack[k].inb}}
  <2>1. placed' = [placed EXCEPT ![Current] = Append(@, Given)]
    BY DEF PushBits, Given
  <2> QED BY <1>2, <2>1 DEF PushBits
<1>8. CASE Kind = "struct"
  <2>1. /\ bl' = Pushed.bl /\ info' = [info EXCEPT ![Current] = info[Current]]
    BY <1>2, <1>8 DEF PushBits
  <2>2. /\ stack' \in Seq(Call) /\ Len(stack') = Depth
        /\ \A k \in 1 .. Len(stack') : stack'[k] = IF k = Depth THEN Moved(1, TRUE) ELSE stack[k]
        /\ Moved(1, TRUE) \in Call
    <3>1. stack' = Stepped(1, TRUE)
      BY <1>8 DEF PushBits, Stepped
    <3> QED BY <1>1, <3>1, MovedFacts, ZenonT(60)
  <2>3. info[Current].align # 0
    BY <1>3 DEF Underway, Current, Frame
  <2>4. Moved(1, TRUE).struct = Current
    BY DEF Moved
  <2>5. Depth' = Depth
    BY <2>2 DEF Depth
  <2> QED BY <1>1, <1>2, <1>4, <1>5, <1>6, <1>7, <1>8, <2>1, <2>2, <2>3, <2>4, <2>5 DEF Top, Works
<1>9. CASE Kind # "struct"
  <2> DEFINE e == [align |-> Ended.align, size |-> Ended.offset]
  <2>1. Kind = "union" /\ ~Frame.inb /\ Frame.inb \in BOOLEAN
    BY <1>1, <1>3, <1>9, FrameFacts DEF Kind, Underway, Frame, Current, Call
  <2>2. bl' = Ended
    BY <1>9 DEF PushBits, Ended
  <2>3. info' = [info EXCEPT ![Current] = [align |-> bl'.align, size |-> bl'.offset]]
    BY <1>9 DEF PushBits
  <2>4. /\ Ready(Class, Ended) /\ Ended.max_align = bl.max_align /\ Ended.byte_order = ByteOrder
        /\ Ended.offset \in Nat /\ Ended.align # 0 /\ Ended.align \in Aligns \cup {0}
    <3>1. /\ Ready(Class, Ended) /\ Ended.max_align = Pushed.bl.max_align
          /\ Ended.byte_order = Pushed.bl.byte_order
          /\ Class # "Simple" => Ended.align = Pushed.bl.align
          /\ Class = "Simple" => Ended.align = 4
          /\ Ended.offset \in Nat
      BY <1>4, FinalizeSane DEF Ended
    <3>2. Ended.align \in Aligns \cup {0}
      BY <3>1, SaneFacts DEF Ready
    <3> QED BY <1>4, <3>1, <3>2
  <2>5. e \in Entry /\ e.align # 0
    BY <2>4 DEF Entry
  <2>6. info' = [info EXCEPT ![Current] = e]
    BY <2>2, <2>3
  <2>7. /\ stack' \in Seq(Call) /\ Len(stack') = Depth
        /\ \A k \in 1 .. Len(stack') : stack'[k] = IF k = Depth THEN Moved(1, FALSE) ELSE stack[k]
        /\ Moved(1, FALSE) \in Call
    <3>1. stack' = Advanced(1) /\ FALSE = Frame.inb /\ 1 \in Nat
      BY <1>9, <2>1 DEF PushBits, Advanced
    <3> QED BY <1>1, <3>1, MovedFacts, Zenon
  <2>8. Moved(1, FALSE).struct = Current
    BY DEF Moved
  <2> HIDE DEF e
  <2>9. Top(e, Append(placed[Current], Given), Moved(1, FALSE))
    BY <1>1, <1>6, <1>7, <2>5, <2>6, <2>7, <2>8 DEF Top
  <2>10. Works /\ bl'.align # 0 /\ Depth' = Depth
    BY <2>2, <2>4, <2>7 DEF Works, Depth
  <2> QED BY <1>1, <1>5, <1>7, <1>9, <2>1, <2>2, <2>9, <2>10 DEF e
<1> QED BY <1>8, <1>9

\* Return.
Padded == [align |-> Finished.info.align,
           size  |-> RoundUp(Finished.info.size, Finished.info.align)]

LEMMA ReturnTop ==
  ASSUME Orderly, Return
  PROVE  /\ Top(Padded, placed[Current], Frame) /\ Len(stack') = Depth - 1
         /\ Works /\ bl' = Finished.bl /\ spoiled' = spoiled
         /\ Padded.align \in Aligns /\ Padded.size % Padded.align = 0
         /\ Finished.info.size <= Padded.size
<1>1. Typed /\ stack # << >>
  BY DEF Orderly, Return
<1>2. /\ Current \in Structs /\ placed[Current] \in Seq(Decl) /\ placed \in [Structs -> Seq(Decl)]
      /\ info \in [Structs -> Entry] /\ Depth \in Nat \ {0} /\ Depth = Len(stack)
      /\ stack \in Seq(Call) /\ Frame \in Call /\ Frame.struct = Current
  BY <1>1, FrameFacts DEF Typed, Depth, Current
<1>3. /\ Ready(Class, Finished.bl) /\ Finished.bl.byte_order = ByteOrder
      /\ Finished.bl.max_align = bl.max_align
      /\ Finished.info \in Entry /\ Finished.info.align # 0 /\ (bl.align # 0 => Finished.bl.align # 0)
  BY <1>1, FinishedFacts
<1>4. Finished.info.align \in Aligns /\ Finished.info.size \in Nat
      /\ Finished.info = [align |-> Finished.info.align, size |-> Finished.info.size]
  BY <1>3 DEF Entry
<1>5. /\ Padded \in Entry /\ Padded.align \in Aligns /\ Padded.align # 0
      /\ Padded.size % Padded.align = 0 /\ Finished.info.size <= Padded.size
  <2>1. /\ RoundUp(Finished.info.size, Finished.info.align) \in Nat
        /\ Finished.info.size <= RoundUp(Finished.info.size, Finished.info.align)
        /\ RoundUp(Finished.info.size, Finished.info.align) % Finished.info.align = 0
    BY <1>4, RoundUpFacts
  <2> QED BY <1>3, <1>4, <2>1 DEF Padded, Entry
<1>6. /\ bl' = Finished.bl /\ info' = [info EXCEPT ![Current] = Padded]
      /\ placed' = [placed EXCEPT ![Current] = placed[Current]] /\ setup' = setup /\ spoiled' = spoiled
      /\ stack' = SubSeq(stack, 1, Depth - 1)
  <2>1. [Finished.info EXCEPT !.size = RoundUp(@, Finished.info.align)] = Padded
    BY <1>4 DEF Padded
  <2> QED BY <1>2, <2>1 DEF Return
<1>7. /\ stack' \in Seq(Call) /\ Len(stack') = Depth - 1
      /\ \A k \in 1 .. Len(stack') : stack'[k] = IF k = Depth THEN Frame ELSE stack[k]
  <2>1. Len(stack') = Depth - 1 /\ stack' \in Seq(Call)
    BY <1>2, <1>6
  <2>2. \A k \in 1 .. Len(stack') : stack'[k] = stack[k] /\ k # Depth
    BY <1>2, <1>6, <2>1
  <2> QED BY <2>1, <2>2
<1> QED BY <1>1, <1>2, <1>3, <1>5, <1>6, <1>7 DEF Top, Works
\* Whatever a step of the innermost call does, the others find their state.
LEMMA EndRunOrderly == Orderly /\ EndRun => Orderly'
<1> SUFFICES ASSUME Orderly, EndRun PROVE Orderly'
  OBVIOUS
<1>1. /\ Top(Finished.info, placed[Current], Moved(0, FALSE)) /\ Works /\ spoiled' = spoiled
      /\ ~Done
  BY EndRunTop
<1>2. /\ stack # << >> /\ Typed /\ Filled /\ Current \in Structs /\ Frame.i \in Nat
  BY FrameFacts DEF EndRun, Orderly, Call
<1>3. Len(placed[Current]) <= Len(defs[Current].members) /\ spoiled \subseteq Structs
  BY <1>2 DEF Filled, Typed
<1>4. Len(placed[Current]) = Moved(0, FALSE).i - 1 /\ ~Moved(0, FALSE).inb
  BY <1>1, <1>2, MemberFacts DEF Moved
<1> QED BY <1>1, <1>3, <1>4, TopOrderly

LEMMA PlaceOrderly == Orderly /\ Place => Orderly'
<1> SUFFICES ASSUME Orderly, Place PROVE Orderly'
  OBVIOUS
<1>1. /\ Top(Grown, Append(placed[Current], Held), Moved(1, FALSE)) /\ Works
      /\ spoiled' = IF IsComp(Member) /\ OnStack(Member.of) THEN spoiled \cup {Current} ELSE spoiled
      /\ ~Done
  BY PlaceTop
<1>2. /\ stack # << >> /\ Typed /\ Current \in Structs /\ placed[Current] \in Seq(Decl)
      /\ spoiled \subseteq Structs
  BY FrameFacts DEF Place, Orderly, Typed
<1>3. Frame.i \in 1 .. Len(defs[Current].members) /\ Len(placed[Current]) = Frame.i - 1
  BY <1>1, <1>2, MemberFacts
<1>4. Len(Append(placed[Current], Held)) = Frame.i
  BY <1>2, <1>3
<1>5. /\ Len(Append(placed[Current], Held)) <= Len(defs[Current].members)
      /\ Len(Append(placed[Current], Held)) = Moved(1, FALSE).i - 1 /\ ~Moved(1, FALSE).inb
  <2>1. Moved(1, FALSE).i = Frame.i + 1
    BY DEF Moved
  <2>2. ~Moved(1, FALSE).inb
    BY DEF Moved
  <2>3. Len(defs[Current].members) \in Nat
    BY <1>2, TableFacts DEF Typed, StructTyped
  <2>4. Frame.i \in Nat /\ Frame.i <= Len(defs[Current].members)
    BY <1>3, <2>3
  <2>5. /\ Len(Append(placed[Current], Held)) <= Len(defs[Current].members)
        /\ Len(Append(placed[Current], Held)) = Moved(1, FALSE).i - 1
    <3> DEFINE x == Moved(1, FALSE).i
               y == Len(Append(placed[Current], Held))
               z == Len(defs[Current].members)
    <3>1. x = Frame.i + 1 /\ y = Frame.i /\ Frame.i \in Nat /\ Frame.i <= z
      BY <1>4, <2>1, <2>4
    <3> HIDE DEF x, y, z
    <3>2. y <= z /\ y = x - 1
      BY <3>1
    <3> QED BY <3>2 DEF x, y, z
  <2> QED BY <2>2, <2>5, Zenon
<1> QED BY <1>1, <1>2, <1>5, TopOrderly

LEMMA PushOrderly == Orderly /\ PushBits => Orderly'
<1> SUFFICES ASSUME Orderly, PushBits PROVE Orderly'
  OBVIOUS
<1> DEFINE q == Append(placed[Current], Given)
<1>1. /\ Kind = "struct" => Top(info[Current], q, Moved(1, TRUE))
      /\ Kind # "struct" => Top([align |-> Ended.align, size |-> Ended.offset], q, Moved(1, FALSE))
      /\ Works /\ bl'.align # 0 /\ ~Done
      /\ spoiled' = IF Frame.inb THEN spoiled
                    ELSE spoiled \cup {stack[k].struct : k \in {k \in 1 .. Depth - 1 : stack[k].inb}}
  BY PushTop
<1>2. /\ stack # << >> /\ Typed /\ Current \in Structs /\ placed[Current] \in Seq(Decl)
  BY FrameFacts DEF PushBits, Orderly, Typed
<1>3. Frame.i \in 1 .. Len(defs[Current].members) /\ Len(placed[Current]) = Frame.i - 1
  BY <1>1, <1>2, MemberFacts
<1>4. Len(q) = Frame.i
  BY <1>2, <1>3
<1>5. /\ Len(q) <= Len(defs[Current].members)
      /\ Len(q) = Moved(1, TRUE).i - 1 /\ Len(q) = Moved(1, FALSE).i - 1 /\ ~Moved(1, FALSE).inb
  <2>1. Moved(1, FALSE).i = Frame.i + 1 /\ Moved(1, TRUE).i = Frame.i + 1
    BY DEF Moved
  <2>2. ~Moved(1, FALSE).inb
    BY DEF Moved
  <2>3. Len(defs[Current].members) \in Nat
    BY <1>2, TableFacts DEF Typed, StructTyped
  <2>4. Frame.i \in Nat /\ Frame.i <= Len(defs[Current].members)
    BY <1>3, <2>3
  <2> HIDE DEF q
  <2>5. /\ Len(q) <= Len(defs[Current].members)
        /\ Len(q) = Moved(1, TRUE).i - 1 /\ Len(q) = Moved(1, FALSE).i - 1
    <3> DEFINE w == Moved(1, TRUE).i
               x == Moved(1, FALSE).i
               y == Len(q)
               z == Len(defs[Current].members)
    <3>1. x = Frame.i + 1 /\ w = Frame.i + 1 /\ y = Frame.i /\ Frame.i \in Nat /\ Frame.i <= z
      BY <1>4, <2>1, <2>4
    <3> HIDE DEF w, x, y, z
    <3>2. y <= z /\ y = x - 1 /\ y = w - 1
      BY <3>1
    <3> QED BY <3>2 DEF w, x, y, z
  <2> QED BY <2>2, <2>5, Zenon
<1>6. spoiled' \subseteq Structs
  <2>1. \A k \in 1 .. Depth : stack[k].struct \in Structs
    BY <1>2, CallFacts
  <2>2. \A k \in 1 .. Depth - 1 : k \in 1 .. Depth
    BY <1>2, FrameFacts
  <2> QED BY <1>1, <1>2, <2>1, <2>2 DEF Typed
<1> HIDE DEF q
<1>7. CASE Kind = "struct"
  <2>1. ~(Kind = "union")
    BY <1>7
  <2> QED BY <1>1, <1>5, <1>6, <1>7, <2>1, TopOrderly
<1>8. CASE Kind # "struct"
  BY <1>1, <1>5, <1>6, <1>8, TopOrderly
<1> QED BY <1>7, <1>8

LEMMA ReturnOrderly == Orderly /\ Return => Orderly'
<1> SUFFICES ASSUME Orderly, Return PROVE Orderly'
  OBVIOUS
<1>1. /\ Top(Padded, placed[Current], Frame) /\ Works /\ spoiled' = spoiled
  BY ReturnTop
<1>2. /\ stack # << >> /\ Typed /\ Filled /\ Current \in Structs /\ Depth \in 1 .. Depth
  BY FrameFacts DEF Return, Orderly
<1>3. Len(placed[Current]) <= Len(defs[Current].members) /\ spoiled \subseteq Structs
  BY <1>2 DEF Filled, Typed
<1>4. Underway(Depth)
  BY <1>2 DEF Orderly, Called
<1>5. /\ Len(placed[Current]) = Frame.i - 1
      /\ Kind = "union" => ~Frame.inb
      /\ Frame.inb => bl'.align # 0
  BY <1>1, <1>4 DEF Underway, Current, Frame, Kind, Works
<1> QED BY <1>1, <1>3, <1>5, TopOrderly

LEMMA FatalOrderly == Orderly /\ Fatal => Orderly'
<1> SUFFICES ASSUME Orderly, Fatal PROVE Orderly'
  OBVIOUS
<1>1. /\ stack # << >> /\ ~Done /\ Member.kind = "bits" /\ bl' = Pushed.bl /\ stack' = << >>
      /\ spoiled' = spoiled \cup {stack[k].struct : k \in 1 .. Depth}
      /\ setup' = setup /\ info' = info /\ placed' = placed
  BY DEF Fatal
<1>2. Typed /\ Filled
  BY DEF Orderly
<1>3. /\ Class' = Class /\ ByteOrder' = ByteOrder /\ Structs' = Structs /\ defs' = defs
      /\ Call' = Call
  BY <1>1, Primes
<1>4. Sane(Class, bl')
  BY <1>1, PushedFacts DEF Ready
<1>5. spoiled' \subseteq Structs
  BY <1>1, <1>2, CallFacts DEF Typed
<1>6. Depth' = 0
  BY <1>1 DEF Depth
<1> QED BY <1>1, <1>2, <1>3, <1>4, <1>5, <1>6 DEF Orderly, Typed, Filled, Called, CallsApart

LEMMA DescendBegins ==
  ASSUME Orderly, Descend
  PROVE  /\ stack # << >> /\ ~Done /\ IsComp(Member) /\ Member.of \in Structs
         /\ Begin(Member.of) /\ UNCHANGED <<setup, placed>>
<1>1. stack # << >> /\ ~Done /\ IsComp(Member) /\ Begin(Member.of) /\ UNCHANGED <<setup, placed>>
  BY DEF Descend
<1>2. Member.of \in Structs
  BY <1>1, MemberFacts DEF MemberTyped, IsComp, Structs, defs
<1> QED BY <1>1, <1>2

LEMMA InitOrderly == Init => Orderly
<1> SUFFICES ASSUME Init PROVE Orderly
  OBVIOUS
<1>1. /\ setup \in Setups /\ bl = bl_create(Class) /\ stack = << >> /\ spoiled = {}
      /\ info = [s \in Structs |-> [align |-> 0, size |-> 0]]
      /\ placed = [s \in Structs |-> << >>]
  BY DEF Init
<1>2. Class \in Classes /\ \A s \in Structs : Len(defs[s].members) \in Nat
  BY <1>1, TableFacts DEF StructTyped
<1>3. Sane(Class, bl)
  BY <1>1, <1>2, CreateSane
<1>4. Typed
  <2>1. [align |-> 0, size |-> 0] \in Entry
    BY DEF Entry
  <2>2. << >> \in Seq(Decl) /\ << >> \in Seq(Call)
    OBVIOUS
  <2> QED BY <1>1, <1>3, <2>1, <2>2 DEF Typed
<1>5. Filled
  BY <1>1, <1>2 DEF Filled
<1>6. Depth = 0
  BY <1>1 DEF Depth
<1> QED BY <1>1, <1>4, <1>5, <1>6 DEF Orderly, Called, CallsApart

LEMMA NextOrderly == Orderly /\ [Next]_vars => Orderly'
<1> SUFFICES ASSUME Orderly, [Next]_vars PROVE Orderly'
  OBVIOUS
<1>1. CASE Descend
  BY <1>1, DescendBegins, BeginOrderly
<1>2. ASSUME NEW s \in Structs, Ask(s) PROVE Orderly'
  BY <1>2, BeginOrderly DEF Ask
<1>3. CASE UNCHANGED vars
  <2>1. setup' = setup /\ bl' = bl /\ info' = info /\ placed' = placed /\ stack' = stack /\ spoiled' = spoiled
    BY <1>3 DEF vars
  <2> QED BY <2>1 DEF Orderly, Typed, Filled, Called, CallsApart, Underway, Structs, defs, Class,
                      ByteOrder, Call, Depth
<1> QED BY <1>1, <1>2, <1>3, EndRunOrderly, PlaceOrderly, PushOrderly, FatalOrderly, ReturnOrderly
        DEF Next, Step

LEMMA AlwaysOrderly == Spec => []Orderly
<1> QED BY InitOrderly, NextOrderly, PTL DEF Spec

-----------------------------------------------------------------------------
(* A layout that can be seen is final. *)

\* In a step of the innermost call, and in the beginning of another.
LEMMA TopFinal ==
  ASSUME Orderly, NEW e, NEW q, NEW g, Top(e, q, g), NEW s \in Structs, LaidOut(s)
  PROVE  info'[s] = info[s] /\ placed'[s] = placed[s] /\ LaidOut(s)'
<1>1. Typed /\ stack # << >> /\ setup' = setup
  BY DEF Orderly, Top
<1>2. s # Current
  BY <1>1, FrameFacts DEF LaidOut, OnStack, Current, Frame
<1>3. info'[s] = info[s] /\ placed'[s] = placed[s]
  BY <1>1, <1>2, TopTables
<1>4. ~OnStack(s)'
  <2>1. ASSUME NEW k \in 1 .. Depth', stack'[k].struct = s
        PROVE  FALSE
    <3>1. k \in 1 .. Depth /\ stack[k].struct = s
      BY <1>1, <2>1, TopCalls
    <3> QED BY <3>1 DEF LaidOut, OnStack
  <2> QED BY <2>1 DEF OnStack
<1> QED BY <1>1, <1>3, <1>4, Primes DEF LaidOut

LEMMA BeginFinal ==
  ASSUME Orderly, NEW r \in Structs, Begin(r), UNCHANGED <<setup, placed>>,
         NEW s \in Structs, LaidOut(s)
  PROVE  info'[s] = info[s] /\ placed'[s] = placed[s] /\ LaidOut(s)'
<1>1. s # r
  <2>1. info[s].align > 0 /\ info[r].align = 0
    BY DEF LaidOut, Begin, NoLayout
  <2> QED BY <2>1
<1>2. /\ info'[s] = info[s] /\ Depth \in Nat /\ Depth' = Depth + 1
      /\ stack'[Depth'].struct = r
      /\ \A k \in 1 .. Depth : stack'[k] = stack[k]
  <2>1. /\ \A x \in Structs : x # r => info'[x] = info[x]
        /\ Depth \in Nat /\ Depth' = Depth + 1
        /\ stack'[Depth'] = [struct |-> r, i |-> 1, inb |-> FALSE]
        /\ \A k \in 1 .. Depth : stack'[k] = stack[k] /\ stack[k].struct # r
    BY BeginFacts
  <2> QED BY <1>1, <2>1
<1>3. ~OnStack(s)'
  <2>1. ASSUME NEW k \in 1 .. Depth', stack'[k].struct = s
        PROVE  FALSE
    <3>1. k \in 1 .. Depth
      BY <1>1, <1>2, <2>1
    <3>2. stack[k].struct = s
      BY <1>2, <2>1, <3>1
    <3> QED BY <3>1, <3>2 DEF LaidOut, OnStack
  <2> QED BY <2>1 DEF OnStack
<1> QED BY <1>2, <1>3, Primes DEF LaidOut

LEMMA NextFinal ==
  ASSUME Orderly, [Next]_vars, NEW s \in Structs, LaidOut(s)
  PROVE  info'[s] = info[s] /\ placed'[s] = placed[s] /\ LaidOut(s)'
<1>1. CASE Descend
  BY <1>1, DescendBegins, BeginFinal
<1>2. ASSUME NEW r \in Structs, Ask(r)
      PROVE  info'[s] = info[s] /\ placed'[s] = placed[s] /\ LaidOut(s)'
  BY <1>2, BeginFinal DEF Ask
<1>3. CASE EndRun
  BY <1>3, EndRunTop, TopFinal
<1>4. CASE Place
  BY <1>4, PlaceTop, TopFinal
<1>5. CASE PushBits
  BY <1>5, PushTop, TopFinal
<1>6. CASE Return
  BY <1>6, ReturnTop, TopFinal
<1>7. CASE Fatal
  <2>1. setup' = setup /\ info' = info /\ placed' = placed /\ stack' = << >>
    BY <1>7 DEF Fatal
  <2>2. Depth' = 0
    BY <2>1 DEF Depth
  <2> QED BY <2>1, <2>2, Primes DEF LaidOut, OnStack
<1>8. CASE UNCHANGED vars
  BY <1>8 DEF vars, LaidOut, OnStack, Depth, defs
<1> QED BY <1>1, <1>2, <1>3, <1>4, <1>5, <1>6, <1>7, <1>8 DEF Next, Step

\* Once layout_compound_generic has returned, the offsets, the size and the
\* alignment of a struct never change again, whatever is laid out, refused or
\* asked for afterwards.
THEOREM LayoutsAreFinal == Spec => LayoutIsFinal
<1>1. Orderly /\ [Next]_vars =>
        [\A s \in Structs : LaidOut(s) => info'[s] = info[s] /\ placed'[s] = placed[s]]_vars
  BY NextFinal
<1> QED BY <1>1, AlwaysOrderly, PTL DEF Spec, LayoutIsFinal

\* What the invariant says of types.
LEMMA OrderlyTyped ==
  ASSUME Orderly
  PROVE  TypeOK
<1>1. Typed /\ Called
  BY DEF Orderly
<1>2. ASSUME NEW s \in Structs
      PROVE  info[s].align \in {0, 1, 2, 4, 8, 16} /\ info[s].size \in Nat
  <2>1. info[s] \in Entry
    BY <1>1 DEF Typed
  <2> QED BY <2>1 DEF Entry, Aligns
<1>3. ASSUME NEW s \in Structs, NEW i \in 1 .. Len(placed[s])
      PROVE  placed[s][i].offset \in Nat /\ placed[s][i].pos \in Nat
  <2>1. placed[s] \in Seq(Decl)
    BY <1>1 DEF Typed
  <2>2. placed[s][i] \in Decl
    BY <2>1
  <2> QED BY <2>2 DEF Decl
<1>4. bl.offset \in Nat /\ (Class # "Simple" => bl.bit_offset \in Nat)
  BY <1>1, SaneFacts DEF Typed
<1>5. \A k \in 1 .. Depth : stack[k] \in [struct : Structs, i : Nat \ {0}, inb : BOOLEAN]
  BY <1>1, CallFacts DEF Call
<1>6. /\ \A k \in 1 .. Depth : Len(placed[stack[k].struct]) = stack[k].i - 1
      /\ CallsApart
  BY <1>1 DEF Called, Underway
<1> QED BY <1>1, <1>2, <1>3, <1>4, <1>5, <1>6 DEF TypeOK, Typed, CallsApart

\* No offset, size or position becomes negative, alignments are powers of two,
\* and a call that has come to a member has placed exactly those before it.
THEOREM TypeCorrect == Spec => []TypeOK
<1> QED BY OrderlyTyped, AlwaysOrderly, PTL
-----------------------------------------------------------------------------
(* A run stays as its call has left it, as long as nothing interferes. *)

\* A step keeps out of the runs of other calls, or gives them up for spoiled,
Minds(g) ==
  ~Frame.inb => \/ bl' = bl /\ ~g.inb
                \/ \A k \in 1 .. Depth - 1 : stack[k].inb => stack[k].struct \in spoiled'

\* and if it stays in a run, that is a good one.
Carries(e, g) ==
  Current \notin spoiled' /\ g.inb /\ Depth' = Depth =>
    Good(Class, bl') /\ (Class # "Simple" => bl'.align >= e.align)

LEMMA TopRuns ==
  ASSUME Orderly, RunsKept, NEW e, NEW q, NEW g, Top(e, q, g), Works, spoiled \subseteq spoiled',
         Minds(g), Carries(e, g)
  PROVE  RunsKept'
<1>1. Typed /\ Called /\ CallsApart /\ stack # << >> /\ setup' = setup
  BY DEF Orderly, Called, Top
<1>2. Class' = Class /\ \A s : PackOf(s)' = PackOf(s)
  BY <1>1, Primes
<1>3. /\ info'[Current] = e
      /\ \A s \in Structs : s # Current => info'[s] = info[s]
  BY <1>1, TopTables
<1>4. Depth \in Nat \ {0} /\ Depth' \in {Depth, Depth - 1}
  BY <1>1, FrameFacts DEF Top, Depth
<1>5. ASSUME NEW k \in 1 .. Depth', stack'[k].struct \notin spoiled'
      PROVE  Undisturbed(k)'
  <2>1. /\ k \in 1 .. Depth
        /\ k = Depth => stack'[k] = g
        /\ k # Depth => stack'[k] = stack[k]
        /\ stack'[k].struct = stack[k].struct
    BY <1>1, <1>5, TopCalls
  <2>2. Undisturbed(k) /\ stack[k].struct \in Structs
    BY <1>1, <1>5, <2>1, CallFacts DEF RunsKept
  <2>3. bl'.max_align = PackOf(stack[k].struct)
    BY <2>2 DEF Undisturbed, Works
  <2>4. CASE k = Depth
    <3>1. stack'[k] = g /\ stack[k].struct = Current /\ Depth' = Depth
      BY <1>4, <2>1, <2>4 DEF Current, Frame
    <3>2. g.inb => Good(Class, bl') /\ (Class # "Simple" => bl'.align >= e.align)
      BY <1>5, <2>1, <3>1 DEF Carries
    <3>3. \A l \in k + 1 .. Depth' : FALSE
      BY <1>4, <2>4, <3>1
    <3> QED BY <1>2, <1>3, <2>1, <2>3, <3>1, <3>2, <3>3 DEF Undisturbed
  <2>5. CASE k # Depth /\ stack[k].inb
    <3>1. Depth \in k + 1 .. Depth /\ k \in 1 .. Depth - 1
      BY <1>4, <2>1, <2>5
    <3>2. /\ Good(Class, bl)
          /\ Class # "Simple" => bl.align >= info[stack[k].struct].align
          /\ \A l \in k + 1 .. Depth : ~stack[l].inb
      BY <2>2, <2>5 DEF Undisturbed
    <3>3. ~Frame.inb
      BY <3>1, <3>2 DEF Frame
    <3>4. bl' = bl /\ ~g.inb
      BY <1>5, <2>1, <2>5, <3>1, <3>3 DEF Minds
    <3>5. stack[k].struct # Current
      BY <1>1, <2>1, <2>5, <1>4 DEF CallsApart, Current, Frame
    <3>6. ASSUME NEW l \in k + 1 .. Depth'
          PROVE  ~stack'[l].inb
      <4>1. l \in 1 .. Depth' /\ l \in k + 1 .. Depth
        BY <1>4, <2>1
      <4>2. /\ l = Depth => stack'[l] = g
            /\ l # Depth => stack'[l] = stack[l]
        BY <1>1, <4>1, TopCalls
      <4> QED BY <3>2, <3>4, <4>1, <4>2
    <3> QED BY <1>2, <1>3, <2>1, <2>2, <2>3, <2>5, <3>2, <3>4, <3>5, <3>6 DEF Undisturbed
  <2>6. CASE k # Depth /\ ~stack[k].inb
    BY <1>2, <2>1, <2>3, <2>6 DEF Undisturbed
  <2> QED BY <2>4, <2>5, <2>6
<1> QED BY <1>5 DEF RunsKept

LEMMA BeginRuns ==
  ASSUME Orderly, RunsKept, NEW s \in Structs, Begin(s), UNCHANGED <<setup, placed>>
  PROVE  RunsKept'
<1>1. Typed /\ Called
  BY DEF Orderly
<1>2. Class' = Class /\ \A r : PackOf(r)' = PackOf(r)
  BY Primes
<1>3. /\ \A r \in Structs : r # s => info'[r] = info[r]
      /\ Depth \in Nat /\ Depth' = Depth + 1
      /\ stack'[Depth'] = [struct |-> s, i |-> 1, inb |-> FALSE]
      /\ \A k \in 1 .. Depth : stack'[k] = stack[k] /\ stack[k].struct # s
      /\ spoiled \subseteq spoiled'
      /\ \A k \in 1 .. Depth : PackOf(stack[k].struct) # PackOf(s) => stack[k].struct \in spoiled'
      /\ bl'.max_align = PackOf(s)
      /\ bl.max_align = PackOf(s) /\ bl.byte_order = ByteOrder => bl' = bl
  BY BeginFacts
<1>4. stack'[Depth'].struct = s
  BY <1>3
<1>5. ~stack'[Depth'].inb
  BY <1>3
<1>6. ASSUME NEW k \in 1 .. Depth', stack'[k].struct \notin spoiled'
      PROVE  Undisturbed(k)'
  <2>1. CASE k = Depth'
    BY <1>2, <1>3, <1>4, <1>5, <2>1 DEF Undisturbed
  <2>2. CASE k # Depth'
    <3>1. k \in 1 .. Depth
      BY <1>3, <2>2
    <3>2. stack'[k] = stack[k] /\ stack[k].struct # s /\ stack[k].struct \in Structs
      BY <1>1, <1>3, <3>1, CallFacts
    <3>3. Undisturbed(k) /\ PackOf(stack[k].struct) = PackOf(s)
      BY <1>3, <1>6, <3>1, <3>2 DEF RunsKept
    <3>4. stack # << >>
      BY <1>3, <3>1 DEF Depth
    <3>5. bl' = bl
      BY <1>1, <1>3, <3>3, <3>4 DEF Called, Undisturbed
    <3>6. ASSUME NEW l \in k + 1 .. Depth', stack[k].inb
          PROVE  ~stack'[l].inb
      <4>1. CASE l = Depth'
        BY <1>5, <4>1
      <4>2. CASE l # Depth'
        <5>1. l \in k + 1 .. Depth /\ l \in 1 .. Depth
          BY <1>3, <3>1, <4>2
        <5> QED BY <1>3, <3>3, <3>6, <5>1 DEF Undisturbed
      <4> QED BY <4>1, <4>2
    <3> QED BY <1>2, <1>3, <3>2, <3>3, <3>5, <3>6 DEF Undisturbed
  <2> QED BY <2>1, <2>2
<1> QED BY <1>6 DEF RunsKept

\* A field pushed to a run that nothing has interfered with.
LEMMA PushesWell ==
  ASSUME Orderly, RunsKept, stack # << >>, ~Done, Member.kind = "bits", ~Pushed.refused,
         Current \notin spoiled
  PROVE  /\ Good(Class, Pushed.bl)
         /\ Follows(Class, Opened, Member.size, Member.bits, Pushed)
         /\ Class # "Simple" => Pushed.bl.align >= info[Current].align
         /\ Opened.byte_order = ByteOrder /\ Opened.max_align = PackOf(Current)
<1>1. /\ Opened.byte_order = ByteOrder /\ Opened.max_align = bl.max_align
      /\ Ready(Class, Opened)
      /\ Frame.inb => Opened = bl
      /\ ~Frame.inb => Good(Class, Opened) /\ Opened.align = info[Current].align
  BY OpenedFacts
<1>2. /\ Depth \in 1 .. Depth /\ info[Current] \in Entry
  BY FrameFacts DEF Orderly
<1>3. Undisturbed(Depth)
  BY <1>2 DEF RunsKept, Current, Frame
<1>4. Good(Class, Opened) /\ (Class # "Simple" => Opened.align >= info[Current].align)
  <2>1. info[Current].align \in Nat
    BY <1>2 DEF Entry, Aligns
  <2> QED BY <1>1, <1>3, <2>1 DEF Undisturbed, Current, Frame
<1>5. /\ Member.size \in Sizes /\ Member.bits \in Nat /\ Fits(Class, Member.bits, Member.size)
      /\ Pushed = bl_push(Class, Opened, Member.bits, Member.size, Member.size)
      /\ Pushed.bl.align >= Opened.align /\ Ready(Class, Pushed.bl)
  BY PushedFacts
<1>6. Good(Class, Pushed.bl) /\ Follows(Class, Opened, Member.size, Member.bits, Pushed)
  BY <1>4, <1>5, GoodPush
<1>7. Class # "Simple" => Pushed.bl.align >= info[Current].align
  <2>1. Opened.align \in Nat /\ Pushed.bl.align \in Nat /\ info[Current].align \in Nat
    BY <1>1, <1>2, <1>5, SaneFacts, SMTT(60) DEF Ready, Entry, Aligns
  <2> QED BY <1>4, <1>5, <2>1
<1>8. Opened.max_align = PackOf(Current)
  BY <1>1, <1>3 DEF Undisturbed, Current, Frame
<1> QED BY <1>1, <1>6, <1>7, <1>8

\* What the steps of the innermost call have in common.
EndRunStep == Top(Finished.info, placed[Current], Moved(0, FALSE)) /\ Minds(Moved(0, FALSE))
PlaceStep  == Top(Grown, Append(placed[Current], Held), Moved(1, FALSE)) /\ Minds(Moved(1, FALSE))
ReturnStep == Top(Padded, placed[Current], Frame) /\ Minds(Frame)
RunStep    == Top(info[Current], Append(placed[Current], Given), Moved(1, TRUE)) /\ Minds(Moved(1, TRUE))
UnionStep  == /\ Top([align |-> Ended.align, size |-> Ended.offset],
                     Append(placed[Current], Given), Moved(1, FALSE))
              /\ Minds(Moved(1, FALSE))

LEMMA Mindful ==
  ASSUME Orderly
  PROVE  /\ EndRun => EndRunStep /\ Works /\ spoiled \subseteq spoiled'
         /\ Place  => PlaceStep /\ Works /\ spoiled \subseteq spoiled'
         /\ Return => ReturnStep /\ Works /\ spoiled \subseteq spoiled'
         /\ PushBits => /\ Kind = "struct" => RunStep
                        /\ Kind # "struct" => UnionStep
                        /\ Works /\ spoiled \subseteq spoiled'
<1>0. ~Moved(0, FALSE).inb /\ ~Moved(1, FALSE).inb
  BY DEF Moved
<1>1. ASSUME EndRun
      PROVE  EndRunStep /\ Works /\ spoiled \subseteq spoiled'
  BY <1>1, EndRunTop DEF EndRunStep, Minds
<1>2. ASSUME Place
      PROVE  PlaceStep /\ Works /\ spoiled \subseteq spoiled'
  <2>1. /\ Top(Grown, Append(placed[Current], Held), Moved(1, FALSE)) /\ Works /\ bl' = Finished.bl
        /\ spoiled' = IF IsComp(Member) /\ OnStack(Member.of) THEN spoiled \cup {Current} ELSE spoiled
    BY <1>2, PlaceTop
  <2>2. ~Frame.inb => Finished.bl = bl
    BY <2>1, FinishedFacts DEF Top
  <2> QED BY <1>0, <2>1, <2>2 DEF PlaceStep, Minds
<1>3. ASSUME Return
      PROVE  ReturnStep /\ Works /\ spoiled \subseteq spoiled'
  <2>1. Top(Padded, placed[Current], Frame) /\ Works /\ bl' = Finished.bl /\ spoiled' = spoiled
    BY <1>3, ReturnTop
  <2>2. ~Frame.inb => Finished.bl = bl
    BY <2>1, FinishedFacts DEF Top
  <2> QED BY <2>1, <2>2 DEF ReturnStep, Minds
<1>4. ASSUME PushBits
      PROVE  /\ Kind = "struct" => RunStep
             /\ Kind # "struct" => UnionStep
             /\ Works /\ spoiled \subseteq spoiled'
  <2>1. /\ Kind = "struct" => Top(info[Current], Append(placed[Current], Given), Moved(1, TRUE))
        /\ Kind # "struct" => Top([align |-> Ended.align, size |-> Ended.offset],
                                  Append(placed[Current], Given), Moved(1, FALSE))
        /\ Works
        /\ spoiled' = IF Frame.inb THEN spoiled
                      ELSE spoiled \cup {stack[k].struct : k \in {k \in 1 .. Depth - 1 : stack[k].inb}}
    BY <1>4, PushTop
  <2>2. /\ Minds(Moved(1, TRUE)) /\ Minds(Moved(1, FALSE)) /\ spoiled \subseteq spoiled'
    BY <2>1 DEF Minds
  <2> QED BY <2>1, <2>2 DEF RunStep, UnionStep
<1> QED BY <1>1, <1>2, <1>3, <1>4

LEMMA NextRuns == Orderly /\ RunsKept /\ [Next]_vars => RunsKept'
<1> SUFFICES ASSUME Orderly, RunsKept, [Next]_vars PROVE RunsKept'
  OBVIOUS
<1>0. ~Moved(0, FALSE).inb /\ ~Moved(1, FALSE).inb
  BY DEF Moved
<1>1. CASE Descend
  BY <1>1, DescendBegins, BeginRuns
<1>2. ASSUME NEW s \in Structs, Ask(s) PROVE RunsKept'
  BY <1>2, BeginRuns DEF Ask
<1>3. CASE EndRun
  <2>1. Carries(Finished.info, Moved(0, FALSE))
    BY <1>0 DEF Carries
  <2> QED BY <1>3, <2>1, Mindful, TopRuns DEF EndRunStep
<1>4. CASE Place
  <2>1. Carries(Grown, Moved(1, FALSE))
    BY <1>0 DEF Carries
  <2> QED BY <1>4, <2>1, Mindful, TopRuns DEF PlaceStep
<1>5. CASE PushBits /\ Kind = "struct"
  <2>1. /\ stack # << >> /\ ~Done /\ Member.kind = "bits" /\ ~Pushed.refused /\ bl' = Pushed.bl
        /\ spoiled \subseteq spoiled'
    BY <1>5, PushTop, Mindful DEF PushBits
  <2>2. Carries(info[Current], Moved(1, TRUE))
    BY <2>1, PushesWell DEF Carries
  <2> QED BY <1>5, <2>2, Mindful, TopRuns DEF RunStep
<1>6. CASE PushBits /\ Kind # "struct"
  <2> DEFINE e == [align |-> Ended.align, size |-> Ended.offset]
  <2>1. Carries(e, Moved(1, FALSE))
    BY <1>0 DEF Carries
  <2>2. Top(e, Append(placed[Current], Given), Moved(1, FALSE)) /\ Minds(Moved(1, FALSE))
        /\ Works /\ spoiled \subseteq spoiled'
    BY <1>6, Mindful DEF UnionStep
  <2> HIDE DEF e
  <2> QED BY <2>1, <2>2, TopRuns
<1>7. CASE Return
  <2>1. Carries(Padded, Frame)
    <3>1. Depth' # Depth
      <4>1. Depth \in Nat /\ Depth' = Depth - 1
        BY <1>7, ReturnTop, FrameFacts DEF Orderly, Return, Depth
      <4> QED BY <4>1
    <3> QED BY <3>1 DEF Carries
  <2> QED BY <1>7, <2>1, Mindful, TopRuns DEF ReturnStep
<1>8. CASE Fatal
  <2>1. Depth' = 0
    BY <1>8 DEF Fatal, Depth
  <2> QED BY <2>1 DEF RunsKept
<1>9. CASE UNCHANGED vars
  BY <1>9 DEF vars, RunsKept, Undisturbed, Depth, PackOf, Class, defs, Alignment
<1> QED BY <1>1, <1>2, <1>3, <1>4, <1>5, <1>6, <1>7, <1>8, <1>9 DEF Next, Step
-----------------------------------------------------------------------------
(* A step leaves all the structs alone that it does not work on. *)

Same(s) == /\ info'[s] = info[s] /\ placed'[s] = placed[s]
           /\ Reach(s)' = Reach(s) /\ AlignNow(s)' = AlignNow(s)
           /\ LaidOut(s)' => LaidOut(s)

LEMMA TopOther ==
  ASSUME Orderly, RunsKept, NEW e, NEW q, NEW g, Top(e, q, g), spoiled \subseteq spoiled', Minds(g),
         NEW s \in Structs, s # Current, s \notin spoiled'
  PROVE  Same(s)
<1>1. Typed /\ stack # << >> /\ setup' = setup
  BY DEF Orderly, Top
<1>2. info'[s] = info[s] /\ placed'[s] = placed[s]
  BY <1>1, TopTables
<1>3. Depth \in Nat \ {0} /\ Depth' \in {Depth, Depth - 1} /\ stack[Depth].struct = Current
  BY <1>1, FrameFacts DEF Top, Depth, Current, Frame
<1>4. ASSUME NEW k \in 1 .. Depth, stack[k].struct = s
      PROVE  k \in 1 .. Depth' /\ stack'[k] = stack[k] /\ k \in 1 .. Depth - 1
  <2>1. k # Depth
    BY <1>3, <1>4
  <2>2. k \in 1 .. Depth' /\ k \in 1 .. Depth - 1
    BY <1>3, <2>1
  <2> QED BY <1>1, <2>1, <2>2, TopCalls
<1>5. ASSUME NEW k \in 1 .. Depth', stack'[k].struct = s
      PROVE  k \in 1 .. Depth /\ stack'[k] = stack[k] /\ stack[k].struct = s
  <2>1. k \in 1 .. Depth /\ (k # Depth => stack'[k] = stack[k]) /\ stack'[k].struct = stack[k].struct
    BY <1>1, TopCalls
  <2> QED BY <1>3, <1>5, <2>1
<1>6. InRun(s)' <=> InRun(s)
  BY <1>4, <1>5 DEF InRun
<1>7. ASSUME InRun(s)
      PROVE  bl' = bl
  <2>1. PICK k \in 1 .. Depth : stack[k].struct = s /\ stack[k].inb
    BY <1>7 DEF InRun
  <2>2. k \in 1 .. Depth - 1
    BY <1>4, <2>1
  <2>3. Undisturbed(k)
    BY <2>1 DEF RunsKept
  <2>4. ~Frame.inb
    <3>1. Depth \in k + 1 .. Depth
      BY <1>3, <2>2
    <3> QED BY <2>1, <2>3, <3>1 DEF Undisturbed, Frame
  <2> QED BY <2>1, <2>2, <2>4 DEF Minds
<1>8. OnStack(s) => OnStack(s)'
  BY <1>4 DEF OnStack
<1>9. Class' = Class /\ defs' = defs
  BY <1>1, Primes
<1>10. Reach(s)' = Reach(s) /\ AlignNow(s)' = AlignNow(s)
  <2>1. CASE InRun(s)
    BY <1>6, <1>7, <1>9, <2>1 DEF Reach, AlignNow
  <2>2. CASE ~InRun(s)
    BY <1>2, <1>6, <2>2 DEF Reach, AlignNow
  <2> QED BY <2>1, <2>2
<1> QED BY <1>2, <1>8, <1>9, <1>10 DEF Same, LaidOut

LEMMA BeginOther ==
  ASSUME Orderly, RunsKept, NEW r \in Structs, Begin(r), UNCHANGED <<setup, placed>>,
         NEW s \in Structs, s # r, s \notin spoiled'
  PROVE  Same(s)
<1>1. Typed /\ Called
  BY DEF Orderly
<1>2. /\ \A x \in Structs : x # r => info'[x] = info[x]
      /\ Depth \in Nat /\ Depth' = Depth + 1
      /\ stack'[Depth'] = [struct |-> r, i |-> 1, inb |-> FALSE]
      /\ \A k \in 1 .. Depth : stack'[k] = stack[k] /\ stack[k].struct # r
      /\ spoiled \subseteq spoiled'
      /\ \A k \in 1 .. Depth : PackOf(stack[k].struct) # PackOf(r) => stack[k].struct \in spoiled'
      /\ bl.max_align = PackOf(r) /\ bl.byte_order = ByteOrder => bl' = bl
  BY BeginFacts
<1>3. stack'[Depth'].struct = r
  BY <1>2
<1>4. \A k \in 1 .. Depth' : stack'[k].struct = s => k \in 1 .. Depth
  BY <1>2, <1>3
<1>5. \A k \in 1 .. Depth : k \in 1 .. Depth'
  BY <1>2
<1>6. (InRun(s)' <=> InRun(s)) /\ (OnStack(s) => OnStack(s)')
  BY <1>2, <1>4, <1>5 DEF InRun, OnStack
<1>7. ASSUME InRun(s)
      PROVE  bl' = bl
  <2>1. PICK k \in 1 .. Depth : stack[k].struct = s /\ stack[k].inb
    BY <1>7 DEF InRun
  <2>2. Undisturbed(k) /\ PackOf(s) = PackOf(r)
    BY <1>2, <2>1 DEF RunsKept
  <2>3. stack # << >>
    BY <1>2, <2>1 DEF Depth
  <2> QED BY <1>1, <1>2, <2>1, <2>2, <2>3 DEF Undisturbed, Called
<1>8. Class' = Class /\ defs' = defs
  BY Primes
<1>9. Reach(s)' = Reach(s) /\ AlignNow(s)' = AlignNow(s)
  <2>1. CASE InRun(s)
    BY <1>6, <1>7, <1>8, <2>1 DEF Reach, AlignNow
  <2>2. CASE ~InRun(s)
    BY <1>2, <1>6, <2>2 DEF Reach, AlignNow
  <2> QED BY <2>1, <2>2
<1> QED BY <1>2, <1>6, <1>8, <1>9 DEF Same, LaidOut

LEMMA FatalOther ==
  ASSUME Fatal, NEW s \in Structs, s \notin spoiled'
  PROVE  Same(s)
<1>1. /\ setup' = setup /\ info' = info /\ placed' = placed /\ stack' = << >>
      /\ spoiled' = spoiled \cup {stack[k].struct : k \in 1 .. Depth}
  BY DEF Fatal
<1>2. Depth' = 0 /\ \A k \in 1 .. Depth : stack[k].struct # s
  BY <1>1 DEF Depth
<1>3. ~InRun(s) /\ ~InRun(s)' /\ ~OnStack(s)
  BY <1>2 DEF InRun, OnStack
<1> QED BY <1>1, <1>3, Primes DEF Same, Reach, AlignNow, LaidOut

LEMMA StutterSame ==
  ASSUME UNCHANGED vars, NEW s
  PROVE  Same(s)
<1>1. setup' = setup /\ info' = info /\ placed' = placed /\ stack' = stack /\ bl' = bl
  BY DEF vars
<1> QED BY <1>1 DEF Same, Reach, AlignNow, LaidOut, InRun, OnStack, Depth, Class, defs

-----------------------------------------------------------------------------
(* Alignment.                                                              *)

\* The Simple engine aligns a struct to its blocks, whatever the members before
\* were; it does no harm where nothing is aligned for more than that.
BlocksSuffice ==
  \A u \in Setups : u.class = "Simple" => \A s \in DOMAIN u.defs :
    LET pack == IF u.defs[s].pack > 0 THEN u.defs[s].pack ELSE u.alignment IN
    /\ Lesser(pack, u.compound) <= 4 /\ Lesser(IntSize, pack) <= 4
    /\ \A i \in 1 .. Len(u.defs[s].members) :
         u.defs[s].members[i].kind = "plain" => Lesser(u.defs[s].members[i].align, pack) <= 4

SmallAligned == Class = "Simple" => \A s \in Structs : info[s].align <= 4

\* A member that has been placed is in the tables.
LEMMA HeldFacts ==
  ASSUME Orderly, NEW s \in Structs, NEW i \in 1 .. Len(placed[s])
  PROVE  LET m == defs[s].members[i] IN
         /\ i \in 1 .. Len(defs[s].members)
         /\ MemberTyped(setup, PackOf(s), m) /\ (IsComp(m) => m.of \in Structs)
         /\ placed[s][i] \in Decl
<1>1. Typed /\ Filled
  BY DEF Orderly
<1>2. StructTyped(setup, defs[s]) /\ Len(defs[s].members) \in Nat
      /\ PackOf(s) = IF defs[s].pack > 0 THEN defs[s].pack ELSE setup.alignment
  BY <1>1, TableFacts DEF StructTyped, Typed
<1>3. placed[s] \in Seq(Decl) /\ Len(placed[s]) <= Len(defs[s].members)
  BY <1>1 DEF Typed, Filled
<1>4. i \in 1 .. Len(defs[s].members) /\ placed[s][i] \in Decl
  BY <1>2, <1>3
<1>5. MemberTyped(setup, PackOf(s), defs[s].members[i])
  BY <1>2, <1>4 DEF StructTyped
<1>6. IsComp(defs[s].members[i]) => defs[s].members[i].of \in Structs
  BY <1>5 DEF MemberTyped, IsComp, Structs, defs
<1> QED BY <1>4, <1>5, <1>6

\* What there is in the others stays aligned.
LEMMA SameAligned ==
  ASSUME Orderly, [Next]_vars, setup' = setup, NEW s \in Structs, Same(s),
         \A i \in 1 .. Len(placed[s]) : AlignedAt(s, i),
         LaidOut(s) => info[s].size % info[s].align = 0
  PROVE  /\ \A i \in 1 .. Len(placed'[s]) : AlignedAt(s, i)'
         /\ LaidOut(s)' => info'[s].size % info'[s].align = 0
<1>1. info'[s] = info[s] /\ placed'[s] = placed[s] /\ (LaidOut(s)' => LaidOut(s))
  BY DEF Same
<1>2. defs' = defs /\ PackOf(s)' = PackOf(s) /\ Structs' = Structs
  BY Primes
<1>3. ASSUME NEW i \in 1 .. Len(placed[s])
      PROVE  AlignedAt(s, i)'
  <2>0. PICK m : m = defs[s].members[i]
    OBVIOUS
  <2>1. AlignedAt(s, i)
    BY <1>3
  <2>2. IsComp(m) => m.of \in Structs
    BY <2>0, HeldFacts
  <2>3. ASSUME m.kind # "bits"
        PROVE  /\ IsComp(m) => LaidOut(m.of)' \/ ~defs[m.of].complete
               /\ TypeInfo(m)' = TypeInfo(m)
    <3>1. CASE ~IsComp(m)
      BY <3>1 DEF TypeInfo, IsComp
    <3>2. CASE IsComp(m) /\ ~defs[m.of].complete
      BY <1>2, <3>2 DEF TypeInfo, IsComp
    <3>3. CASE IsComp(m) /\ defs[m.of].complete
      <4>1. LaidOut(m.of)
        BY <2>0, <2>1, <2>3, <3>3 DEF AlignedAt
      <4>2. LaidOut(m.of)' /\ info'[m.of] = info[m.of]
        BY <2>2, <3>3, <4>1, NextFinal
      <4> QED BY <1>2, <3>3, <4>2 DEF TypeInfo, IsComp
    <3> QED BY <3>1, <3>2, <3>3
  <2>4. m = defs'[s].members[i]
    BY <1>2, <2>0
  <2> QED BY <1>1, <1>2, <2>0, <2>1, <2>3, <2>4 DEF AlignedAt
<1> QED BY <1>1, <1>3
\* Nor do the members that have been placed before.
LEMMA OldAligned ==
  ASSUME Orderly, [Next]_vars, NEW e, NEW q, NEW g, Top(e, q, g),
         info[Current].align <= e.align,
         NEW i \in 1 .. Len(placed[Current]), AlignedAt(Current, i),
         q[i] = placed[Current][i]
  PROVE  \A s : s = Current => AlignedAt(s, i)'
<1>1. Typed /\ stack # << >> /\ setup' = setup /\ e \in Entry
  BY DEF Orderly, Top
<1>2. PICK s \in Structs : s = Current
  BY <1>1, FrameFacts
<1>3. info'[s] = e /\ placed'[s] = q /\ info[s] \in Entry
  BY <1>1, <1>2, TopTables, FrameFacts
<1>4. defs' = defs /\ PackOf(s)' = PackOf(s) /\ Structs' = Structs
  BY <1>1, Primes
<1>5. PICK m : m = defs[s].members[i]
  OBVIOUS
<1>6. IsComp(m) => m.of \in Structs
  BY <1>2, <1>5, HeldFacts
<1>7. ASSUME m.kind # "bits"
      PROVE  /\ IsComp(m) => LaidOut(m.of)' \/ ~defs[m.of].complete
             /\ TypeInfo(m)' = TypeInfo(m)
  <2>1. CASE ~IsComp(m)
    BY <2>1 DEF TypeInfo, IsComp
  <2>2. CASE IsComp(m) /\ ~defs[m.of].complete
    BY <1>4, <2>2 DEF TypeInfo, IsComp
  <2>3. CASE IsComp(m) /\ defs[m.of].complete
    <3>1. LaidOut(m.of)
      BY <1>2, <1>5, <1>7, <2>3 DEF AlignedAt
    <3>2. LaidOut(m.of)' /\ info'[m.of] = info[m.of]
      BY <1>6, <2>3, <3>1, NextFinal
    <3> QED BY <1>4, <2>3, <3>2 DEF TypeInfo, IsComp
  <2> QED BY <2>1, <2>2, <2>3
<1>8. m = defs'[s].members[i]
  BY <1>4, <1>5
<1>9. m.kind # "bits" =>
        LET a == Lesser(TypeInfo(m).align, PackOf(s)) IN
        a \in Aligns /\ q[i].offset % a = 0 /\ a <= e.align
  <2> DEFINE a == Lesser(TypeInfo(m).align, PackOf(s))
  <2>1. m.kind # "bits" => a \in Aligns /\ placed[s][i].offset % a = 0 /\ a <= info[s].align
    BY <1>2, <1>5 DEF AlignedAt
  <2> HIDE DEF a
  <2>2. info[s].align \in Nat /\ e.align \in Nat /\ info[s].align <= e.align
    BY <1>1, <1>2, <1>3 DEF Entry, Aligns
  <2>3. m.kind # "bits" => a \in Nat /\ a <= e.align
    BY <2>1, <2>2 DEF Aligns
  <2> QED BY <1>2, <2>1, <2>3 DEF a
<1>10. AlignedAt(s, i)'
  BY <1>3, <1>4, <1>5, <1>7, <1>8, <1>9 DEF AlignedAt
<1> QED BY <1>2, <1>10

\* The alignment of a struct only grows.
LEMMA FinishedGrows ==
  ASSUME Orderly, RunsKept, SmallAligned, stack # << >>, Current \notin spoiled
  PROVE  info[Current].align <= Finished.info.align
<1>1. /\ ~Frame.inb => Finished.info = info[Current]
      /\ Frame.inb => Finished.info.align = IF Class = "Simple" THEN 4 ELSE bl.align
  BY FinishedFacts
<1>2. /\ Depth \in 1 .. Depth /\ info[Current] \in Entry /\ Current \in Structs
  BY FrameFacts DEF Orderly
<1>3. Undisturbed(Depth)
  BY <1>2 DEF RunsKept, Current, Frame
<1>4. info[Current].align \in Nat
  BY <1>2 DEF Entry, Aligns
<1>5. CASE ~Frame.inb
  BY <1>1, <1>4, <1>5
<1>6. CASE Frame.inb /\ Class = "Simple"
  BY <1>1, <1>2, <1>6 DEF SmallAligned
<1>7. CASE Frame.inb /\ Class # "Simple"
  <2>1. bl.align >= info[Current].align
    BY <1>3, <1>7 DEF Undisturbed, Current, Frame
  <2>2. bl.align \in Nat
    <3>1. bl.align \in Aligns \cup {0}
      BY SaneFacts DEF Orderly, Typed
    <3> QED BY <3>1 DEF Aligns
  <2> QED BY <1>1, <1>4, <1>7, <2>1, <2>2
<1> QED BY <1>5, <1>6, <1>7

LEMMA EndedGrows ==
  ASSUME Orderly, SmallAligned, stack # << >>, ~Done, Member.kind = "bits", ~Frame.inb
  PROVE  info[Current].align <= Ended.align /\ (Class = "Simple" => Ended.align = 4)
<1>1. /\ Opened.align = info[Current].align
      /\ Ready(Class, Opened)
  BY OpenedFacts
<1>2. /\ Ready(Class, Pushed.bl) /\ Pushed.bl.align >= Opened.align
  BY PushedFacts
<1>3. /\ Class # "Simple" => Ended.align = Pushed.bl.align
      /\ Class = "Simple" => Ended.align = 4
  BY <1>2, FinalizeSane DEF Ended
<1>4. Current \in Structs /\ Opened.align \in Nat /\ Pushed.bl.align \in Nat
  BY <1>1, <1>2, SaneFacts, FrameFacts, SMTT(60) DEF Orderly, Ready, Aligns
<1>5. CASE Class = "Simple"
  BY <1>3, <1>4, <1>5 DEF SmallAligned
<1>6. CASE Class # "Simple"
  BY <1>1, <1>2, <1>3, <1>4, <1>6
<1> QED BY <1>3, <1>5, <1>6

\* Simple's blocks align every struct well enough.
LEMMA TopSmall ==
  ASSUME Orderly, SmallAligned, NEW e, NEW q, NEW g, Top(e, q, g),
         Class = "Simple" => e.align <= 4
  PROVE  SmallAligned'
<1>1. Typed /\ setup' = setup
  BY DEF Orderly, Top
<1>2. /\ info'[Current] = e
      /\ \A s \in Structs : s # Current => info'[s] = info[s]
  BY <1>1, TopTables
<1> QED BY <1>1, <1>2, Primes DEF SmallAligned

LEMMA BeginSmall ==
  ASSUME BlocksSuffice, Orderly, SmallAligned, NEW s \in Structs, Begin(s), UNCHANGED <<setup, placed>>
  PROVE  SmallAligned'
<1>1. Typed /\ setup \in Setups /\ info \in [Structs -> Entry]
  BY DEF Orderly, Typed
<1>2. \A r \in Structs : r # s => info'[r] = info[r]
  BY BeginFacts
<1>3. info'[s].align = Lesser(PackOf(s), CompoundAlignment)
  <2> DEFINE a == Lesser(PackOf(s), CompoundAlignment)
  <2>1. info' = [info EXCEPT ![s].align = a]
    BY DEF Begin
  <2> HIDE DEF a
  <2>2. info'[s] = [info[s] EXCEPT !.align = a] /\ info[s] \in Entry
    BY <1>1, <2>1
  <2>3. info'[s].align = a
    BY <2>2 DEF Entry
  <2> QED BY <2>3 DEF a
<1>4. Class = "Simple" => Lesser(PackOf(s), CompoundAlignment) <= 4
  BY <1>1 DEF BlocksSuffice, PackOf, CompoundAlignment, Class, defs, Structs, Alignment
<1> QED BY <1>2, <1>3, <1>4, Primes DEF SmallAligned

LEMMA NextSmall ==
  ASSUME BlocksSuffice, Orderly, SmallAligned, [Next]_vars
  PROVE  SmallAligned'
<1>0. Orderly /\ stack # << >> /\ Class = "Simple" => Finished.info.align <= 4
  <2> SUFFICES ASSUME stack # << >>, Class = "Simple" PROVE Finished.info.align <= 4
    OBVIOUS
  <2>1. /\ ~Frame.inb => Finished.info = info[Current]
        /\ Frame.inb => Finished.info.align = IF Class = "Simple" THEN 4 ELSE bl.align
    BY FinishedFacts
  <2>2. info[Current].align <= 4
    BY FrameFacts DEF Orderly, SmallAligned
  <2> QED BY <2>1, <2>2
<1>1. CASE Descend
  BY <1>1, DescendBegins, BeginSmall
<1>2. ASSUME NEW s \in Structs, Ask(s) PROVE SmallAligned'
  BY <1>2, BeginSmall DEF Ask
<1>3. CASE EndRun
  BY <1>0, <1>3, EndRunTop, TopSmall DEF Top
<1>4. CASE Place
  <2>1. /\ Top(Grown, Append(placed[Current], Held), Moved(1, FALSE)) /\ stack # << >>
        /\ ~Done /\ Member.kind # "bits" /\ (IsComp(Member) => ~NoLayout(Member.of))
        /\ Clamp \in Aligns
    BY <1>4, PlaceTop DEF Place
  <2>2. ASSUME Class = "Simple" PROVE Clamp <= 4
    <3>1. Current \in Structs /\ setup \in Setups
      BY <2>1, FrameFacts DEF Orderly, Typed
    <3>2. Frame.i \in 1 .. Len(defs[Current].members) /\ MemberTyped(setup, PackOf(Current), Member)
      BY <2>1, MemberFacts
    <3>3. /\ Lesser(IntSize, PackOf(Current)) <= 4
          /\ Member.kind = "plain" => Lesser(Member.align, PackOf(Current)) <= 4
      BY <2>2, <3>1, <3>2
         DEF BlocksSuffice, PackOf, Class, defs, Structs, Alignment, Member
    <3>4. CASE ~IsComp(Member)
      <4>1. Member.kind = "plain"
        BY <2>1, <3>2, <3>4 DEF MemberTyped, IsComp
      <4> QED BY <3>3, <3>4, <4>1 DEF Clamp, TypeInfo
    <3>5. CASE IsComp(Member) /\ ~defs[Member.of].complete
      BY <3>3, <3>5 DEF Clamp, TypeInfo
    <3>6. CASE IsComp(Member) /\ defs[Member.of].complete
      <4> DEFINE a == info[Member.of].align
                 p == PackOf(Current)
      <4>1. Member.of \in Structs
        BY <3>2, <3>6 DEF MemberTyped, IsComp, Structs, defs
      <4>2. info[Member.of] \in Entry /\ info[Member.of].align <= 4
        BY <2>2, <4>1 DEF SmallAligned, Orderly, Typed
      <4>3. a \in Nat /\ a <= 4
        BY <4>2 DEF Entry, Aligns
      <4>4. p \in Nat
        <5>1. p \in Aligns
          BY <3>1, TableFacts
        <5> QED BY <5>1 DEF Aligns
      <4>5. Clamp = Lesser(a, p)
        BY <3>6 DEF Clamp, TypeInfo
      <4> HIDE DEF a, p
      <4> QED BY <4>3, <4>4, <4>5 DEF Lesser
    <3> QED BY <3>4, <3>5, <3>6
  <2>3. Class = "Simple" => Grown.align <= 4
    BY <1>0, <2>1, <2>2 DEF Grown, Greater
  <2> QED BY <2>1, <2>3, TopSmall
<1>5. CASE PushBits /\ Kind = "struct"
  <2>1. Top(info[Current], Append(placed[Current], Given), Moved(1, TRUE)) /\ stack # << >>
    BY <1>5, PushTop DEF Top
  <2>2. Class = "Simple" => info[Current].align <= 4
    BY <2>1, FrameFacts DEF Orderly, SmallAligned
  <2> QED BY <2>1, <2>2, TopSmall
<1>6. CASE PushBits /\ Kind # "struct"
  <2> DEFINE e == [align |-> Ended.align, size |-> Ended.offset]
  <2>1. /\ Top(e, Append(placed[Current], Given), Moved(1, FALSE)) /\ stack # << >> /\ ~Done
        /\ Member.kind = "bits" /\ ~Frame.inb
    BY <1>6, PushTop DEF Top
  <2>2. Class = "Simple" => e.align <= 4
    BY <2>1, EndedGrows
  <2> HIDE DEF e
  <2> QED BY <2>1, <2>2, TopSmall
<1>7. CASE Return
  <2>1. Top(Padded, placed[Current], Frame) /\ stack # << >>
    BY <1>7, ReturnTop DEF Top
  <2>2. Padded.align = Finished.info.align
    BY DEF Padded
  <2> QED BY <1>0, <2>1, <2>2, TopSmall
<1>8. CASE Fatal
  BY <1>8 DEF Fatal, SmallAligned, Structs, defs, Class
<1>9. CASE UNCHANGED vars
  BY <1>9 DEF vars, SmallAligned, Structs, defs, Class
<1> QED BY <1>1, <1>2, <1>3, <1>4, <1>5, <1>6, <1>7, <1>8, <1>9 DEF Next, Step
\* The structs a step does not work on stay aligned, and so does the innermost
\* call's if what is new in it is aligned.
LEMMA TopAligned ==
  ASSUME Orderly, RunsKept, StaysAligned, [Next]_vars,
         NEW e, NEW q, NEW g, Top(e, q, g), spoiled \subseteq spoiled', Minds(g),
         Current \notin spoiled' => info[Current].align <= e.align,
         Current \notin spoiled' /\ Depth' # Depth => e.size % e.align = 0,
         \A i \in 1 .. Len(placed[Current]) : q[i] = placed[Current][i],
         \A s : s = Current /\ s \notin spoiled' =>
           \A i \in 1 .. Len(q) : i \notin 1 .. Len(placed[s]) => AlignedAt(s, i)'
  PROVE  StaysAligned'
<1>1. Typed /\ stack # << >> /\ setup' = setup
  BY DEF Orderly, Top
<1>2. Structs' = Structs
  BY <1>1, Primes
<1>3. ASSUME NEW s \in Structs \ spoiled'
      PROVE  /\ \A i \in 1 .. Len(placed'[s]) : AlignedAt(s, i)'
             /\ LaidOut(s)' => info'[s].size % info'[s].align = 0
  <2>1. /\ \A i \in 1 .. Len(placed[s]) : AlignedAt(s, i)
        /\ LaidOut(s) => info[s].size % info[s].align = 0
    BY <1>3 DEF StaysAligned
  <2>2. CASE s # Current
    <3>1. Same(s)
      BY <1>3, <2>2, TopOther
    <3> QED BY <1>1, <1>3, <2>1, <3>1, SameAligned
  <2>3. CASE s = Current
    <3>1. info'[s] = e /\ placed'[s] = q
      BY <1>1, <2>3, TopTables
    <3>2. ASSUME NEW i \in 1 .. Len(q)
          PROVE  AlignedAt(s, i)'
      <4>1. CASE i \in 1 .. Len(placed[s])
        BY <1>3, <2>1, <2>3, <4>1, OldAligned
      <4>2. CASE i \notin 1 .. Len(placed[s])
        BY <1>3, <2>3, <3>2, <4>2
      <4> QED BY <4>1, <4>2
    <3>3. Depth' = Depth => ~LaidOut(s)'
      <4>1. Depth \in 1 .. Depth
        BY <1>1, FrameFacts
      <4>2. ASSUME Depth' = Depth
            PROVE  Depth \in 1 .. Depth' /\ stack'[Depth].struct = s
        <5>1. PICK k \in 1 .. Depth' : k = Depth
          BY <4>1, <4>2
        <5>2. stack'[k].struct = stack[k].struct
          BY <1>1, TopCalls
        <5> QED BY <2>3, <5>1, <5>2 DEF Current, Frame
      <4> QED BY <4>2 DEF LaidOut, OnStack
    <3> QED BY <1>3, <2>3, <3>1, <3>2, <3>3
  <2> QED BY <2>2, <2>3
<1> QED BY <1>2, <1>3 DEF StaysAligned

LEMMA BeginAligned ==
  ASSUME Orderly, RunsKept, StaysAligned, [Next]_vars,
         NEW r \in Structs, Begin(r), UNCHANGED <<setup, placed>>
  PROVE  StaysAligned'
<1>1. /\ placed[r] = << >> /\ spoiled \subseteq spoiled'
      /\ Depth \in Nat /\ Depth' = Depth + 1
      /\ stack'[Depth'] = [struct |-> r, i |-> 1, inb |-> FALSE]
  BY BeginFacts
<1>2. stack'[Depth'].struct = r
  BY <1>1
<1>3. Structs' = Structs
  BY Primes
<1>4. ASSUME NEW s \in Structs \ spoiled'
      PROVE  /\ \A i \in 1 .. Len(placed'[s]) : AlignedAt(s, i)'
             /\ LaidOut(s)' => info'[s].size % info'[s].align = 0
  <2>1. CASE s # r
    <3>1. Same(s)
      BY <1>4, <2>1, BeginOther
    <3>2. /\ \A i \in 1 .. Len(placed[s]) : AlignedAt(s, i)
          /\ LaidOut(s) => info[s].size % info[s].align = 0
      BY <1>1, <1>4 DEF StaysAligned
    <3> QED BY <1>4, <3>1, <3>2, SameAligned
  <2>2. CASE s = r
    <3>1. \A i \in 1 .. Len(placed'[s]) : FALSE
      BY <1>1, <2>2
    <3>2. ~LaidOut(s)'
      BY <1>1, <1>2, <2>2 DEF LaidOut, OnStack
    <3> QED BY <3>1, <3>2
  <2> QED BY <2>1, <2>2
<1> QED BY <1>3, <1>4 DEF StaysAligned

\* A member that is placed now is aligned, and its type is final, unless the
\* struct it is of has not come to its end.
LEMMA HeldAligned ==
  ASSUME Orderly, [Next]_vars, Place, NEW s, s = Current, s \notin spoiled',
         NEW n, n = Len(placed[s]) + 1
  PROVE  AlignedAt(s, n)'
<1>1. /\ Top(Grown, Append(placed[Current], Held), Moved(1, FALSE))
      /\ spoiled' = IF IsComp(Member) /\ OnStack(Member.of) THEN spoiled \cup {Current} ELSE spoiled
      /\ ~Done /\ Member.kind # "bits" /\ (IsComp(Member) => ~NoLayout(Member.of))
      /\ Clamp \in Aligns /\ At % Clamp = 0 /\ Clamp <= Grown.align
  BY PlaceTop
<1>2. Typed /\ stack # << >> /\ setup' = setup /\ s \in Structs /\ placed[s] \in Seq(Decl)
  BY <1>1, FrameFacts DEF Orderly, Top
<1>3. info'[s] = Grown /\ placed'[s] = Append(placed[s], Held)
  BY <1>1, <1>2, TopTables
<1>4. defs' = defs /\ PackOf(s)' = PackOf(s) /\ Structs' = Structs
  BY <1>2, Primes
<1>5. PICK m : m = Member
  OBVIOUS
<1>7. n = Frame.i /\ (IsComp(m) => m.of \in Structs)
  <2>1. Len(placed[Current]) = Frame.i - 1 /\ Frame.i \in 1 .. Len(defs[Current].members)
        /\ MemberTyped(setup, PackOf(Current), Member)
    BY <1>1, <1>2, MemberFacts
  <2>2. n = Frame.i
    BY <2>1
  <2> QED BY <1>5, <2>1, <2>2 DEF MemberTyped, IsComp, Structs, defs
<1>8. m = defs'[s].members[n]
  BY <1>4, <1>5, <1>7 DEF Member
<1>9. placed'[s][n] = Held
  BY <1>2, <1>3
<1>10. /\ IsComp(m) => LaidOut(m.of)' \/ ~defs[m.of].complete
       /\ TypeInfo(m)' = TypeInfo(m)
  <2>1. CASE ~IsComp(m)
    BY <2>1 DEF TypeInfo, IsComp
  <2>2. CASE IsComp(m) /\ ~defs[m.of].complete
    BY <1>4, <2>2 DEF TypeInfo, IsComp
  <2>3. CASE IsComp(m) /\ defs[m.of].complete
    <3>1. ~OnStack(m.of)
      BY <1>1, <1>5, <2>3
    <3>2. info[m.of] \in Entry /\ info[m.of].align # 0
      BY <1>1, <1>2, <1>5, <1>7, <2>3 DEF Typed, NoLayout
    <3>3. info[m.of].align > 0
      BY <3>2 DEF Entry, Aligns
    <3>4. LaidOut(m.of)
      BY <2>3, <3>1, <3>3 DEF LaidOut
    <3>5. LaidOut(m.of)' /\ info'[m.of] = info[m.of]
      BY <1>7, <2>3, <3>4, NextFinal
    <3> QED BY <1>4, <2>3, <3>5 DEF TypeInfo, IsComp
  <2> QED BY <2>1, <2>2, <2>3
<1>11. Clamp = Lesser(TypeInfo(m).align, PackOf(s)) /\ Held.offset = At
  BY <1>2, <1>5 DEF Clamp, Held
<1>12. /\ Lesser(TypeInfo(m)'.align, PackOf(s)') = Clamp /\ placed'[s][n].offset = At
       /\ info'[s].align = Grown.align
  BY <1>3, <1>4, <1>9, <1>10, <1>11
<1> QED BY <1>1, <1>4, <1>8, <1>10, <1>12 DEF AlignedAt
LEMMA NextAligned ==
  ASSUME Orderly, RunsKept, SmallAligned, StaysAligned, [Next]_vars
  PROVE  StaysAligned'
<1> DEFINE p == placed[Current]
<1>0. stack # << >> => Current \in Structs /\ p \in Seq(Decl) /\ info[Current].align \in Nat
  <2> SUFFICES ASSUME stack # << >> PROVE Current \in Structs /\ p \in Seq(Decl) /\ info[Current].align \in Nat
    OBVIOUS
  <2>1. Current \in Structs /\ p \in Seq(Decl) /\ info[Current] \in Entry
    BY FrameFacts DEF Orderly
  <2> QED BY <2>1 DEF Entry, Aligns
<1>1. CASE Descend
  BY <1>1, DescendBegins, BeginAligned
<1>2. ASSUME NEW s \in Structs, Ask(s) PROVE StaysAligned'
  BY <1>2, BeginAligned DEF Ask
<1>3. CASE EndRun
  <2>1. /\ Top(Finished.info, p, Moved(0, FALSE)) /\ Minds(Moved(0, FALSE)) /\ Depth' = Depth
        /\ spoiled \subseteq spoiled' /\ stack # << >>
    BY <1>3, EndRunTop, Mindful DEF EndRunStep, EndRun
  <2>2. Current \notin spoiled' => info[Current].align <= Finished.info.align
    BY <2>1, FinishedGrows
  <2> QED BY <2>1, <2>2, TopAligned
<1>4. CASE Place
  <2>1. /\ Top(Grown, Append(p, Held), Moved(1, FALSE)) /\ Minds(Moved(1, FALSE)) /\ Depth' = Depth
        /\ spoiled \subseteq spoiled' /\ stack # << >>
        /\ Finished.info.align <= Grown.align /\ Grown.align \in Aligns
    BY <1>4, PlaceTop, Mindful DEF PlaceStep, Place
  <2>2. Current \notin spoiled' => info[Current].align <= Grown.align
    <3>1. Finished.info.align \in Nat /\ Grown.align \in Nat
      <4>1. Finished.info \in Entry
        BY <2>1, FinishedFacts
      <4> QED BY <2>1, <4>1 DEF Entry, Aligns
    <3> QED BY <1>0, <2>1, <3>1, FinishedGrows
  <2>3. \A i \in 1 .. Len(p) : Append(p, Held)[i] = p[i]
    BY <1>0, <2>1
  <2>4. ASSUME NEW s, s = Current, s \notin spoiled', NEW i \in 1 .. Len(Append(p, Held)),
               i \notin 1 .. Len(placed[s])
        PROVE  AlignedAt(s, i)'
    <3>1. i = Len(placed[s]) + 1
      BY <1>0, <2>1, <2>4
    <3> QED BY <1>4, <2>4, <3>1, HeldAligned
  <2> QED BY <2>1, <2>2, <2>3, <2>4, TopAligned
<1>5. CASE PushBits
  <2>1. /\ Kind = "struct" => Top(info[Current], Append(p, Given), Moved(1, TRUE)) /\ Minds(Moved(1, TRUE))
        /\ Kind # "struct" => /\ Top([align |-> Ended.align, size |-> Ended.offset],
                                     Append(p, Given), Moved(1, FALSE))
                              /\ Minds(Moved(1, FALSE)) /\ ~Frame.inb
        /\ Depth' = Depth /\ spoiled \subseteq spoiled' /\ stack # << >>
        /\ ~Done /\ Member.kind = "bits" /\ setup' = setup
    BY <1>5, PushTop, Mindful DEF RunStep, UnionStep, PushBits
  <2>2. \A i \in 1 .. Len(p) : Append(p, Given)[i] = p[i]
    BY <1>0, <2>1
  <2>3. ASSUME NEW s, s = Current, s \notin spoiled', NEW i \in 1 .. Len(Append(p, Given)),
               i \notin 1 .. Len(placed[s])
        PROVE  AlignedAt(s, i)'
    <3>1. i = Frame.i
      BY <1>0, <2>1, <2>3, MemberFacts
    <3>2. defs'[s].members[i].kind = "bits"
      BY <2>1, <2>3, <3>1, Primes DEF Member
    <3> QED BY <3>2 DEF AlignedAt
  <2>4. CASE Kind = "struct"
    <3>1. PICK e, g : e = info[Current] /\ g = Moved(1, TRUE)
      OBVIOUS
    <3>2. Top(e, Append(p, Given), g) /\ Minds(g)
      BY <2>1, <2>4, <3>1, Zenon
    <3>3. info[Current].align <= e.align
      BY <1>0, <2>1, <3>1
    <3> QED BY <2>1, <2>2, <2>3, <3>2, <3>3, TopAligned
  <2>5. CASE Kind # "struct"
    <3> DEFINE e == [align |-> Ended.align, size |-> Ended.offset]
    <3>1. info[Current].align <= e.align
      BY <2>1, <2>5, EndedGrows
    <3>2. Top(e, Append(p, Given), Moved(1, FALSE)) /\ Minds(Moved(1, FALSE))
      BY <2>1, <2>5
    <3> HIDE DEF e
    <3> QED BY <2>1, <2>2, <2>3, <3>1, <3>2, TopAligned
  <2> QED BY <2>4, <2>5
<1>6. CASE Return
  <2>1. /\ Top(Padded, p, Frame) /\ Minds(Frame) /\ spoiled \subseteq spoiled' /\ stack # << >>
        /\ Padded.size % Padded.align = 0
    BY <1>6, ReturnTop, Mindful DEF ReturnStep, Return
  <2>2. Current \notin spoiled' => info[Current].align <= Padded.align
    BY <2>1, FinishedGrows DEF Padded
  <2> QED BY <2>1, <2>2, TopAligned
<1>7. CASE Fatal
  <2>1. setup' = setup /\ spoiled \subseteq spoiled'
    BY <1>7 DEF Fatal
  <2>2. ASSUME NEW s \in Structs \ spoiled'
        PROVE  /\ \A i \in 1 .. Len(placed'[s]) : AlignedAt(s, i)'
               /\ LaidOut(s)' => info'[s].size % info'[s].align = 0
    <3>1. Same(s)
      BY <1>7, <2>2, FatalOther
    <3>2. /\ \A i \in 1 .. Len(placed[s]) : AlignedAt(s, i)
          /\ LaidOut(s) => info[s].size % info[s].align = 0
      BY <2>1, <2>2 DEF StaysAligned
    <3> QED BY <2>1, <2>2, <3>1, <3>2, SameAligned
  <2> QED BY <2>1, <2>2, Primes DEF StaysAligned
<1>8. CASE UNCHANGED vars
  <2>1. setup' = setup /\ spoiled' = spoiled
    BY <1>8 DEF vars
  <2>2. ASSUME NEW s \in Structs \ spoiled
        PROVE  /\ \A i \in 1 .. Len(placed'[s]) : AlignedAt(s, i)'
               /\ LaidOut(s)' => info'[s].size % info'[s].align = 0
    <3>1. Same(s)
      BY <1>8, StutterSame
    <3>2. /\ \A i \in 1 .. Len(placed[s]) : AlignedAt(s, i)
          /\ LaidOut(s) => info[s].size % info[s].align = 0
      BY <2>2 DEF StaysAligned
    <3> QED BY <2>1, <2>2, <3>1, <3>2, SameAligned
  <2> QED BY <2>1, <2>2, Primes DEF StaysAligned
<1> QED BY <1>1, <1>2, <1>3, <1>4, <1>5, <1>6, <1>7, <1>8 DEF Next, Step

LEMMA InitAligned == Init => RunsKept /\ SmallAligned /\ StaysAligned
<1> SUFFICES ASSUME Init PROVE RunsKept /\ SmallAligned /\ StaysAligned
  OBVIOUS
<1>1. /\ stack = << >> /\ Depth = 0
      /\ info = [s \in Structs |-> [align |-> 0, size |-> 0]]
      /\ placed = [s \in Structs |-> << >>]
  BY DEF Init, Depth
<1>2. \A s \in Structs : info[s].align = 0 /\ Len(placed[s]) = 0
  BY <1>1
<1> QED BY <1>1, <1>2 DEF RunsKept, SmallAligned, StaysAligned, LaidOut

\* Every member that is no bitfield lies on a boundary of its type, clamped by
\* the packing, the struct is aligned for it and as long as its alignment says:
\* members of arrays of the struct are aligned.
THEOREM MembersAreAligned ==
  ASSUME BlocksSuffice
  PROVE  Spec => []Aligned
<1>1. Orderly /\ StaysAligned => Aligned
  <2> SUFFICES ASSUME Orderly, StaysAligned PROVE Aligned
    OBVIOUS
  <2>1. ASSUME NEW s \in Structs \ spoiled, NEW i \in 1 .. Len(placed[s]),
               defs[s].members[i].kind # "bits"
        PROVE  LET a == Lesser(TypeInfo(defs[s].members[i]).align, PackOf(s))
               IN  placed[s][i].offset % a = 0 /\ info[s].align % a = 0
    <3> DEFINE a == Lesser(TypeInfo(defs[s].members[i]).align, PackOf(s))
    <3>1. a \in Aligns /\ placed[s][i].offset % a = 0 /\ a <= info[s].align
      BY <2>1 DEF StaysAligned, AlignedAt
    <3>2. info[s].align \in Aligns \cup {0}
      <4>1. info[s] \in Entry
        BY <2>1 DEF Orderly, Typed
      <4> QED BY <4>1 DEF Entry
    <3> HIDE DEF a
    <3>3. info[s].align \in Aligns
      BY <3>1, <3>2 DEF Aligns
    <3>4. info[s].align % a = 0
      BY <3>1, <3>3, Divides
    <3> QED BY <3>1, <3>4 DEF a
  <2>2. \A s \in Structs \ spoiled : LaidOut(s) => info[s].size % info[s].align = 0
    BY DEF StaysAligned
  <2> QED BY <2>1, <2>2, OrderlyTyped DEF Aligned
<1>2. Orderly /\ RunsKept /\ SmallAligned /\ StaysAligned /\ [Next]_vars
        => (RunsKept /\ SmallAligned /\ StaysAligned)'
  BY NextRuns, NextSmall, NextAligned
<1> QED BY <1>1, <1>2, InitAligned, AlwaysOrderly, PTL DEF Spec
-----------------------------------------------------------------------------
(* Members follow one another.                                             *)

Apart(s) ==
  /\ defs[s].kind = "struct" /\ (Class = "Generic" => Unpacked(s)) => Laid(s)
  /\ defs[s].kind = "union" /\ ~HasBits(s) => Covers(s)

\* The bits of a declarator are numbers.
LEMMA BitsTyped ==
  ASSUME NEW d \in Decl, NEW order
  PROVE  /\ BitRange(d, order).lo \in Int /\ BitRange(d, order).hi \in Int
         /\ Bits(d.offset) \in Nat /\ Bits(d.offset + d.size) \in Nat
<1>1. d.offset \in Nat /\ d.size \in Nat /\ d.bits \in Nat /\ d.pos \in Nat
  BY DEF Decl
<1>2. FirstBit(d, order) \in Int
  BY <1>1 DEF FirstBit, Bits
<1> QED BY <1>1, <1>2 DEF BitRange, Bits

LEMMA ExtentTyped ==
  ASSUME Orderly, NEW s \in Structs, NEW i \in 1 .. Len(placed[s])
  PROVE  Extent(s, i).lo \in Int /\ Extent(s, i).hi \in Int
<1>1. placed[s][i] \in Decl
  BY HeldFacts
<1> QED BY <1>1, BitsTyped, SMTT(60) DEF Extent

Reached == \A s \in Structs : Reach(s) \in Nat /\ AlignNow(s) \in Nat

LEMMA ReachTyped == Orderly => Reached
<1> SUFFICES ASSUME Orderly, NEW s \in Structs
             PROVE  Reach(s) \in Nat /\ AlignNow(s) \in Nat
  BY DEF Reached
<1>1. info[s] \in Entry /\ Sane(Class, bl)
  BY DEF Orderly, Typed
<1>2. info[s].size \in Nat /\ info[s].align \in Nat
  BY <1>1 DEF Entry, Aligns
<1>3. Pos(Class, bl) \in Nat /\ bl.align \in Nat
  BY <1>1, SaneFacts DEF Aligns
<1> QED BY <1>2, <1>3 DEF Reach, AlignNow, Bits

\* What is left alone stays apart.
LEMMA SameApart ==
  ASSUME setup' = setup, NEW s, Same(s), Apart(s)
  PROVE  Apart(s)'
<1>1. /\ info'[s] = info[s] /\ placed'[s] = placed[s]
      /\ Reach(s)' = Reach(s) /\ AlignNow(s)' = AlignNow(s)
      /\ LaidOut(s)' => LaidOut(s)
  BY DEF Same
<1>2. /\ Class' = Class /\ ByteOrder' = ByteOrder /\ defs' = defs
      /\ HasBits(s)' = HasBits(s) /\ Unpacked(s)' = Unpacked(s)
  BY Primes
<1>3. \A i : Extent(s, i)' = Extent(s, i) /\ Empty(s, i)' = Empty(s, i) /\ UnitAt(s, i)' = UnitAt(s, i)
  BY <1>1, <1>2 DEF Extent, Empty, UnitAt
<1>4. Laid(s) => Laid(s)'
  BY <1>1, <1>2, <1>3 DEF Laid, Ordered, Within
<1>5. Covers(s) => Covers(s)'
  BY <1>1 DEF Covers
<1> QED BY <1>2, <1>4, <1>5 DEF Apart

\* The innermost call's struct grows: what it holds stays where it is, what is
\* new lies behind that, and nothing lies behind its end.
New(s, i) ==
  /\ ~Empty(s, i)' => /\ Reach(s) <= Extent(s, i).lo' /\ Extent(s, i).lo' \in Int
                      /\ Extent(s, i).hi' <= Reach(s)'
  /\ Class = "Generic" => UnitAt(s, i)'

LEMMA GrownLaid ==
  ASSUME Orderly, Orderly', setup' = setup, NEW s \in Structs, Laid(s),
         NEW q, placed'[s] = q, q \in Seq(Decl), NEW n, n = Len(placed[s]),
         Len(q) \in {n, n + 1}, \A i \in 1 .. n : q[i] = placed[s][i],
         Reach(s) <= Reach(s)', Class = "Generic" => AlignNow(s) <= AlignNow(s)',
         Len(q) = n + 1 => New(s, n + 1),
         Class = "Generic" /\ LaidOut(s)' =>
           \A i \in 1 .. Len(q) : q[i].offset + q[i].size <= info'[s].size
  PROVE  Laid(s)'
<1>1. /\ Class' = Class /\ ByteOrder' = ByteOrder /\ defs' = defs /\ Structs' = Structs
  BY Primes
<1>2. n \in Nat /\ Len(q) \in Nat
  <2>1. placed[s] \in Seq(Decl)
    BY DEF Orderly, Typed
  <2> QED BY <2>1
<1>3. /\ Reach(s) \in Nat /\ AlignNow(s) \in Nat
  BY ReachTyped DEF Reached
<1>4. Reach(s)' \in Nat /\ AlignNow(s)' \in Nat
  <2>1. Reached'
    BY ReachTyped, PTL
  <2> QED BY <1>1, <2>1 DEF Reached
<1>5. ASSUME NEW i \in 1 .. n
      PROVE  /\ i \in 1 .. Len(q) /\ Extent(s, i)' = Extent(s, i) /\ Empty(s, i)' = Empty(s, i)
             /\ Extent(s, i).lo \in Int /\ Extent(s, i).hi \in Int
             /\ ~Empty(s, i) => Extent(s, i).lo >= 0 /\ Extent(s, i).hi <= Reach(s)
             /\ Class = "Generic" => UnitAt(s, i)'
  <2>1. placed'[s][i] = placed[s][i] /\ i \in 1 .. Len(q)
    BY <1>2, <1>5
  <2>2. Extent(s, i)' = Extent(s, i) /\ Empty(s, i)' = Empty(s, i)
    BY <1>1, <2>1 DEF Extent, Empty
  <2>3. /\ Extent(s, i).lo \in Int /\ Extent(s, i).hi \in Int
        /\ ~Empty(s, i) => Extent(s, i).lo >= 0 /\ Extent(s, i).hi <= Reach(s)
    BY <1>5, ExtentTyped DEF Laid, Within
  <2>4. ASSUME Class = "Generic"
        PROVE  UnitAt(s, i)'
    <3> DEFINE m == defs[s].members[i]
               d == placed[s][i]
    <3>1. UnitAt(s, i)
      BY <1>5, <2>4 DEF Laid
    <3>2. m.size \in Nat /\ Bits(d.offset) \in Nat /\ Bits(d.offset + d.size) \in Nat
      <4>1. MemberTyped(setup, PackOf(s), m) /\ d \in Decl
        BY <1>5, HeldFacts
      <4> QED BY <4>1, BitsTyped DEF MemberTyped
    <3>3. /\ m.size <= AlignNow(s) => m.size <= AlignNow(s)'
          /\ Bits(d.offset) < Reach(s) => Bits(d.offset) < Reach(s)'
          /\ Bits(d.offset + d.size) <= Reach(s) => Bits(d.offset + d.size) <= Reach(s)'
      <4> HIDE DEF m, d
      <4> QED BY <1>3, <1>4, <2>4, <3>2, SMTT(60)
    <3> QED BY <1>1, <2>1, <3>1, <3>3 DEF UnitAt
  <2> QED BY <2>1, <2>2, <2>3, <2>4
<1>6. ASSUME NEW i \in 1 .. Len(q)
      PROVE  i \in 1 .. n \/ (i = n + 1 /\ Len(q) = n + 1 /\ New(s, i))
  BY <1>2, <1>6
<1>7. ASSUME NEW i \in 1 .. Len(q), NEW j \in 1 .. Len(q), i < j, ~Empty(s, i)', ~Empty(s, j)'
      PROVE  Extent(s, i).hi' <= Extent(s, j).lo'
  <2>1. i \in 1 .. n
    BY <1>2, <1>6, <1>7
  <2>2. CASE j \in 1 .. n
    BY <1>5, <1>7, <2>1, <2>2 DEF Laid, Ordered
  <2>3. CASE New(s, j)
    BY <1>3, <1>5, <1>7, <2>1, <2>3 DEF New
  <2> QED BY <1>6, <2>2, <2>3
<1>8. ASSUME NEW i \in 1 .. Len(q), ~Empty(s, i)'
      PROVE  Extent(s, i).lo' >= 0 /\ Extent(s, i).hi' <= Reach(s)'
  BY <1>3, <1>4, <1>5, <1>6, <1>8 DEF New
<1>9. ASSUME NEW i \in 1 .. Len(q), Class = "Generic"
      PROVE  UnitAt(s, i)'
  BY <1>5, <1>6, <1>9 DEF New
<1>10. Ordered(s)' /\ Within(s)'
  BY <1>7, <1>8 DEF Ordered, Within
<1> QED BY <1>1, <1>9, <1>10 DEF Laid
\* How far the innermost call has got, before a step and after.
LEMMA CurrentReach ==
  ASSUME Orderly, stack # << >>
  PROVE  /\ Frame.inb  => Reach(Current) = Pos(Class, bl) /\ AlignNow(Current) = bl.align
         /\ ~Frame.inb => Reach(Current) = Bits(info[Current].size) /\ AlignNow(Current) = info[Current].align
<1>1. Depth \in 1 .. Depth /\ CallsApart
  BY FrameFacts DEF Orderly, Called
<1>2. InRun(Current) <=> Frame.inb
  BY <1>1 DEF InRun, CallsApart, Current, Frame
<1> QED BY <1>2 DEF Reach, AlignNow

LEMMA TopReach ==
  ASSUME Orderly, NEW e, NEW q, NEW g, Top(e, q, g), NEW s, s = Current
  PROVE  /\ Depth' # Depth \/ ~g.inb => Reach(s)' = Bits(e.size) /\ AlignNow(s)' = e.align
         /\ Depth' = Depth /\ g.inb => Reach(s)' = Pos(Class, bl') /\ AlignNow(s)' = bl'.align
         /\ Depth' = Depth => ~LaidOut(s)'
<1>1. Typed /\ stack # << >> /\ setup' = setup /\ CallsApart
  BY DEF Orderly, Top, Called
<1>2. Depth \in 1 .. Depth /\ Depth \in Nat \ {0} /\ Depth' \in {Depth, Depth - 1}
  BY <1>1, FrameFacts DEF Top, Depth
<1>3. ASSUME NEW k \in 1 .. Depth', stack'[k].struct = s
      PROVE  k = Depth /\ Depth' = Depth /\ stack'[k] = g
  <2>1. k \in 1 .. Depth /\ stack[k].struct = s /\ (k = Depth => stack'[k] = g)
    BY <1>1, <1>3, TopCalls
  <2>2. k = Depth
    BY <1>1, <1>2, <2>1 DEF CallsApart, Current, Frame
  <2> QED BY <1>2, <1>3, <2>1, <2>2
<1>4. ASSUME Depth' = Depth
      PROVE  stack'[Depth] = g /\ Depth \in 1 .. Depth' /\ stack'[Depth].struct = s
  <2>1. PICK k \in 1 .. Depth' : k = Depth
    BY <1>2, <1>4
  <2>2. stack'[k].struct = stack[k].struct /\ stack'[k] = g
    BY <1>1, <2>1, TopCalls
  <2> QED BY <2>1, <2>2 DEF Current, Frame
<1>5. /\ Depth' # Depth \/ ~g.inb => ~InRun(s)'
      /\ Depth' = Depth /\ g.inb => InRun(s)'
      /\ Depth' = Depth => OnStack(s)'
  BY <1>3, <1>4 DEF InRun, OnStack
<1>6. info'[s] = e /\ Class' = Class
  BY <1>1, TopTables, Primes
<1> QED BY <1>5, <1>6 DEF Reach, AlignNow, LaidOut

\* The end of a run lies behind everything in it.
LEMMA FinishedReach ==
  ASSUME Orderly, RunsKept, stack # << >>, Current \notin spoiled
  PROVE  /\ Reach(Current) <= Bits(Finished.info.size)
         /\ Class # "Simple" => AlignNow(Current) = Finished.info.align
         /\ Finished.info.size \in Nat /\ Finished.info.align \in Aligns /\ Current \in Structs
<1>1. /\ ~Frame.inb => Finished.info = info[Current]
      /\ Frame.inb => /\ Finished.info.align = IF Class = "Simple" THEN 4 ELSE bl.align
                      /\ Finished.info.size = bl_finalize(Class, bl).offset
      /\ Finished.info \in Entry /\ Finished.info.align # 0
  BY FinishedFacts
<1>2. /\ Depth \in 1 .. Depth /\ Current \in Structs
  BY FrameFacts DEF Orderly
<1>3. Undisturbed(Depth)
  BY <1>2 DEF RunsKept, Current, Frame
<1>4. Finished.info.size \in Nat /\ Finished.info.align \in Aligns
  BY <1>1 DEF Entry
<1>5. CASE Frame.inb
  <2>1. Good(Class, bl)
    BY <1>3, <1>5 DEF Undisturbed, Frame
  <2>2. Pos(Class, bl) <= Bits(bl_finalize(Class, bl).offset)
    BY <2>1, GoodFinalize
  <2> QED BY <1>1, <1>2, <1>4, <1>5, <2>2, CurrentReach
<1>6. CASE ~Frame.inb
  BY <1>1, <1>2, <1>4, <1>6, CurrentReach DEF Bits
<1> QED BY <1>5, <1>6

\* A union grows with its members.
LEMMA GrownCovers ==
  ASSUME Orderly, NEW s \in Structs, Covers(s), NEW q, placed'[s] = q, q \in Seq(Decl),
         NEW n, n = Len(placed[s]), Len(q) \in {n, n + 1}, \A i \in 1 .. n : q[i] = placed[s][i],
         NEW e \in Entry, info'[s] = e, info[s].size <= e.size,
         Len(q) = n + 1 => q[n + 1].offset + q[n + 1].size <= e.size
  PROVE  Covers(s)'
<1>1. placed[s] \in Seq(Decl) /\ info[s] \in Entry
  BY DEF Orderly, Typed
<1>2. n \in Nat /\ info[s].size \in Nat /\ e.size \in Nat
  BY <1>1 DEF Entry
<1>3. ASSUME NEW i \in 1 .. Len(q)
      PROVE  q[i].offset + q[i].size <= e.size
  <2>1. CASE i \in 1 .. n
    <3>1. q[i] = placed[s][i] /\ q[i].offset + q[i].size <= info[s].size /\ q[i] \in Decl
      BY <1>3, <2>1 DEF Covers
    <3>2. q[i].offset \in Nat /\ q[i].size \in Nat
      BY <3>1 DEF Decl
    <3> QED BY <1>2, <3>1, <3>2, SMTT(60)
  <2>2. CASE i \notin 1 .. n
    BY <1>2, <1>3, <2>2
  <2> QED BY <2>1, <2>2
<1> QED BY <1>3 DEF Covers

\* If the struct of the innermost call stays apart, so do all.
LEMMA TopApart ==
  ASSUME Orderly, RunsKept, StaysApart,
         NEW e, NEW q, NEW g, Top(e, q, g), spoiled \subseteq spoiled', Minds(g),
         \A s \in Structs : s = Current /\ s \notin spoiled' /\ Apart(s) => Apart(s)'
  PROVE  StaysApart'
<1>1. setup' = setup
  BY DEF Top
<1>2. Structs' = Structs
  BY <1>1, Primes
<1>3. ASSUME NEW s \in Structs \ spoiled'
      PROVE  Apart(s)'
  <2>1. Apart(s)
    BY <1>3 DEF StaysApart, Apart
  <2>2. s # Current => Same(s)
    BY <1>3, TopOther
  <2> QED BY <1>1, <1>3, <2>1, <2>2, SameApart
<1> QED BY <1>2, <1>3 DEF StaysApart, Apart

LEMMA BeginApart ==
  ASSUME Orderly, RunsKept, StaysApart, NEW r \in Structs, Begin(r), UNCHANGED <<setup, placed>>
  PROVE  StaysApart'
<1>1. placed[r] = << >> /\ spoiled \subseteq spoiled'
  BY BeginFacts
<1>2. Structs' = Structs
  BY Primes
<1>3. ASSUME NEW s \in Structs \ spoiled'
      PROVE  Apart(s)'
  <2>1. CASE s # r
    <3>1. Same(s) /\ Apart(s)
      BY <1>1, <1>3, <2>1, BeginOther DEF StaysApart, Apart
    <3> QED BY <3>1, SameApart
  <2>2. CASE s = r
    <3>1. \A i \in 1 .. Len(placed'[s]) : FALSE
      BY <1>1, <2>2
    <3> QED BY <3>1 DEF Apart, Laid, Ordered, Within, Covers
  <2> QED BY <2>1, <2>2
<1> QED BY <1>2, <1>3 DEF StaysApart, Apart
\* The steps of the innermost call, one by one.
LEMMA EndRunApart ==
  ASSUME Orderly, Orderly', RunsKept, EndRun, NEW s \in Structs, s = Current, s \notin spoiled', Apart(s)
  PROVE  Apart(s)'
<1>1. /\ Top(Finished.info, placed[Current], Moved(0, FALSE)) /\ bl' = Finished.bl /\ spoiled' = spoiled
      /\ Frame.inb /\ Depth' = Depth /\ stack # << >>
  BY EndRunTop DEF EndRun
<1>2. setup' = setup /\ Typed /\ Depth \in 1 .. Depth
  BY <1>1, FrameFacts DEF Top, Orderly
<1>3. info'[s] = Finished.info /\ placed'[s] = placed[s] /\ placed[s] \in Seq(Decl)
  BY <1>1, <1>2, TopTables, FrameFacts
<1>4. Class' = Class /\ defs' = defs /\ HasBits(s)' = HasBits(s) /\ Unpacked(s)' = Unpacked(s)
  BY <1>2, Primes
<1>5. defs[s].kind # "union"
  BY <1>1, <1>2 DEF Orderly, Called, Underway, Current, Frame
<1>6. PICK g : g = Moved(0, FALSE)
  OBVIOUS
<1>7. ~g.inb
  BY <1>6 DEF Moved
<1>8. Top(Finished.info, placed[Current], g)
  BY <1>1, <1>6, Zenon
<1>9. /\ Reach(s)' = Bits(Finished.info.size) /\ AlignNow(s)' = Finished.info.align /\ ~LaidOut(s)'
  BY <1>1, <1>7, <1>8, TopReach
<1>10. /\ Reach(s) <= Bits(Finished.info.size)
       /\ Class # "Simple" => AlignNow(s) = Finished.info.align
       /\ Finished.info.align \in Aligns
  BY <1>1, FinishedReach
<1>11. /\ Reach(s) <= Reach(s)'
       /\ Class = "Generic" => AlignNow(s) <= AlignNow(s)'
  BY <1>9, <1>10 DEF Aligns
<1>12. ASSUME Laid(s) PROVE Laid(s)'
  <2>1. PICK q \in Seq(Decl) : q = placed[s]
    BY <1>3
  <2>2. PICK n : n = Len(placed[s])
    OBVIOUS
  <2>3. placed'[s] = q /\ Len(q) = n /\ n \in Nat /\ (\A i \in 1 .. n : q[i] = placed[s][i])
    BY <1>3, <2>1, <2>2
  <2>4. Len(q) # n + 1
    BY <2>3
  <2> QED BY <1>2, <1>9, <1>11, <1>12, <2>2, <2>3, <2>4, GrownLaid
<1> QED BY <1>4, <1>5, <1>12 DEF Apart

LEMMA PlaceApart ==
  ASSUME Orderly, Orderly', RunsKept, Place, NEW s \in Structs, s = Current, s \notin spoiled', Apart(s)
  PROVE  Apart(s)'
<1>1. /\ Top(Grown, Append(placed[Current], Held), Moved(1, FALSE)) /\ Depth' = Depth /\ stack # << >>
      /\ spoiled \subseteq spoiled' /\ ~Done /\ Member.kind # "bits" /\ Held \in Decl /\ At \in Nat
      /\ Kind = "struct" => Finished.info.size <= At
      /\ Finished.info.align <= Grown.align /\ Grown.align \in Aligns
      /\ At + TypeInfo(Member).size <= Grown.size /\ Finished.info.size <= Grown.size
  BY PlaceTop, Mindful DEF Place
<1>2. setup' = setup /\ Typed /\ Depth \in 1 .. Depth /\ Grown \in Entry
  BY <1>1, FrameFacts DEF Top, Orderly
<1>3. PICK q \in Seq(Decl) : q = Append(placed[s], Held)
  <2>1. placed[s] \in Seq(Decl) /\ Held \in Decl
    BY <1>1, <1>2, FrameFacts
  <2>2. Append(placed[s], Held) \in Seq(Decl)
    BY <2>1
  <2> QED BY <2>2
<1>4. PICK n : n = Len(placed[s])
  OBVIOUS
<1>5. PICK e \in Entry : e = Grown
  BY <1>2
<1>6. PICK g : g = Moved(1, FALSE)
  OBVIOUS
<1>7. Top(e, q, g)
  BY <1>1, <1>3, <1>5, <1>6, Zenon
<1>8. ~g.inb
  BY <1>6 DEF Moved
<1>9. /\ info'[s] = e /\ placed'[s] = q /\ placed[s] \in Seq(Decl)
  BY <1>1, <1>2, <1>7, TopTables, FrameFacts
<1>10. n \in Nat /\ Len(q) = n + 1 /\ q[n + 1] = Held /\ \A i \in 1 .. n : q[i] = placed[s][i]
  BY <1>3, <1>4, <1>9
<1>11. /\ Class' = Class /\ defs' = defs /\ HasBits(s)' = HasBits(s) /\ Unpacked(s)' = Unpacked(s)
       /\ ByteOrder' = ByteOrder
  BY <1>2, Primes
<1>12. /\ Reach(s)' = Bits(e.size) /\ AlignNow(s)' = e.align /\ ~LaidOut(s)'
  BY <1>1, <1>7, <1>8, TopReach
<1>13. /\ Reach(s) <= Bits(Finished.info.size)
       /\ Class # "Simple" => AlignNow(s) = Finished.info.align
       /\ Finished.info.size \in Nat /\ Finished.info.align \in Aligns
  BY <1>1, FinishedReach
<1>14. defs[s].members[n + 1] = Member
  <2>1. n = Frame.i - 1 /\ Frame.i \in Nat
    BY <1>1, <1>2, <1>4, MemberFacts, FrameFacts DEF Call
  <2>2. n + 1 = Frame.i
    BY <2>1
  <2> QED BY <2>2 DEF Member
<1>15. /\ Held.offset = At /\ Held.size = TypeInfo(Member).size /\ Held.size \in Nat
       /\ e.size \in Nat /\ e.align \in Nat
  BY <1>1, <1>5 DEF Held, Decl, Entry, Aligns
<1>16. ASSUME defs[s].kind = "struct", Laid(s) PROVE Laid(s)'
  <2>1. Finished.info.size <= At
    BY <1>1, <1>16 DEF Kind
  <2>2. /\ Reach(s) <= Reach(s)'
        /\ Class = "Generic" => AlignNow(s) <= AlignNow(s)'
    <3>1. Finished.info.align \in Nat /\ Finished.info.align <= e.align
      BY <1>1, <1>5, <1>13 DEF Aligns
    <3>2. Finished.info.size <= e.size
      BY <1>1, <1>5
    <3>3. Reach(s) \in Nat
      BY ReachTyped DEF Reached
    <3> QED BY <1>12, <1>13, <1>15, <3>1, <3>2, <3>3 DEF Bits
  <2>3. New(s, n + 1)
    <3>1. /\ Extent(s, n + 1).lo' = Bits(At) /\ Extent(s, n + 1).hi' = Bits(At + TypeInfo(Member).size)
      BY <1>1, <1>9, <1>10, <1>11, <1>14, <1>15 DEF Extent
    <3>2. Reach(s) <= Bits(At)
      <4>1. Reach(s) \in Nat
        BY ReachTyped DEF Reached
      <4> QED BY <1>1, <1>13, <2>1, <4>1 DEF Bits
    <3>3. Bits(At + TypeInfo(Member).size) <= Reach(s)' /\ Bits(At) \in Int
      BY <1>1, <1>5, <1>12, <1>15 DEF Bits
    <3>4. UnitAt(s, n + 1)'
      BY <1>1, <1>9, <1>10, <1>11, <1>14, <1>15, <3>3 DEF UnitAt
    <3> QED BY <3>1, <3>2, <3>3, <3>4 DEF New
  <2> QED BY <1>2, <1>4, <1>9, <1>10, <1>12, <1>16, <2>2, <2>3, GrownLaid, ZenonT(90)
<1>17. ASSUME defs[s].kind = "union", Covers(s) PROVE Covers(s)'
  <2>1. ~Frame.inb
    BY <1>2, <1>17 DEF Orderly, Called, Underway, Current, Frame
  <2>2. Finished.info = info[s]
    BY <1>1, <2>1, FinishedFacts
  <2>3. info[s].size <= e.size /\ q[n + 1].offset + q[n + 1].size <= e.size
    BY <1>1, <1>5, <1>10, <1>15, <2>2
  <2> QED BY <1>4, <1>9, <1>10, <1>17, <2>3, GrownCovers, ZenonT(60)
<1> QED BY <1>11, <1>16, <1>17 DEF Apart

LEMMA ReturnApart ==
  ASSUME Orderly, Orderly', RunsKept, Return, NEW s \in Structs, s = Current, s \notin spoiled', Apart(s)
  PROVE  Apart(s)'
<1>1. /\ Top(Padded, placed[Current], Frame) /\ Len(stack') = Depth - 1 /\ stack # << >> /\ spoiled' = spoiled
      /\ Padded.align \in Aligns /\ Finished.info.size <= Padded.size
  BY ReturnTop DEF Return
<1>2. setup' = setup /\ Typed /\ Depth \in 1 .. Depth /\ Padded \in Entry /\ Depth \in Nat
  BY <1>1, FrameFacts DEF Top, Orderly
<1>3. PICK q \in Seq(Decl) : q = placed[s]
  BY <1>1, <1>2, FrameFacts
<1>4. PICK n : n = Len(placed[s])
  OBVIOUS
<1>5. PICK e \in Entry : e = Padded
  BY <1>2
<1>6. Top(e, q, Frame) /\ Depth' # Depth
  BY <1>1, <1>2, <1>3, <1>5 DEF Depth
<1>7. info'[s] = e /\ placed'[s] = q
  BY <1>2, <1>6, TopTables
<1>8. n \in Nat /\ Len(q) = n /\ Len(q) # n + 1 /\ \A i \in 1 .. n : q[i] = placed[s][i]
  BY <1>3, <1>4
<1>9. /\ Class' = Class /\ defs' = defs /\ HasBits(s)' = HasBits(s) /\ Unpacked(s)' = Unpacked(s)
  BY <1>2, Primes
<1>10. Reach(s)' = Bits(e.size) /\ AlignNow(s)' = e.align
  BY <1>6, TopReach
<1>11. /\ Reach(s) <= Bits(Finished.info.size)
       /\ Class # "Simple" => AlignNow(s) = Finished.info.align
       /\ Finished.info.size \in Nat /\ Finished.info.align \in Aligns
  BY <1>1, FinishedReach
<1>12. e.align = Finished.info.align /\ e.size = RoundUp(Finished.info.size, Finished.info.align)
       /\ e.size \in Nat
  BY <1>5 DEF Padded, Entry
<1>13. Reach(s) \in Nat /\ AlignNow(s) \in Nat
  BY ReachTyped DEF Reached
<1>14. ASSUME Laid(s) PROVE Laid(s)'
  <2>1. /\ Reach(s) <= Reach(s)'
        /\ Class = "Generic" => AlignNow(s) <= AlignNow(s)'
    BY <1>1, <1>5, <1>10, <1>11, <1>12, <1>13 DEF Bits
  <2>2. ASSUME Class = "Generic", NEW i \in 1 .. Len(q)
        PROVE  q[i].offset + q[i].size <= e.size
    <3>1. PICK m : m = defs[s].members[i]
      OBVIOUS
    <3>2. PICK d \in Decl : d = q[i]
      BY <1>8
    <3>3. PICK al \in Aligns : al = Finished.info.align
      BY <1>11
    <3>4. PICK x \in Nat : x = Finished.info.size
      BY <1>11
    <3>5. d.offset \in Nat /\ d.size \in Nat /\ x <= e.size /\ e.size = RoundUp(x, al)
      BY <1>1, <1>5, <1>12, <3>3, <3>4 DEF Decl
    <3>6. UnitAt(s, i) /\ MemberTyped(setup, PackOf(s), m) /\ d = placed[s][i]
      BY <1>3, <1>14, <2>2, <3>1, <3>2, HeldFacts DEF Laid
    <3>7. CASE m.kind = "bits" /\ d # Nowhere
      <4>1. /\ d.size <= m.size /\ d.offset % m.size = 0 /\ m.size <= al
            /\ Bits(d.offset) < Bits(x)
        <5>1. /\ d.size <= m.size /\ d.offset % m.size = 0 /\ m.size <= AlignNow(s)
              /\ Bits(d.offset) < Reach(s)
          BY <3>1, <3>6, <3>7 DEF UnitAt
        <5>2. AlignNow(s) = al /\ Reach(s) <= Bits(x)
          BY <1>11, <2>2, <3>3, <3>4
        <5> QED BY <1>13, <3>4, <3>5, <5>1, <5>2, SMTT(60) DEF Bits
      <4>2. m.size \in Sizes
        BY <3>6, <3>7 DEF MemberTyped
      <4>3. d.offset < x
        BY <3>4, <3>5, <4>1 DEF Bits
      <4>4. d.offset + m.size <= RoundUp(x, al)
        BY <3>3, <3>4, <3>5, <4>1, <4>2, <4>3, UnitEnds
      <4>5. m.size \in Nat
        BY <4>2 DEF Sizes
      <4> QED BY <1>12, <3>2, <3>5, <4>1, <4>4, <4>5
    <3>8. CASE m.kind = "bits" /\ d = Nowhere
      BY <1>12, <3>2, <3>8 DEF Nowhere
    <3>9. CASE m.kind # "bits"
      <4>1. Bits(d.offset + d.size) <= Reach(s)
        BY <3>1, <3>6, <3>9 DEF UnitAt
      <4>2. Bits(d.offset + d.size) <= Bits(x)
        BY <1>11, <1>13, <3>4, <3>5, <4>1, SMTT(60) DEF Bits
      <4> QED BY <1>12, <3>2, <3>4, <3>5, <4>2, SMTT(60) DEF Bits
    <3> QED BY <3>7, <3>8, <3>9
  <2> QED BY <1>2, <1>4, <1>7, <1>8, <1>14, <2>1, <2>2, GrownLaid, ZenonT(60)
<1>15. ASSUME defs[s].kind = "union", Covers(s) PROVE Covers(s)'
  <2>1. ~Frame.inb
    BY <1>2, <1>15 DEF Orderly, Called, Underway, Current, Frame
  <2>2. Finished.info = info[s]
    BY <1>1, <2>1, FinishedFacts
  <2>3. info[s].size <= e.size
    BY <1>1, <1>5, <2>2
  <2>4. ASSUME NEW i \in 1 .. Len(q)
        PROVE  q[i].offset + q[i].size <= e.size
    <3>1. q[i].offset + q[i].size <= info[s].size
      BY <1>3, <1>15 DEF Covers
    <3>2. q[i] \in Decl /\ info[s] \in Entry
      BY <1>2 DEF Typed
    <3>3. q[i].offset \in Nat /\ q[i].size \in Nat /\ info[s].size \in Nat
      BY <3>2 DEF Decl, Entry
    <3> QED BY <1>12, <2>3, <3>1, <3>3
  <2> QED BY <1>7, <2>4 DEF Covers
<1> QED BY <1>9, <1>14, <1>15 DEF Apart
\* A field goes behind what there is, in a unit the struct is aligned for.
LEMMA PushedReach ==
  ASSUME Orderly, RunsKept, stack # << >>, ~Done, Member.kind = "bits", ~Pushed.refused,
         Current \notin spoiled, Kind = "struct", Class = "Generic" => Unpacked(Current)
  PROVE  /\ Reach(Current) <= Pos(Class, Pushed.bl)
         /\ AlignNow(Current) <= Pushed.bl.align
         /\ Member.bits > 0 => /\ Reach(Current) <= BitRange(Given, ByteOrder).lo
                               /\ BitRange(Given, ByteOrder).lo \in Int
                               /\ BitRange(Given, ByteOrder).hi <= Pos(Class, Pushed.bl)
         /\ Member.bits = 0 => BitRange(Given, ByteOrder).lo = BitRange(Given, ByteOrder).hi
         /\ Class = "Generic" =>
              \/ Given = Nowhere
              \/ /\ Given.size <= Member.size /\ Given.offset % Member.size = 0
                 /\ Member.size <= Pushed.bl.align /\ Bits(Given.offset) < Pos(Class, Pushed.bl)
<1>1. /\ Follows(Class, Opened, Member.size, Member.bits, Pushed)
      /\ Opened.byte_order = ByteOrder /\ Opened.max_align = PackOf(Current)
  BY PushesWell
<1>2. /\ Pushed.bl.align >= Opened.align /\ Member.size \in Sizes /\ Member.bits \in Nat
  BY PushedFacts
<1>3. Reach(Current) = Pos(Class, Opened) /\ AlignNow(Current) = Opened.align
  BY OpenedFacts, CurrentReach
<1>4. Class = "Generic" => Member.size <= PackOf(Current)
  <2>1. Frame.i \in 1 .. Len(defs[Current].members)
    BY MemberFacts
  <2> QED BY <2>1 DEF Unpacked, Member
<1>5. Class = "Generic" => Lesser(Member.size, Opened.max_align) = Member.size
  <2>1. Member.size \in Nat
    BY <1>2 DEF Sizes
  <2>2. PackOf(Current) \in Nat
    <3>1. PackOf(Current) \in Aligns
      BY FrameFacts, TableFacts DEF Orderly, Typed
    <3> QED BY <3>1 DEF Aligns
  <2> QED BY <1>1, <1>4, <2>1, <2>2 DEF Lesser
<1>6. ~(Class = "Generic" /\ Member.bits = 0 /\ Member.size > Opened.max_align)
  <2>1. Member.size \in Nat /\ PackOf(Current) \in Nat
    <3>1. PackOf(Current) \in Aligns
      BY FrameFacts, TableFacts DEF Orderly, Typed
    <3> QED BY <1>2, <3>1 DEF Aligns, Sizes
  <2> QED BY <1>1, <1>4, <2>1
<1>7. Reach(Current) <= Pos(Class, Pushed.bl)
  BY <1>1, <1>3, <1>6 DEF Follows
<1>8. AlignNow(Current) <= Pushed.bl.align
  <2>1. Opened.align \in Nat /\ Pushed.bl.align \in Nat
    <3>1. Ready(Class, Opened) /\ Ready(Class, Pushed.bl)
      BY OpenedFacts, PushedFacts
    <3> QED BY <3>1, SaneFacts DEF Ready, Aligns
  <2> QED BY <1>2, <1>3, <2>1
<1>9. CASE Member.bits = 0
  <2>1. Given = Nowhere
    BY <1>9 DEF Given
  <2>2. BitRange(Nowhere, ByteOrder).lo = BitRange(Nowhere, ByteOrder).hi
    BY DEF BitRange, FirstBit, Bits, Nowhere
  <2> QED BY <1>7, <1>8, <1>9, <2>1, <2>2
<1>10. CASE Member.bits # 0
  <2>1. Given = Pushed.decl /\ Member.bits > 0 /\ ~(Member.bits = 0)
    BY <1>2, <1>10 DEF Given
  <2>2. /\ Reach(Current) <= BitRange(Given, ByteOrder).lo
        /\ BitRange(Given, ByteOrder).lo \in Int
        /\ BitRange(Given, ByteOrder).hi <= Pos(Class, Pushed.bl)
    BY <1>1, <1>3, <2>1 DEF Follows
  <2>3. ASSUME Class = "Generic"
        PROVE  /\ Given.size <= Member.size /\ Given.offset % Member.size = 0
               /\ Member.size <= Pushed.bl.align /\ Bits(Given.offset) < Pos(Class, Pushed.bl)
    <3>1. LET al == Lesser(Member.size, Opened.max_align) IN
          /\ Given.size <= Member.size /\ Given.offset % al = 0 /\ Pushed.bl.align >= al
          /\ Bits(Given.offset) < Pos(Class, Pushed.bl)
      BY <1>1, <2>1, <2>3 DEF Follows
    <3>2. Member.size \in Nat /\ Pushed.bl.align \in Nat
      <4>1. Ready(Class, Pushed.bl)
        BY PushedFacts
      <4> QED BY <1>2, <4>1, SaneFacts DEF Ready, Aligns, Sizes
    <3> QED BY <1>5, <2>3, <3>1, <3>2
  <2> QED BY <1>7, <1>8, <2>1, <2>2, <2>3
<1> QED BY <1>9, <1>10

LEMMA PushApart ==
  ASSUME Orderly, Orderly', RunsKept, PushBits, NEW s \in Structs, s = Current, s \notin spoiled', Apart(s)
  PROVE  Apart(s)'
<1>1. /\ Kind = "struct" => /\ Top(info[Current], Append(placed[Current], Given), Moved(1, TRUE))
                            /\ bl' = Pushed.bl
      /\ Depth' = Depth /\ stack # << >> /\ spoiled \subseteq spoiled' /\ setup' = setup
      /\ ~Done /\ Member.kind = "bits" /\ ~Pushed.refused /\ Given \in Decl
  BY PushTop, Mindful DEF PushBits
<1>2. Typed /\ Depth \in 1 .. Depth /\ Kind = defs[s].kind
  BY <1>1, FrameFacts DEF Orderly, Kind
<1>3. /\ Class' = Class /\ defs' = defs /\ HasBits(s)' = HasBits(s) /\ Unpacked(s)' = Unpacked(s)
      /\ ByteOrder' = ByteOrder
  BY <1>1, Primes
<1>4. Frame.i \in 1 .. Len(defs[s].members) /\ Len(placed[s]) = Frame.i - 1
  BY <1>1, MemberFacts
<1>5. HasBits(s)
  BY <1>1, <1>4 DEF HasBits, Member
<1>6. ASSUME defs[s].kind = "struct", Class = "Generic" => Unpacked(s), Laid(s)
      PROVE  Laid(s)'
  <2>1. PICK q \in Seq(Decl) : q = Append(placed[s], Given)
    <3>1. placed[s] \in Seq(Decl)
      BY <1>1, <1>2, FrameFacts
    <3>2. Append(placed[s], Given) \in Seq(Decl)
      BY <1>1, <3>1
    <3> QED BY <3>2
  <2>2. PICK n : n = Len(placed[s])
    OBVIOUS
  <2>3. PICK e : e = info[Current]
    OBVIOUS
  <2>4. PICK g : g = Moved(1, TRUE)
    OBVIOUS
  <2>5. Top(e, q, g)
    BY <1>1, <1>2, <1>6, <2>1, <2>3, <2>4, Zenon
  <2>6. g.inb
    BY <2>4 DEF Moved
  <2>7. placed'[s] = q /\ placed[s] \in Seq(Decl)
    BY <1>1, <1>2, <2>5, TopTables, FrameFacts
  <2>8. n \in Nat /\ Len(q) = n + 1 /\ q[n + 1] = Given /\ \A i \in 1 .. n : q[i] = placed[s][i]
    BY <2>1, <2>2, <2>7
  <2>9. defs[s].members[n + 1] = Member
    <3>1. n + 1 = Frame.i
      BY <1>4, <2>2
    <3> QED BY <3>1 DEF Member
  <2>10. /\ Reach(s)' = Pos(Class, Pushed.bl) /\ AlignNow(s)' = Pushed.bl.align /\ ~LaidOut(s)'
    BY <1>1, <1>2, <1>6, <2>5, <2>6, TopReach
  <2>11. /\ Reach(s) <= Pos(Class, Pushed.bl)
         /\ AlignNow(s) <= Pushed.bl.align
         /\ Member.bits > 0 => /\ Reach(s) <= BitRange(Given, ByteOrder).lo
                               /\ BitRange(Given, ByteOrder).lo \in Int
                               /\ BitRange(Given, ByteOrder).hi <= Pos(Class, Pushed.bl)
         /\ Member.bits = 0 => BitRange(Given, ByteOrder).lo = BitRange(Given, ByteOrder).hi
         /\ Class = "Generic" =>
              \/ Given = Nowhere
              \/ /\ Given.size <= Member.size /\ Given.offset % Member.size = 0
                 /\ Member.size <= Pushed.bl.align /\ Bits(Given.offset) < Pos(Class, Pushed.bl)
    BY <1>1, <1>2, <1>6, PushedReach
  <2>12. New(s, n + 1)
    <3>1. Member.bits \in Nat
      BY <1>1, PushedFacts
    <3>2. /\ Extent(s, n + 1).lo' = BitRange(Given, ByteOrder).lo
          /\ Extent(s, n + 1).hi' = BitRange(Given, ByteOrder).hi
          /\ Empty(s, n + 1)' <=> BitRange(Given, ByteOrder).lo = BitRange(Given, ByteOrder).hi
      BY <1>1, <1>3, <2>7, <2>8, <2>9 DEF Extent, Empty
    <3>3. Class = "Generic" => UnitAt(s, n + 1)'
      BY <1>1, <1>3, <2>7, <2>8, <2>9, <2>10, <2>11 DEF UnitAt, Nowhere
    <3> QED BY <2>10, <2>11, <3>1, <3>2, <3>3 DEF New
  <2>13. /\ Reach(s) <= Reach(s)' /\ AlignNow(s) <= AlignNow(s)' /\ ~LaidOut(s)'
    BY <2>10, <2>11
  <2>14. Laid(s) /\ setup' = setup /\ placed'[s] = q
    BY <1>1, <1>6, <2>7
  <2> QED BY <2>2, <2>8, <2>12, <2>13, <2>14, GrownLaid, ZenonT(90)
<1> QED BY <1>3, <1>5, <1>6 DEF Apart

LEMMA NextApart ==
  ASSUME Orderly, Orderly', RunsKept, StaysApart, [Next]_vars
  PROVE  StaysApart'
<1>1. CASE Descend
  BY <1>1, DescendBegins, BeginApart
<1>2. ASSUME NEW s \in Structs, Ask(s) PROVE StaysApart'
  BY <1>2, BeginApart DEF Ask
<1>3. CASE EndRun
  BY <1>3, EndRunApart, Mindful, TopApart DEF EndRunStep
<1>4. CASE Place
  BY <1>4, PlaceApart, Mindful, TopApart DEF PlaceStep
<1>5. CASE PushBits
  <2>1. CASE Kind = "struct"
    BY <1>5, <2>1, PushApart, Mindful, TopApart DEF RunStep
  <2>2. CASE Kind # "struct"
    <3> DEFINE e == [align |-> Ended.align, size |-> Ended.offset]
    <3>1. Top(e, Append(placed[Current], Given), Moved(1, FALSE)) /\ Minds(Moved(1, FALSE))
          /\ spoiled \subseteq spoiled'
      BY <1>5, <2>2, Mindful DEF UnionStep
    <3> HIDE DEF e
    <3> QED BY <1>5, <3>1, PushApart, TopApart
  <2> QED BY <2>1, <2>2
<1>6. CASE Return
  BY <1>6, ReturnApart, Mindful, TopApart DEF ReturnStep
<1>7. CASE Fatal
  <2>1. setup' = setup /\ spoiled \subseteq spoiled'
    BY <1>7 DEF Fatal
  <2>2. ASSUME NEW s \in Structs \ spoiled'
        PROVE  Apart(s)'
    <3>1. Same(s) /\ Apart(s)
      BY <1>7, <2>1, <2>2, FatalOther DEF StaysApart, Apart
    <3> QED BY <2>1, <3>1, SameApart
  <2> QED BY <2>1, <2>2, Primes DEF StaysApart, Apart
<1>8. CASE UNCHANGED vars
  <2>1. setup' = setup /\ spoiled' = spoiled
    BY <1>8 DEF vars
  <2>2. ASSUME NEW s \in Structs \ spoiled
        PROVE  Apart(s)'
    <3>1. Same(s) /\ Apart(s)
      BY <1>8, <2>2, StutterSame DEF StaysApart, Apart
    <3> QED BY <2>1, <3>1, SameApart
  <2> QED BY <2>1, <2>2, Primes DEF StaysApart, Apart
<1> QED BY <1>1, <1>2, <1>3, <1>4, <1>5, <1>6, <1>7, <1>8 DEF Next, Step

LEMMA InitApart == Init => StaysApart
<1> SUFFICES ASSUME Init PROVE StaysApart
  OBVIOUS
<1>1. placed = [s \in Structs |-> << >>]
  BY DEF Init
<1>2. \A s \in Structs : \A i \in 1 .. Len(placed[s]) : FALSE
  BY <1>1
<1> QED BY <1>2 DEF StaysApart, Laid, Ordered, Within, Covers

\* In a struct that nothing has interfered with no two members share a bit, all
\* lie within it, and so do the units its bitfields are read from and written
\* to; a union without bitfields is as large as each of its members.
THEOREM MembersAreDisjoint == Spec => []MembersDisjoint
<1>1. Orderly /\ StaysApart => MembersDisjoint
  <2> SUFFICES ASSUME Orderly, StaysApart, NEW s \in Structs \ spoiled, LaidOut(s)
               PROVE  /\ defs[s].kind = "struct" /\ (Class = "Generic" => Unpacked(s)) => Followed(s)
                      /\ defs[s].kind = "union" /\ ~HasBits(s) =>
                           \A i \in 1 .. Len(placed[s]) : Extent(s, i).hi <= Bits(info[s].size)
    BY DEF MembersDisjoint
  <2>1. Reach(s) = Bits(info[s].size)
    <3>1. ~InRun(s)
      BY DEF LaidOut, OnStack, InRun
    <3> QED BY <3>1 DEF Reach
  <2>2. ASSUME Laid(s) PROVE Followed(s)
    BY <2>1, <2>2 DEF Followed, Laid, Ordered, Within
  <2>3. ASSUME Covers(s), ~HasBits(s), NEW i \in 1 .. Len(placed[s])
        PROVE  Extent(s, i).hi <= Bits(info[s].size)
    <3>1. i \in 1 .. Len(defs[s].members) /\ placed[s][i] \in Decl /\ info[s] \in Entry
      BY <2>3, HeldFacts DEF Orderly, Typed
    <3>2. defs[s].members[i].kind # "bits"
      BY <2>3, <3>1 DEF HasBits
    <3>3. Extent(s, i).hi = Bits(placed[s][i].offset + placed[s][i].size)
      BY <3>2 DEF Extent
    <3>4. placed[s][i].offset + placed[s][i].size <= info[s].size
      BY <2>3 DEF Covers
    <3>5. placed[s][i].offset \in Nat /\ placed[s][i].size \in Nat /\ info[s].size \in Nat
      BY <3>1 DEF Decl, Entry
    <3> QED BY <3>3, <3>4, <3>5, SMTT(60) DEF Bits
  <2> QED BY <2>2, <2>3 DEF StaysApart
<1>2. Orderly /\ Orderly' /\ RunsKept /\ StaysApart /\ [Next]_vars => (RunsKept /\ StaysApart)'
  BY NextRuns, NextApart
<1> QED BY <1>1, <1>2, InitAligned, InitApart, AlwaysOrderly, PTL DEF Spec
===============================================================================
