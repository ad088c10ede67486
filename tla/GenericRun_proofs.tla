------------------------- MODULE GenericRun_proofs --------------------------
(***************************************************************************)
(* The Generic engine implements GCC's rule whenever no declared type is   *)
(* larger than the alignment in force.  GCC's rule is one of the           *)
(* allocation discipline of BitAlloc, which keeps fields apart.            *)
(***************************************************************************)
EXTENDS GenericRun, TLAPS

\* An offset on a boundary of a type of s bytes contributes nothing to the
\* position within the unit.
LEMMA ModUnit ==
  ASSUME NEW s \in Sizes, NEW o \in Nat, o % s = 0, NEW x \in Nat
  PROVE  (8 * o + x) % (8 * s) = x % (8 * s)
<1>1. CASE s = 1
  BY <1>1
<1>2. CASE s = 2
  BY <1>2
<1>3. CASE s = 4
  BY <1>3
<1>4. CASE s = 8
  BY <1>4
<1> QED BY <1>1, <1>2, <1>3, <1>4 DEF Sizes

\* Remainders by the units that occur.
LEMMA ModFacts ==
  ASSUME NEW s \in Sizes, NEW x \in Nat
  PROVE  /\ 0 % (8 * s) = 0
         /\ (8 * s) % (8 * s) = 0
         /\ x < 8 * s => x % (8 * s) = x
         /\ x % s = 0 => (x + s) % s = 0
<1>1. CASE s = 1
  BY <1>1
<1>2. CASE s = 2
  BY <1>2
<1>3. CASE s = 4
  BY <1>3
<1>4. CASE s = 8
  BY <1>4
<1> QED BY <1>1, <1>2, <1>3, <1>4 DEF Sizes

\* GCC's place for a field of `bits` bits, from x bits into a unit at byte o:
\* at x if the unit still has room, else at the next unit.
LEMMA TargetInUnit ==
  ASSUME NEW s \in Sizes, NEW o \in Nat, o % s = 0, NEW x \in Nat, x <= 8 * s,
         NEW bits \in Nat
  PROVE  /\ x + bits <= 8 * s => Gcc!Target(8 * o + x, bits, s) = 8 * o + x
         /\ bits <= 8 * s /\ x + bits > 8 * s
              => Gcc!Target(8 * o + x, bits, s) = 8 * (o + s)
<1> DEFINE m == 8 * s
<1>1. (8 * o + x) % m = x % m
  BY ModUnit
<1>2. CASE x < m
  <2>1. x % m = x
    BY <1>2, ModFacts
  <2> HIDE DEF m
  <2>2. m \in Nat /\ m = 8 * s
    BY DEF m, Sizes
  <2> QED BY <1>1, <1>2, <2>1, <2>2 DEF Gcc!Target, Gcc!RoundUp, Sizes
<1>3. CASE x = m
  <2>1. x % m = 0
    BY <1>3, ModFacts
  <2>2. 8 * o + x = 8 * (o + s)
    BY <1>3 DEF Sizes
  <2> HIDE DEF m
  <2>3. m \in Nat /\ m = 8 * s
    BY DEF m, Sizes
  <2> QED BY <1>1, <1>3, <2>1, <2>2, <2>3 DEF Gcc!Target, Gcc!RoundUp, Sizes
<1> QED BY <1>2, <1>3 DEF Sizes

\* Rounding up to a unit: from within it to its end, from its start nowhere.
LEMMA RoundUpInUnit ==
  ASSUME NEW s \in Sizes, NEW o \in Nat, o % s = 0, NEW x \in Nat, x <= 8 * s
  PROVE  /\ x > 0 => Gcc!RoundUp(8 * o + x, 8 * s) = 8 * (o + s)
         /\ Gcc!RoundUp(8 * o, 8 * s) = 8 * o
<1> DEFINE m == 8 * s
<1>1. (8 * o + x) % m = x % m /\ (8 * o + 0) % m = 0 % m /\ 0 % m = 0 /\ m % m = 0
  BY ModUnit, ModFacts
<1>2. x < m => x % m = x
  BY ModFacts
<1> HIDE DEF m
<1>3. m \in Nat /\ m = 8 * s
  BY DEF m, Sizes
<1>4. 8 * (o + s) = 8 * o + m /\ 8 * o + 0 = 8 * o
  BY <1>3 DEF Sizes
<1> QED BY <1>1, <1>2, <1>3, <1>4 DEF Gcc!RoundUp, Sizes

\* One round of the loop does not change the place GCC's rule prescribes.
LEMMA MoveTarget ==
  ASSUME NEW s \in Sizes, NEW o \in Nat, o % s = 0, NEW x \in Nat,
         NEW bits \in Nat, bits <= 8 * s, x + bits > 8 * s
  PROVE  Gcc!Target(8 * (o + s) + (IF x > 8 * s THEN x - 8 * s ELSE 0), bits, s)
           = Gcc!Target(8 * o + x, bits, s)
<1> DEFINE y == IF x > 8 * s THEN x - 8 * s ELSE 0
<1>0. 8 * s \in Nat /\ o + s \in Nat /\ (o + s) % s = 0 /\ 0 <= 8 * s
  BY ModFacts DEF Sizes
<1>1. CASE x >= 8 * s
  <2>1. y = x - 8 * s
    BY <1>0, <1>1
  <2>2. 8 * (o + s) + y = 8 * o + x
    BY <2>1 DEF Sizes
  <2> QED BY <2>2
<1>2. CASE x < 8 * s
  <2>1. x <= 8 * s /\ y = 0 /\ 0 + bits <= 8 * s
    BY <1>0, <1>2
  <2>2. Gcc!Target(8 * o + x, bits, s) = 8 * (o + s)
    BY <2>1, TargetInUnit
  <2>3. Gcc!Target(8 * (o + s) + 0, bits, s) = 8 * (o + s) + 0
    BY <1>0, <2>1, TargetInUnit
  <2>4. 8 * (o + s) + 0 = 8 * (o + s)
    BY <1>0
  <2> QED BY <2>1, <2>2, <2>3, <2>4
<1>3. x >= 8 * s \/ x < 8 * s
  BY <1>0
<1> QED BY <1>1, <1>2, <1>3

\* The engine is between two fields or before the first one.
Settled(b) ==
  /\ b.cur_type_align = b.cur_type_size
  /\ b.cur_type_size # 0 => b.offset % b.cur_type_size = 0

\* Turning to a type of s bytes puts the offset on a boundary of the type and
\* leaves the bit position where it was.
LEMMA RetypeFacts ==
  ASSUME NEW b \in BLObj, NEW s \in Sizes, s <= b.max_align, Settled(b)
  PROVE  /\ Generic_retype(b, s, s) \in BLObj
         /\ Generic_retype(b, s, s).cur_type_size = s
         /\ Settled(Generic_retype(b, s, s))
         /\ Generic_retype(b, s, s).max_align = b.max_align
         /\ Generic_retype(b, s, s).byte_order = b.byte_order
         /\ Generic_position(Generic_retype(b, s, s)) = Generic_position(b)
<1>1. CASE b.cur_type_size = s
  BY <1>1 DEF Generic_retype
<1>2. CASE b.cur_type_size # s
  <2> DEFINE d == b.offset % s
             t == Generic_retype(b, s, s)
  <2>1. Lesser(s, b.max_align) = s
    BY DEF Lesser, BLObj, Sizes
  <2>2. d \in Nat /\ d <= b.offset /\ (b.offset - d) % s = 0
    BY DEF BLObj, Sizes
  <2>3. t = [b EXCEPT !.align = IF s > @ THEN s ELSE @, !.offset = @ - d,
                      !.bit_offset = @ + Bits(d),
                      !.cur_type_size = s, !.cur_type_align = s]
    BY <1>2, <2>1 DEF Generic_retype
  <2> HIDE DEF d, t
  <2>4. /\ b.offset - d \in Nat /\ b.bit_offset + Bits(d) \in Nat
        /\ (IF s > b.align THEN s ELSE b.align) \in Nat
    BY <2>2 DEF BLObj, Bits, Sizes
  <2>5. t = [max_align |-> b.max_align, align |-> IF s > b.align THEN s ELSE b.align,
             offset |-> b.offset - d, byte_order |-> b.byte_order,
             bit_offset |-> b.bit_offset + Bits(d),
             cur_type_size |-> s, cur_type_align |-> s]
    BY <2>3 DEF BLObj
  <2>6. /\ t \in BLObj /\ t.cur_type_size = s /\ t.cur_type_align = s
        /\ t.offset = b.offset - d /\ t.bit_offset = b.bit_offset + 8 * d
        /\ t.max_align = b.max_align /\ t.byte_order = b.byte_order
    BY <2>4, <2>5 DEF BLObj, Bits, Sizes
  <2>7. Settled(t)
    BY <2>2, <2>6 DEF Settled
  <2>8. Generic_position(t) = Generic_position(b)
    BY <2>2, <2>6 DEF Generic_position, Bits, BLObj
  <2> QED BY <2>6, <2>7, <2>8 DEF t
<1> QED BY <1>1, <1>2

\* In the loop: the unit is one of type s, the offset on its boundary.
InUnit(b, s) ==
  b \in BLObj /\ b.cur_type_size = s /\ b.cur_type_align = s /\ b.offset % s = 0

\* One round of the loop stays on the boundaries of the type and does not pass
\* the place GCC's rule prescribes.
LEMMA MoveFacts ==
  ASSUME NEW s \in Sizes, NEW b, InUnit(b, s), NEW bits \in Nat, bits <= 8 * s,
         Generic_mustMove(b, bits)
  PROVE  /\ InUnit(Generic_move(b), s)
         /\ Generic_move(b).max_align = b.max_align
         /\ Generic_move(b).byte_order = b.byte_order
         /\ Gcc!Target(Generic_position(Generic_move(b)), bits, s)
              = Gcc!Target(Generic_position(b), bits, s)
         /\ bits = 0 => Generic_position(Generic_move(b)) = Generic_position(b)
<1> DEFINE bo == IF b.bit_offset > 8 * s THEN b.bit_offset - 8 * s ELSE 0
           m  == Generic_move(b)
<1>1. /\ b.offset + s \in Nat /\ bo \in Nat /\ (b.offset + s) % s = 0
      /\ b.offset \in Nat /\ b.bit_offset \in Nat
  BY DEF InUnit, BLObj, Sizes
<1>2. m = [max_align |-> b.max_align, align |-> b.align, offset |-> b.offset + s,
           byte_order |-> b.byte_order, bit_offset |-> bo,
           cur_type_size |-> s, cur_type_align |-> s]
  <2>1. m = [b EXCEPT !.offset = b.offset + s, !.bit_offset = bo]
    BY DEF Generic_move, InUnit, Bits
  <2> HIDE DEF m, bo
  <2> QED BY <2>1 DEF InUnit, BLObj
<1>3. /\ InUnit(m, s) /\ m.max_align = b.max_align /\ m.byte_order = b.byte_order
      /\ m.offset = b.offset + s /\ m.bit_offset = bo
  BY <1>1, <1>2 DEF InUnit, BLObj, Sizes
<1>4. Gcc!Target(8 * (b.offset + s) + bo, bits, s)
        = Gcc!Target(8 * b.offset + b.bit_offset, bits, s)
  <2>1. b.bit_offset + bits > 8 * s
    BY <1>1 DEF Generic_mustMove, InUnit, Bits, Sizes
  <2>2. b.offset % s = 0
    BY DEF InUnit
  <2> QED BY <1>1, <2>1, <2>2, MoveTarget
<1>5. bits = 0 => 8 * (b.offset + s) + bo = 8 * b.offset + b.bit_offset
  BY <1>1 DEF Generic_mustMove, InUnit, Bits, Sizes
<1> HIDE DEF bo, m
<1>6. Generic_position(m) = 8 * (b.offset + s) + bo
  BY <1>3 DEF Generic_position, Bits
<1>7. Generic_position(b) = 8 * b.offset + b.bit_offset
  BY DEF Generic_position, Bits
<1> QED BY <1>3, <1>4, <1>5, <1>6, <1>7 DEF m

\* Where the loop ends, the field goes where GCC puts it.
LEMMA PlaceFacts ==
  ASSUME NEW s \in Sizes, NEW b, InUnit(b, s), NEW bits \in Nat,
         ~Generic_mustMove(b, bits)
  PROVE  /\ InUnit(Generic_place(b, bits), s)
         /\ Generic_place(b, bits).max_align = b.max_align
         /\ Generic_place(b, bits).byte_order = b.byte_order
         /\ bits > 0 => /\ Gcc!Target(Generic_position(b), bits, s) = Generic_position(b)
                        /\ Generic_position(Generic_place(b, bits)) = Generic_position(b) + bits
         /\ bits = 0 => Generic_position(Generic_place(b, bits))
                          = Gcc!RoundUp(Generic_position(b), 8 * s)
<1>1. /\ b.offset \in Nat /\ b.bit_offset \in Nat /\ b.bit_offset + bits <= 8 * s
      /\ b.offset % s = 0 /\ b.cur_type_size = s
  BY DEF InUnit, BLObj, Sizes, Generic_mustMove, Bits
<1>2. CASE bits > 0
  <2> DEFINE t == Generic_place(b, bits)
  <2>1. t = [max_align |-> b.max_align, align |-> b.align, offset |-> b.offset,
             byte_order |-> b.byte_order, bit_offset |-> b.bit_offset + bits,
             cur_type_size |-> s, cur_type_align |-> s]
    BY <1>2 DEF Generic_place, InUnit, BLObj
  <2>2. /\ InUnit(t, s) /\ t.max_align = b.max_align /\ t.byte_order = b.byte_order
        /\ t.offset = b.offset /\ t.bit_offset = b.bit_offset + bits
    BY <1>1, <2>1 DEF InUnit, BLObj, Sizes
  <2>3. Gcc!Target(8 * b.offset + b.bit_offset, bits, s) = 8 * b.offset + b.bit_offset
    <3>1. b.bit_offset <= 8 * s
      BY <1>1 DEF Sizes
    <3> QED BY <1>1, <3>1, TargetInUnit
  <2> QED BY <1>1, <1>2, <2>2, <2>3 DEF Generic_position, Bits
<1>3. CASE bits = 0 /\ b.bit_offset > 0
  <2> DEFINE t == Generic_place(b, bits)
  <2>1. t = [max_align |-> b.max_align, align |-> b.align, offset |-> b.offset + s,
             byte_order |-> b.byte_order, bit_offset |-> 0,
             cur_type_size |-> s, cur_type_align |-> s]
    <3>1. b.offset + (s - (b.offset % s)) = b.offset + s
      BY <1>1 DEF Sizes
    <3>2. ~(bits > 0) /\ b.bit_offset > 0
      BY <1>3
    <3>3. t = [b EXCEPT !.offset = b.offset + (b.cur_type_size - (b.offset % b.cur_type_size)),
                        !.bit_offset = 0]
      BY <3>2 DEF Generic_place
    <3>4. t = [b EXCEPT !.offset = b.offset + s, !.bit_offset = 0]
      BY <1>1, <3>1, <3>3
    <3> HIDE DEF t
    <3> QED BY <3>4 DEF InUnit, BLObj
  <2>2. /\ InUnit(t, s) /\ t.max_align = b.max_align /\ t.byte_order = b.byte_order
        /\ t.offset = b.offset + s /\ t.bit_offset = 0
    BY <1>1, <2>1 DEF InUnit, BLObj, Sizes
  <2>3. Gcc!RoundUp(8 * b.offset + b.bit_offset, 8 * s) = 8 * (b.offset + s)
    <3>1. b.bit_offset <= 8 * s
      BY <1>1 DEF Sizes
    <3> QED BY <1>1, <1>3, <3>1, RoundUpInUnit
  <2>4. 8 * (b.offset + s) + 0 = 8 * (b.offset + s)
    BY <1>1 DEF Sizes
  <2> QED BY <1>3, <2>2, <2>3, <2>4 DEF Generic_position, Bits
<1>4. CASE bits = 0 /\ b.bit_offset = 0
  <2>1. Generic_place(b, bits) = b
    BY <1>4 DEF Generic_place
  <2>2. Gcc!RoundUp(8 * b.offset, 8 * s) = 8 * b.offset
    <3>1. 0 <= 8 * s
      BY DEF Sizes
    <3> QED BY <1>1, <3>1, RoundUpInUnit
  <2> QED BY <1>1, <1>4, <2>1, <2>2 DEF Generic_position, Bits
<1> QED BY <1>1, <1>2, <1>3, <1>4

\* The declarator stored by a push describes exactly the bits from the
\* engine's position on, in either byte order.
LEMMA DeclFacts ==
  ASSUME NEW b \in BLObj, NEW bits \in Nat
  PROVE  /\ Generic_decl(b, bits) \in Decl
         /\ BitRange(Generic_decl(b, bits), b.byte_order)
              = [lo |-> Generic_position(b), hi |-> Generic_position(b) + bits]
<1> DEFINE u == Generic_usedBytes(b.bit_offset + bits)
           d == Generic_decl(b, bits)
<1>1. u \in Sizes
  BY DEF Generic_usedBytes, Sizes
<1>2. b.offset \in Nat /\ b.bit_offset \in Nat /\ b.byte_order \in {"LE", "BE"}
  BY DEF BLObj, ByteOrders
<1>3. d = [offset |-> b.offset, size |-> u, bits |-> bits,
           pos |-> UnitPos(b.byte_order, u, b.bit_offset, bits)]
  BY DEF Generic_decl
<1> HIDE DEF u, d
<1>4. UnitPos(b.byte_order, u, b.bit_offset, bits)
        = IF b.byte_order = "LE" THEN b.bit_offset ELSE 8 * u - b.bit_offset - bits
  BY DEF UnitPos, Bits
<1>5. UnitPos(b.byte_order, u, b.bit_offset, bits) \in Int
  BY <1>1, <1>2, <1>4 DEF Sizes
<1>6. d \in Decl
  BY <1>1, <1>2, <1>3, <1>5 DEF Decl
<1>7. FirstBit(d, b.byte_order) = Generic_position(b)
  <2>1. CASE b.byte_order = "LE"
    BY <1>2, <1>3, <1>4, <2>1 DEF FirstBit, Generic_position, Bits
  <2>2. CASE b.byte_order = "BE"
    BY <1>1, <1>2, <1>3, <1>4, <2>2 DEF FirstBit, Generic_position, Bits, Sizes
  <2> QED BY <1>2, <2>1, <2>2
<1>8. d.bits = bits
  BY <1>3
<1> QED BY <1>6, <1>7, <1>8 DEF BitRange, d

\* finalize ends the run at the first whole byte behind the last bit.
LEMMA FinalizeFacts ==
  ASSUME NEW b \in BLObj
  PROVE  /\ Generic_finalize(b) \in BLObj
         /\ Bits(Generic_finalize(b).offset) = Gcc!RoundUp(Generic_position(b), 8)
<1> DEFINE n == b.offset + ((b.bit_offset + 7) \div 8)
           t == Generic_finalize(b)
<1>1. n \in Nat /\ b.offset \in Nat /\ b.bit_offset \in Nat
  BY DEF BLObj
<1>2. t = [b EXCEPT !.offset = n]
  <2>1. Bits(1) = 8 /\ Bits(1) - 1 = 7
    BY DEF Bits
  <2> QED BY <2>1 DEF Generic_finalize
<1>3. Gcc!RoundUp(8 * b.offset + b.bit_offset, 8) = 8 * n
  <2>1. PICK o \in Nat, x \in Nat : o = b.offset /\ x = b.bit_offset
    BY <1>1
  <2>2. (8 * o + x) % 8 = x % 8
    OBVIOUS
  <2>3. 8 * ((x + 7) \div 8) = IF x % 8 = 0 THEN x ELSE x + (8 - (x % 8))
    OBVIOUS
  <2>4. PICK q \in Nat : q = (x + 7) \div 8
    OBVIOUS
  <2> QED BY <2>1, <2>2, <2>3, <2>4 DEF Gcc!RoundUp
<1> HIDE DEF n, t
<1>4. t \in BLObj /\ t.offset = n
  BY <1>1, <1>2 DEF BLObj
<1> QED BY <1>3, <1>4 DEF Generic_position, Bits, t

\* The loop and the skip need a unit size that is set, and packing one that
\* is not zero, to stay within the natural numbers.
LEMMA TypedPush ==
  ASSUME NEW b \in BLObj, NEW s \in Sizes, b.max_align # 0
  PROVE  /\ Generic_retype(b, s, s) \in BLObj
         /\ Generic_retype(b, s, s).cur_type_size = s
         /\ Generic_retype(b, s, s).max_align = b.max_align
<1>1. CASE b.cur_type_size = s
  BY <1>1 DEF Generic_retype
<1>2. CASE b.cur_type_size # s
  <2> DEFINE a == Lesser(s, b.max_align)
             d == b.offset % a
             l == IF a > b.align THEN a ELSE b.align
             t == Generic_retype(b, s, s)
  <2>1. a \in Sizes
    BY DEF Lesser, BLObj, Sizes
  <2>2. t = [b EXCEPT !.align = l, !.offset = b.offset - d,
                      !.bit_offset = b.bit_offset + Bits(d),
                      !.cur_type_size = s, !.cur_type_align = a]
    BY <1>2 DEF Generic_retype
  <2> HIDE DEF a
  <2>3. d \in Nat /\ d <= b.offset /\ b.offset \in Nat /\ b.bit_offset \in Nat
    BY <2>1 DEF BLObj, Sizes
  <2>4. l \in Nat
    BY <2>1 DEF BLObj, Sizes
  <2> HIDE DEF d, l, t
  <2>5. b.offset - d \in Nat /\ b.bit_offset + Bits(d) \in Nat
    BY <2>3 DEF Bits
  <2>6. t = [max_align |-> b.max_align, align |-> l, offset |-> b.offset - d,
             byte_order |-> b.byte_order, bit_offset |-> b.bit_offset + Bits(d),
             cur_type_size |-> s, cur_type_align |-> a]
    BY <2>2 DEF BLObj
  <2>7. t \in BLObj /\ t.cur_type_size = s /\ t.max_align = b.max_align
    BY <2>1, <2>4, <2>5, <2>6 DEF BLObj
  <2> QED BY <2>7 DEF t
<1> QED BY <1>1, <1>2

\* One round of the loop, in the middle of Generic_push, keeps the types.
LEMMA TypedMove ==
  ASSUME NEW b \in BLObj
  PROVE  /\ Generic_move(b) \in BLObj
         /\ Generic_move(b).cur_type_size = b.cur_type_size
         /\ Generic_move(b).max_align = b.max_align
<1> DEFINE c == b.cur_type_align
           n == IF b.bit_offset > Bits(c) THEN b.bit_offset - Bits(c) ELSE 0
           t == Generic_move(b)
<1>1. c \in Nat /\ b.offset \in Nat /\ b.bit_offset \in Nat
  BY DEF BLObj, Sizes
<1>2. n \in Nat /\ b.offset + c \in Nat
  BY <1>1 DEF Bits
<1>3. t = [b EXCEPT !.offset = b.offset + c, !.bit_offset = n]
  BY DEF Generic_move
<1> HIDE DEF n, t, c
<1>4. t \in BLObj /\ t.cur_type_size = b.cur_type_size /\ t.max_align = b.max_align
  BY <1>2, <1>3 DEF BLObj
<1> QED BY <1>4 DEF t

\* What Generic_push does behind its loop keeps the types.
LEMMA TypedPlace ==
  ASSUME NEW b \in BLObj, b.cur_type_size # 0, NEW bits \in Nat
  PROVE  /\ Generic_place(b, bits) \in BLObj
         /\ Generic_place(b, bits).max_align = b.max_align
<1> DEFINE t == Generic_place(b, bits)
           n == b.offset + (b.cur_type_size - (b.offset % b.cur_type_size))
<1>1. b.offset \in Nat /\ b.bit_offset \in Nat /\ b.cur_type_size \in Sizes
  BY DEF BLObj
<1>2. n \in Nat /\ b.bit_offset + bits \in Nat
  BY <1>1 DEF Sizes
<1>3. \/ t = [b EXCEPT !.bit_offset = b.bit_offset + bits]
      \/ t = [b EXCEPT !.offset = n, !.bit_offset = 0]
      \/ t = b
  BY DEF Generic_place
<1> HIDE DEF n, t
<1>4. CASE t = [b EXCEPT !.bit_offset = b.bit_offset + bits]
  <2>1. t \in BLObj /\ t.max_align = b.max_align
    BY <1>2, <1>4 DEF BLObj
  <2> QED BY <2>1 DEF t
<1>5. CASE t = [b EXCEPT !.offset = n, !.bit_offset = 0]
  <2>1. t \in BLObj /\ t.max_align = b.max_align
    BY <1>2, <1>5 DEF BLObj
  <2> QED BY <2>1 DEF t
<1> QED BY <1>3, <1>4, <1>5 DEF t

\* What a push needs of the state it starts from.
Ready == /\ pc # "idle" => bl.max_align # 0
         /\ pc = "loop" => bl.cur_type_size = req.size

\* Every step of a run keeps the types, given that the loop runs with the
\* pushed type's size and a packing that has been set.
LEMMA TypedStep == TypeOK /\ Ready /\ [Next]_vars => TypeOK' /\ Ready'
<1> SUFFICES ASSUME TypeOK, Ready, [Next]_vars PROVE TypeOK' /\ Ready'
  OBVIOUS
<1>0. bl \in BLObj /\ req.size \in Sizes /\ req.bits \in Nat
  BY DEF TypeOK
<1>1. ASSUME NEW s \in Starts, NEW p \in Packs, NEW a \in StructAligns,
             NEW o \in ByteOrders, Open(s, p, a, o)
      PROVE  TypeOK' /\ Ready'
  <2>1. bl' = [max_align |-> p, align |-> a, offset |-> s, byte_order |-> o,
               bit_offset |-> 0, cur_type_size |-> 0, cur_type_align |-> 0]
    BY <1>0, <1>1 DEF Open, Generic_reset, BLObj
  <2>2. p \in {1, 2, 4, 8, 16} /\ a \in Nat /\ s \in Nat
    BY GenericAssumption
  <2>3. bl' \in BLObj /\ bl'.max_align = p
    BY <2>1, <2>2 DEF BLObj
  <2>4. decls' = << >> /\ << >> \in Seq(Decl)
    BY <1>1 DEF Open
  <2>5. req' = NoReq /\ pc' = "first" /\ pushes' = 0
    BY <1>1 DEF Open
  <2>6. NoReq \in [bits : Nat, size : Sizes, from : Nat]
    BY DEF NoReq, Sizes
  <2> QED BY <2>2, <2>3, <2>4, <2>5, <2>6 DEF TypeOK, Ready
<1>2. ASSUME NEW r \in Requests, Push(r) PROVE TypeOK' /\ Ready'
  <2>1. r.size \in Sizes /\ r.bits \in Nat
    BY GenericAssumption DEF Sizes
  <2>2. /\ bl' \in BLObj /\ bl'.cur_type_size = r.size /\ bl'.max_align # 0
    BY <1>0, <1>2, <2>1, TypedPush DEF Push, Ready
  <2>3. Generic_position(bl) \in Nat
    BY <1>0 DEF Generic_position, Bits, BLObj
  <2>4. req' = [bits |-> r.bits, size |-> r.size, from |-> Generic_position(bl)]
    BY <1>2 DEF Push
  <2>5. req' \in [bits : Nat, size : Sizes, from : Nat] /\ req'.size = r.size
    BY <2>1, <2>3, <2>4
  <2>6. pushes' \in Nat
    BY <1>2 DEF Push, TypeOK
  <2>7. pc' = "loop" /\ decls' = decls
    BY <1>2 DEF Push
  <2> QED BY <2>2, <2>5, <2>6, <2>7 DEF TypeOK, Ready
<1>3. ASSUME Move PROVE TypeOK' /\ Ready'
  <2>1. bl' = Generic_move(bl) /\ UNCHANGED <<pc, req, decls, pushes>>
    BY <1>3 DEF Move
  <2>2. bl' \in BLObj /\ bl'.cur_type_size = bl.cur_type_size /\ bl'.max_align = bl.max_align
    BY <1>0, <2>1, TypedMove
  <2> QED BY <2>1, <2>2 DEF TypeOK, Ready
<1>4. ASSUME EndPush PROVE TypeOK' /\ Ready'
  <2>1. bl' = Generic_place(bl, req.bits) /\ pc' = "next" /\ UNCHANGED <<req, pushes>>
    BY <1>4 DEF EndPush
  <2>2. pc = "loop" /\ bl.cur_type_size # 0 /\ bl.max_align # 0
    BY <1>0, <1>4 DEF EndPush, Ready, Sizes
  <2>3. bl' \in BLObj /\ bl'.max_align # 0
    BY <1>0, <2>1, <2>2, TypedPlace
  <2>4. Generic_decl(bl, req.bits) \in Decl
    BY <1>0, DeclFacts
  <2>5. decls' \in Seq(Decl)
    BY <1>4, <2>4 DEF EndPush, TypeOK
  <2> QED BY <2>1, <2>3, <2>5 DEF TypeOK, Ready
<1>5. ASSUME Close PROVE TypeOK' /\ Ready'
  <2>1. bl' \in BLObj
    BY <1>0, <1>5, FinalizeFacts DEF Close
  <2> QED BY <1>5, <2>1 DEF Close, TypeOK, Ready
<1>6. ASSUME UNCHANGED vars PROVE TypeOK' /\ Ready'
  BY <1>6 DEF vars, TypeOK, Ready
<1> QED BY <1>1, <1>2, <1>3, <1>4, <1>5, <1>6 DEF Next

\* Generic_push and Generic_finalize never compute a negative offset or bit
\* position, nor a unit of another size than 1, 2, 4 or 8, for any fields,
\* starts and packings.
THEOREM TypeCorrect == Spec => []TypeOK
<1>1. Init => TypeOK /\ Ready
  <2> SUFFICES ASSUME Init PROVE TypeOK /\ Ready
    OBVIOUS
  <2>1. bl \in BLObj
    BY DEF Init, Generic_init, BLObj, ByteOrders
  <2>2. decls \in Seq(Decl)
    BY DEF Init
  <2>3. req \in [bits : Nat, size : Sizes, from : Nat]
    BY DEF Init, NoReq, Sizes
  <2>4. pushes \in Nat /\ pc = "idle"
    BY DEF Init
  <2> QED BY <2>1, <2>2, <2>3, <2>4 DEF TypeOK, Ready
<1> QED BY <1>1, TypedStep, PTL DEF Spec

\* No declared type is larger than the alignment in force.
Unpacked == \A p \in Packs, r \in Requests : r.size <= p

\* The inductive invariant of the refinement.  In the loop the abstract
\* position is still the one the push came from, and the engine has not
\* passed the place GCC's rule gives the field.
Agrees ==
  /\ TypeOK
  /\ pc # "idle" => bl.max_align \in Packs
  /\ pc \in {"first", "next"} => Settled(bl)
  /\ pc = "loop" =>
       /\ \E r \in Requests : r.bits = req.bits /\ r.size = req.size
       /\ InUnit(bl, req.size)
       /\ Gcc!Target(Generic_position(bl), req.bits, req.size)
            = Gcc!Target(req.from, req.bits, req.size)
       /\ req.bits = 0 => Generic_position(bl) = req.from

\* A unit on its boundary is a settled state of the engine.
LEMMA InUnitSettled ==
  ASSUME NEW s \in Sizes, NEW b, InUnit(b, s) PROVE Settled(b)
  BY DEF InUnit, Settled

\* One more declarator is one more field.
LEMMA FieldsAppend ==
  ASSUME NEW q \in Seq(Decl), NEW d \in Decl, NEW o
  PROVE  [i \in 1 .. Len(Append(q, d)) |-> BitRange(Append(q, d)[i], o)]
           = Append([i \in 1 .. Len(q) |-> BitRange(q[i], o)], BitRange(d, o))
<1> DEFINE R(e) == BitRange(e, o)
<1> HIDE DEF R
<1>1. [i \in 1 .. Len(Append(q, d)) |-> R(Append(q, d)[i])]
        = Append([i \in 1 .. Len(q) |-> R(q[i])], R(d))
  OBVIOUS
<1> QED BY <1>1 DEF R

\* Every step keeps the engine where GCC's rule has come to.
LEMMA AgreesStep ==
  ASSUME Unpacked, Agrees, [Next]_vars
  PROVE  Agrees' /\ (Gcc!GccNext \/ UNCHANGED Gcc!vars)
<1>0. bl \in BLObj /\ req.size \in Sizes /\ req.bits \in Nat /\ decls \in Seq(Decl)
  BY DEF Agrees, TypeOK
<1>T. TypeOK'
  <2>1. Ready
    BY <1>0, GenericAssumption DEF Agrees, Ready, InUnit
  <2> QED BY <2>1, TypedStep DEF Agrees
<1>1. ASSUME NEW s \in Starts, NEW p \in Packs, NEW a \in StructAligns,
             NEW o \in ByteOrders, Open(s, p, a, o)
      PROVE  Agrees' /\ Gcc!Open(s)
  <2>1. /\ bl'.max_align = p /\ bl'.offset = s /\ bl'.bit_offset = 0
        /\ bl'.cur_type_size = 0 /\ bl'.cur_type_align = 0
    BY <1>0, <1>1 DEF Open, Generic_reset, BLObj
  <2>2. Agrees'
    BY <1>T, <1>1, <2>1 DEF Open, Agrees, Settled
  <2>3. Generic_position(bl)' = 8 * s
    <3>1. s \in Nat
      BY GenericAssumption
    <3> QED BY <2>1, <3>1 DEF Generic_position, Bits
  <2>4. Frontier' = 8 * s
    BY <1>1, <2>3 DEF Open, Frontier
  <2>5. Fields' = << >>
    BY <1>1 DEF Open, Fields
  <2>6. pc = "idle" /\ pc' # "idle"
    BY <1>1 DEF Open
  <2> QED BY <2>2, <2>4, <2>5, <2>6 DEF Gcc!Open
<1>2. ASSUME NEW r \in Requests, Push(r)
      PROVE  Agrees' /\ UNCHANGED Gcc!vars
  <2>1. r.size \in Sizes /\ r.bits \in Nat /\ r.size <= bl.max_align
    <3>1. pc # "idle"
      BY <1>2 DEF Push
    <3> QED BY <3>1, GenericAssumption DEF Sizes, Agrees, Unpacked
  <2>2. Settled(bl)
    BY <1>2 DEF Push, Agrees
  <2>3. bl' = Generic_retype(bl, r.size, r.size)
    BY <1>2 DEF Push
  <2>4. /\ bl' \in BLObj /\ bl'.cur_type_size = r.size /\ Settled(bl')
        /\ bl'.max_align = bl.max_align /\ bl'.byte_order = bl.byte_order
        /\ Generic_position(bl') = Generic_position(bl)
    BY <1>0, <2>1, <2>2, <2>3, RetypeFacts
  <2>5. /\ pc' = "loop" /\ decls' = decls
        /\ req'.bits = r.bits /\ req'.size = r.size /\ req'.from = Generic_position(bl)
    BY <1>2 DEF Push
  <2>6. InUnit(bl', r.size)
    BY <2>1, <2>4 DEF InUnit, Settled, Sizes
  <2>7. Agrees'
    <3>1. pc # "idle"
      BY <1>2 DEF Push
    <3>2. bl'.max_align \in Packs
      BY <2>4, <3>1 DEF Agrees
    <3>3. InUnit(bl, req.size)'
      BY <2>5, <2>6
    <3> QED BY <1>T, <2>4, <2>5, <3>2, <3>3 DEF Agrees
  <2>8. Frontier' = Frontier /\ Fields' = Fields
    <3>1. Frontier = Generic_position(bl)
      BY <1>2 DEF Push, Frontier
    <3>2. Frontier' = Generic_position(bl)
      BY <2>5 DEF Frontier
    <3> QED BY <2>4, <2>5, <3>1, <3>2 DEF Fields
  <2>9. pc # "idle" /\ pc' # "idle"
    BY <1>2 DEF Push
  <2> QED BY <2>7, <2>8, <2>9 DEF Gcc!vars
<1>3. ASSUME Move PROVE Agrees' /\ UNCHANGED Gcc!vars
  <2>1. /\ pc = "loop" /\ bl' = Generic_move(bl) /\ Generic_mustMove(bl, req.bits)
        /\ UNCHANGED <<pc, req, decls, pushes>>
    BY <1>3 DEF Move
  <2>2. InUnit(bl, req.size) /\ req.bits <= 8 * req.size
    BY <2>1, GenericAssumption DEF Agrees
  <2>3. /\ InUnit(bl', req.size)
        /\ bl'.max_align = bl.max_align /\ bl'.byte_order = bl.byte_order
        /\ Gcc!Target(Generic_position(bl'), req.bits, req.size)
             = Gcc!Target(Generic_position(bl), req.bits, req.size)
        /\ req.bits = 0 => Generic_position(bl') = Generic_position(bl)
    BY <1>0, <2>1, <2>2, MoveFacts
  <2>4. Agrees'
    BY <1>T, <2>1, <2>3 DEF Agrees
  <2>5. Frontier' = Frontier /\ Fields' = Fields
    BY <2>1, <2>3 DEF Frontier, Fields
  <2> QED BY <2>1, <2>4, <2>5 DEF Gcc!vars
<1>4. ASSUME EndPush PROVE Agrees' /\ Gcc!GccNext
  <2>1. /\ pc = "loop" /\ pc' = "next" /\ bl' = Generic_place(bl, req.bits)
        /\ ~Generic_mustMove(bl, req.bits) /\ req' = req
    BY <1>4 DEF EndPush
  <2>2. InUnit(bl, req.size)
    BY <2>1 DEF Agrees
  <2>3. PICK r \in Requests : r.bits = req.bits /\ r.size = req.size
    BY <2>1 DEF Agrees
  <2>4. /\ InUnit(bl', req.size)
        /\ bl'.max_align = bl.max_align /\ bl'.byte_order = bl.byte_order
        /\ req.bits > 0 =>
             /\ Gcc!Target(Generic_position(bl), req.bits, req.size) = Generic_position(bl)
             /\ Generic_position(bl') = Generic_position(bl) + req.bits
        /\ req.bits = 0 => Generic_position(bl') = Gcc!RoundUp(Generic_position(bl), 8 * req.size)
    BY <1>0, <2>1, <2>2, PlaceFacts
  <2>5. Agrees'
    <3>1. Settled(bl')
      BY <1>0, <2>4, InUnitSettled
    <3> QED BY <1>T, <2>1, <2>4, <3>1 DEF Agrees
  <2>6. Frontier = req.from /\ Frontier' = Generic_position(bl')
    BY <2>1 DEF Frontier
  <2>7. CASE req.bits > 0
    <3> DEFINE d == Generic_decl(bl, req.bits)
               t == Gcc!Target(req.from, req.bits, req.size)
    <3>1. t = Generic_position(bl)
      BY <2>1, <2>4, <2>7 DEF Agrees
    <3>2. decls' = Append(decls, d)
      BY <1>4, <2>7 DEF EndPush
    <3>3. d \in Decl
      BY <1>0, DeclFacts
    <3>4. BitRange(d, bl.byte_order) = [lo |-> t, hi |-> t + req.bits]
      BY <1>0, <3>1, DeclFacts
    <3> HIDE DEF d, t
    <3>5. Fields' = Append(Fields, [lo |-> t, hi |-> t + req.bits])
      BY <1>0, <2>4, <3>2, <3>3, <3>4, FieldsAppend DEF Fields
    <3>6. Frontier' = t + req.bits
      BY <2>4, <2>6, <2>7, <3>1
    <3>7. Gcc!GccPlace(r)
      BY <2>1, <2>3, <2>6, <2>7, <3>5, <3>6 DEF Gcc!GccPlace, t
    <3> QED BY <2>5, <3>7 DEF Gcc!GccNext
  <2>8. CASE req.bits = 0
    <3>1. decls' = decls
      BY <1>4, <2>8 DEF EndPush
    <3>2. Frontier' = Gcc!RoundUp(Frontier, 8 * req.size) /\ Fields' = Fields
      BY <2>1, <2>4, <2>6, <2>8, <3>1 DEF Agrees, Fields
    <3>3. Gcc!GccSeparate(r)
      BY <2>1, <2>3, <2>8, <3>2 DEF Gcc!GccSeparate
    <3> QED BY <2>5, <3>3 DEF Gcc!GccNext
  <2> QED BY <1>0, <2>7, <2>8
<1>5. ASSUME Close PROVE Agrees' /\ Gcc!GccClose
  <2>1. pc = "next" /\ pc' = "idle" /\ bl' = Generic_finalize(bl) /\ UNCHANGED <<req, decls, pushes>>
    BY <1>5 DEF Close
  <2>2. Agrees'
    BY <1>T, <2>1 DEF Agrees
  <2>3. Frontier = Generic_position(bl) /\ Frontier' = Bits(bl'.offset)
    BY <2>1 DEF Frontier
  <2>4. Frontier' = Gcc!RoundUp(Frontier, 8)
    BY <1>0, <2>1, <2>3, FinalizeFacts
  <2>5. bl'.byte_order = bl.byte_order
    BY <1>0, <2>1 DEF Generic_finalize, BLObj
  <2>6. Fields' = Fields
    BY <2>1, <2>5 DEF Fields
  <2> QED BY <2>1, <2>2, <2>4, <2>6 DEF Gcc!GccClose
<1>6. ASSUME UNCHANGED vars PROVE Agrees' /\ UNCHANGED Gcc!vars
  <2>1. UNCHANGED <<bl, pc, req, decls, pushes>>
    BY <1>6 DEF vars
  <2>2. Agrees'
    BY <1>T, <2>1 DEF Agrees
  <2>3. Frontier' = Frontier /\ Fields' = Fields
    BY <2>1 DEF Frontier, Fields
  <2> QED BY <2>1, <2>2, <2>3 DEF Gcc!vars
<1> QED BY <1>1, <1>2, <1>3, <1>4, <1>5, <1>6 DEF Next, Gcc!GccNext

\* Without packing, Generic_push puts every bitfield where GCC's rule puts it,
\* and Generic_finalize ends a run where the rule ends it, for all widths,
\* sizes, starting offsets and lengths of runs, whatever earlier runs left in
\* the engine.
THEOREM GenericImplementsGcc == ASSUME Unpacked PROVE Spec => ImplementsGcc
<1>1. Init => Agrees /\ Gcc!Init
  <2> SUFFICES ASSUME Init PROVE Agrees /\ Gcc!Init
    OBVIOUS
  <2>1. TypeOK
    <3>1. bl \in BLObj /\ decls \in Seq(Decl)
      BY DEF Init, Generic_init, BLObj, ByteOrders
    <3>2. /\ req \in [bits : Nat, size : Sizes, from : Nat]
          /\ pushes \in Nat
      BY DEF Init, NoReq, Sizes
    <3> QED BY <3>1, <3>2 DEF Init, TypeOK
  <2>2. pc = "idle" /\ decls = << >> /\ bl.offset = 0
    BY DEF Init, Generic_init
  <2>3. Frontier = 0 /\ Fields = << >>
    BY <2>2 DEF Frontier, Fields, Bits
  <2> QED BY <2>1, <2>2, <2>3 DEF Agrees, Gcc!Init
<1>2. Agrees /\ [Next]_vars => Agrees' /\ [Gcc!GccNext]_Gcc!vars
  BY AgreesStep
<1> QED BY <1>1, <1>2, PTL DEF Spec, ImplementsGcc, Gcc!GccSpec

-----------------------------------------------------------------------------
(* The allocation discipline, and GCC's rule, for any widths.              *)

CONSTANT Widths
VARIABLES frontier, fields, mode

Rule == INSTANCE GccAlloc

\* The ranges of bits.
Ranges == [lo : Int, hi : Int]

AllocTyped == /\ frontier \in Int
              /\ fields \in Seq(Ranges)
              /\ mode \in {"idle", "run"}

\* The state stays typed: positions are integers.
LEMMA AllocTypedStep == Rule!ConstantsTyped /\ AllocTyped /\ [Rule!Next]_Rule!vars => AllocTyped'
<1> SUFFICES ASSUME Rule!ConstantsTyped, AllocTyped, [Rule!Next]_Rule!vars PROVE AllocTyped'
  OBVIOUS
<1> USE DEF Rule!ConstantsTyped, AllocTyped
<1>1. ASSUME NEW s \in Starts, Rule!Open(s) PROVE AllocTyped'
  BY <1>1 DEF Rule!Open
<1>2. ASSUME NEW w \in Widths, Rule!Place(w) PROVE AllocTyped'
  <2>1. w \in Nat
    OBVIOUS
  <2>2. frontier' \in Int /\ mode' \in {"idle", "run"}
    BY <1>2 DEF Rule!Place
  <2>3. PICK b \in Int : b = frontier'
    BY <2>2
  <2>4. [lo |-> b - w, hi |-> b] \in Ranges
    BY <2>1 DEF Ranges
  <2>5. fields' = Append(fields, [lo |-> b - w, hi |-> b])
    BY <1>2, <2>3 DEF Rule!Place
  <2> QED BY <2>2, <2>4, <2>5
<1>3. CASE Rule!Separate
  BY <1>3 DEF Rule!Separate
<1>4. CASE Rule!Close
  BY <1>4 DEF Rule!Close
<1>5. CASE Rule!Abandon
  <2>1. fields' \in Seq(Ranges)
    BY <1>5 DEF Rule!Abandon
  <2>2. frontier' \in Int /\ mode' \in {"idle", "run"}
    BY <1>5 DEF Rule!Abandon
  <2> QED BY <2>1, <2>2
<1>6. CASE UNCHANGED Rule!vars
  BY <1>6 DEF Rule!vars
<1> QED BY <1>1, <1>2, <1>3, <1>4, <1>5, <1>6 DEF Rule!Next

\* In every behaviour of the allocator positions are integers.
THEOREM AllocTypeCorrect == ASSUME Rule!ConstantsTyped PROVE Rule!Spec => []AllocTyped
<1>1. Rule!Init => AllocTyped
  BY DEF Rule!Init, AllocTyped
<1> QED BY <1>1, AllocTypedStep, PTL DEF Rule!Spec

\* What the types say of a stored range.
LEMMA FieldTypes ==
  ASSUME AllocTyped
  PROVE  /\ Len(fields) \in Nat
         /\ \A i \in 1 .. Len(fields) : fields[i].lo \in Int /\ fields[i].hi \in Int
<1>1. Len(fields) \in Nat /\ \A i \in 1 .. Len(fields) : fields[i] \in Ranges
  BY DEF AllocTyped
<1> QED BY <1>1 DEF Ranges

\* Moving the frontier up leaves the fields apart.
LEMMA Advance ==
  ASSUME AllocTyped, Rule!NoOverlap, fields' = fields, frontier' \in Int, frontier <= frontier'
  PROVE  Rule!NoOverlap'
<1>1. ASSUME NEW i \in 1 .. Len(fields) PROVE fields[i].hi <= frontier'
  <2>1. fields[i].hi <= frontier
    BY DEF Rule!NoOverlap
  <2> QED BY <2>1, FieldTypes DEF AllocTyped
<1> QED BY <1>1 DEF Rule!NoOverlap

\* A step of the allocator keeps the fields apart and behind the frontier.
LEMMA NoOverlapStep ==
  Rule!ConstantsTyped /\ AllocTyped /\ Rule!NoOverlap /\ [Rule!Next]_Rule!vars => Rule!NoOverlap'
<1> SUFFICES ASSUME Rule!ConstantsTyped, AllocTyped, Rule!NoOverlap, [Rule!Next]_Rule!vars
             PROVE  Rule!NoOverlap'
  OBVIOUS
<1> USE DEF Rule!ConstantsTyped, AllocTyped
<1>1. ASSUME NEW s \in Starts, Rule!Open(s) PROVE Rule!NoOverlap'
  BY <1>1 DEF Rule!Open, Rule!NoOverlap
<1>2. ASSUME NEW w \in Widths, Rule!Place(w) PROVE Rule!NoOverlap'
  <2>1. PICK b \in Int : b = frontier'
    BY <1>2 DEF Rule!Place
  <2> DEFINE n == Len(fields)
             f == [lo |-> b - w, hi |-> b]
  <2>2. f \in Ranges /\ f.lo < b /\ frontier <= f.lo /\ f.hi = b /\ frontier <= b
    <3>1. w \in Nat /\ w > 0 /\ b - w >= frontier
      BY <1>2, <2>1 DEF Rule!Place
    <3> QED BY <3>1 DEF Ranges
  <2>3. fields' = Append(fields, f)
    BY <1>2, <2>1 DEF Rule!Place
  <2> HIDE DEF f
  <2>4. /\ n \in Nat
        /\ Len(fields') = n + 1
        /\ fields'[n + 1] = f
        /\ \A i \in 1 .. n : fields'[i] = fields[i]
    BY <2>2, <2>3
  <2>5. \A i \in 1 .. n : /\ fields[i].lo \in Int /\ fields[i].hi \in Int
                          /\ fields[i].lo < fields[i].hi
                          /\ fields[i].hi <= frontier
    BY FieldTypes DEF Rule!NoOverlap
  <2>6. \A i, j \in 1 .. n : i < j => fields[i].hi <= fields[j].lo
    BY DEF Rule!NoOverlap
  <2> HIDE DEF n
  <2>7. ASSUME NEW i \in 1 .. n + 1
        PROVE  fields'[i].lo < fields'[i].hi /\ fields'[i].hi <= frontier'
    <3>1. CASE i \in 1 .. n
      BY <3>1, <2>1, <2>2, <2>4, <2>5
    <3>2. CASE i = n + 1
      <4>1. fields'[i] = f
        BY <3>2, <2>4
      <4> QED BY <4>1, <2>1, <2>2
    <3> QED BY <3>1, <3>2, <2>4
  <2>8. ASSUME NEW i \in 1 .. n + 1, NEW j \in 1 .. n + 1, i < j
        PROVE  fields'[i].hi <= fields'[j].lo
    <3>1. CASE j \in 1 .. n
      <4>1. i \in 1 .. n
        BY <3>1, <2>4, <2>8
      <4> QED BY <4>1, <3>1, <2>4, <2>6, <2>8
    <3>2. CASE j = n + 1
      <4>1. i \in 1 .. n
        BY <3>2, <2>4, <2>8
      <4>2. fields'[i].hi = fields[i].hi /\ fields'[j].lo = f.lo /\ f.lo \in Int
        BY <4>1, <3>2, <2>2, <2>4 DEF Ranges
      <4> QED BY <4>1, <4>2, <2>2, <2>5
    <3> QED BY <3>1, <3>2, <2>4
  <2> QED BY <2>4, <2>7, <2>8 DEF Rule!NoOverlap
<1>3. CASE Rule!Separate
  BY <1>3, Advance DEF Rule!Separate
<1>4. CASE Rule!Close
  BY <1>4, Advance DEF Rule!Close
<1>5. CASE Rule!Abandon
  BY <1>5 DEF Rule!Abandon, Rule!NoOverlap
<1>6. CASE UNCHANGED Rule!vars
  BY <1>6, Advance DEF Rule!vars
<1> QED BY <1>1, <1>2, <1>3, <1>4, <1>5, <1>6 DEF Rule!Next

\* An engine that hands out bits by the rules of BitAlloc, as bl_push's callers
\* rely on, never lets two bitfields of a run overlap.
THEOREM AllocSafe == ASSUME Rule!ConstantsTyped PROVE Rule!Spec => []Rule!NoOverlap
<1>1. Rule!Init => Rule!NoOverlap
  BY DEF Rule!Init, Rule!NoOverlap
<1> QED BY <1>1, NoOverlapStep, AllocTypeCorrect, PTL DEF Rule!Spec

-----------------------------------------------------------------------------
(* GCC's rule. *)

\* The reference position moves forward only, and RoundUp reaches a boundary.
LEMMA RoundUpFacts ==
  ASSUME NEW x \in Nat, NEW m \in {8, 16, 32, 64}
  PROVE  /\ Rule!RoundUp(x, m) \in Nat
         /\ x <= Rule!RoundUp(x, m)
         /\ Rule!RoundUp(x, m) < x + m
         /\ Rule!RoundUp(x, m) % m = 0
<1>1. CASE m = 8
  BY <1>1 DEF Rule!RoundUp
<1>2. CASE m = 16
  BY <1>2 DEF Rule!RoundUp
<1>3. CASE m = 32
  BY <1>3 DEF Rule!RoundUp
<1>4. CASE m = 64
  BY <1>4 DEF Rule!RoundUp
<1> QED BY <1>1, <1>2, <1>3, <1>4

\* A field never goes behind the position it is asked for at.
LEMMA TargetFacts ==
  ASSUME NEW x \in Nat, NEW b \in Nat, NEW s \in {1, 2, 4, 8}
  PROVE  Rule!Target(x, b, s) \in Nat /\ x <= Rule!Target(x, b, s)
<1>1. 8 * s \in {8, 16, 32, 64}
  OBVIOUS
<1>2. Rule!RoundUp(x, 8 * s) \in Nat /\ x <= Rule!RoundUp(x, 8 * s)
  BY <1>1, RoundUpFacts, ZenonT(60)
<1> QED BY <1>2 DEF Rule!Target

\* The position is a natural number.
GccTyped == frontier \in Nat

\* Positions are natural numbers throughout.
LEMMA GccTypedCorrect == ASSUME Rule!RequestsTyped PROVE Rule!GccSpec => []GccTyped
<1> USE DEF Rule!RequestsTyped, Rule!ConstantsTyped, GccTyped
<1>1. Rule!Init => GccTyped
  BY DEF Rule!Init
<1>2. GccTyped /\ [Rule!GccNext]_Rule!vars => GccTyped'
  <2> SUFFICES ASSUME GccTyped, [Rule!GccNext]_Rule!vars PROVE GccTyped'
    OBVIOUS
  <2>1. ASSUME NEW s \in Starts, Rule!Open(s) PROVE GccTyped'
    BY <2>1 DEF Rule!Open
  <2>2. ASSUME NEW r \in Requests, Rule!GccPlace(r) PROVE GccTyped'
    <3>1. r.bits \in Nat /\ r.size \in {1, 2, 4, 8}
      OBVIOUS
    <3>2. Rule!Target(frontier, r.bits, r.size) \in Nat
      BY <3>1, TargetFacts
    <3> QED BY <2>2, <3>1, <3>2 DEF Rule!GccPlace
  <2>3. ASSUME NEW r \in Requests, Rule!GccSeparate(r) PROVE GccTyped'
    <3>1. 8 * r.size \in {8, 16, 32, 64}
      OBVIOUS
    <3>2. Rule!RoundUp(frontier, 8 * r.size) \in Nat
      BY <3>1, RoundUpFacts, ZenonT(60)
    <3> QED BY <2>3, <3>2 DEF Rule!GccSeparate
  <2>4. CASE Rule!GccClose
    BY <2>4, RoundUpFacts DEF Rule!GccClose
  <2>5. CASE UNCHANGED Rule!vars
    BY <2>5 DEF Rule!vars
  <2> QED BY <2>1, <2>2, <2>3, <2>4, <2>5 DEF Rule!GccNext
<1> QED BY <1>1, <1>2, PTL DEF Rule!GccSpec

\* Every step of the rule is a step of the allocation discipline.
THEOREM GccIsAlloc == ASSUME Rule!RequestsTyped PROVE Rule!GccSpec => Rule!Spec
<1>1. GccTyped /\ [Rule!GccNext]_Rule!vars => [Rule!Next]_Rule!vars
  <2> SUFFICES ASSUME GccTyped, [Rule!GccNext]_Rule!vars PROVE [Rule!Next]_Rule!vars
    OBVIOUS
  <2> USE DEF Rule!RequestsTyped, Rule!ConstantsTyped, GccTyped
  <2>1. ASSUME NEW s \in Starts, Rule!Open(s) PROVE Rule!Next
    BY <2>1 DEF Rule!Next
  <2>2. ASSUME NEW r \in Requests, Rule!GccPlace(r) PROVE Rule!Next
    <3> DEFINE t == Rule!Target(frontier, r.bits, r.size)
    <3>1. r.bits \in Widths /\ r.bits \in Nat /\ r.size \in {1, 2, 4, 8}
      OBVIOUS
    <3>2. t \in Nat /\ frontier <= t
      BY <3>1, TargetFacts
    <3>3. frontier' = t + r.bits /\ fields' = Append(fields, [lo |-> t, hi |-> frontier'])
      BY <2>2 DEF Rule!GccPlace
    <3> HIDE DEF t
    <3>4. frontier' - r.bits = t
      BY <3>1, <3>2, <3>3
    <3>5. Rule!Place(r.bits)
      BY <2>2, <3>1, <3>2, <3>3, <3>4 DEF Rule!GccPlace, Rule!Place
    <3> QED BY <3>1, <3>5 DEF Rule!Next
  <2>3. ASSUME NEW r \in Requests, Rule!GccSeparate(r) PROVE Rule!Separate
    <3>1. 8 * r.size \in {8, 16, 32, 64}
      OBVIOUS
    <3>2. Rule!RoundUp(frontier, 8 * r.size) \in Nat /\ frontier <= Rule!RoundUp(frontier, 8 * r.size)
      BY <3>1, RoundUpFacts, ZenonT(60)
    <3> QED BY <2>3, <3>2 DEF Rule!GccSeparate, Rule!Separate
  <2>4. ASSUME Rule!GccClose PROVE Rule!Close
    BY <2>4, RoundUpFacts DEF Rule!GccClose, Rule!Close
  <2> QED BY <2>1, <2>2, <2>3, <2>4 DEF Rule!GccNext, Rule!Next
<1> QED BY <1>1, GccTypedCorrect, PTL DEF Rule!GccSpec, Rule!Spec

\* Hence fields laid out by GCC's rule never share a bit: the rule the Generic
\* engine is said to implement is a sound one to follow.
THEOREM GccSafe == ASSUME Rule!RequestsTyped PROVE Rule!GccSpec => []Rule!NoOverlap
<1>1. Rule!ConstantsTyped
  BY DEF Rule!RequestsTyped
<1> QED BY <1>1, AllocSafe, GccIsAlloc, PTL

=============================================================================
