-------------------------- MODULE EngineRun_proofs --------------------------
(***************************************************************************)
(* All three engines hand out bits in order and never twice, in units that *)
(* nest, for runs of any length, any widths and any packing.               *)
(***************************************************************************)
EXTENDS EngineRun, TLAPS

Sizes == {1, 2, 4, 8}
Aligns == {1, 2, 4, 8, 16}

\* The object of the Generic and of the Microsoft engine, and that of Simple.
TypeObj == [max_align : Aligns \cup {0}, align : Nat, offset : Nat,
            byte_order : ByteOrders, bit_offset : Nat,
            cur_type_size : Sizes \cup {0}, cur_type_align : Sizes \cup {0}]

BlockObj == [max_align : Aligns \cup {0}, align : Nat, offset : Nat,
             byte_order : ByteOrders, block_size : Sizes, pos : Nat,
             bits_left : Int]

Decl == [offset : Nat, size : Sizes, bits : Nat, pos : Int]

Request == [bits : Nat, size : Sizes]

-----------------------------------------------------------------------------
(* Arithmetic.                                                             *)

\* The alignment in force is one of the sizes and divides that of the type.
LEMMA LesserFacts ==
  ASSUME NEW s \in Sizes, NEW m \in Aligns
  PROVE  Lesser(s, m) \in Sizes /\ s % Lesser(s, m) = 0 /\ Lesser(s, m) <= s
<1>1. CASE s = 1
  BY <1>1 DEF Lesser, Sizes, Aligns
<1>2. CASE s = 2
  BY <1>2 DEF Lesser, Sizes, Aligns
<1>3. CASE s = 4
  BY <1>3 DEF Lesser, Sizes, Aligns
<1>4. CASE s = 8
  BY <1>4 DEF Lesser, Sizes, Aligns
<1> QED BY <1>1, <1>2, <1>3, <1>4 DEF Sizes

\* Going down, up or on to a boundary.
LEMMA BoundaryFacts ==
  ASSUME NEW al \in Sizes, NEW o \in Nat
  PROVE  /\ o % al \in Nat /\ o % al < al /\ o % al <= o
         /\ (o - (o % al)) % al = 0
         /\ (o + (al - (o % al))) % al = 0
<1>1. CASE al = 1
  BY <1>1
<1>2. CASE al = 2
  BY <1>2
<1>3. CASE al = 4
  BY <1>3
<1>4. CASE al = 8
  BY <1>4
<1> QED BY <1>1, <1>2, <1>3, <1>4 DEF Sizes

\* A type's size brings an offset from one boundary to another.
LEMMA StepFacts ==
  ASSUME NEW s \in Sizes, NEW al \in Sizes, s % al = 0, NEW o \in Nat
  PROVE  /\ o % al = 0 => (o + s) % al = 0
         /\ o % s = 0 => o % al = 0
<1>1. CASE al = 1
  BY <1>1 DEF Sizes
<1>2. CASE al = 2
  <2>1. s \in {2, 4, 8}
    BY <1>2 DEF Sizes
  <2> QED BY <1>2, <2>1
<1>3. CASE al = 4
  <2>1. s \in {4, 8}
    BY <1>3 DEF Sizes
  <2> QED BY <1>3, <2>1
<1>4. CASE al = 8
  <2>1. s = 8
    BY <1>4 DEF Sizes
  <2> QED BY <1>4, <2>1
<1> QED BY <1>1, <1>2, <1>3, <1>4 DEF Sizes

\* An offset some moves on is on the same boundary.
LEMMA MovesFacts ==
  ASSUME NEW al \in Sizes, NEW o \in Nat, o % al = 0, NEW n \in Nat
  PROVE  (o + n * al) % al = 0 /\ n * al \in Nat
<1>1. CASE al = 1
  BY <1>1
<1>2. CASE al = 2
  BY <1>2
<1>3. CASE al = 4
  BY <1>3
<1>4. CASE al = 8
  BY <1>4
<1> QED BY <1>1, <1>2, <1>3, <1>4 DEF Sizes

-----------------------------------------------------------------------------
(* The Microsoft engine within a run.                                      *)

\* The current unit lies on a boundary of its alignment, which the struct has.
MsGood(b) ==
  /\ b \in TypeObj
  /\ b.max_align \in Aligns
  /\ b.bit_offset <= 8 * b.cur_type_size
  /\ b.cur_type_size # 0 =>
       LET al == Lesser(b.cur_type_size, b.max_align)
       IN  b.cur_type_align = al /\ b.offset % al = 0 /\ b.align >= al

\* The first byte behind everything in use.
MsReach(b) == IF b.bit_offset > 0 THEN b.offset + b.cur_type_size ELSE b.offset

\* What a step of the engine leaves as it is, and where it may go: it stays, or
\* it moves to an unused place behind everything in use.
MsAhead(b, t) ==
  /\ t.max_align = b.max_align /\ t.byte_order = b.byte_order /\ t.align >= b.align
  /\ Microsoft_position(t) >= Microsoft_position(b)
  /\ t = b \/ (t.bit_offset = 0 /\ t.offset >= MsReach(b))

\* Leaving the current unit ends behind it, on a boundary again.
LEMMA MsNextUnit ==
  ASSUME NEW b, MsGood(b)
  PROVE  LET t == Microsoft_nextUnit(b) IN
         /\ MsGood(t) /\ MsAhead(b, t) /\ t.bit_offset = 0
         /\ t.cur_type_size = b.cur_type_size /\ t.align = b.align
         /\ t.offset = MsReach(b)
<1>1. b \in TypeObj /\ b.offset \in Nat /\ b.bit_offset \in Nat /\ b.cur_type_size \in Nat /\ b.align \in Nat
  BY DEF MsGood, TypeObj, Sizes
<1>2. CASE b.bit_offset = 0
  <2>1. Microsoft_nextUnit(b) = b
    BY <1>2 DEF Microsoft_nextUnit
  <2> QED BY <1>1, <1>2, <2>1 DEF MsAhead, MsReach, Microsoft_position, Bits
<1>3. CASE b.bit_offset > 0
  <2> DEFINE t == Microsoft_nextUnit(b)
             s == b.cur_type_size
             al == Lesser(s, b.max_align)
  <2>1. s \in Sizes /\ b.max_align \in Aligns
    BY <1>3 DEF MsGood, TypeObj, Sizes
  <2>2. al \in Sizes /\ s % al = 0 /\ b.offset % al = 0 /\ b.cur_type_align = al /\ b.align >= al
    BY <2>1, LesserFacts DEF MsGood, Sizes
  <2>3. (b.offset + s) % al = 0
    BY <1>1, <2>1, <2>2, StepFacts
  <2>4. t = [b EXCEPT !.offset = b.offset + s, !.bit_offset = 0]
    BY <1>3 DEF Microsoft_nextUnit
  <2>5. /\ t \in TypeObj /\ t.offset = b.offset + s /\ t.bit_offset = 0
        /\ t.cur_type_size = s /\ t.cur_type_align = al /\ t.max_align = b.max_align
        /\ t.align = b.align /\ t.byte_order = b.byte_order
    <3> HIDE DEF t, al, s
    <3>1. t = [max_align |-> b.max_align, align |-> b.align, offset |-> b.offset + s,
               byte_order |-> b.byte_order, bit_offset |-> 0,
               cur_type_size |-> b.cur_type_size, cur_type_align |-> b.cur_type_align]
      BY <1>1, <2>4 DEF TypeObj
    <3>2. b.offset + s \in Nat
      BY <1>1, <2>1 DEF Sizes
    <3> QED BY <1>1, <2>2, <3>1, <3>2 DEF TypeObj, s
  <2>6. Microsoft_position(t) >= Microsoft_position(b)
    <3>1. b.bit_offset <= 8 * s
      BY DEF MsGood
    <3> HIDE DEF t, s
    <3> QED BY <1>1, <2>1, <2>5, <3>1 DEF Microsoft_position, Bits, Sizes
  <2> HIDE DEF t
  <2>7. MsGood(t)
    BY <2>1, <2>2, <2>3, <2>5 DEF MsGood, Sizes
  <2>8. MsAhead(b, t) /\ t.offset = MsReach(b)
    BY <1>1, <1>3, <2>5, <2>6 DEF MsAhead, MsReach
  <2> QED BY <2>5, <2>7, <2>8 DEF t
<1> QED BY <1>1, <1>2, <1>3

\* Turning to a type of s bytes.
LEMMA MsRetype ==
  ASSUME NEW b, MsGood(b), NEW s \in Sizes
  PROVE  LET t == Microsoft_retype(b, s, s) IN
         MsGood(t) /\ MsAhead(b, t) /\ t.cur_type_size = s
<1> DEFINE t == Microsoft_retype(b, s, s)
<1>1. CASE b.cur_type_size = s
  <2>1. t = b
    BY <1>1 DEF Microsoft_retype
  <2> HIDE DEF t
  <2>2. b \in TypeObj /\ Microsoft_position(b) \in Int /\ b.align \in Int
    BY DEF MsGood, TypeObj, Microsoft_position, Bits
  <2> QED BY <1>1, <2>1, <2>2 DEF MsAhead, t
<1>2. CASE b.cur_type_size # s
  <2> DEFINE l     == Microsoft_nextUnit(b)
             al    == Lesser(s, b.max_align)
             delta == l.offset % al
             off   == IF delta = 0 THEN l.offset ELSE l.offset + (al - delta)
             alg   == IF al > l.align THEN al ELSE l.align
  <2>1. MsGood(l) /\ MsAhead(b, l) /\ l.bit_offset = 0 /\ l.align = b.align /\ l.offset = MsReach(b)
    BY MsNextUnit
  <2>2. t = [l EXCEPT !.align = alg, !.offset = off, !.cur_type_size = s, !.cur_type_align = al]
    BY <1>2, Zenon DEF Microsoft_retype
  <2> HIDE DEF l
  <2>3. l \in TypeObj /\ l.offset \in Nat /\ l.align \in Nat /\ l.max_align \in Aligns
    BY <2>1 DEF MsGood, TypeObj
  <2>4. al \in Sizes /\ al = Lesser(s, l.max_align)
    BY <2>1, <2>3, LesserFacts DEF MsAhead
  <2> HIDE DEF al
  <2>5. delta \in Nat /\ delta < al /\ (l.offset + (al - delta)) % al = 0 /\ al \in Nat
    <3>1. al \in Nat
      BY <2>4 DEF Sizes
    <3>2. /\ l.offset % al \in Nat /\ l.offset % al < al
          /\ (l.offset + (al - (l.offset % al))) % al = 0
      BY <2>3, <2>4, BoundaryFacts
    <3> QED BY <3>1, <3>2
  <2>6. off \in Nat /\ off % al = 0 /\ off >= l.offset
    BY <2>3, <2>5
  <2>7. alg \in Nat /\ alg >= al /\ alg >= l.align
    BY <2>3, <2>5
  <2> HIDE DEF off, alg, t
  <2>8. /\ t \in TypeObj /\ t.offset = off /\ t.bit_offset = 0
        /\ t.cur_type_size = s /\ t.cur_type_align = al /\ t.max_align = l.max_align
        /\ t.align = alg /\ t.byte_order = l.byte_order
    BY <2>1, <2>2, <2>3, <2>4, <2>6, <2>7 DEF TypeObj
  <2>9. Microsoft_position(t) >= Microsoft_position(l)
    BY <2>1, <2>3, <2>6, <2>8 DEF Microsoft_position, Bits
  <2>10. MsGood(t)
    BY <2>3, <2>4, <2>6, <2>7, <2>8 DEF MsGood, Sizes
  <2>11. MsAhead(b, t)
    <3>1. b \in TypeObj /\ Microsoft_position(b) \in Int /\ Microsoft_position(l) \in Int /\ Microsoft_position(t) \in Int
      BY <2>3, <2>10 DEF MsGood, TypeObj, Microsoft_position, Bits
    <3> QED BY <2>1, <2>3, <2>6, <2>7, <2>8, <2>9, <3>1 DEF MsAhead
  <2> QED BY <2>8, <2>10, <2>11 DEF t
<1> QED BY <1>1, <1>2

\* Going ahead twice is going ahead.
LEMMA MsAheadTwice ==
  ASSUME NEW b, NEW q, NEW u, MsGood(b), MsGood(q), MsGood(u), MsAhead(b, q), MsAhead(q, u)
  PROVE  MsAhead(b, u)
<1>1. ASSUME NEW x, MsGood(x)
      PROVE  Microsoft_position(x) \in Int /\ x.align \in Int /\ x.offset \in Int
             /\ x.bit_offset \in Int /\ MsReach(x) \in Int
  BY <1>1 DEF MsGood, TypeObj, Microsoft_position, Bits, MsReach, Sizes
<1>2. q.bit_offset = 0 => MsReach(q) = q.offset
  BY <1>1 DEF MsReach
<1> QED BY <1>1, <1>2 DEF MsAhead

\* The unit a field of that width goes to has room for it.
LEMMA MsUnit ==
  ASSUME NEW b, MsGood(b), NEW s \in Sizes, b.cur_type_size = s, NEW bits \in Nat,
         ~Microsoft_tooWide(b, bits)
  PROVE  LET u == Microsoft_unit(b, bits) IN
         /\ MsGood(u) /\ MsAhead(b, u) /\ u.cur_type_size = s /\ u.align = b.align
         /\ u.bit_offset + bits <= 8 * s
         /\ bits = 0 => u.bit_offset = 0
<1>1. bits <= 8 * s
  BY DEF Microsoft_tooWide, Bits, Sizes
<1>2. b.bit_offset \in Nat /\ Microsoft_position(b) \in Int /\ b.align \in Int
  BY DEF MsGood, TypeObj, Microsoft_position, Bits
<1>3. CASE bits = 0 \/ bits > 8 * s - b.bit_offset
  <2>1. Microsoft_unit(b, bits) = Microsoft_nextUnit(b)
    BY <1>3 DEF Microsoft_unit, Bits
  <2> QED BY <1>1, <2>1, MsNextUnit
<1>4. CASE ~(bits = 0 \/ bits > 8 * s - b.bit_offset)
  <2>1. Microsoft_unit(b, bits) = b
    BY <1>4 DEF Microsoft_unit, Bits
  <2>2. MsAhead(b, b)
    BY <1>2 DEF MsAhead
  <2>3. b.bit_offset + bits <= 8 * s
    BY <1>2, <1>4 DEF Sizes
  <2> QED BY <1>4, <2>1, <2>2, <2>3
<1> QED BY <1>3, <1>4

\* A push that is not refused: the unit it finds, and the object behind it.
LEMMA MsPush ==
  ASSUME NEW b, MsGood(b), NEW s \in Sizes, NEW bits \in Nat,
         NEW p, p = Microsoft_push(b, bits, s, s), ~p.refused,
         NEW u, u = Microsoft_unit(Microsoft_retype(b, s, s), bits)
  PROVE  /\ MsGood(u) /\ MsAhead(b, u) /\ u.cur_type_size = s
         /\ u.bit_offset + bits <= 8 * s
         /\ bits = 0 => u.bit_offset = 0
         /\ MsGood(p.bl)
         /\ p.bl.offset = u.offset /\ p.bl.bit_offset = u.bit_offset + bits
         /\ p.bl.cur_type_size = s /\ p.bl.max_align = u.max_align
         /\ p.bl.align = u.align /\ p.bl.byte_order = u.byte_order
         /\ p.decl = [offset |-> u.offset, size |-> s, bits |-> bits,
                      pos |-> UnitPos(u.byte_order, s, u.bit_offset, bits)]
         /\ p.decl \in Decl
<1> DEFINE q == Microsoft_retype(b, s, s)
<1>0. u = Microsoft_unit(q, bits)
  OBVIOUS
<1>1. MsGood(q) /\ MsAhead(b, q) /\ q.cur_type_size = s
  BY MsRetype
<1>2. /\ ~Microsoft_tooWide(q, bits)
      /\ p = [refused |-> FALSE, bl |-> Microsoft_place(q, bits), decl |-> Microsoft_decl(q, bits)]
  BY Zenon DEF Microsoft_push
<1> HIDE DEF q
<1>3. /\ MsGood(u) /\ MsAhead(q, u) /\ u.cur_type_size = s
      /\ u.bit_offset + bits <= 8 * s /\ (bits = 0 => u.bit_offset = 0)
  BY <1>0, <1>1, <1>2, MsUnit
<1>4. MsAhead(b, u)
  BY <1>1, <1>3, MsAheadTwice
<1>5. p.bl = [u EXCEPT !.bit_offset = @ + bits]
  BY <1>0, <1>2 DEF Microsoft_place
<1>6. p.decl = [offset |-> u.offset, size |-> s, bits |-> bits,
                pos |-> UnitPos(u.byte_order, s, u.bit_offset, bits)]
  BY <1>0, <1>2, <1>3 DEF Microsoft_decl
<1>7. /\ p.bl.offset = u.offset /\ p.bl.bit_offset = u.bit_offset + bits
      /\ p.bl.cur_type_size = s /\ p.bl.cur_type_align = u.cur_type_align
      /\ p.bl.max_align = u.max_align
      /\ p.bl.align = u.align /\ p.bl.byte_order = u.byte_order
      /\ p.bl \in TypeObj
  BY <1>3, <1>5 DEF MsGood, TypeObj
<1>8. MsGood(p.bl)
  BY <1>3, <1>7 DEF MsGood
<1>9. p.decl \in Decl
  BY <1>3, <1>6 DEF MsGood, TypeObj, Decl, UnitPos, Bits, Sizes
<1> QED BY <1>3, <1>4, <1>5, <1>6, <1>7, <1>8, <1>9

-----------------------------------------------------------------------------
(* Declarators and their storage units.                                    *)

\* A field lies in its unit.
Inside(d) == d.pos >= 0 /\ d.pos + d.bits <= Bits(d.size)

\* The bits of a field that is placed behind `used` bits of its unit.
LEMMA PlacedFacts ==
  ASSUME NEW d, NEW offset \in Nat, NEW size \in Sizes, NEW bits \in Nat, NEW used \in Int,
         NEW order \in ByteOrders,
         d = [offset |-> offset, size |-> size, bits |-> bits,
              pos |-> UnitPos(order, size, used, bits)]
  PROVE  /\ d \in Decl
         /\ BitRange(d, order) = [lo |-> 8 * offset + used, hi |-> 8 * offset + used + bits]
         /\ used >= 0 /\ used + bits <= 8 * size => Inside(d)
<1>1. d.offset = offset /\ d.size = size /\ d.bits = bits /\ d.pos = UnitPos(order, size, used, bits)
  OBVIOUS
<1>2. UnitPos(order, size, used, bits) = IF order = "LE" THEN used ELSE 8 * size - used - bits
  BY DEF UnitPos, Bits
<1>3. UnitPos(order, size, used, bits) \in Int
  BY <1>2 DEF Sizes
<1>4. d \in Decl
  BY <1>3 DEF Decl
<1>5. FirstBit(d, order) = 8 * offset + used
  BY <1>1, <1>2 DEF FirstBit, Bits, Sizes
<1>6. used >= 0 /\ used + bits <= 8 * size => Inside(d)
  BY <1>1, <1>2 DEF Inside, Bits, Sizes
<1> QED BY <1>1, <1>4, <1>5, <1>6 DEF BitRange

\* Two fields live in the same unit or in disjoint ones, in order.
Nests(ds) ==
  \A i, j \in 1 .. Len(ds) : i < j =>
    \/ ds[j].offset = ds[i].offset /\ ds[j].size = ds[i].size
    \/ ds[j].offset >= ds[i].offset + ds[i].size

\* All units lie before `start`, or are the unit that begins there, which has
\* `size` bytes and is in use.
Holds(ds, start, size, used) ==
  \A i \in 1 .. Len(ds) :
    \/ ds[i].offset + ds[i].size <= start
    \/ used /\ ds[i].offset = start /\ ds[i].size = size

\* Nothing is lost by moving on behind everything in use.
LEMMA HoldsBehind ==
  ASSUME NEW ds \in Seq(Decl), NEW start \in Nat, NEW size \in Nat, NEW used \in BOOLEAN,
         Holds(ds, start, size, used),
         NEW start2 \in Nat, start2 >= IF used THEN start + size ELSE start
  PROVE  \A i \in 1 .. Len(ds) : ds[i].offset + ds[i].size <= start2
<1> SUFFICES ASSUME NEW i \in 1 .. Len(ds) PROVE ds[i].offset + ds[i].size <= start2
  OBVIOUS
<1>1. ds[i] \in Decl
  OBVIOUS
<1>2. ds[i].offset \in Nat /\ ds[i].size \in Nat
  BY <1>1, SMTT(60) DEF Decl, Sizes
<1> QED BY <1>2, SMTT(60) DEF Holds

\* A field in the same unit as another, or behind that unit.
Follows(d, c) ==
  \/ d.offset = c.offset /\ d.size = c.size
  \/ d.offset >= c.offset + c.size

\* Offsets and sizes of declarators are natural numbers.
LEMMA DeclFacts ==
  ASSUME NEW d \in Decl
  PROVE  d.offset \in Nat /\ d.size \in Nat
BY DEF Decl, Sizes

\* A field in the current unit or behind everything in use follows all others.
LEMMA HoldsFollows ==
  ASSUME NEW ds \in Seq(Decl), NEW start \in Nat, NEW size \in Nat, NEW used \in BOOLEAN,
         Holds(ds, start, size, used), NEW d \in Decl,
         \/ d.offset = start /\ d.size = size
         \/ d.offset >= IF used THEN start + size ELSE start
  PROVE  \A i \in 1 .. Len(ds) : Follows(d, ds[i])
<1> SUFFICES ASSUME NEW i \in 1 .. Len(ds) PROVE Follows(d, ds[i])
  OBVIOUS
<1>1. ds[i] \in Decl
  OBVIOUS
<1>2. ds[i].offset \in Nat /\ ds[i].size \in Nat
  BY <1>1, DeclFacts
<1>3. d.offset \in Nat
  BY DeclFacts
<1> QED BY <1>2, <1>3, SMTT(60) DEF Holds, Follows

\* With a field that follows all others the units still nest.
LEMMA NestsAppend ==
  ASSUME NEW ds \in Seq(Decl), Nests(ds), NEW d \in Decl,
         \A i \in 1 .. Len(ds) : Follows(d, ds[i])
  PROVE  /\ Append(ds, d) \in Seq(Decl)
         /\ Nests(Append(ds, d))
         /\ Holds(Append(ds, d), d.offset, d.size, TRUE)
<1> DEFINE n  == Len(ds)
           es == Append(ds, d)
<1>1. /\ n \in Nat /\ es \in Seq(Decl) /\ Len(es) = n + 1 /\ es[n + 1] = d
      /\ \A i \in 1 .. n : es[i] = ds[i] /\ ds[i] \in Decl
  OBVIOUS
<1>2. d.offset \in Nat /\ d.size \in Nat
  BY DEF Decl, Sizes
<1>3. ASSUME NEW i \in 1 .. n
      PROVE  \/ d.offset = ds[i].offset /\ d.size = ds[i].size
             \/ d.offset >= ds[i].offset + ds[i].size
  BY DEF Follows
<1> HIDE DEF es
<1>4. Nests(es)
  <2> SUFFICES ASSUME NEW i \in 1 .. Len(es), NEW j \in 1 .. Len(es), i < j
               PROVE  \/ es[j].offset = es[i].offset /\ es[j].size = es[i].size
                      \/ es[j].offset >= es[i].offset + es[i].size
    BY DEF Nests
  <2>1. CASE j = n + 1
    <3>1. i \in 1 .. n
      BY <1>1, <2>1
    <3> QED BY <1>1, <1>3, <2>1, <3>1
  <2>2. CASE j # n + 1
    <3>1. i \in 1 .. n /\ j \in 1 .. n
      BY <1>1, <2>2
    <3> QED BY <1>1, <3>1 DEF Nests
  <2> QED BY <2>1, <2>2
<1>5. Holds(es, d.offset, d.size, TRUE)
  <2> SUFFICES ASSUME NEW i \in 1 .. Len(es)
               PROVE  \/ es[i].offset + es[i].size <= d.offset
                      \/ es[i].offset = d.offset /\ es[i].size = d.size
    BY DEF Holds
  <2>1. CASE i = n + 1
    BY <1>1, <2>1
  <2>2. CASE i # n + 1
    <3>1. i \in 1 .. n
      BY <1>1, <2>2
    <3> QED BY <1>1, <1>3, <3>1
  <2> QED BY <2>1, <2>2
<1> QED BY <1>1, <1>4, <1>5 DEF es

\* What holds of each field holds of them with one more.
LEMMA EachAppend ==
  ASSUME NEW ds \in Seq(Decl), NEW d \in Decl, \A i \in 1 .. Len(ds) : Inside(ds[i]), Inside(d)
  PROVE  \A i \in 1 .. Len(Append(ds, d)) : Inside(Append(ds, d)[i])
<1>1. ASSUME NEW i \in 1 .. Len(Append(ds, d)) PROVE Append(ds, d)[i] = d \/ (i \in 1 .. Len(ds) /\ Append(ds, d)[i] = ds[i])
  OBVIOUS
<1> QED BY <1>1

-----------------------------------------------------------------------------
(* The Simple engine within a run.                                         *)

SimGood(b) == b \in BlockObj /\ b.bits_left <= 8 * b.block_size

\* The first byte behind everything in use.
SimStart(b) == b.offset + b.pos
SimUsed(b) == b.bits_left # 8 * b.block_size
SimReach(b) == IF SimUsed(b) THEN SimStart(b) + b.block_size ELSE SimStart(b)

\* A push finds a block u, the current one or the next, and fills it up; it is
\* large enough for what is no wider than a block.
LEMMA SimPush ==
  ASSUME NEW b, SimGood(b), NEW bits \in Nat,
         NEW p, p = Simple_push(b, bits), NEW u, u = Simple_block(b, bits)
  PROVE  /\ SimGood(u)
         /\ u = b \/ (SimStart(u) = SimStart(b) + b.block_size /\ ~SimUsed(u))
         /\ bits = 0 => ~SimUsed(u)
         /\ b.bits_left >= 0 => Simple_position(u) >= Simple_position(b)
         /\ bits <= 8 * b.block_size => bits <= u.bits_left
         /\ SimGood(p.bl)
         /\ SimStart(p.bl) = SimStart(u) /\ p.bl.bits_left = u.bits_left - bits
         /\ p.bl.block_size = b.block_size /\ p.bl.byte_order = b.byte_order
         /\ u.block_size = b.block_size
         /\ p.decl = [offset |-> SimStart(u), size |-> b.block_size, bits |-> bits,
                      pos |-> UnitPos(b.byte_order, b.block_size,
                                      8 * b.block_size - u.bits_left, bits)]
<1>1. /\ b \in BlockObj /\ b.offset \in Nat /\ b.pos \in Nat /\ b.block_size \in Nat
      /\ b.bits_left \in Int /\ b.bits_left <= 8 * b.block_size /\ b.block_size > 0
  BY DEF SimGood, BlockObj, Sizes
<1>2. /\ u \in BlockObj /\ u.offset = b.offset /\ u.block_size = b.block_size
      /\ u.byte_order = b.byte_order
      /\ IF bits = 0 \/ bits > b.bits_left
         THEN u.pos = b.pos + b.block_size /\ u.bits_left = 8 * b.block_size
         ELSE u = b
  <2>1. CASE bits = 0 \/ bits > b.bits_left
    <3>1. u = [b EXCEPT !.pos = b.pos + b.block_size, !.bits_left = 8 * b.block_size]
      BY <2>1 DEF Simple_block, Bits
    <3>2. b.pos + b.block_size \in Nat /\ 8 * b.block_size \in Int
      BY <1>1
    <3> QED BY <1>1, <2>1, <3>1, <3>2 DEF BlockObj
  <2>2. CASE ~(bits = 0 \/ bits > b.bits_left)
    BY <1>1, <2>2 DEF Simple_block
  <2> QED BY <2>1, <2>2
<1>3. p = [refused |-> FALSE, bl |-> Simple_place(b, bits), decl |-> Simple_decl(b, bits)]
  BY DEF Simple_push
<1>4. p.bl = [u EXCEPT !.bits_left = @ - bits]
  BY <1>3 DEF Simple_place
<1>5. p.decl = [offset |-> u.offset + u.pos, size |-> u.block_size, bits |-> bits,
                pos |-> UnitPos(u.byte_order, u.block_size, Bits(u.block_size) - u.bits_left, bits)]
  BY <1>3 DEF Simple_decl
<1>6. u.pos \in Nat /\ u.bits_left \in Int /\ u.bits_left <= 8 * b.block_size
  BY <1>1, <1>2 DEF BlockObj
<1>7. /\ p.bl \in BlockObj /\ p.bl.offset = u.offset /\ p.bl.pos = u.pos
      /\ p.bl.bits_left = u.bits_left - bits /\ p.bl.block_size = u.block_size
      /\ p.bl.byte_order = u.byte_order
  <2>1. u.bits_left - bits \in Int
    BY <1>6
  <2> QED BY <1>2, <1>4, <2>1 DEF BlockObj
<1>8. SimGood(u) /\ SimGood(p.bl)
  BY <1>1, <1>2, <1>6, <1>7 DEF SimGood
<1>9. u = b \/ (SimStart(u) = SimStart(b) + b.block_size /\ ~SimUsed(u))
  BY <1>1, <1>2 DEF SimStart, SimUsed
<1>10. bits = 0 => ~SimUsed(u)
  BY <1>1, <1>2 DEF SimUsed
<1>11. b.bits_left >= 0 => Simple_position(u) >= Simple_position(b)
  BY <1>1, <1>2 DEF Simple_position, Bits
<1>12. bits <= 8 * b.block_size => bits <= u.bits_left
  BY <1>1, <1>2
<1>13. SimStart(p.bl) = SimStart(u)
  BY <1>7 DEF SimStart
<1>14. p.decl = [offset |-> SimStart(u), size |-> b.block_size, bits |-> bits,
                 pos |-> UnitPos(b.byte_order, b.block_size, 8 * b.block_size - u.bits_left, bits)]
  BY <1>2, <1>5 DEF SimStart, Bits
<1> QED BY <1>2, <1>7, <1>8, <1>9, <1>10, <1>11, <1>12, <1>13, <1>14

\* At the end of the run everything in use lies before the offset.
LEMMA SimFinalize ==
  ASSUME NEW b, SimGood(b)
  PROVE  LET t == Simple_finalize(b) IN
         /\ t \in BlockObj /\ t.offset = SimReach(b) /\ t.byte_order = b.byte_order
         /\ b.bits_left >= 0 => Bits(t.offset) >= Simple_position(b)
<1> DEFINE t == Simple_finalize(b)
           e == IF b.bits_left # 8 * b.block_size THEN b.pos + b.block_size ELSE b.pos
<1>1. /\ b \in BlockObj /\ b.offset \in Nat /\ b.pos \in Nat /\ b.block_size \in Nat
      /\ b.bits_left \in Int /\ b.bits_left <= 8 * b.block_size
  BY DEF SimGood, BlockObj, Sizes
<1>2. t = [b EXCEPT !.pos = e, !.offset = @ + e, !.align = b.block_size]
  BY DEF Simple_finalize, Bits
<1>3. e \in Nat /\ b.offset + e = SimReach(b)
  BY <1>1 DEF SimReach, SimStart, SimUsed
<1> HIDE DEF t, e
<1>4. t \in BlockObj /\ t.offset = b.offset + e /\ t.byte_order = b.byte_order
  <2>1. b.offset + e \in Nat /\ b.block_size \in Nat
    BY <1>1, <1>3
  <2>2. t = [max_align |-> b.max_align, align |-> b.block_size, offset |-> b.offset + e,
             byte_order |-> b.byte_order, block_size |-> b.block_size, pos |-> e,
             bits_left |-> b.bits_left]
    BY <1>1, <1>2 DEF BlockObj
  <2> QED BY <1>1, <1>3, <2>1, <2>2 DEF BlockObj
<1>5. b.bits_left >= 0 => 8 * SimReach(b) >= Simple_position(b)
  BY <1>1 DEF SimReach, SimStart, SimUsed, Simple_position, Bits
<1> QED BY <1>3, <1>4, <1>5 DEF t, Bits

\* The run of the Microsoft engine ends behind the last unit.
LEMMA MsFinalize ==
  ASSUME NEW b, MsGood(b)
  PROVE  LET t == Microsoft_finalize(b) IN
         /\ t \in TypeObj /\ t.offset = MsReach(b) /\ t.byte_order = b.byte_order
         /\ t.max_align = b.max_align /\ t.align = b.align
         /\ Bits(t.offset) >= Microsoft_position(b)
<1> DEFINE t == Microsoft_finalize(b)
<1>1. /\ b \in TypeObj /\ b.offset \in Nat /\ b.bit_offset \in Nat /\ b.cur_type_size \in Nat
      /\ b.bit_offset <= 8 * b.cur_type_size
  BY DEF MsGood, TypeObj, Sizes
<1>2. Bits(MsReach(b)) >= Microsoft_position(b)
  BY <1>1 DEF MsReach, Microsoft_position, Bits
<1>3. CASE b.bit_offset > 0
  <2>1. t = [b EXCEPT !.offset = b.offset + b.cur_type_size]
    BY <1>3 DEF Microsoft_finalize
  <2> HIDE DEF t
  <2>2. t = [max_align |-> b.max_align, align |-> b.align, offset |-> b.offset + b.cur_type_size,
             byte_order |-> b.byte_order, bit_offset |-> b.bit_offset,
             cur_type_size |-> b.cur_type_size, cur_type_align |-> b.cur_type_align]
    BY <1>1, <2>1 DEF TypeObj
  <2>3. b.offset + b.cur_type_size \in Nat
    BY <1>1
  <2>4. t \in TypeObj
    BY <1>1, <2>2, <2>3 DEF TypeObj
  <2> QED BY <1>2, <1>3, <2>2, <2>4 DEF MsReach, t
<1>4. CASE ~(b.bit_offset > 0)
  BY <1>1, <1>2, <1>4 DEF Microsoft_finalize, MsReach
<1> QED BY <1>3, <1>4

-----------------------------------------------------------------------------
(* The Generic engine within a run.                                        *)

\* The offset is on a boundary of the alignment in force, which the struct has.
GenGood(b) ==
  /\ b \in TypeObj
  /\ b.max_align \in Aligns
  /\ b.cur_type_size # 0 =>
       LET al == Lesser(b.cur_type_size, b.max_align)
       IN  b.cur_type_align = al /\ b.offset % al = 0 /\ b.align >= al

\* Turning to a type of s bytes does not move the position.
LEMMA GenRetype ==
  ASSUME NEW b, GenGood(b), NEW s \in Sizes
  PROVE  LET t == Generic_retype(b, s, s) IN
         /\ GenGood(t) /\ t.cur_type_size = s
         /\ t.max_align = b.max_align /\ t.byte_order = b.byte_order /\ t.align >= b.align
         /\ Generic_position(t) = Generic_position(b)
<1> DEFINE t == Generic_retype(b, s, s)
<1>1. CASE b.cur_type_size = s
  <2>1. t = b
    BY <1>1 DEF Generic_retype
  <2>2. b.align \in Nat
    BY DEF GenGood, TypeObj
  <2> QED BY <1>1, <2>1, <2>2
<1>2. CASE b.cur_type_size # s
  <2> DEFINE al  == Lesser(s, b.max_align)
             d   == b.offset % al
             alg == IF al > b.align THEN al ELSE b.align
  <2>1. t = [b EXCEPT !.align = alg, !.offset = @ - d, !.bit_offset = @ + Bits(d),
                      !.cur_type_size = s, !.cur_type_align = al]
    BY <1>2, Zenon DEF Generic_retype
  <2>2. b \in TypeObj /\ b.offset \in Nat /\ b.bit_offset \in Nat /\ b.align \in Nat /\ b.max_align \in Aligns
    BY DEF GenGood, TypeObj
  <2>3. al \in Sizes
    BY <2>2, LesserFacts
  <2>4. d \in Nat /\ d <= b.offset /\ (b.offset - d) % al = 0
    <3> HIDE DEF al
    <3> QED BY <2>2, <2>3, BoundaryFacts
  <2>5. alg \in Nat /\ alg >= al /\ alg >= b.align
    BY <2>2, <2>3 DEF Sizes
  <2> HIDE DEF t, d, alg
  <2>6. b.offset - d \in Nat /\ b.bit_offset + Bits(d) \in Nat
    BY <2>2, <2>4 DEF Bits
  <2>7. t = [max_align |-> b.max_align, align |-> alg, offset |-> b.offset - d,
             byte_order |-> b.byte_order, bit_offset |-> b.bit_offset + Bits(d),
             cur_type_size |-> s, cur_type_align |-> al]
    BY <2>1, <2>2 DEF TypeObj
  <2>8. /\ GenGood(t) /\ t.cur_type_size = s /\ t.max_align = b.max_align
        /\ t.byte_order = b.byte_order /\ t.align >= b.align
    <3>1. t \in TypeObj
      BY <2>2, <2>3, <2>5, <2>6, <2>7 DEF TypeObj
    <3> QED BY <2>2, <2>4, <2>5, <2>7, <3>1 DEF GenGood
  <2>9. Generic_position(t) = Generic_position(b)
    BY <2>2, <2>4, <2>7 DEF Generic_position, Bits
  <2> QED BY <2>8, <2>9 DEF t
<1> QED BY <1>1, <1>2

\* As many rounds as the field needs to fit, and no more.
LEMMA RoundsFacts ==
  ASSUME NEW b, GenGood(b), b.cur_type_size \in Sizes, NEW bits \in Nat
  PROVE  LET n  == Generic_rounds(b, bits)
             al == b.cur_type_align
         IN  /\ n \in Nat
             /\ b.bit_offset + bits - 8 * b.cur_type_size <= n * (8 * al)
             /\ n > 0 => (n - 1) * (8 * al) < b.bit_offset + bits - 8 * b.cur_type_size
<1> DEFINE n  == Generic_rounds(b, bits)
           al == b.cur_type_align
           x  == b.bit_offset + bits - 8 * b.cur_type_size
<1>1. al \in Sizes
  BY LesserFacts DEF GenGood, Sizes
<1>2. x \in Int
  BY DEF GenGood, TypeObj, Sizes
<1>3. n = IF x <= 0 THEN 0 ELSE (x + 8 * al - 1) \div (8 * al)
  BY DEF Generic_rounds, Bits
<1> HIDE DEF n, al, x
<1>4. /\ n \in Nat
      /\ x <= n * (8 * al)
      /\ n > 0 => (n - 1) * (8 * al) < x
  <2>1. CASE al = 1
    BY <1>2, <1>3, <2>1
  <2>2. CASE al = 2
    BY <1>2, <1>3, <2>2
  <2>3. CASE al = 4
    BY <1>2, <1>3, <2>3
  <2>4. CASE al = 8
    BY <1>2, <1>3, <2>4
  <2> QED BY <1>1, <2>1, <2>2, <2>3, <2>4 DEF Sizes
<1> QED BY <1>4 DEF n, al, x

\* The object after n rounds, member by member.
LEMMA AfterFacts ==
  ASSUME NEW b, GenGood(b), b.cur_type_size \in Sizes, NEW n \in Nat
  PROVE  LET t  == Generic_after(b, n)
             by == n * b.cur_type_align
         IN  /\ by \in Nat
             /\ t = [max_align |-> b.max_align, align |-> b.align, offset |-> b.offset + by,
                     byte_order |-> b.byte_order,
                     bit_offset |-> IF b.bit_offset > 8 * by THEN b.bit_offset - 8 * by ELSE 0,
                     cur_type_size |-> b.cur_type_size, cur_type_align |-> b.cur_type_align]
             /\ GenGood(t)
             /\ Generic_position(t) >= Generic_position(b)
<1> DEFINE t  == Generic_after(b, n)
           by == n * b.cur_type_align
           bo == IF b.bit_offset > 8 * by THEN b.bit_offset - 8 * by ELSE 0
<1>1. /\ b \in TypeObj /\ b.offset \in Nat /\ b.bit_offset \in Nat /\ b.max_align \in Aligns
      /\ b.cur_type_align \in Sizes /\ b.offset % b.cur_type_align = 0
      /\ b.cur_type_align = Lesser(b.cur_type_size, b.max_align)
  BY LesserFacts DEF GenGood, TypeObj, Sizes
<1>2. by \in Nat /\ (b.offset + by) % b.cur_type_align = 0
  BY <1>1, MovesFacts
<1>3. t = [b EXCEPT !.offset = @ + by, !.bit_offset = bo]
  BY DEF Generic_after, Bits
<1> HIDE DEF t, by
<1>4. bo \in Nat /\ b.offset + by \in Nat
  BY <1>1, <1>2
<1>5. 8 * (b.offset + by) + bo >= 8 * b.offset + b.bit_offset
  BY <1>1, <1>2
<1> HIDE DEF bo
<1>6. t = [max_align |-> b.max_align, align |-> b.align, offset |-> b.offset + by,
           byte_order |-> b.byte_order, bit_offset |-> bo,
           cur_type_size |-> b.cur_type_size, cur_type_align |-> b.cur_type_align]
  BY <1>1, <1>3 DEF TypeObj
<1>7. t \in TypeObj
  BY <1>1, <1>4, <1>6 DEF TypeObj
<1>8. GenGood(t)
  BY <1>1, <1>2, <1>6, <1>7 DEF GenGood
<1>9. Generic_position(t) >= Generic_position(b)
  BY <1>5, <1>6 DEF Generic_position, Bits
<1> QED BY <1>2, <1>6, <1>8, <1>9 DEF t, by, bo

\* Each round is one turn of the loop in Generic_push: its condition holds before,
\* and not behind the last.
LEMMA RoundsOfTheLoop ==
  ASSUME NEW b, GenGood(b), b.cur_type_size \in Sizes,
         NEW bits \in Nat, bits <= 8 * b.cur_type_size
  PROVE  /\ Generic_after(b, 0) = b
         /\ \A k \in Nat : Generic_after(b, k + 1) = Generic_move(Generic_after(b, k))
         /\ \A k \in Nat : k < Generic_rounds(b, bits) => Generic_mustMove(Generic_after(b, k), bits)
         /\ ~Generic_mustMove(Generic_moved(b, bits), bits)
<1> DEFINE al == b.cur_type_align
           s  == b.cur_type_size
           n  == Generic_rounds(b, bits)
           bo(k) == IF b.bit_offset > 8 * (k * al) THEN b.bit_offset - 8 * (k * al) ELSE 0
           A(k) == Generic_after(b, k)
<1>1. /\ b \in TypeObj /\ b.offset \in Nat /\ b.bit_offset \in Nat /\ s \in Nat /\ s \in Sizes /\ al \in Sizes
  BY LesserFacts DEF GenGood, TypeObj, Sizes
<1>2. /\ n \in Nat
      /\ b.bit_offset + bits - 8 * s <= n * (8 * al)
      /\ n > 0 => (n - 1) * (8 * al) < b.bit_offset + bits - 8 * s
  BY RoundsFacts
<1>3. ASSUME NEW k \in Nat
      PROVE  /\ k * al \in Nat
             /\ A(k) = [max_align |-> b.max_align, align |-> b.align, offset |-> b.offset + k * al,
                        byte_order |-> b.byte_order, bit_offset |-> bo(k),
                        cur_type_size |-> s, cur_type_align |-> al]
             /\ A(k) \in TypeObj
  BY AfterFacts DEF GenGood
<1> HIDE DEF A, n
<1>4. Generic_after(b, 0) = b
  <2>1. 0 * al = 0
    BY <1>1 DEF Sizes
  <2>2. b.offset + 0 * al = b.offset /\ bo(0) = b.bit_offset
    BY <1>1, <2>1
  <2> HIDE DEF bo
  <2>3. A(0) = b
    BY <1>1, <1>3, <2>2 DEF TypeObj
  <2> QED BY <2>3 DEF A
<1>5. ASSUME NEW k \in Nat PROVE A(k + 1) = Generic_move(A(k))
  <2> DEFINE c == A(k)
  <2>1. (k + 1) * al = k * al + al /\ k + 1 \in Nat /\ al \in Nat /\ k * al \in Nat
    BY <1>1, <1>3 DEF Sizes
  <2>2. bo(k + 1) = IF bo(k) > 8 * al THEN bo(k) - 8 * al ELSE 0
    BY <1>1, <2>1
  <2>3. b.offset + (k + 1) * al = (b.offset + k * al) + al
    BY <1>1, <2>1
  <2> HIDE DEF bo, c
  <2>4. /\ c \in TypeObj /\ c.offset = b.offset + k * al /\ c.bit_offset = bo(k) /\ c.cur_type_align = al
        /\ c.max_align = b.max_align /\ c.align = b.align /\ c.byte_order = b.byte_order
        /\ c.cur_type_size = s
    BY <1>3 DEF c
  <2>5. Generic_move(c) = [c EXCEPT !.offset = c.offset + al, !.bit_offset = IF bo(k) > 8 * al THEN bo(k) - 8 * al ELSE 0]
    BY <2>4 DEF Generic_move, Bits
  <2>6. A(k + 1) = [max_align |-> b.max_align, align |-> b.align, offset |-> b.offset + (k + 1) * al,
                    byte_order |-> b.byte_order, bit_offset |-> bo(k + 1),
                    cur_type_size |-> s, cur_type_align |-> al]
    BY <1>3, <2>1
  <2>7. Generic_move(c) = A(k + 1)
    BY <2>2, <2>3, <2>4, <2>5, <2>6 DEF TypeObj
  <2> QED BY <2>7 DEF c
<1>6. ASSUME NEW k \in Nat, k < n PROVE Generic_mustMove(A(k), bits)
  <2>1. k * (8 * al) <= (n - 1) * (8 * al)
    BY <1>1, <1>2, <1>6 DEF Sizes
  <2>2. k * (8 * al) = 8 * (k * al) /\ k * al \in Nat /\ n > 0 /\ (n - 1) * (8 * al) \in Int
    BY <1>1, <1>2, <1>3, <1>6 DEF Sizes
  <2>3. 8 * (k * al) < b.bit_offset + bits - 8 * s
    BY <1>1, <1>2, <2>1, <2>2
  <2>4. bits > 8 * s - bo(k)
    BY <1>1, <2>2, <2>3
  <2> QED BY <1>3, <2>4 DEF Generic_mustMove, Bits
<1>7. ~Generic_mustMove(A(n), bits)
  <2>1. n * (8 * al) = 8 * (n * al) /\ n * al \in Nat
    BY <1>1, <1>2, <1>3 DEF Sizes
  <2>2. ~(bits > 8 * s - bo(n))
    BY <1>1, <1>2, <2>1
  <2> QED BY <1>2, <1>3, <2>2 DEF Generic_mustMove, Bits
<1>8. Generic_moved(b, bits) = A(n)
  BY DEF Generic_moved, A, n
<1> QED BY <1>4, <1>5, <1>6, <1>7, <1>8 DEF A, n

\* A push that is not too wide: the unit u it finds, and the object behind it.
LEMMA GenPush ==
  ASSUME NEW b, GenGood(b), NEW s \in Sizes, NEW bits \in Nat, bits <= 8 * s,
         NEW p, p = Generic_push(b, bits, s, s),
         NEW u, u = Generic_moved(Generic_retype(b, s, s), bits)
  PROVE  /\ Generic_position(u) \in Int /\ Generic_position(u) >= Generic_position(b)
         /\ GenGood(p.bl)
         /\ p.bl.max_align = b.max_align /\ p.bl.byte_order = b.byte_order
         /\ bits > 0 => Generic_position(p.bl) = Generic_position(u) + bits
         /\ bits = 0 /\ s <= b.max_align => Generic_position(p.bl) >= Generic_position(b)
         /\ p.bl.cur_type_size = s /\ p.bl.align >= b.align
         /\ p.decl \in Decl /\ Inside(p.decl)
         /\ p.decl.bits = bits /\ p.decl.size <= s
         /\ p.decl.offset % Lesser(s, b.max_align) = 0
         /\ Bits(p.decl.offset) <= Generic_position(u)
         /\ BitRange(p.decl, b.byte_order) =
              [lo |-> Generic_position(u), hi |-> Generic_position(u) + bits]
<1> DEFINE q == Generic_retype(b, s, s)
           al == Lesser(s, b.max_align)
<1>0. u = Generic_moved(q, bits)
  OBVIOUS
<1>1. /\ GenGood(q) /\ q.cur_type_size = s
      /\ q.max_align = b.max_align /\ q.byte_order = b.byte_order /\ q.align >= b.align
      /\ Generic_position(q) = Generic_position(b)
  BY GenRetype
<1> HIDE DEF q
<1>2. /\ Generic_rounds(q, bits) \in Nat
      /\ GenGood(u) /\ Generic_position(u) >= Generic_position(q)
      /\ u.cur_type_size = s /\ u.max_align = q.max_align /\ u.byte_order = q.byte_order
      /\ u.align = q.align
  <2>1. Generic_rounds(q, bits) \in Nat
    BY <1>1, RoundsFacts
  <2> QED BY <1>0, <1>1, <2>1, AfterFacts DEF Generic_moved
<1>3. ~Generic_mustMove(u, bits)
  BY <1>0, <1>1, RoundsOfTheLoop
<1>4. p = [refused |-> FALSE, bl |-> Generic_place(u, bits), decl |-> Generic_decl(u, bits)]
  BY Zenon DEF Generic_push, q
<1>5. /\ u \in TypeObj /\ u.offset \in Nat /\ u.bit_offset \in Nat /\ u.byte_order \in ByteOrders
      /\ u.max_align \in Aligns
      /\ u.cur_type_align = al /\ u.offset % al = 0 /\ al \in Sizes /\ s % al = 0 /\ s \in Nat
      /\ u.align \in Nat /\ u.align >= b.align
  BY <1>1, <1>2, LesserFacts DEF GenGood, TypeObj, Sizes
<1>6. u.bit_offset + bits <= 8 * s
  BY <1>2, <1>3, <1>5 DEF Generic_mustMove, Bits
<1>7. Generic_position(u) \in Int /\ Generic_position(u) >= Generic_position(b)
  BY <1>1, <1>2, <1>5 DEF Generic_position, Bits
<1>8. /\ p.decl \in Decl /\ Inside(p.decl)
      /\ p.decl.bits = bits /\ p.decl.size <= s
      /\ p.decl.offset % al = 0 /\ Bits(p.decl.offset) <= Generic_position(u)
      /\ BitRange(p.decl, b.byte_order) =
           [lo |-> Generic_position(u), hi |-> Generic_position(u) + bits]
  <2> DEFINE w == Generic_usedBytes(u.bit_offset + bits)
  <2>1. w \in Sizes /\ u.bit_offset + bits <= 8 * w /\ w <= s
    BY <1>5, <1>6 DEF Generic_usedBytes, Bits, Sizes
  <2>2. p.decl = [offset |-> u.offset, size |-> w, bits |-> bits,
                  pos |-> UnitPos(u.byte_order, w, u.bit_offset, bits)]
    BY <1>4 DEF Generic_decl
  <2> HIDE DEF w
  <2>3. u.bit_offset \in Int /\ u.bit_offset >= 0 /\ u.bit_offset + bits <= 8 * w
    BY <1>5, <2>1
  <2>4. p.decl \in Decl
    BY <1>5, <2>1, <2>2, <2>3, PlacedFacts
  <2>5. Inside(p.decl)
    BY <1>5, <2>1, <2>2, <2>3, PlacedFacts
  <2>6. BitRange(p.decl, u.byte_order)
          = [lo |-> 8 * u.offset + u.bit_offset, hi |-> 8 * u.offset + u.bit_offset + bits]
    BY <1>5, <2>1, <2>2, <2>3, PlacedFacts
  <2>7. Bits(u.offset) <= Generic_position(u)
    BY <1>5 DEF Generic_position, Bits
  <2> HIDE DEF al
  <2> QED BY <1>1, <1>2, <1>5, <2>1, <2>2, <2>4, <2>5, <2>6, <2>7 DEF Generic_position, Bits
<1>9. CASE bits > 0
  <2>1. p.bl = [u EXCEPT !.bit_offset = @ + bits]
    BY <1>4, <1>9 DEF Generic_place
  <2>2. p.bl = [max_align |-> u.max_align, align |-> u.align, offset |-> u.offset,
                byte_order |-> u.byte_order, bit_offset |-> u.bit_offset + bits,
                cur_type_size |-> u.cur_type_size, cur_type_align |-> u.cur_type_align]
    BY <1>5, <2>1 DEF TypeObj
  <2>3. p.bl \in TypeObj
    <3>1. u.bit_offset + bits \in Nat
      BY <1>5
    <3> QED BY <1>5, <2>2, <3>1 DEF TypeObj
  <2>4. GenGood(p.bl)
    BY <1>2, <2>2, <2>3 DEF GenGood
  <2>5. Generic_position(p.bl) = Generic_position(u) + bits
    BY <1>5, <2>2 DEF Generic_position, Bits
  <2> QED BY <1>1, <1>2, <1>7, <1>8, <1>9, <2>2, <2>4, <2>5
<1>10. CASE bits = 0 /\ u.bit_offset = 0
  <2>1. p.bl = u
    BY <1>4, <1>10 DEF Generic_place
  <2> QED BY <1>1, <1>2, <1>7, <1>8, <1>10, <2>1
<1>11. CASE bits = 0 /\ u.bit_offset > 0
  <2> DEFINE off == u.offset + (s - (u.offset % s))
  <2>1. p.bl = [u EXCEPT !.offset = off, !.bit_offset = 0]
    BY <1>2, <1>4, <1>11 DEF Generic_place
  <2>2. off \in Nat /\ off % s = 0 /\ off % al = 0
    <3>1. u.offset % s \in Nat /\ u.offset % s < s /\ off % s = 0
      BY <1>5, BoundaryFacts
    <3>2. off \in Nat
      BY <1>5, <3>1
    <3> HIDE DEF off
    <3> QED BY <1>5, <3>1, <3>2, StepFacts
  <2>3. s <= b.max_align => 8 * off >= Generic_position(u)
    <3> SUFFICES ASSUME s <= b.max_align PROVE 8 * off >= Generic_position(u)
      OBVIOUS
    <3>1. al = s
      <4>1. b.max_align \in Nat
        BY <1>1, <1>2, <1>5 DEF Aligns
      <4> QED BY <1>5, <4>1 DEF Lesser
    <3>2. off = u.offset + s
      BY <1>5, <3>1
    <3> QED BY <1>5, <1>6, <1>11, <3>2 DEF Generic_position, Bits
  <2> HIDE DEF off
  <2>4. p.bl = [max_align |-> u.max_align, align |-> u.align, offset |-> off,
                byte_order |-> u.byte_order, bit_offset |-> 0,
                cur_type_size |-> u.cur_type_size, cur_type_align |-> u.cur_type_align]
    BY <1>5, <2>1 DEF TypeObj
  <2>5. p.bl \in TypeObj
    BY <1>5, <2>2, <2>4 DEF TypeObj
  <2>6. GenGood(p.bl)
    BY <1>1, <1>2, <1>5, <2>2, <2>4, <2>5 DEF GenGood
  <2>7. s <= b.max_align => Generic_position(p.bl) >= Generic_position(b)
    <3>1. Generic_position(p.bl) = 8 * off /\ Generic_position(b) \in Int
      <4>1. Generic_position(b) \in Int
        BY DEF GenGood, TypeObj, Generic_position, Bits
      <4> QED BY <2>2, <2>4, <4>1 DEF Generic_position, Bits
    <3> QED BY <1>7, <2>2, <2>3, <3>1
  <2> QED BY <1>1, <1>2, <1>7, <1>8, <1>11, <2>4, <2>6, <2>7
<1> QED BY <1>5, <1>9, <1>10, <1>11

\* The run ends with the byte in which its last bit lies.
LEMMA GenFinalize ==
  ASSUME NEW b, GenGood(b)
  PROVE  LET t == Generic_finalize(b) IN
         /\ t \in TypeObj /\ t.byte_order = b.byte_order
         /\ Bits(t.offset) >= Generic_position(b)
<1> DEFINE t == Generic_finalize(b)
           e == b.offset + (b.bit_offset + 7) \div 8
<1>1. b \in TypeObj /\ b.offset \in Nat /\ b.bit_offset \in Nat
  BY DEF GenGood, TypeObj
<1>2. t = [b EXCEPT !.offset = e]
  BY DEF Generic_finalize, Bits
<1>3. e \in Nat /\ 8 * e >= 8 * b.offset + b.bit_offset
  BY <1>1
<1> HIDE DEF t, e
<1>4. t \in TypeObj /\ t.offset = e /\ t.byte_order = b.byte_order
  BY <1>1, <1>2, <1>3 DEF TypeObj
<1> QED BY <1>3, <1>4 DEF Generic_position, Bits, t

-----------------------------------------------------------------------------
(* The inductive invariant.                                                *)

Common ==
  /\ class \in Classes
  /\ pc \in {"idle", "first", "next"}
  /\ decls \in Seq(Decl)
  /\ pushes \in Seq(Request)
  /\ sound \in BOOLEAN
  /\ pc = "first" => pushes = << >> /\ decls = << >>
  /\ pc = "next" => pushes # << >>
  /\ sound => \A i \in 1 .. Len(decls) : Inside(decls[i])

Before(ds, end) == \A i \in 1 .. Len(ds) : ds[i].offset + ds[i].size <= end

\* Every unit begins at a multiple of its clamped alignment, which the struct has.
UnitsAligned(ds, max_align, align) ==
  \A i \in 1 .. Len(ds) :
    LET al == Lesser(ds[i].size, max_align)
    IN  ds[i].offset % al = 0 /\ align >= al

\* Behind a field of width above zero the engine is in that field's unit.
MsLast ==
  pushes # << >> /\ pushes[Len(pushes)].bits > 0 =>
    LET n == Len(decls) IN
    /\ n > 0
    /\ decls[n].offset = bl.offset /\ decls[n].size = bl.cur_type_size
    /\ BitRange(decls[n], bl.byte_order).hi = Microsoft_position(bl)

MsInv ==
  /\ bl \in TypeObj
  /\ Nests(decls)
  /\ UnitsAligned(decls, bl.max_align, bl.align)
  /\ pc # "idle" => /\ MsGood(bl)
                    /\ Holds(decls, bl.offset, bl.cur_type_size, bl.bit_offset > 0)
                    /\ MsLast
  /\ pc = "idle" => Before(decls, bl.offset)

SimInv ==
  /\ bl \in BlockObj
  /\ Nests(decls)
  /\ pc # "idle" => /\ SimGood(bl)
                    /\ Holds(decls, SimStart(bl), bl.block_size, SimUsed(bl))
                    /\ sound => bl.bits_left >= 0
  /\ pc = "idle" => Before(decls, bl.offset)

GenInv ==
  /\ bl \in TypeObj
  /\ pc # "idle" => GenGood(bl)

IInv ==
  /\ Common
  /\ class = "Microsoft" => MsInv
  /\ class = "Simple" => SimInv
  /\ class = "Generic" => GenInv

\* Nothing is laid out at first.
LEMMA InitInv == Init => IInv
<1> SUFFICES ASSUME Init PROVE IInv
  OBVIOUS
<1>1. decls = << >> /\ pushes = << >> /\ sound = TRUE /\ pc = "idle" /\ class \in Classes
  BY DEF Init, Classes
<1>2. Len(decls) = 0
  BY <1>1
<1>3. Common
  BY <1>1, <1>2 DEF Common
<1>4. Nests(decls) /\ \A e : Before(decls, e)
  BY <1>2 DEF Nests, Before
<1>5. \A m, a : UnitsAligned(decls, m, a)
  BY <1>2 DEF UnitsAligned
<1>6. class # "Simple" => bl \in TypeObj
  BY DEF Init, bl_create, Generic_init, Microsoft_init, TypeObj, ByteOrders
<1>7. class = "Simple" => bl \in BlockObj
  BY EngineAssumption DEF Init, Simple_init, BlockObj, ByteOrders, Sizes
<1> QED BY <1>1, <1>3, <1>4, <1>5, <1>6, <1>7 DEF IInv, MsInv, SimInv, GenInv

\* A run begins with the object cleared, whatever was left in it.
LEMMA OpenFacts ==
  ASSUME IInv, NEW s \in Starts, NEW p \in Packs, NEW a \in StructAligns, NEW o \in ByteOrders,
         Open(s, p, a, o)
  PROVE  /\ bl'.byte_order = o
         /\ class # "Simple" =>
              bl' = [max_align |-> p, align |-> a, offset |-> s, byte_order |-> o,
                     bit_offset |-> 0, cur_type_size |-> 0, cur_type_align |-> 0]
         /\ class = "Simple" =>
              /\ bl' \in BlockObj /\ bl'.offset = s /\ bl'.pos = 0
              /\ bl'.bits_left = 8 * bl'.block_size
<1>0. s \in Nat /\ p \in Aligns /\ a \in Nat
  BY EngineAssumption DEF Aligns
<1>1. CASE class = "Simple"
  <2>1. bl \in BlockObj
    BY <1>1 DEF IInv, SimInv
  <2> DEFINE f == bl.offset + (bl.block_size - (bl.offset % bl.block_size))
  <2>2. bl_reset(class, bl) = [bl EXCEPT !.offset = f, !.pos = 0, !.bits_left = 8 * bl.block_size]
    BY <1>1 DEF bl_reset, Simple_reset, Bits
  <2>3. bl' = [[bl EXCEPT !.offset = f, !.pos = 0, !.bits_left = 8 * bl.block_size]
               EXCEPT !.max_align = p, !.align = a, !.offset = s, !.byte_order = o]
    BY <2>2, Zenon DEF Open
  <2> HIDE DEF f
  <2>4. bl' = [max_align |-> p, align |-> a, offset |-> s, byte_order |-> o,
               block_size |-> bl.block_size, pos |-> 0, bits_left |-> 8 * bl.block_size]
    BY <2>1, <2>3 DEF BlockObj
  <2>5. bl.block_size \in Sizes /\ 8 * bl.block_size \in Int
    BY <2>1 DEF BlockObj, Sizes
  <2>6. bl' \in BlockObj
    BY <1>0, <2>4, <2>5 DEF BlockObj
  <2> QED BY <1>1, <2>4, <2>6
<1>2. CASE class # "Simple"
  <2>1. bl \in TypeObj
    BY <1>2 DEF IInv, Common, Classes, MsInv, GenInv
  <2>2. bl_reset(class, bl) = [bl EXCEPT !.bit_offset = 0, !.cur_type_size = 0, !.cur_type_align = 0]
    BY <1>2 DEF bl_reset, Generic_reset, Microsoft_reset, IInv, Common, Classes
  <2>3. bl' = [[bl EXCEPT !.bit_offset = 0, !.cur_type_size = 0, !.cur_type_align = 0]
               EXCEPT !.max_align = p, !.align = a, !.offset = s, !.byte_order = o]
    BY <2>2, Zenon DEF Open
  <2>4. bl' = [max_align |-> p, align |-> a, offset |-> s, byte_order |-> o,
               bit_offset |-> 0, cur_type_size |-> 0, cur_type_align |-> 0]
    BY <2>1, <2>3 DEF TypeObj
  <2> QED BY <1>2, <2>4
<1> QED BY <1>1, <1>2

\* The beginning of a run keeps the invariant, with nothing laid out in it yet.
LEMMA OpenInv ==
  ASSUME IInv, NEW s \in Starts, NEW p \in Packs, NEW a \in StructAligns, NEW o \in ByteOrders,
         Open(s, p, a, o)
  PROVE  IInv'
<1>0. s \in Nat /\ p \in Aligns /\ a \in Nat
  BY EngineAssumption DEF Aligns
<1>1. decls' = << >> /\ pushes' = << >> /\ sound' = TRUE /\ pc' = "first" /\ class' = class
  BY DEF Open
<1>2. Len(decls') = 0
  BY <1>1
<1>3. Common'
  BY <1>1, <1>2 DEF Common, IInv
<1>4. Nests(decls') /\ \A x, y, z : Holds(decls', x, y, z)
  BY <1>2 DEF Nests, Holds
<1>5. \A m, al : UnitsAligned(decls', m, al)
  BY <1>2 DEF UnitsAligned
<1>6. ASSUME class # "Simple" PROVE bl' \in TypeObj /\ MsGood(bl') /\ GenGood(bl')
  <2>1. bl' = [max_align |-> p, align |-> a, offset |-> s, byte_order |-> o,
               bit_offset |-> 0, cur_type_size |-> 0, cur_type_align |-> 0]
    BY <1>6, OpenFacts
  <2>2. bl' \in TypeObj
    BY <1>0, <2>1 DEF TypeObj
  <2> QED BY <1>0, <2>1, <2>2 DEF MsGood, GenGood
<1>7. class = "Microsoft" => MsInv'
  BY <1>1, <1>4, <1>5, <1>6 DEF MsInv, MsLast
<1>8. class = "Generic" => GenInv'
  BY <1>6 DEF GenInv
<1>9. class = "Simple" => SimInv'
  <2> SUFFICES ASSUME class = "Simple" PROVE SimInv'
    OBVIOUS
  <2>1. bl' \in BlockObj /\ bl'.bits_left = 8 * bl'.block_size
    BY OpenFacts
  <2>2. bl'.bits_left >= 0 /\ bl'.bits_left <= 8 * bl'.block_size
    BY <2>1 DEF BlockObj, Sizes
  <2> QED BY <1>1, <1>4, <2>1, <2>2 DEF SimInv, SimGood
<1> QED BY <1>1, <1>3, <1>7, <1>8, <1>9 DEF IInv

\* Another unit on its boundary, in a struct whose alignment may have grown.
LEMMA AlignedAppend ==
  ASSUME NEW ds \in Seq(Decl), NEW m \in Aligns, NEW a \in Nat, NEW a2 \in Nat, a2 >= a,
         UnitsAligned(ds, m, a), NEW d \in Decl,
         d.offset % Lesser(d.size, m) = 0, a2 >= Lesser(d.size, m)
  PROVE  UnitsAligned(ds, m, a2) /\ UnitsAligned(Append(ds, d), m, a2)
<1>1. UnitsAligned(ds, m, a2)
  <2> SUFFICES ASSUME NEW i \in 1 .. Len(ds)
               PROVE  ds[i].offset % Lesser(ds[i].size, m) = 0 /\ a2 >= Lesser(ds[i].size, m)
    BY DEF UnitsAligned
  <2>1. ds[i].size \in Sizes
    <3>1. ds[i] \in Decl
      OBVIOUS
    <3> QED BY <3>1 DEF Decl
  <2>2. Lesser(ds[i].size, m) \in Nat
    BY <2>1, LesserFacts DEF Sizes
  <2>3. ds[i].offset % Lesser(ds[i].size, m) = 0 /\ a >= Lesser(ds[i].size, m)
    BY DEF UnitsAligned
  <2> QED BY <2>2, <2>3
<1>2. ASSUME NEW i \in 1 .. Len(Append(ds, d))
      PROVE  Append(ds, d)[i] = d \/ (i \in 1 .. Len(ds) /\ Append(ds, d)[i] = ds[i])
  OBVIOUS
<1> QED BY <1>1, <1>2 DEF UnitsAligned

\* A push of the Microsoft engine keeps its invariant.
LEMMA MsPushInv ==
  ASSUME IInv, class = "Microsoft", NEW r \in Requests, Push(r)
  PROVE  /\ MsInv'
         /\ r.bits > 0 => Pushed(r).decl \in Decl /\ Inside(Pushed(r).decl)
<1> DEFINE bits == r.bits
           s == r.size
           p == Microsoft_push(bl, bits, s, s)
           u == Microsoft_unit(Microsoft_retype(bl, s, s), bits)
           d == p.decl
<1>1. r \in Request /\ bits \in Nat /\ s \in Sizes
  BY EngineAssumption DEF Request, Sizes
<1>2. Pushed(r) = p
  BY DEF Pushed, bl_push
<1>3. /\ ~p.refused /\ bl' = p.bl /\ pc' = "next" /\ pushes' = Append(pushes, r)
      /\ decls' = IF bits = 0 THEN decls ELSE Append(decls, d)
  BY <1>2 DEF Push
<1>4. /\ MsGood(bl) /\ Holds(decls, bl.offset, bl.cur_type_size, bl.bit_offset > 0)
      /\ Nests(decls) /\ UnitsAligned(decls, bl.max_align, bl.align)
      /\ decls \in Seq(Decl) /\ pushes \in Seq(Request)
  BY DEF IInv, Common, MsInv, Push, MayPush
<1> HIDE DEF bits, s
<1>0. p = Microsoft_push(bl, bits, s, s) /\ u = Microsoft_unit(Microsoft_retype(bl, s, s), bits) /\ d = p.decl
  OBVIOUS
<1> HIDE DEF p, u, d
<1>5. /\ MsGood(u) /\ MsAhead(bl, u) /\ u.cur_type_size = s
      /\ u.bit_offset + bits <= 8 * s
      /\ bits = 0 => u.bit_offset = 0
      /\ MsGood(p.bl)
      /\ p.bl.offset = u.offset /\ p.bl.bit_offset = u.bit_offset + bits
      /\ p.bl.cur_type_size = s /\ p.bl.max_align = u.max_align
      /\ p.bl.align = u.align /\ p.bl.byte_order = u.byte_order
      /\ d = [offset |-> u.offset, size |-> s, bits |-> bits,
              pos |-> UnitPos(u.byte_order, s, u.bit_offset, bits)]
      /\ d \in Decl
  BY <1>0, <1>1, <1>3, <1>4, MsPush
<1>6. /\ bl \in TypeObj /\ bl.offset \in Nat /\ bl.bit_offset \in Nat /\ bl.cur_type_size \in Nat
      /\ bl.align \in Nat /\ bl.max_align \in Aligns
  BY <1>4 DEF MsGood, TypeObj, Sizes
<1>7. /\ u \in TypeObj /\ u.offset \in Nat /\ u.bit_offset \in Nat /\ u.align \in Nat
      /\ u.max_align = bl.max_align /\ u.byte_order = bl.byte_order /\ u.byte_order \in ByteOrders
      /\ u.align >= bl.align
      /\ u = bl \/ (u.bit_offset = 0 /\ u.offset >= MsReach(bl))
  BY <1>5 DEF MsGood, TypeObj, MsAhead
<1>8. s \in Nat /\ s # 0 /\ Lesser(s, bl.max_align) \in Sizes
      /\ u.offset % Lesser(s, bl.max_align) = 0 /\ u.align >= Lesser(s, bl.max_align)
  BY <1>1, <1>5, <1>6, <1>7, LesserFacts DEF MsGood, Sizes
<1>9. /\ d.offset = u.offset /\ d.size = s /\ d.bits = bits
      /\ BitRange(d, u.byte_order).hi = 8 * u.offset + u.bit_offset + bits
      /\ Inside(d)
  <2>1. u.bit_offset \in Int /\ u.bit_offset >= 0
    BY <1>7
  <2>2. BitRange(d, u.byte_order)
          = [lo |-> 8 * u.offset + u.bit_offset, hi |-> 8 * u.offset + u.bit_offset + bits]
    BY <1>1, <1>5, <1>7, <2>1, PlacedFacts
  <2>3. Inside(d)
    BY <1>1, <1>5, <1>7, <2>1, PlacedFacts
  <2> QED BY <1>5, <2>2, <2>3
<1>10. MsReach(bl) = IF bl.bit_offset > 0 THEN bl.offset + bl.cur_type_size ELSE bl.offset
  BY DEF MsReach
<1> PICK used \in BOOLEAN : used <=> bl.bit_offset > 0
  OBVIOUS
<1>11. /\ Holds(decls, bl.offset, bl.cur_type_size, used)
       /\ \/ d.offset = bl.offset /\ d.size = bl.cur_type_size
          \/ d.offset >= IF used THEN bl.offset + bl.cur_type_size ELSE bl.offset
  <2>1. Holds(decls, bl.offset, bl.cur_type_size, used)
    BY <1>4 DEF Holds
  <2> QED BY <1>5, <1>7, <1>9, <1>10, <2>1
<1>12. CASE bits > 0
  <2>1. decls' = Append(decls, d)
    BY <1>1, <1>3, <1>12
  <2>2. /\ Append(decls, d) \in Seq(Decl) /\ Nests(Append(decls, d))
        /\ Holds(Append(decls, d), d.offset, d.size, TRUE)
    <3>1. \A i \in 1 .. Len(decls) : Follows(d, decls[i])
      <4>1. decls \in Seq(Decl) /\ d \in Decl /\ bl.offset \in Nat /\ bl.cur_type_size \in Nat
        BY <1>4, <1>5, <1>6
      <4> QED BY <1>11, <4>1, HoldsFollows
    <3> QED BY <1>4, <1>5, <3>1, NestsAppend
  <2>3. UnitsAligned(Append(decls, d), bl.max_align, u.align)
    BY <1>4, <1>5, <1>6, <1>7, <1>8, <1>9, AlignedAppend
  <2>4. Holds(decls', bl'.offset, bl'.cur_type_size, bl'.bit_offset > 0)
    <3>1. bl'.bit_offset > 0
      BY <1>1, <1>3, <1>5, <1>7, <1>12
    <3> QED BY <1>3, <1>5, <1>9, <2>1, <2>2, <3>1 DEF Holds
  <2>5. MsLast'
    <3>1. /\ Len(decls') = Len(decls) + 1 /\ Len(decls) \in Nat /\ decls'[Len(decls')] = d
      BY <1>4, <1>5, <2>1
    <3>2. Microsoft_position(bl') = 8 * u.offset + u.bit_offset + bits
      BY <1>1, <1>3, <1>5, <1>7 DEF Microsoft_position, Bits
    <3> QED BY <1>3, <1>5, <1>7, <1>9, <3>1, <3>2 DEF MsLast
  <2>6. MsInv'
    BY <1>3, <1>5, <1>7, <2>1, <2>2, <2>3, <2>4, <2>5 DEF MsInv, MsGood
  <2> QED BY <1>0, <1>2, <1>5, <1>9, <2>6
<1>13. CASE bits = 0
  <2>1. decls' = decls /\ bl'.bit_offset = 0 /\ bl'.offset = u.offset
    BY <1>3, <1>5, <1>13
  <2>2. \A i \in 1 .. Len(decls) : decls[i].offset + decls[i].size <= u.offset
    <3>1. u.offset >= IF bl.bit_offset > 0 THEN bl.offset + bl.cur_type_size ELSE bl.offset
      BY <1>5, <1>6, <1>7, <1>10, <1>13
    <3> QED BY <1>4, <1>6, <1>7, <1>11, <3>1, HoldsBehind, SMTT(60)
  <2>3. Holds(decls', bl'.offset, bl'.cur_type_size, bl'.bit_offset > 0)
    BY <2>1, <2>2 DEF Holds
  <2>4. UnitsAligned(decls, bl.max_align, u.align)
    BY <1>4, <1>5, <1>6, <1>7, <1>8, <1>9, AlignedAppend
  <2>5. MsLast'
    <3>1. pushes'[Len(pushes')] = r
      BY <1>1, <1>3, <1>4
    <3> QED BY <1>13, <3>1 DEF MsLast, bits
  <2>6. MsInv'
    BY <1>3, <1>4, <1>5, <1>7, <2>1, <2>3, <2>4, <2>5 DEF MsInv, MsGood
  <2> QED BY <1>13, <2>6 DEF bits
<1> QED BY <1>1, <1>12, <1>13

\* A push of the Simple engine keeps its invariant; a field lies in its block
\* unless it is wider than that.
LEMMA SimPushInv ==
  ASSUME IInv, class = "Simple", NEW r \in Requests, Push(r)
  PROVE  /\ SimInv'
         /\ r.bits > 0 => Pushed(r).decl \in Decl
         /\ r.bits > 0 /\ sound' => Inside(Pushed(r).decl)
<1> DEFINE bits == r.bits
           p == Simple_push(bl, bits)
           u == Simple_block(bl, bits)
           d == p.decl
<1>1. r \in Request /\ bits \in Nat
  BY EngineAssumption DEF Request, Sizes
<1>2. Pushed(r) = p
  BY DEF Pushed, bl_push
<1>3. /\ bl' = p.bl /\ pc' = "next"
      /\ decls' = IF bits = 0 THEN decls ELSE Append(decls, d)
      /\ sound' => sound /\ bits <= 8 * bl.block_size
  BY <1>2 DEF Push, Copes, Bits
<1>4. /\ SimGood(bl) /\ Holds(decls, SimStart(bl), bl.block_size, SimUsed(bl))
      /\ Nests(decls) /\ decls \in Seq(Decl)
      /\ sound => bl.bits_left >= 0
  BY DEF IInv, Common, SimInv, Push, MayPush
<1> HIDE DEF bits
<1>0. p = Simple_push(bl, bits) /\ u = Simple_block(bl, bits) /\ d = p.decl
  OBVIOUS
<1> HIDE DEF p, u, d
<1>5. /\ SimGood(u)
      /\ u = bl \/ (SimStart(u) = SimStart(bl) + bl.block_size /\ ~SimUsed(u))
      /\ bits = 0 => ~SimUsed(u)
      /\ bits <= 8 * bl.block_size => bits <= u.bits_left
      /\ SimGood(p.bl)
      /\ SimStart(p.bl) = SimStart(u) /\ p.bl.bits_left = u.bits_left - bits
      /\ p.bl.block_size = bl.block_size /\ p.bl.byte_order = bl.byte_order
      /\ u.block_size = bl.block_size
      /\ d = [offset |-> SimStart(u), size |-> bl.block_size, bits |-> bits,
              pos |-> UnitPos(bl.byte_order, bl.block_size,
                              8 * bl.block_size - u.bits_left, bits)]
  BY <1>0, <1>1, <1>4, SimPush
<1>6. /\ bl \in BlockObj /\ bl.block_size \in Sizes /\ bl.block_size \in Nat
      /\ bl.byte_order \in ByteOrders /\ SimStart(bl) \in Nat
  BY <1>4 DEF SimGood, BlockObj, Sizes, SimStart
<1>7. u.bits_left \in Int /\ u.bits_left <= 8 * bl.block_size /\ SimStart(u) \in Nat
  BY <1>5 DEF SimGood, BlockObj, SimStart
<1>8. /\ d \in Decl /\ d.offset = SimStart(u) /\ d.size = bl.block_size
      /\ bits <= u.bits_left => Inside(d)
  <2> DEFINE w == 8 * bl.block_size - u.bits_left
  <2>1. w \in Int /\ w >= 0 /\ (bits <= u.bits_left => w + bits <= 8 * bl.block_size)
    BY <1>1, <1>6, <1>7
  <2>2. d = [offset |-> SimStart(u), size |-> bl.block_size, bits |-> bits,
             pos |-> UnitPos(bl.byte_order, bl.block_size, w, bits)]
    BY <1>5
  <2> HIDE DEF w
  <2>3. d \in Decl
    BY <1>1, <1>6, <1>7, <2>1, <2>2, PlacedFacts
  <2>4. bits <= u.bits_left => Inside(d)
    BY <1>1, <1>6, <1>7, <2>1, <2>2, PlacedFacts
  <2> QED BY <2>2, <2>3, <2>4
<1>9. sound' => bits <= u.bits_left
  BY <1>3, <1>5
<1>10. sound' => bl'.bits_left >= 0
  BY <1>1, <1>3, <1>5, <1>7, <1>9
<1> PICK used \in BOOLEAN : used <=> SimUsed(bl)
  OBVIOUS
<1>11. Holds(decls, SimStart(bl), bl.block_size, used)
  BY <1>4 DEF Holds
<1>12. CASE bits > 0
  <2>1. decls' = Append(decls, d)
    BY <1>1, <1>3, <1>12
  <2>2. \/ d.offset = SimStart(bl) /\ d.size = bl.block_size
        \/ d.offset >= IF used THEN SimStart(bl) + bl.block_size ELSE SimStart(bl)
    BY <1>5, <1>6, <1>8
  <2>3. \A i \in 1 .. Len(decls) : Follows(d, decls[i])
    BY <1>4, <1>6, <1>8, <1>11, <2>2, HoldsFollows
  <2>4. /\ Nests(Append(decls, d)) /\ Holds(Append(decls, d), d.offset, d.size, TRUE)
    BY <1>4, <1>8, <2>3, NestsAppend
  <2>5. SimUsed(bl')
    BY <1>1, <1>3, <1>5, <1>6, <1>7, <1>12 DEF SimUsed
  <2>6. Holds(decls', SimStart(bl'), bl'.block_size, SimUsed(bl'))
    BY <1>3, <1>5, <1>8, <2>1, <2>4, <2>5 DEF Holds
  <2>7. SimInv'
    BY <1>3, <1>5, <1>10, <2>1, <2>4, <2>6 DEF SimInv, SimGood
  <2> QED BY <1>0, <1>2, <1>8, <1>9, <2>7
<1>13. CASE bits = 0
  <2>1. decls' = decls
    BY <1>3, <1>13
  <2>2. SimStart(u) >= IF used THEN SimStart(bl) + bl.block_size ELSE SimStart(bl)
    BY <1>5, <1>6, <1>13
  <2>3. \A i \in 1 .. Len(decls) : decls[i].offset + decls[i].size <= SimStart(u)
    BY <1>4, <1>6, <1>7, <1>11, <2>2, HoldsBehind
  <2>4. Holds(decls', SimStart(bl'), bl'.block_size, SimUsed(bl'))
    BY <1>3, <1>5, <2>1, <2>3 DEF Holds
  <2>5. SimInv'
    BY <1>3, <1>4, <1>5, <1>10, <2>1, <2>4 DEF SimInv, SimGood
  <2> QED BY <1>13, <2>5 DEF bits
<1> QED BY <1>1, <1>12, <1>13

\* A push of the Generic engine keeps its invariant.
LEMMA GenPushInv ==
  ASSUME IInv, class = "Generic", NEW r \in Requests, Push(r)
  PROVE  GenInv' /\ Pushed(r).decl \in Decl /\ Inside(Pushed(r).decl)
<1> DEFINE p == Generic_push(bl, r.bits, r.size, r.size)
           u == Generic_moved(Generic_retype(bl, r.size, r.size), r.bits)
<1>1. r.bits \in Nat /\ r.size \in Sizes
  BY EngineAssumption DEF Request, Sizes
<1>2. Pushed(r) = p
  BY DEF Pushed, bl_push
<1>3. bl' = p.bl /\ pc' = "next" /\ r.bits <= 8 * r.size
  BY <1>2 DEF Push, MayPush, Bits
<1>4. GenGood(bl)
  BY DEF IInv, GenInv, Push, MayPush
<1>0. p = Generic_push(bl, r.bits, r.size, r.size) /\ u = Generic_moved(Generic_retype(bl, r.size, r.size), r.bits)
  OBVIOUS
<1> HIDE DEF p, u
<1>5. GenGood(p.bl) /\ p.decl \in Decl /\ Inside(p.decl)
  BY <1>0, <1>1, <1>3, <1>4, GenPush, ZenonT(60)
<1> QED BY <1>2, <1>3, <1>5 DEF GenInv, GenGood

\* Every push keeps the invariant.
LEMMA PushInv ==
  ASSUME IInv, NEW r \in Requests, Push(r)
  PROVE  IInv'
<1> DEFINE d == Pushed(r).decl
<1>1. /\ pc' = "next" /\ class' = class /\ pushes' = Append(pushes, r)
      /\ decls' = IF r.bits = 0 THEN decls ELSE Append(decls, d)
      /\ sound' \in BOOLEAN /\ (sound' => sound)
  BY DEF Push, IInv, Common
<1>2. Common
  BY DEF IInv
<1>3. r \in Request /\ r.bits \in Nat
  BY EngineAssumption DEF Request, Sizes
<1>4. r.bits > 0 => d \in Decl /\ (sound' => Inside(d))
  <2>1. CASE class = "Microsoft"
    BY <2>1, MsPushInv
  <2>2. CASE class = "Simple"
    BY <2>2, SimPushInv
  <2>3. CASE class = "Generic"
    BY <2>3, GenPushInv
  <2> QED BY <1>2, <2>1, <2>2, <2>3 DEF Common, Classes
<1> HIDE DEF d
<1>5. pushes' \in Seq(Request) /\ pushes' # << >>
  BY <1>1, <1>2, <1>3 DEF Common
<1>6. decls' \in Seq(Decl) /\ (sound' => \A i \in 1 .. Len(decls') : Inside(decls'[i]))
  <2>1. CASE r.bits = 0
    BY <1>1, <1>2, <2>1 DEF Common
  <2>2. CASE r.bits > 0
    <3>1. decls' = Append(decls, d) /\ d \in Decl /\ decls \in Seq(Decl)
      BY <1>1, <1>2, <1>4, <2>2 DEF Common
    <3>2. Append(decls, d) \in Seq(Decl)
      BY <3>1
    <3>3. sound' => \A i \in 1 .. Len(Append(decls, d)) : Inside(Append(decls, d)[i])
      BY <1>1, <1>2, <1>4, <2>2, <3>1, EachAppend DEF Common
    <3> QED BY <3>1, <3>2, <3>3
  <2> QED BY <1>3, <2>1, <2>2
<1>7. Common'
  BY <1>1, <1>2, <1>5, <1>6 DEF Common
<1> QED BY <1>1, <1>7, MsPushInv, SimPushInv, GenPushInv DEF IInv

\* Only the Microsoft engine refuses a field; its object stays, and is reset
\* before it is used again.
LEMMA RefuseInv ==
  ASSUME IInv, NEW r \in Requests, Refuse(r)
  PROVE  IInv'
<1>1. /\ pc' = "idle" /\ class' = class /\ decls' = << >> /\ pushes' = << >> /\ sound' = FALSE
      /\ bl' = Pushed(r).bl
  BY DEF Refuse
<1>2. Len(decls') = 0 /\ decls' \in Seq(Decl) /\ pushes' \in Seq(Request)
  BY <1>1
<1>3. Common'
  <2>1. sound' \in BOOLEAN /\ ~sound'
    BY <1>1
  <2>2. pc' = "idle" /\ class' \in Classes
    BY <1>1 DEF Common, IInv
  <2> QED BY <1>2, <2>1, <2>2 DEF Common
<1>4. class = "Microsoft"
  BY DEF Refuse, Pushed, bl_push, Generic_push, Simple_push, IInv, Common, Classes
<1>5. bl' \in TypeObj
  <2> DEFINE t == Microsoft_retype(bl, r.size, r.size)
  <2>1. MsGood(bl)
    BY <1>4 DEF IInv, MsInv, Refuse, MayPush
  <2>2. r.size \in Sizes
    BY EngineAssumption DEF Sizes
  <2>3. t \in TypeObj
    BY <2>1, <2>2, MsRetype DEF MsGood
  <2>4. Pushed(r).bl = t
    BY <1>4 DEF Refuse, Pushed, bl_push, Microsoft_push
  <2> QED BY <1>1, <2>3, <2>4
<1>6. Nests(decls') /\ Before(decls', bl'.offset) /\ UnitsAligned(decls', bl'.max_align, bl'.align)
  BY <1>2 DEF Nests, Before, UnitsAligned
<1>7. MsInv'
  BY <1>1, <1>5, <1>6 DEF MsInv
<1> QED BY <1>1, <1>3, <1>4, <1>7 DEF IInv

\* At the end of a run all units lie before the offset.
LEMMA CloseInv ==
  ASSUME IInv, Close
  PROVE  IInv'
<1>1. /\ pc = "next" /\ pc' = "idle" /\ class' = class /\ decls' = decls /\ pushes' = pushes
      /\ sound' = sound /\ bl' = bl_finalize(class, bl) /\ decls \in Seq(Decl)
  BY DEF Close, IInv, Common
<1>2. Common'
  BY <1>1 DEF Common, IInv
<1>3. CASE class = "Microsoft"
  <2>1. /\ MsGood(bl) /\ Holds(decls, bl.offset, bl.cur_type_size, bl.bit_offset > 0)
        /\ Nests(decls) /\ UnitsAligned(decls, bl.max_align, bl.align)
    BY <1>1, <1>3 DEF IInv, MsInv
  <2>2. /\ bl' \in TypeObj /\ bl'.offset = MsReach(bl)
        /\ bl'.max_align = bl.max_align /\ bl'.align = bl.align
    BY <1>1, <1>3, <2>1, MsFinalize DEF bl_finalize
  <2> PICK used \in BOOLEAN : used <=> bl.bit_offset > 0
    OBVIOUS
  <2>3. Holds(decls, bl.offset, bl.cur_type_size, used)
    BY <2>1 DEF Holds
  <2>4. bl.offset \in Nat /\ bl.cur_type_size \in Nat
    BY <2>1 DEF MsGood, TypeObj, Sizes
  <2>5. bl'.offset \in Nat /\ bl'.offset >= IF used THEN bl.offset + bl.cur_type_size ELSE bl.offset
    BY <2>2, <2>4 DEF MsReach
  <2>6. \A i \in 1 .. Len(decls) : decls[i].offset + decls[i].size <= bl'.offset
    BY <1>1, <2>3, <2>4, <2>5, HoldsBehind
  <2>7. MsInv'
    BY <1>1, <2>1, <2>2, <2>6 DEF MsInv, Before
  <2> QED BY <1>1, <1>2, <1>3, <2>7 DEF IInv
<1>4. CASE class = "Simple"
  <2>1. /\ SimGood(bl) /\ Holds(decls, SimStart(bl), bl.block_size, SimUsed(bl)) /\ Nests(decls)
    BY <1>1, <1>4 DEF IInv, SimInv
  <2>2. bl' \in BlockObj /\ bl'.offset = SimReach(bl)
    BY <1>1, <1>4, <2>1, SimFinalize DEF bl_finalize
  <2> PICK used \in BOOLEAN : used <=> SimUsed(bl)
    OBVIOUS
  <2>3. Holds(decls, SimStart(bl), bl.block_size, used)
    BY <2>1 DEF Holds
  <2>4. SimStart(bl) \in Nat /\ bl.block_size \in Nat
    BY <2>1 DEF SimGood, BlockObj, Sizes, SimStart
  <2>5. bl'.offset \in Nat /\ bl'.offset >= IF used THEN SimStart(bl) + bl.block_size ELSE SimStart(bl)
    BY <2>2, <2>4 DEF SimReach
  <2>6. \A i \in 1 .. Len(decls) : decls[i].offset + decls[i].size <= bl'.offset
    BY <1>1, <2>3, <2>4, <2>5, HoldsBehind
  <2>7. SimInv'
    BY <1>1, <2>1, <2>2, <2>6 DEF SimInv, Before
  <2> QED BY <1>1, <1>2, <1>4, <2>7 DEF IInv
<1>5. CASE class = "Generic"
  <2>1. GenGood(bl)
    BY <1>1, <1>5 DEF IInv, GenInv
  <2>2. bl' \in TypeObj
    BY <1>1, <1>5, <2>1, GenFinalize DEF bl_finalize
  <2> QED BY <1>1, <1>2, <1>5, <2>2 DEF IInv, GenInv
<1> QED BY <1>3, <1>4, <1>5 DEF IInv, Common, Classes

\* Every step keeps the invariant.
LEMMA StepInv == IInv /\ [Next]_vars => IInv'
<1> SUFFICES ASSUME IInv, [Next]_vars PROVE IInv'
  OBVIOUS
<1>1. ASSUME NEW s \in Starts, NEW p \in Packs, NEW a \in StructAligns, NEW o \in ByteOrders,
             Open(s, p, a, o)
      PROVE  IInv'
  BY <1>1, OpenInv
<1>2. ASSUME NEW r \in Requests, Push(r) PROVE IInv'
  BY <1>2, PushInv
<1>3. ASSUME NEW r \in Requests, Refuse(r) PROVE IInv'
  BY <1>3, RefuseInv
<1>4. CASE Close
  BY <1>4, CloseInv
<1>5. CASE UNCHANGED vars
  BY <1>5 DEF vars, IInv, Common, MsInv, MsLast, SimInv, GenInv
<1> QED BY <1>1, <1>2, <1>3, <1>4, <1>5 DEF Next

\* The invariant holds at all times.
LEMMA Invariant == Spec => []IInv
BY InitInv, StepInv, PTL DEF Spec

-----------------------------------------------------------------------------
(* The properties.                                                         *)

\* UnitsNest: whatever is pushed to the Microsoft and the Simple engine, in
\* runs of any length, two fields share their storage unit or have disjoint
\* ones in the order of the fields; those of Microsoft are aligned, and so is
\* the struct.
THEOREM UnitsAlwaysNest == Spec => []UnitsNest
<1>1. IInv => UnitsNest
  <2> SUFFICES ASSUME IInv PROVE UnitsNest
    OBVIOUS
  <2>1. class # "Generic" => Nests(decls)
    BY DEF IInv, Common, Classes, MsInv, SimInv
  <2>2. class = "Microsoft" => UnitsAligned(decls, bl.max_align, bl.align)
    BY DEF IInv, MsInv
  <2> QED BY <2>1, <2>2 DEF UnitsNest, Nests, UnitsAligned
<1> QED BY <1>1, Invariant, PTL

\* UnitsInsideRun: each field lies in its unit, as long as the engine can cope
\* with the fields, and at its end each unit lies in the run.
THEOREM UnitsStayInside == Spec => []UnitsInsideRun
<1>1. IInv => UnitsInsideRun
  <2> SUFFICES ASSUME IInv PROVE UnitsInsideRun
    OBVIOUS
  <2>1. InsideUnit
    BY DEF IInv, Common, Inside, InsideUnit
  <2>2. class # "Generic" /\ pc = "idle" => Before(decls, bl.offset)
    BY DEF IInv, Common, Classes, MsInv, SimInv
  <2> QED BY <2>1, <2>2 DEF UnitsInsideRun, Before
<1> QED BY <1>1, Invariant, PTL

\* SharesWhenItFits: a field that still fits the unit of its predecessor and
\* has its type size goes there.
THEOREM UnitsAreShared == Spec => SharesWhenItFits
<1>1. ASSUME IInv, NEW r \in Requests,
             class = "Microsoft", Push(r), Len(decls) > 0,
             r.bits > 0, pushes[Len(pushes)].bits > 0,
             decls[Len(decls)].size = r.size,
             Fields[Len(decls)].hi + r.bits <= Bits(decls[Len(decls)].offset + decls[Len(decls)].size)
      PROVE  decls'[Len(decls) + 1].offset = decls[Len(decls)].offset
  <2> DEFINE n == Len(decls)
             p == Microsoft_push(bl, r.bits, r.size, r.size)
  <2>1. decls \in Seq(Decl) /\ n \in Nat /\ n \in 1 .. n
    BY <1>1 DEF IInv, Common
  <2>2. MsGood(bl) /\ MsLast /\ pushes # << >>
    BY <1>1, <2>1 DEF IInv, Common, MsInv, Push, MayPush
  <2>3. /\ decls[n].offset = bl.offset /\ bl.cur_type_size = r.size
        /\ BitRange(decls[n], bl.byte_order).hi = Microsoft_position(bl)
    BY <1>1, <2>2 DEF MsLast
  <2>4. Fields[n].hi = Microsoft_position(bl)
    BY <2>1, <2>3 DEF Fields
  <2>5. r.bits \in Nat /\ r.size \in Sizes /\ bl.offset \in Nat /\ bl.bit_offset \in Nat
    BY <2>2, EngineAssumption DEF Sizes, MsGood, TypeObj
  <2>6. bl.bit_offset + r.bits <= 8 * r.size
    <3>1. Microsoft_position(bl) + r.bits <= 8 * (bl.offset + r.size)
      BY <1>1, <2>3, <2>4 DEF Bits
    <3>2. r.size \in Nat /\ Microsoft_position(bl) = 8 * bl.offset + bl.bit_offset
      BY <2>5 DEF Microsoft_position, Bits, Sizes
    <3> QED BY <2>5, <3>1, <3>2
  <2>7. Microsoft_retype(bl, r.size, r.size) = bl
    BY <2>3 DEF Microsoft_retype
  <2>8. Microsoft_unit(bl, r.bits) = bl
    BY <1>1, <2>3, <2>5, <2>6, SMTT(60) DEF Microsoft_unit, Bits, Sizes
  <2>9. ~Microsoft_tooWide(bl, r.bits)
    BY <2>3, <2>5, <2>6 DEF Microsoft_tooWide, Bits, Sizes
  <2>10. p.decl.offset = bl.offset
    BY <2>7, <2>8, <2>9 DEF Microsoft_push, Microsoft_decl
  <2>11. decls' = Append(decls, p.decl)
    BY <1>1, <2>5 DEF Push, Pushed, bl_push
  <2> HIDE DEF p
  <2>12. decls'[n + 1] = p.decl
    BY <2>1, <2>11
  <2> QED BY <2>3, <2>10, <2>12
<1>2. IInv => \A r \in Requests :
       LET n == Len(decls) IN
       (/\ class = "Microsoft" /\ Push(r)
        /\ n > 0
        /\ r.bits > 0 /\ pushes[Len(pushes)].bits > 0
        /\ decls[n].size = r.size
        /\ Fields[n].hi + r.bits <= Bits(decls[n].offset + decls[n].size))
       => decls'[n + 1].offset = decls[n].offset
  BY <1>1
<1> QED BY <1>2, Invariant, PTL DEF SharesWhenItFits

-----------------------------------------------------------------------------
(* The engines implement BitAlloc.                                         *)

\* A push places a field of width above zero at its end position or, without
\* one, goes ahead.
Advances(r) ==
  /\ bl'.byte_order = bl.byte_order
  /\ Position \in Int /\ Position' \in Int
  /\ r.bits > 0 =>
       /\ Position' - r.bits >= Position
       /\ BitRange(Pushed(r).decl, bl.byte_order) = [lo |-> Position' - r.bits, hi |-> Position']
  /\ r.bits = 0 => Position' >= Position

\* A field of the Microsoft engine, if it is not refused, begins at the engine's
\* position or behind it.
LEMMA MsAdvances ==
  ASSUME IInv, class = "Microsoft", NEW r \in Requests, Push(r)
  PROVE  Advances(r)
<1> DEFINE p == Microsoft_push(bl, r.bits, r.size, r.size)
           u == Microsoft_unit(Microsoft_retype(bl, r.size, r.size), r.bits)
<1>1. r.bits \in Nat /\ r.size \in Sizes
  BY EngineAssumption DEF Sizes
<1>2. Pushed(r) = p
  BY DEF Pushed, bl_push
<1>3. ~p.refused /\ bl' = p.bl /\ pc' = "next" /\ pc # "idle" /\ class' = class
  BY <1>2 DEF Push, MayPush
<1>4. MsGood(bl)
  BY <1>3 DEF IInv, MsInv
<1>0. /\ p = Microsoft_push(bl, r.bits, r.size, r.size)
      /\ u = Microsoft_unit(Microsoft_retype(bl, r.size, r.size), r.bits)
  OBVIOUS
<1> HIDE DEF p, u
<1>5. /\ MsGood(u) /\ MsAhead(bl, u)
      /\ p.bl.offset = u.offset /\ p.bl.bit_offset = u.bit_offset + r.bits
      /\ p.bl.byte_order = u.byte_order
      /\ p.decl = [offset |-> u.offset, size |-> r.size, bits |-> r.bits,
                   pos |-> UnitPos(u.byte_order, r.size, u.bit_offset, r.bits)]
  BY <1>0, <1>1, <1>3, <1>4, MsPush
<1>6. /\ u.offset \in Nat /\ u.bit_offset \in Nat /\ u.bit_offset \in Int /\ u.byte_order \in ByteOrders
      /\ u.byte_order = bl.byte_order
      /\ 8 * u.offset + u.bit_offset >= Microsoft_position(bl)
  BY <1>5 DEF MsGood, TypeObj, MsAhead, Microsoft_position, Bits
<1>7. Microsoft_position(bl) \in Int
  BY <1>4 DEF MsGood, TypeObj, Microsoft_position, Bits
<1>8. Position = Microsoft_position(bl) /\ Position' = 8 * u.offset + u.bit_offset + r.bits
  <2>1. Position = Microsoft_position(bl) /\ Position' = Microsoft_position(bl')
    BY <1>3 DEF Position
  <2>2. Microsoft_position(bl') = 8 * u.offset + u.bit_offset + r.bits
    BY <1>1, <1>3, <1>5, <1>6 DEF Microsoft_position, Bits
  <2> QED BY <2>1, <2>2
<1>9. BitRange(p.decl, u.byte_order)
        = [lo |-> 8 * u.offset + u.bit_offset, hi |-> 8 * u.offset + u.bit_offset + r.bits]
  BY <1>1, <1>5, <1>6, PlacedFacts
<1>10. 8 * u.offset + u.bit_offset = Position' - r.bits
  BY <1>1, <1>6, <1>8
<1> QED BY <1>1, <1>2, <1>3, <1>5, <1>6, <1>7, <1>8, <1>9, <1>10 DEF Advances

\* So does one of the Simple engine behind fields that fit their blocks,
LEMMA SimAdvances ==
  ASSUME IInv, class = "Simple", NEW r \in Requests, Push(r), sound
  PROVE  Advances(r)
<1> DEFINE p == Simple_push(bl, r.bits)
           u == Simple_block(bl, r.bits)
<1>1. r.bits \in Nat
  BY EngineAssumption
<1>2. Pushed(r) = p
  BY DEF Pushed, bl_push
<1>3. bl' = p.bl /\ pc' = "next" /\ pc # "idle" /\ class' = class
  BY <1>2 DEF Push, MayPush
<1>4. SimGood(bl) /\ bl.bits_left >= 0
  BY <1>3 DEF IInv, SimInv
<1>0. p = Simple_push(bl, r.bits) /\ u = Simple_block(bl, r.bits)
  OBVIOUS
<1> HIDE DEF p, u
<1>5. /\ SimGood(u) /\ SimGood(p.bl)
      /\ Simple_position(u) >= Simple_position(bl)
      /\ SimStart(p.bl) = SimStart(u) /\ p.bl.bits_left = u.bits_left - r.bits
      /\ p.bl.block_size = bl.block_size /\ p.bl.byte_order = bl.byte_order
      /\ u.block_size = bl.block_size
      /\ p.decl = [offset |-> SimStart(u), size |-> bl.block_size, bits |-> r.bits,
                   pos |-> UnitPos(bl.byte_order, bl.block_size,
                                   8 * bl.block_size - u.bits_left, r.bits)]
  BY <1>0, <1>1, <1>4, SimPush
<1> DEFINE w == 8 * bl.block_size - u.bits_left
<1>6. /\ SimStart(u) \in Nat /\ u.bits_left \in Int /\ bl.block_size \in Sizes /\ bl.block_size \in Nat
      /\ bl.byte_order \in ByteOrders
  <2>1. SimStart(u) \in Nat /\ u.bits_left \in Int
    BY <1>5 DEF SimGood, BlockObj, SimStart
  <2> QED BY <1>4, <2>1 DEF SimGood, BlockObj, Sizes
<1>7. w \in Int /\ Simple_position(u) = 8 * SimStart(u) + w
  BY <1>5, <1>6 DEF Simple_position, Bits, SimStart
<1>8. Simple_position(p.bl) = 8 * SimStart(u) + w + r.bits
  <2>1. Simple_position(p.bl) = 8 * SimStart(p.bl) + 8 * p.bl.block_size - p.bl.bits_left
    BY DEF Simple_position, Bits, SimStart
  <2> QED BY <1>1, <1>5, <1>6, <2>1
<1>9. Simple_position(bl) \in Int
  BY <1>4 DEF SimGood, BlockObj, Sizes, Simple_position, Bits
<1>10. p.decl = [offset |-> SimStart(u), size |-> bl.block_size, bits |-> r.bits,
                 pos |-> UnitPos(bl.byte_order, bl.block_size, w, r.bits)]
  BY <1>5
<1> HIDE DEF w
<1>11. BitRange(p.decl, bl.byte_order)
         = [lo |-> 8 * SimStart(u) + w, hi |-> 8 * SimStart(u) + w + r.bits]
  BY <1>1, <1>6, <1>7, <1>10, PlacedFacts
<1>12. Position = Simple_position(bl) /\ Position' = 8 * SimStart(u) + w + r.bits
  BY <1>3, <1>8 DEF Position
<1>13. 8 * SimStart(u) + w = Position' - r.bits
  BY <1>1, <1>6, <1>7, <1>12
<1> QED BY <1>1, <1>2, <1>3, <1>5, <1>6, <1>7, <1>9, <1>11, <1>12, <1>13 DEF Advances

\* and one of the Generic engine that is no wider than its type.
LEMMA GenAdvances ==
  ASSUME IInv, class = "Generic", NEW r \in Requests, Push(r), Copes(r)
  PROVE  Advances(r)
<1> DEFINE p == Generic_push(bl, r.bits, r.size, r.size)
           u == Generic_moved(Generic_retype(bl, r.size, r.size), r.bits)
<1>1. r.bits \in Nat /\ r.size \in Sizes
  BY EngineAssumption DEF Sizes
<1>2. Pushed(r) = p
  BY DEF Pushed, bl_push
<1>3. /\ bl' = p.bl /\ pc' = "next" /\ pc # "idle" /\ class' = class
      /\ r.bits <= 8 * r.size /\ (r.bits > 0 \/ r.size <= bl.max_align)
  BY <1>2 DEF Push, MayPush, Copes, Bits
<1>4. GenGood(bl)
  BY <1>3 DEF IInv, GenInv
<1>0. /\ p = Generic_push(bl, r.bits, r.size, r.size)
      /\ u = Generic_moved(Generic_retype(bl, r.size, r.size), r.bits)
  OBVIOUS
<1> HIDE DEF p, u
<1>5. /\ Generic_position(u) \in Int /\ Generic_position(u) >= Generic_position(bl)
      /\ GenGood(p.bl)
      /\ p.bl.byte_order = bl.byte_order
      /\ r.bits > 0 => Generic_position(p.bl) = Generic_position(u) + r.bits
      /\ r.bits = 0 /\ r.size <= bl.max_align => Generic_position(p.bl) >= Generic_position(bl)
      /\ BitRange(p.decl, bl.byte_order) =
           [lo |-> Generic_position(u), hi |-> Generic_position(u) + r.bits]
  BY <1>0, <1>1, <1>3, <1>4, GenPush
<1>6. Generic_position(bl) \in Int /\ Generic_position(p.bl) \in Int
  BY <1>4, <1>5 DEF GenGood, TypeObj, Generic_position, Bits
<1>7. Position = Generic_position(bl) /\ Position' = Generic_position(p.bl)
  BY <1>3 DEF Position
<1>8. r.bits > 0 => Generic_position(u) = Position' - r.bits
  BY <1>1, <1>5, <1>7
<1> QED BY <1>1, <1>2, <1>3, <1>5, <1>6, <1>7, <1>8 DEF Advances

\* The fields that a run of declarators describes, with one more.
LEMMA FieldsAppend ==
  ASSUME NEW ds \in Seq(Decl), NEW d \in Decl, NEW order
  PROVE  [i \in 1 .. Len(Append(ds, d)) |-> BitRange(Append(ds, d)[i], order)]
           = Append([i \in 1 .. Len(ds) |-> BitRange(ds[i], order)], BitRange(d, order))
<1> DEFINE R(e) == BitRange(e, order)
<1> HIDE DEF R
<1>1. [i \in 1 .. Len(Append(ds, d)) |-> R(Append(ds, d)[i])]
        = Append([i \in 1 .. Len(ds) |-> R(ds[i])], R(d))
  OBVIOUS
<1> QED BY <1>1 DEF R

\* The variables of BitAlloc, as EngineRun maps them.
Frontier  == IF sound /\ (pc = "first" \/ pushes # << >>) THEN Position ELSE 0
SoundPart == IF sound THEN Fields ELSE << >>
Mode      == IF sound /\ pc # "idle" THEN "run" ELSE "idle"

\* A sound push is a field placed, or a separator.
LEMMA PushIsAlloc ==
  ASSUME IInv, NEW r \in Requests, Push(r), sound'
  PROVE  Alloc!Next
<1>1. sound /\ Copes(r) /\ pc \in {"first", "next"} /\ pc' = "next" /\ pushes' = Append(pushes, r)
  BY DEF Push, MayPush
<1>2. /\ class \in Classes /\ decls \in Seq(Decl) /\ pushes \in Seq(Request)
      /\ pc = "next" => pushes # << >>
  BY DEF IInv, Common
<1>3. r \in Request /\ r.bits \in Nat
  BY EngineAssumption DEF Request, Sizes
<1>4. Advances(r)
  BY <1>1, <1>2, MsAdvances, SimAdvances, GenAdvances DEF Classes
<1>5. pushes' # << >>
  BY <1>1, <1>2, <1>3
<1>6. Mode = "run" /\ Mode' = "run"
  BY <1>1 DEF Mode
<1>7. Frontier = Position /\ Frontier' = Position'
  BY <1>1, <1>2, <1>5 DEF Frontier
<1>8. SoundPart = Fields /\ SoundPart' = Fields'
  BY <1>1 DEF SoundPart
<1>9. CASE r.bits > 0
  <2> DEFINE d == Pushed(r).decl
  <2>1. decls' = Append(decls, d) /\ bl'.byte_order = bl.byte_order
    BY <1>3, <1>4, <1>9 DEF Push, Advances
  <2>2. d \in Decl
    BY <1>2, <1>9, MsPushInv, SimPushInv, GenPushInv DEF Classes
  <2> HIDE DEF d
  <2>3. Fields' = Append(Fields, BitRange(d, bl.byte_order))
    BY <1>2, <2>1, <2>2, FieldsAppend DEF Fields
  <2>4. /\ Position' \in Int /\ Position' - r.bits >= Position
        /\ BitRange(d, bl.byte_order) = [lo |-> Position' - r.bits, hi |-> Position']
    BY <1>4, <1>9 DEF Advances, d
  <2>5. /\ Mode = "run" /\ r.bits > 0 /\ Mode' = Mode /\ Frontier' \in Int
        /\ Frontier' - r.bits >= Frontier
        /\ SoundPart' = Append(SoundPart, [lo |-> Frontier' - r.bits, hi |-> Frontier'])
    BY <1>6, <1>7, <1>8, <1>9, <2>3, <2>4
  <2>6. Alloc!Place(r.bits)
    BY <2>5 DEF Alloc!Place, Mode, Frontier, SoundPart
  <2> QED BY <2>6 DEF Alloc!Next
<1>10. CASE r.bits = 0
  <2>1. decls' = decls /\ bl'.byte_order = bl.byte_order
    BY <1>4, <1>10 DEF Push, Advances
  <2>2. Fields' = Fields
    BY <2>1 DEF Fields
  <2>3. Position' \in Int /\ Position' >= Position
    BY <1>4, <1>10 DEF Advances
  <2>4. /\ Mode = "run" /\ Mode' = Mode /\ Frontier' \in Int /\ Frontier' >= Frontier
        /\ SoundPart' = SoundPart
    BY <1>6, <1>7, <1>8, <2>2, <2>3
  <2>5. Alloc!Separate
    BY <2>4 DEF Alloc!Separate, Mode, Frontier, SoundPart
  <2> QED BY <2>5 DEF Alloc!Next
<1> QED BY <1>3, <1>9, <1>10

\* A field that the engine cannot cope with, or refuses, is where the run is
\* abandoned; what follows changes nothing any more.
LEMMA UnsoundIsAlloc ==
  ASSUME IInv, NEW r \in Requests, Push(r) \/ Refuse(r), ~sound'
  PROVE  Alloc!Next \/ UNCHANGED Alloc!vars
<1>1. Mode' = "idle" /\ Frontier' = 0 /\ SoundPart' = << >>
  BY DEF Mode, Frontier, SoundPart
<1>2. CASE sound
  <2>1. Mode = "run"
    BY <1>2 DEF Push, Refuse, MayPush, Mode
  <2>2. Alloc!Abandon
    BY <1>1, <2>1 DEF Alloc!Abandon, Mode, Frontier, SoundPart
  <2> QED BY <2>2 DEF Alloc!Next
<1>3. CASE ~sound
  <2>1. Mode = "idle" /\ Frontier = 0 /\ SoundPart = << >>
    BY <1>3 DEF Mode, Frontier, SoundPart
  <2> QED BY <1>1, <2>1 DEF Alloc!vars, Mode, Frontier, SoundPart
<1> QED BY <1>2, <1>3 DEF IInv, Common

\* A run begins at the byte the layouter names.
LEMMA OpenIsAlloc ==
  ASSUME IInv, NEW s \in Starts, NEW p \in Packs, NEW a \in StructAligns, NEW o \in ByteOrders,
         Open(s, p, a, o)
  PROVE  Alloc!Next
<1>1. pc = "idle" /\ pc' = "first" /\ decls' = << >> /\ sound' = TRUE /\ class' = class
  BY DEF Open
<1>2. class \in Classes /\ s \in Nat
  BY EngineAssumption DEF IInv, Common
<1>3. Position' = 8 * s
  <2>1. CASE class = "Simple"
    <3>1. bl' \in BlockObj /\ bl'.offset = s /\ bl'.pos = 0 /\ bl'.bits_left = 8 * bl'.block_size
      BY <2>1, OpenFacts
    <3>2. bl'.block_size \in Nat
      BY <3>1 DEF BlockObj, Sizes
    <3>3. Simple_position(bl') = 8 * s
      BY <1>2, <3>1, <3>2 DEF Simple_position, Bits
    <3> QED BY <1>1, <2>1, <3>3 DEF Position
  <2>2. CASE class # "Simple"
    <3>1. bl'.offset = s /\ bl'.bit_offset = 0
      BY <2>2, OpenFacts
    <3>2. Generic_position(bl') = 8 * s /\ Microsoft_position(bl') = 8 * s
      BY <1>2, <3>1 DEF Generic_position, Microsoft_position, Bits
    <3> QED BY <1>1, <1>2, <2>2, <3>2 DEF Position, Classes
  <2> QED BY <2>1, <2>2
<1>4. Mode = "idle" /\ Mode' = "run"
  BY <1>1 DEF Mode
<1>5. Frontier' = 8 * s
  BY <1>1, <1>3 DEF Frontier
<1>6. SoundPart' = << >>
  BY <1>1 DEF SoundPart, Fields
<1>7. Alloc!Open(s)
  BY <1>4, <1>5, <1>6 DEF Alloc!Open, Mode, Frontier, SoundPart
<1> QED BY <1>7 DEF Alloc!Next

\* A sound run ends at a byte behind its position.
LEMMA CloseIsAlloc ==
  ASSUME IInv, Close
  PROVE  Alloc!Next \/ UNCHANGED Alloc!vars
<1>1. /\ pc = "next" /\ pc' = "idle" /\ bl' = bl_finalize(class, bl)
      /\ class' = class /\ decls' = decls /\ pushes' = pushes /\ sound' = sound
  BY DEF Close
<1>2. class \in Classes /\ pushes # << >> /\ sound \in BOOLEAN
  BY <1>1 DEF IInv, Common
<1>3. /\ bl'.byte_order = bl.byte_order /\ bl'.offset \in Nat
      /\ sound => 8 * bl'.offset >= Position
  <2>1. CASE class = "Microsoft"
    <3>1. MsGood(bl) /\ Position = Microsoft_position(bl)
      BY <1>1, <2>1 DEF IInv, MsInv, Position
    <3> QED BY <1>1, <2>1, <3>1, MsFinalize DEF bl_finalize, TypeObj, Bits
  <2>2. CASE class = "Simple"
    <3>1. SimGood(bl) /\ Position = Simple_position(bl) /\ (sound => bl.bits_left >= 0)
      BY <1>1, <2>2 DEF IInv, SimInv, Position
    <3> QED BY <1>1, <2>2, <3>1, SimFinalize DEF bl_finalize, BlockObj, Bits
  <2>3. CASE class = "Generic"
    <3>1. GenGood(bl) /\ Position = Generic_position(bl)
      BY <1>1, <2>3 DEF IInv, GenInv, Position
    <3> QED BY <1>1, <2>3, <3>1, GenFinalize DEF bl_finalize, TypeObj, Bits
  <2> QED BY <1>2, <2>1, <2>2, <2>3 DEF Classes
<1>4. CASE sound
  <2>1. Mode = "run" /\ Mode' = "idle"
    BY <1>1, <1>4 DEF Mode
  <2>2. Position' = 8 * bl'.offset
    BY <1>1 DEF Position, Bits
  <2>3. Frontier = Position /\ Frontier' = 8 * bl'.offset
    BY <1>1, <1>2, <1>4, <2>2 DEF Frontier
  <2>4. Fields' = Fields
    BY <1>1, <1>3 DEF Fields
  <2>5. SoundPart' = SoundPart
    BY <1>1, <2>4 DEF SoundPart
  <2>6. Frontier' \in Int /\ Frontier' >= Frontier /\ Frontier' % 8 = 0
    BY <1>3, <1>4, <2>3
  <2>7. Alloc!Close
    BY <2>1, <2>5, <2>6 DEF Alloc!Close, Mode, Frontier, SoundPart
  <2> QED BY <2>7 DEF Alloc!Next
<1>5. CASE ~sound
  <2>1. /\ Mode' = "idle" /\ Frontier' = 0 /\ SoundPart' = << >>
        /\ Mode = "idle" /\ Frontier = 0 /\ SoundPart = << >>
    BY <1>1, <1>5 DEF Mode, Frontier, SoundPart
  <2> QED BY <2>1 DEF Alloc!vars, Mode, Frontier, SoundPart
<1> QED BY <1>2, <1>4, <1>5

\* ImplementsAlloc: each of the engines hands out bits in order and never
\* twice, packed or not, in runs of any length.
THEOREM EnginesAreAllocs == Spec => ImplementsAlloc
<1>1. Init => Alloc!Init
  <2> SUFFICES ASSUME Init PROVE Alloc!Init
    OBVIOUS
  <2>1. sound /\ pc = "idle" /\ decls = << >> /\ pushes = << >>
    BY DEF Init
  <2>2. Frontier = 0 /\ Mode = "idle"
    BY <2>1 DEF Frontier, Mode
  <2>3. SoundPart = << >>
    BY <2>1 DEF SoundPart, Fields
  <2> QED BY <2>2, <2>3 DEF Alloc!Init, Mode, Frontier, SoundPart
<1>2. IInv /\ [Next]_vars => [Alloc!Next]_Alloc!vars
  <2> SUFFICES ASSUME IInv, [Next]_vars PROVE Alloc!Next \/ UNCHANGED Alloc!vars
    OBVIOUS
  <2>1. ASSUME NEW s \in Starts, NEW p \in Packs, NEW a \in StructAligns, NEW o \in ByteOrders,
               Open(s, p, a, o)
        PROVE  Alloc!Next
    BY <2>1, OpenIsAlloc
  <2>2. ASSUME NEW r \in Requests, Push(r) PROVE Alloc!Next \/ UNCHANGED Alloc!vars
    <3>1. CASE sound'
      BY <2>2, <3>1, PushIsAlloc
    <3>2. CASE ~sound'
      BY <2>2, <3>2, UnsoundIsAlloc
    <3> QED BY <3>1, <3>2
  <2>3. ASSUME NEW r \in Requests, Refuse(r) PROVE Alloc!Next \/ UNCHANGED Alloc!vars
    <3>1. ~sound'
      BY <2>3 DEF Refuse
    <3> QED BY <2>3, <3>1, UnsoundIsAlloc
  <2>4. CASE Close
    BY <2>4, CloseIsAlloc
  <2>5. CASE UNCHANGED vars
    <3>1. Mode' = Mode /\ Frontier' = Frontier /\ SoundPart' = SoundPart
      BY <2>5 DEF vars, Mode, Frontier, SoundPart, Position, Fields
    <3> QED BY <3>1 DEF Alloc!vars, Mode, Frontier, SoundPart
  <2> QED BY <2>1, <2>2, <2>3, <2>4, <2>5 DEF Next
<1> QED BY <1>1, <1>2, Invariant, PTL DEF Spec, ImplementsAlloc, Alloc!Spec

=============================================================================
