------------------------------ MODULE BLSimple ------------------------------
(***************************************************************************)
(* The Simple bitfield layouting engine (ctlib/bitfields.c), as operators  *)
(* on the engine's object.  Fields fill blocks of block_size bytes one     *)
(* after the other; their declared type does not matter.                   *)
(***************************************************************************)
EXTENDS BLBase

\* The object as bl_create and Simple_init leave it; block_size may have been
\* changed by the option of that name.
Simple_init(block_size) ==
  [max_align |-> 0, align |-> 0, offset |-> 0, byte_order |-> "LE",
   block_size |-> block_size, pos |-> 0, bits_left |-> 0]

\* Aligns the offset of the previous run, which its user overwrites.
Simple_reset(bl) ==
  [bl EXCEPT !.offset = @ + (bl.block_size - (@ % bl.block_size)),
             !.pos = 0, !.bits_left = Bits(bl.block_size)]

\* Faulty variants of the operators below stand in front of them, each named
\* for its fault; the mutation checks put them in the place of the original.
\* The block the field goes to: a width of zero always takes a new one.
Simple_block(bl, bits) ==
  IF bits = 0 \/ bits > bl.bits_left
  THEN [bl EXCEPT !.pos = @ + bl.block_size, !.bits_left = Bits(bl.block_size)]
  ELSE bl

Simple_place(bl, bits) == [Simple_block(bl, bits) EXCEPT !.bits_left = @ - bits]

Simple_decl(bl, bits) ==
  LET b == Simple_block(bl, bits)
  IN  [offset |-> b.offset + b.pos, size |-> b.block_size, bits |-> bits,
       pos |-> UnitPos(b.byte_order, b.block_size,
                       Bits(b.block_size) - b.bits_left, bits)]

\* The alignment of the struct becomes the block size, whatever it was.
Simple_finalize(bl) ==
  LET end == IF bl.bits_left # Bits(bl.block_size)
             THEN bl.pos + bl.block_size ELSE bl.pos
  IN  [bl EXCEPT !.pos = end, !.offset = @ + end, !.align = bl.block_size]

Simple_position(bl) ==
  Bits(bl.offset + bl.pos) + Bits(bl.block_size) - bl.bits_left

=============================================================================
