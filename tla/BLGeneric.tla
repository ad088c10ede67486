------------------------------ MODULE BLGeneric -----------------------------
(***************************************************************************)
(* The Generic bitfield layouting engine (ctlib/bitfields.c), as operators *)
(* on the engine's object bl:                                              *)
(*                                                                         *)
(*   max_align, align, offset, byte_order   the properties get/set can see *)
(*   bit_offset, cur_type_size, cur_type_align                  its own    *)
(*                                                                         *)
(* Generic_push is cut at its loop: Generic_retype is what precedes it,    *)
(* Generic_mustMove and Generic_move are its condition and its body, and   *)
(* Generic_place what follows it.                                          *)
(***************************************************************************)
EXTENDS BLBase

\* The object as bl_create leaves it: zeroed memory, then Generic_init.
Generic_init ==
  [max_align |-> 0, align |-> 0, offset |-> 0, byte_order |-> "LE",
   bit_offset |-> 0, cur_type_size |-> 0, cur_type_align |-> 0]

\* Faulty variants of the operators below stand in front of them, each named
\* for its fault; the mutation checks put them in the place of the original.

Generic_reset(bl) ==
  [bl EXCEPT !.bit_offset = 0, !.cur_type_size = 0, !.cur_type_align = 0]

Generic_retype_losesPosition(bl, size, type_align) ==
  IF bl.cur_type_size = size THEN bl
  ELSE LET al == Lesser(type_align, bl.max_align)
       IN  [bl EXCEPT !.align          = IF al > @ THEN al ELSE @,
                      !.offset         = @ - (@ % al),
                      !.cur_type_size  = size,
                      !.cur_type_align = al]

Generic_retype_keepsTypeAlign(bl, size, type_align) ==
  IF bl.cur_type_size = size THEN bl
  ELSE LET al    == Lesser(type_align, bl.max_align)
           delta == bl.offset % al
       IN  [bl EXCEPT !.align         = IF al > @ THEN al ELSE @,
                      !.offset        = @ - delta,
                      !.bit_offset    = @ + Bits(delta),
                      !.cur_type_size = size]

\* A type of another size: step back to a boundary of the new type, keeping
\* the bit position, and let the struct inherit the type's alignment.
Generic_retype(bl, size, type_align) ==
  IF bl.cur_type_size = size THEN bl
  ELSE LET al    == Lesser(type_align, bl.max_align)
           delta == bl.offset % al
       IN  [bl EXCEPT !.align          = IF al > @ THEN al ELSE @,
                      !.offset         = @ - delta,
                      !.bit_offset     = @ + Bits(delta),
                      !.cur_type_size  = size,
                      !.cur_type_align = al]

Generic_mustMove(bl, bits) == bits > Bits(bl.cur_type_size) - bl.bit_offset

Generic_move_unclamped(bl) ==
  [bl EXCEPT !.offset     = @ + bl.cur_type_align,
             !.bit_offset = @ - Bits(bl.cur_type_align)]

Generic_move(bl) ==
  [bl EXCEPT !.offset     = @ + bl.cur_type_align,
             !.bit_offset = IF @ > Bits(bl.cur_type_align)
                            THEN @ - Bits(bl.cur_type_align) ELSE 0]

\* The smallest of 1, 2, 4, 8 bytes that holds the field from bit_offset on.
Generic_usedBytes(new_bit_offset) ==
  IF new_bit_offset <= Bits(1) THEN 1
  ELSE IF new_bit_offset <= Bits(2) THEN 2
  ELSE IF new_bit_offset <= Bits(4) THEN 4
  ELSE 8

\* What the push stores in the declarator and its BitfieldInfo.
Generic_decl(bl, bits) ==
  LET used == Generic_usedBytes(bl.bit_offset + bits)
  IN  [offset |-> bl.offset, size |-> used, bits |-> bits,
       pos |-> UnitPos(bl.byte_order, used, bl.bit_offset, bits)]

\* The object after the field; a field of width zero skips the rest of the
\* current unit if any of it is in use.
Generic_place(bl, bits) ==
  IF bits > 0 THEN [bl EXCEPT !.bit_offset = @ + bits]
  ELSE IF bl.bit_offset > 0
  THEN [bl EXCEPT !.offset     = @ + (bl.cur_type_size - (@ % bl.cur_type_size)),
                  !.bit_offset = 0]
  ELSE bl

Generic_finalize(bl) ==
  [bl EXCEPT !.offset = @ + (bl.bit_offset + (Bits(1) - 1)) \div Bits(1)]

\* The bit position of the engine, counted from the start of the struct.
Generic_position(bl) == Bits(bl.offset) + bl.bit_offset

=============================================================================
