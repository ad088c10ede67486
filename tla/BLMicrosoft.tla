---------------------------- MODULE BLMicrosoft -----------------------------
(***************************************************************************)
(* The Microsoft bitfield layouting engine (ctlib/bitfields.c), as         *)
(* operators on the engine's object; the object has the same members as    *)
(* that of the Generic engine.                                             *)
(***************************************************************************)
EXTENDS BLBase

\* The object as bl_create leaves it: zeroed memory, then Microsoft_init.
Microsoft_init ==
  [max_align |-> 0, align |-> 0, offset |-> 0, byte_order |-> "LE",
   bit_offset |-> 0, cur_type_size |-> 0, cur_type_align |-> 0]

\* Faulty variants of the operators below stand in front of them, each named
\* for its fault; the mutation checks put them in the place of the original.
Microsoft_reset_keepsBits(bl) ==
  [bl EXCEPT !.cur_type_size = 0, !.cur_type_align = 0]

Microsoft_reset(bl) ==
  [bl EXCEPT !.bit_offset = 0, !.cur_type_size = 0, !.cur_type_align = 0]

\* Leave the current storage unit if any bit of it is in use.
Microsoft_nextUnit(bl) ==
  IF bl.bit_offset > 0
  THEN [bl EXCEPT !.offset = @ + bl.cur_type_size, !.bit_offset = 0]
  ELSE bl

Microsoft_retype_staysInUnit(bl, size, type_align) ==
  IF bl.cur_type_size = size THEN bl
  ELSE LET al    == Lesser(type_align, bl.max_align)
           delta == bl.offset % al
       IN  [bl EXCEPT !.align          = IF al > @ THEN al ELSE @,
                      !.offset         = IF delta = 0 THEN @ ELSE @ + (al - delta),
                      !.cur_type_size  = size,
                      !.cur_type_align = al]

\* A type of another size never shares a unit with its predecessor.
Microsoft_retype(bl, size, type_align) ==
  IF bl.cur_type_size = size THEN bl
  ELSE LET al    == Lesser(type_align, bl.max_align)
           left  == Microsoft_nextUnit(bl)
           delta == left.offset % al
       IN  [left EXCEPT !.align          = IF al > @ THEN al ELSE @,
                        !.offset         = IF delta = 0 THEN @ ELSE @ + (al - delta),
                        !.cur_type_size  = size,
                        !.cur_type_align = al]

\* BLE_BITFIELD_TOO_WIDE.  A width of zero is never too wide.
Microsoft_tooWide(bl, bits) == bits > Bits(bl.cur_type_size)

Microsoft_unit_tooSoon(bl, bits) ==
  IF bits = 0 \/ bits >= Bits(bl.cur_type_size) - bl.bit_offset
  THEN Microsoft_nextUnit(bl) ELSE bl

\* The unit the field goes to, after retype, if it is not too wide: the next
\* one for a width of zero and for a field that does not fit any more.
Microsoft_unit(bl, bits) ==
  IF bits = 0 \/ bits > Bits(bl.cur_type_size) - bl.bit_offset
  THEN Microsoft_nextUnit(bl) ELSE bl

Microsoft_place(bl, bits) ==
  [Microsoft_unit(bl, bits) EXCEPT !.bit_offset = @ + bits]

\* What the push stores in the declarator: the whole unit is its storage.
Microsoft_decl(bl, bits) ==
  LET u == Microsoft_unit(bl, bits)
  IN  [offset |-> u.offset, size |-> u.cur_type_size, bits |-> bits,
       pos |-> UnitPos(u.byte_order, u.cur_type_size, u.bit_offset, bits)]

Microsoft_finalize_noop(bl) == bl

Microsoft_finalize(bl) ==
  IF bl.bit_offset > 0 THEN [bl EXCEPT !.offset = @ + bl.cur_type_size] ELSE bl

Microsoft_position(bl) == Bits(bl.offset) + bl.bit_offset

=============================================================================
