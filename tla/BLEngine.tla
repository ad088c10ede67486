------------------------------ MODULE BLEngine ------------------------------
(***************************************************************************)
(* The bitfield layouter as ctlib/layout.c sees it: an object of one of    *)
(* the registered classes (bl_classes), used through its method table.     *)
(* Of the Generic engine, whose push contains a loop, this is the push as  *)
(* a whole; GenericRun takes the loop apart.                               *)
(***************************************************************************)
EXTENDS BLGeneric, BLMicrosoft, BLSimple

Classes == {"Generic", "Microsoft", "Simple"}

bl_create(class) ==
  CASE class = "Generic"   -> Generic_init
    [] class = "Microsoft" -> Microsoft_init
    [] class = "Simple"    -> Simple_init(4)

\* Faulty variant, for the mutation checks.
bl_reset_forgotten(class, bl) == bl

bl_reset(class, bl) ==
  CASE class = "Generic"   -> Generic_reset(bl)
    [] class = "Microsoft" -> Microsoft_reset(bl)
    [] class = "Simple"    -> Simple_reset(bl)

\* The rounds that the loop of Generic_push takes until the field fits.
Generic_rounds(bl, bits) ==
  LET excess == bl.bit_offset + bits - Bits(bl.cur_type_size)
      step   == Bits(bl.cur_type_align)
  IN  IF excess <= 0 THEN 0 ELSE (excess + step - 1) \div step

\* The object after n rounds: each is a Generic_move.
Generic_after(bl, n) ==
  LET by == n * bl.cur_type_align
  IN  [bl EXCEPT !.offset = @ + by, !.bit_offset = IF @ > Bits(by) THEN @ - Bits(by) ELSE 0]

Generic_moved(bl, bits) == Generic_after(bl, Generic_rounds(bl, bits))

\* Every push yields the object after it and what the declarator then holds,
\* or refuses the field.
Generic_push(bl, bits, size, align) ==
  LET b == Generic_moved(Generic_retype(bl, size, align), bits)
  IN  [refused |-> FALSE, bl |-> Generic_place(b, bits), decl |-> Generic_decl(b, bits)]

Microsoft_push(bl, bits, size, align) ==
  LET b == Microsoft_retype(bl, size, align)
  IN  IF Microsoft_tooWide(b, bits)
      THEN [refused |-> TRUE, bl |-> b]
      ELSE [refused |-> FALSE, bl |-> Microsoft_place(b, bits),
            decl |-> Microsoft_decl(b, bits)]

Simple_push(bl, bits) ==
  [refused |-> FALSE, bl |-> Simple_place(bl, bits), decl |-> Simple_decl(bl, bits)]

bl_push(class, bl, bits, size, align) ==
  CASE class = "Generic"   -> Generic_push(bl, bits, size, align)
    [] class = "Microsoft" -> Microsoft_push(bl, bits, size, align)
    [] class = "Simple"    -> Simple_push(bl, bits)

bl_finalize(class, bl) ==
  CASE class = "Generic"   -> Generic_finalize(bl)
    [] class = "Microsoft" -> Microsoft_finalize(bl)
    [] class = "Simple"    -> Simple_finalize(bl)

=============================================================================
