----------------------------- MODULE ByteOrder -----------------------------
(***************************************************************************)
(* Integers in a buffer: ctlib/byteorder.c.  A byte is a number below 256, *)
(* a buffer a sequence of bytes.  store_integer writes a number into       *)
(* `size' bytes, in an order, or into some of their bits; fetch_integer    *)
(* reads it back.  The value that travels through a 64-bit register in the *)
(* code is an integer here, taken modulo 256^size where it is stored.      *)
(***************************************************************************)
EXTENDS Integers, Sequences, SequencesExt

Orders == {"BE", "LE"}

\* 2^n.
TwoTo(n) == LET power[i \in 0 .. n] == IF i = 0 THEN 1 ELSE 2 * power[i - 1] IN power[n]

\* The order in which bytes of a lower weight come first in sequence b.
Lowest(order, b) == IF order = "LE" THEN b ELSE Reverse(b)

\* SET_LE_WORD and its like, for any number of bytes.
Bytes(size, order, v) ==
  Lowest(order, [i \in 1 .. size |-> (v \div TwoTo(8 * (i - 1))) % 256])

\* GET_LE_WORD and its like, without a sign.
Number(order, b) ==
  LET sum[i \in 0 .. Len(b)] ==
        IF i = 0 THEN 0 ELSE 256 * sum[i - 1] + Lowest(order, b)[Len(b) + 1 - i]
  IN  sum[Len(b)]

\* A number below 2^bits, read as a signed one.
Extended(v, bits) == IF v >= TwoTo(bits - 1) THEN v - TwoTo(bits) ELSE v

\* mask_integer after shift_integer: `bits' bits of v from bit `shift' on.
Field(v, bits, shift) == (v \div TwoTo(shift)) % TwoTo(bits)

\* A mutant of Merged: the old bits are not cleared.
Merged_uncleared(v, f, bits, shift) == v + (f % TwoTo(bits)) * TwoTo(shift)

\* merge_integer: v with these bits replaced by those of f.
Merged(v, f, bits, shift) ==
  v + ((f % TwoTo(bits)) - Field(v, bits, shift)) * TwoTo(shift)

\* bits is 0 for a number that takes all of its bytes b.
fetch_integer(b, signed, bits, shift, order) ==
  LET width == IF bits = 0 THEN 8 * Len(b) ELSE bits
      v     == IF bits = 0 THEN Number(order, b)
                           ELSE Field(Number(order, b), bits, shift)
  IN  IF signed THEN Extended(v, width) ELSE v

\* The bytes that replace the bytes b.
store_integer(b, bits, shift, order, v) ==
  Bytes(Len(b), order,
        IF bits = 0 THEN v ELSE Merged(Number(order, b), v, bits, shift))

=============================================================================
