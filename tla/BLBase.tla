------------------------------- MODULE BLBase -------------------------------
(***************************************************************************)
(* What the three bitfield layouting engines of ctlib/bitfields.c share.   *)
(* An engine stores in a declarator the offset and the size in bytes of    *)
(* the storage unit the field is read from, and the position of the field  *)
(* in that unit, counted from the least significant bit.                   *)
(***************************************************************************)
EXTENDS Integers

Bits(bytes) == 8 * bytes

Lesser(a, b) == IF a < b THEN a ELSE b

ByteOrders == {"LE", "BE"}

\* The position in the unit of a field that starts after `used` bits of it:
\* from the right in a little endian unit, from the left in a big endian one.
UnitPos(order, size, used, bits) ==
  IF order = "LE" THEN used ELSE Bits(size) - used - bits

\* The address of the first bit of a field d in the struct, read off the
\* declarator: in memory order the first bit of a byte is its least
\* significant one for little endian, its most significant one for big endian.
FirstBit(d, order) ==
  Bits(d.offset) + (IF order = "LE" THEN d.pos ELSE Bits(d.size) - d.pos - d.bits)

\* The range of bit addresses of a field, upper end excluded.
BitRange(d, order) ==
  [lo |-> FirstBit(d, order), hi |-> FirstBit(d, order) + d.bits]

-----------------------------------------------------------------------------
(* Where GCC puts a bitfield, on the platforms where the declared type of  *)
(* a bitfield matters, in bit addresses counted from the start of the      *)
(* struct: a reference for the Generic engine.                             *)

\* The least multiple of m that is not below x.
RoundUp(x, m) == IF x % m = 0 THEN x ELSE x + (m - (x % m))

\* Where a field of b bits and of a type of s bytes goes from position x.
Target(x, b, s) == IF (x % (8 * s)) + b <= 8 * s THEN x ELSE RoundUp(x, 8 * s)

=============================================================================
