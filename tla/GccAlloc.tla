------------------------------ MODULE GccAlloc ------------------------------
(***************************************************************************)
(* The allocation rule of GCC on the platforms where the declared type of  *)
(* a bitfield matters, which the Generic engine claims to follow           *)
(* (lib/Convert/Binary/C.pm, option Bitfields).  It is the reference the   *)
(* engine is compared with, not a translation of it: the whole state is a  *)
(* single bit position, in the variables of BitAlloc.                      *)
(*                                                                         *)
(*   - a field is placed at the first free bit unless it would then cross  *)
(*     a boundary of its declared type, in which case it goes to the next  *)
(*     such boundary;                                                      *)
(*   - a field of width zero moves on to the next boundary of its type;    *)
(*   - the run ends at the next whole byte.                                *)
(***************************************************************************)
EXTENDS BitAlloc, BLBase

CONSTANT Requests  \* the bitfields [bits, size]: width, bytes of the type

\* What the theorems about this module suppose of its constants.
RequestsTyped ==
  /\ ConstantsTyped
  /\ Requests \subseteq [bits : Widths, size : {1, 2, 4, 8}]
  /\ \A r \in Requests : r.bits <= 8 * r.size

GccPlace(r) ==
  /\ mode = "run"
  /\ r.bits > 0
  /\ frontier' = Target(frontier, r.bits, r.size) + r.bits
  /\ fields' = Append(fields, [lo |-> Target(frontier, r.bits, r.size), hi |-> frontier'])
  /\ mode' = mode

GccSeparate(r) ==
  /\ mode = "run"
  /\ r.bits = 0
  /\ frontier' = RoundUp(frontier, 8 * r.size)
  /\ UNCHANGED <<fields, mode>>

GccClose ==
  /\ mode = "run"
  /\ mode' = "idle"
  /\ frontier' = RoundUp(frontier, 8)
  /\ fields' = fields

GccNext == \/ \E s \in Starts : Open(s)
           \/ \E r \in Requests : GccPlace(r) \/ GccSeparate(r)
           \/ GccClose

GccSpec == Init /\ [][GccNext]_vars

=============================================================================
