------------------------------ MODULE BitAlloc ------------------------------
(***************************************************************************)
(* What every bitfield layouting engine of ctlib/bitfields.c promises the  *)
(* struct layouter in ctlib/layout.c: within one run of consecutive        *)
(* bitfields it hands out bit ranges that never reach back behind what is  *)
(* already taken, starting at the byte the layouter names and ending on a  *)
(* byte boundary.  Nothing is said here of where exactly a field goes:     *)
(* that is the business of the engines (GccAlloc, BLGeneric, BLMicrosoft,  *)
(* BLSimple).                                                              *)
(*                                                                         *)
(* Positions are bit addresses counted from the start of the struct.  For  *)
(* little endian layouts bit 0 of a byte is its least significant bit, for *)
(* big endian layouts its most significant one.                            *)
(***************************************************************************)
EXTENDS Integers, Sequences

CONSTANTS Starts,     \* byte offsets at which a run of bitfields may begin
          Widths      \* widths a bitfield may have; 0 separates

\* What the theorems about this module suppose of its constants.
ConstantsTyped == Starts \subseteq Nat /\ Widths \subseteq Nat

VARIABLES frontier,   \* every bit below it belongs to the past
          fields,     \* the ranges [lo, hi] handed out, in order; hi excluded
          mode        \* "run" while a run is being laid out, else "idle"

vars == <<frontier, fields, mode>>

Init == /\ frontier = 0
        /\ fields = << >>
        /\ mode = "idle"

\* The layouter names the byte at which a run of bitfields begins.
Open(start) ==
  /\ mode = "idle"
  /\ mode' = "run"
  /\ frontier' = 8 * start
  /\ fields' = << >>

\* A field of w > 0 bits gets the range lo .. lo+w-1, all of it in front of
\* what was taken before.
Place(w) ==
  /\ mode = "run"
  /\ w > 0
  /\ mode' = mode
  /\ frontier' \in Int
  /\ frontier' - w >= frontier
  /\ fields' = Append(fields, [lo |-> frontier' - w, hi |-> frontier'])

\* A separator (a field of width 0) takes no bits and may skip some.
Separate ==
  /\ mode = "run"
  /\ mode' = mode
  /\ frontier' \in Int
  /\ frontier' >= frontier
  /\ fields' = fields

\* The run ends at a whole byte that lies behind everything handed out.
Close ==
  /\ mode = "run"
  /\ mode' = "idle"
  /\ frontier' \in Int
  /\ frontier' >= frontier
  /\ frontier' % 8 = 0
  /\ fields' = fields

\* An engine may refuse a field; then the whole run is given up.
Abandon ==
  /\ mode = "run"
  /\ mode' = "idle"
  /\ frontier' \in Int
  /\ fields' = << >>

Next == \/ \E s \in Starts : Open(s)
        \/ \E w \in Widths : Place(w)
        \/ Separate
        \/ Close
        \/ Abandon

Spec == Init /\ [][Next]_vars

-----------------------------------------------------------------------------

\* Two fields of one run never share a bit: for fields i before j, field i
\* ends where field j starts or earlier, and no field ends behind the
\* frontier (so the next member of the struct cannot hit it either).
NoOverlap ==
  \A i \in 1 .. Len(fields) :
    /\ fields[i].lo < fields[i].hi
    /\ fields[i].hi <= frontier
    /\ \A j \in 1 .. Len(fields) : i < j => fields[i].hi <= fields[j].lo

=============================================================================
