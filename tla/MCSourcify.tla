----------------------------- MODULE MCSourcify -----------------------------
(***************************************************************************)
(* Programs of up to four structs, enums, typedefs, members and            *)
(* enumerators, over any number of parse calls.                            *)
(***************************************************************************)
EXTENDS Sourcify

\* Four things are for declarations; in a function, and while a packing is
\* saved, there are up to three.
Small(u) == u.local \/ u.saved # << >> => Things(u) <= 3

\* Nor is a specifier read for which there is nothing left to declare.
NamesType == unit.spec = NoType /\ unit'.spec # NoType /\ unit'.open = unit.open

MCNext == /\ SourcifyNext
          /\ Small(unit')
          /\ NamesType => Things(unit) < MaxThings

MCSpec == Init /\ [][MCNext]_unit

NameSymmetry == Permutations(Tags)

=============================================================================
