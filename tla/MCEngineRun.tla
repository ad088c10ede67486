---------------------------- MODULE MCEngineRun -----------------------------
(***************************************************************************)
(* Instances of EngineRun: fields at and around the boundaries of types of *)
(* one, four and eight bytes, and one that is too wide for its type and    *)
(* for a block.                                                            *)
(***************************************************************************)
EXTENDS EngineRun

MCRequests ==
  {r \in [bits : {0, 1, 5, 8, 32, 64}, size : {1, 4, 8}] : r.bits <= 8 * r.size}
  \cup {[bits |-> 9, size |-> 1], [bits |-> 17, size |-> 2], [bits |-> 9, size |-> 2]}

=============================================================================
