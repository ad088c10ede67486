---------------------------- MODULE MCGenericRun ----------------------------
(***************************************************************************)
(* Instances of GenericRun: the fields at, just below and just above every *)
(* boundary of the types of one, two and four bytes.                       *)
(***************************************************************************)
EXTENDS GenericRun

MCRequests ==
  {r \in [bits : {0, 1, 5, 7, 8, 9, 16, 17, 31, 32}, size : {1, 2, 4}] :
     r.bits <= 8 * r.size}

=============================================================================
