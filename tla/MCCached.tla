------------------------------ MODULE MCCached ------------------------------
(***************************************************************************)
(* An instance of Cached: two processes, one of which also parses with     *)
(* other options than the other, and sources that are broken for a while.  *)
(***************************************************************************)
EXTENDS Cached, TLC

MCWants == ("p" :> {1, 2}) @@ ("q" :> {1})

=============================================================================
