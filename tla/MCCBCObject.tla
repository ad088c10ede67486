---------------------------- MODULE MCCBCObject -----------------------------
(***************************************************************************)
(* Instances of CBCObject: an outer struct that contains an inner one, and *)
(* a typedef of the outer one.                                             *)
(***************************************************************************)
EXTENDS CBCObject, Naturals, FiniteSets, TLC

MCInner == ("I" :> {}) @@ ("O" :> {"I"})
MCOf    == "T" :> "O"

\* One object at a time is changed by calls; beside its clone, or a new one, it
\* and the other are only asked for types and macros, cleaned and destroyed.
MCNext ==
  \/ Cardinality(Existing) < 2 /\ Next
  \/ /\ Cardinality(Existing) = 2
     /\ \E o \in Objs : \/ Clean(o) \/ Destroy(o) \/ AskMacros(o)
                        \/ \E x \in Items : AskType(o, x)

\* Either object may be the one that is cloned.
MCSymmetry == Permutations(Objs)

MCSpec == Init /\ [][MCNext]_vars

=============================================================================
