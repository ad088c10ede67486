---------------------------- MODULE MCContainers ----------------------------
(***************************************************************************)
(* Instances of HashTable and LinkedList, side by side.  Neither calls the *)
(* other, so that they share no step; a behaviour is about one of them,    *)
(* the subject, and the other stays as it is.                              *)
(*                                                                         *)
(* Hash table: two keys that fall into the same of two buckets and into    *)
(* different ones of four, where the one that compares first is in the     *)
(* upper bucket; every key has two nodes, so that a table and its clone    *)
(* can both have it.                                                       *)
(*                                                                         *)
(* Linked list: three lists, for a splice with a replacement makes a third *)
(* one of two, and three links.                                            *)
(***************************************************************************)
EXTENDS HashTable, LinkedList, TLC

VARIABLE subject

MCKeyOf == ("m1" :> 1) @@ ("m2" :> 1) @@ ("n1" :> 2) @@ ("n2" :> 2)
MCHash  == (1 :> 3) @@ (2 :> 5)
MCFlags == {{"HT_AUTOGROW", "HT_AUTOSHRINK"}}

MCInit == Init /\ ListInit /\ subject \in {"hash table", "linked list"}

\* With two tables at hand they are changed and walked; a table alone is asked, too.
OnlyAsks == UNCHANGED <<table, node, iter>> /\ \A h \in Tables : table[h].live

MCNext == \/ subject = "hash table" /\ Next /\ ~OnlyAsks /\ UNCHANGED <<subject, listVars>>
          \/ subject = "linked list" /\ ListNext /\ UNCHANGED <<subject, vars>>

MCSpec == MCInit /\ [][MCNext]_<<subject, vars, listVars>>

Symmetry == Permutations(Tables) \cup Permutations(Lists) \cup Permutations(Links)

=============================================================================
