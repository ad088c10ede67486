----------------------------- MODULE ListPromise ----------------------------
(***************************************************************************)
(* What the lists of util/list.c promise: each is a sequence of objects,   *)
(* and each call changes the sequences as list.h says.  Positions count    *)
(* from zero, or backwards from -1 for the last object; the links that     *)
(* hold the objects are not visible.                                       *)
(***************************************************************************)
EXTENDS Integers, Sequences, SequencesExt

CONSTANTS Lists, Items, Nil

VARIABLES seq,      \* list |-> its objects, or Absent
          place,    \* the list a caller walks along, and where it is
          call      \* the last call: function, arguments, and what it gave

promisevars == <<seq, place, call>>

Absent == [there |-> FALSE]
Holds(s) == [there |-> TRUE, objs |-> s]
Head0 == [list |-> Nil, at |-> 0]

PromiseInit == seq = [l \in Lists |-> Absent] /\ place = Head0

\* The call that is made in a step.
Fn == call'.fn
Arg(i) == call'.args[i]
Gives(x) == call'.gives = x

List == Arg(1)
Size == Len(seq[List].objs)
Obj(i) == seq[List].objs[i + 1]

\* A position, and the place an object put there goes to.
Position(i) == IF i < 0 THEN Size + i ELSE i
Gap(i) == IF i < 0 THEN Size + i + 1 ELSE i
Within(i) == i \in 0..(Size - 1)

Become(s) == seq[List].there /\ seq' = [seq EXCEPT ![List] = Holds(s)] /\ UNCHANGED place
Same == UNCHANGED <<seq, place>>

Put(o, at) ==
  IF at \in 0..Size THEN Become(InsertAt(seq[List].objs, at + 1, o)) ELSE Same

Take(at) ==
  IF Within(at) THEN Become(RemoveAt(seq[List].objs, at + 1)) /\ Gives(Obj(at))
  ELSE Same /\ Gives(Nil)

\* cut objects from at on move to the list Arg(5), those of Arg(4) replace them.
Splice(at, cut) ==
  LET s   == seq[List].objs
      new == IF Arg(4) = Nil THEN << >> ELSE seq[Arg(4)].objs
  IN  /\ at \in 0..Size
      /\ seq' = [k \in Lists |->
                   CASE k = Arg(5) -> Holds(SubSeq(s, at + 1, at + cut))
                     [] k = List   -> Holds(SubSeq(s, 1, at) \o new \o SubSeq(s, at + cut + 1, Size))
                     [] k = Arg(4) -> Absent
                     [] OTHER      -> seq[k]]
      /\ Gives(Arg(5)) /\ UNCHANGED place

Times(s, o) == Len(SelectSeq(s, LAMBDA x : x = o))

Sorted(s, t) ==
  /\ Len(s) = Len(t) /\ \A o \in Items : Times(s, o) = Times(t, o)
  /\ \A i, j \in DOMAIN t : i < j => t[i] <= t[j]

\* One step of a walk, which ends where it began, before the first object and
\* behind the last one.
Walk(step) ==
  LET s  == seq[place.list].objs
      at == (place.at + step) % (Len(s) + 1)
  IN  /\ UNCHANGED seq
      /\ IF at = 0 THEN place' = Head0 /\ Gives(Nil)
         ELSE place' = [place EXCEPT !.at = at] /\ Gives(s[at])

PromiseNext ==
  \/ Fn = "LL_new" /\ ~seq[List].there /\ seq' = [seq EXCEPT ![List] = Holds(<< >>)]
       /\ UNCHANGED place
  \/ Fn = "LL_delete" /\ IF Size > 0 THEN Same
                           ELSE seq' = [seq EXCEPT ![List] = Absent] /\ UNCHANGED place
  \/ Fn = "LL_destroy" /\ seq' = [seq EXCEPT ![List] = Absent] /\ UNCHANGED place
  \/ Fn = "LL_flush" /\ Become(<< >>)
  \/ Fn = "LL_push" /\ Put(Arg(2), Size)
  \/ Fn = "LL_unshift" /\ Put(Arg(2), 0)
  \/ Fn = "LL_insert" /\ Put(Arg(3), Gap(Arg(2)))
  \/ Fn = "LL_pop" /\ Take(Size - 1)
  \/ Fn = "LL_shift" /\ Take(0)
  \/ Fn = "LL_extract" /\ Take(Position(Arg(2)))
  \/ Fn = "LL_get" /\ Same
       /\ LET at == Position(Arg(2)) IN Gives(IF Within(at) THEN Obj(at) ELSE Nil)
  \/ Fn = "LL_clone" /\ ~seq[Arg(2)].there /\ seq' = [seq EXCEPT ![Arg(2)] = seq[List]]
       /\ UNCHANGED place
  \/ Fn = "LL_splice"
       /\ LET at   == Position(Arg(2))
              rest == Size - at
          IN  IF at \notin 0..Size THEN Same /\ Gives(Nil)
              ELSE Splice(at, IF Arg(3) < 0 \/ Arg(3) > rest THEN rest ELSE Arg(3))
  \/ Fn = "LL_sort" /\ Sorted(seq[List].objs, seq'[List].objs) /\ UNCHANGED place
       /\ \A k \in Lists \ {List} : seq'[k] = seq[k]
  \/ Fn = "LI_init" /\ place' = [list |-> List, at |-> 0] /\ UNCHANGED seq
  \/ Fn = "LI_next" /\ Walk(1)
  \/ Fn = "LI_prev" /\ Walk(-1)

PromiseSpec == PromiseInit /\ [][PromiseNext]_promisevars

=============================================================================
