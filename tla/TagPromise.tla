----------------------------- MODULE TagPromise -----------------------------
(***************************************************************************)
(* What tags promise (C.pm, "tag" and "untag"): an object holds, for each  *)
(* place and each tag, a value or none.  A call sets or removes one of     *)
(* them and leaves all others alone, of this object and of any other;      *)
(* hooks that a call does not mention stay, and a Hooks tag without hooks  *)
(* is none.  Here are no lists, nothing is shared, nothing is counted, and *)
(* no call is there that fails.                                            *)
(***************************************************************************)
CONSTANTS Objs,      \* object identities
          Places,    \* whatever can be tagged
          Basic,     \* the places that are basic types
          TagNames,  \* the names of the tags
          HookIds,   \* pack, unpack ...
          Changes    \* what calls do: [place, name, to], and for Hooks, where
                     \* `to' is a function of the hooks mentioned

VARIABLE held        \* object |-> what it holds, or NoObject

NoObject == [exists |-> FALSE]
None     == [is |-> "none"]
Untagged == [n \in TagNames |-> None]

Init == held = [o \in Objs |-> NoObject]

New == [exists |-> TRUE, parsed |-> FALSE, tags |-> [p \in Places |-> Untagged]]

\* The types are gone, and their tags with them; basic types are always there.
Cleaned(obj) ==
  [obj EXCEPT !.parsed = FALSE,
              !.tags = [p \in Places |-> IF p \in Basic THEN @[p] ELSE Untagged]]

\* The hooks there are when those in `to' are set or, if None, removed.
Merged(was, to) ==
  LET now == [h \in HookIds |-> IF h \in DOMAIN to THEN to[h]
                                ELSE IF was = None THEN None ELSE was.hooks[h]]
  IN  IF \A h \in HookIds : now[h] = None THEN None ELSE [is |-> "hooks", hooks |-> now]

Tagged(obj, c) ==
  [obj EXCEPT !.tags[c.place][c.name] = IF c.name = "Hooks" THEN Merged(@, c.to) ELSE c.to]

Without(obj, p, names) ==
  [obj EXCEPT !.tags[p] = [n \in TagNames |-> IF n \in names THEN None ELSE @[n]]]

\* untag removes one tag of a place, or all.
Removals(obj, p) == {Without(obj, p, names) : names \in {TagNames} \cup {{n} : n \in TagNames}}

\* The places that an object knows.
Open(obj) == {p \in Places : obj.parsed \/ p \in Basic}

\* What a call can make of object o, where h is held: it is created, it is a
\* copy of another, or it changes.
Results(h, o) ==
  LET obj == h[o]
  IN  IF ~obj.exists THEN {New} \cup {h[q] : q \in {x \in Objs : h[x].exists}}
      ELSE {NoObject, [obj EXCEPT !.parsed = TRUE], Cleaned(obj)}
           \cup {Tagged(obj, c) : c \in {x \in Changes : x.place \in Open(obj)}}
           \cup UNION {Removals(obj, p) : p \in Open(obj)}

Outcomes(h) == UNION {{[h EXCEPT ![o] = r] : r \in Results(h, o)} : o \in Objs}

Next == held' \in Outcomes(held)

Spec == Init /\ [][Next]_held

=============================================================================
