-------------------------------- MODULE Tags --------------------------------
(***************************************************************************)
(* The tags of types and members: cbc/tag.c, ctlib/cttags.c, cbc/hook.c,   *)
(* the part of cbc/dimension.c that sets a Dimension tag, and the methods  *)
(* tag and untag (xsubs/tag.xs).                                           *)
(*                                                                         *)
(* A place has a list of tags, the last one inserted first.  A Hooks tag   *)
(* has a hook for each of HookIds, a Dimension tag may have one: a         *)
(* SingleHook refers to a Perl sub, and to an array of arguments made when *)
(* it was set.  Their reference counts are kept by hand, in refs; the Perl *)
(* program itself holds the subs in script.  Subs and arrays whose count   *)
(* drops to zero are freed.  The temporary references of a call (mortals)  *)
(* are gone when it returns, and left out.                                 *)
(*                                                                         *)
(* A call with several tags sets one after the other; here these are       *)
(* several calls.  What get_member_info finds for an expression is in      *)
(* where, which does not change.                                           *)
(***************************************************************************)
EXTENDS Integers, Sequences, SequencesExt, FiniteSets

CONSTANTS Objs,      \* object identities
          HookIds,   \* pack, unpack ...
          Subs,      \* the subs of the Perl program
          Arrays,    \* array identities: no more are there at a time
          Places,    \* whatever can be tagged
          Basic,     \* the places that are basic types
          Exprs,     \* expressions for them
          Members,   \* expressions for members that may determine a dimension
          Calls,     \* the arguments of tag: [expr, name, val]
          Changes    \* what those that are allowed do, for TagPromise

NULL  == "NULL"
Undef == [is |-> "undef"]

TagNames == {"Hooks", "Dimension", "Format", "ByteOrder"}

\* Hooks are set by a hash, and untag and wrong values are the other calls.
ASSUME TagsAssumption ==
  /\ IsFiniteSet(Objs) /\ IsFiniteSet(HookIds) /\ IsFiniteSet(Places)
  /\ Subs \cap Arrays = {} /\ NULL \notin Subs \cup Arrays
  /\ \A c \in Calls : /\ c.expr \in Exprs /\ c.name \in TagNames
                      /\ c.name = "Hooks" => c.val = Undef \/ c.val.is \in {"bad", "hash"}

VARIABLES where,     \* expression |-> [place, kind, bitfield, usable]: what it
                     \* is, and which members can determine its dimension
          objs,      \* object |-> [exists, parsed, tags], or NoObject
          refs,      \* reference counts of subs and arrays
          script     \* the subs held by the Perl program

vars == <<where, objs, refs, script>>

Strings  == [Format |-> {"String", "Binary"}, ByteOrder |-> {"BigEndian", "LittleEndian"}]

NoObject == [exists |-> FALSE]
NoHook   == [sub |-> NULL, arg |-> NULL]

-----------------------------------------------------------------------------
(* Reference counts.  What a function does to them is a change: the amount *)
(* by which it raises the count of each sub and array.                     *)

Counted == Subs \cup Arrays

NoChange      == [x \in Counted |-> 0]
Change(x, by) == [y \in Counted |-> IF y = x THEN by ELSE 0]   \* x may be NULL
Together(a, b)    == [y \in Counted |-> a[y] + b[y]]

\* The changes of a loop, one after the other.
Total(changes) ==
  LET sum[k \in 0 .. Len(changes)] == IF k = 0 THEN NoChange ELSE Together(sum[k - 1], changes[k])
  IN  sum[Len(changes)]

\* A loop over a set, in any order.
ForAll(S, change) == LET seq == SetToSeq(S) IN Total([i \in 1 .. Len(seq) |-> change[seq[i]]])

-----------------------------------------------------------------------------
(* Single hooks.                                                           *)

single_hook_ref(hook)   == Together(Change(hook.sub, 1), Change(hook.arg, 1))
single_hook_deref(hook) == Together(Change(hook.sub, -1), Change(hook.arg, -1))

\* For one of the two pointers; single_hook_update has both.
Replaced(dst, src) == IF dst = src THEN NoChange ELSE Together(Change(src, 1), Change(dst, -1))
single_hook_update(dst, src) == Together(Replaced(dst.sub, src.sub), Replaced(dst.arg, src.arg))

\* single_hook_fill: what a value makes a hook; `arg' is a new array.
Fillable(val) == val.is \in {"undef", "code", "list"}
single_hook_fill(val, arg) ==
  CASE val.is = "undef" -> NoHook
    [] val.is = "code"  -> [sub |-> val.sub, arg |-> NULL]
    [] val.is = "list"  -> [sub |-> val.sub, arg |-> arg]

-----------------------------------------------------------------------------
(* The methods of a tag: what is left in it (any), the change of the       *)
(* counts, and how the method ended.  A value may have lists for several   *)
(* hooks, each of which gets an array of its own from `new'.               *)

Ended(rv, any, by) == [rv |-> rv, any |-> any, by |-> by]

NoHooks == [h \in HookIds |-> NoHook]
NoDim   == [is |-> "none"]

\* TAG_INIT.
tag_new(name) == CASE name = "Hooks"     -> NoHooks
                   [] name = "Dimension" -> NoDim
                   [] OTHER              -> Undef

\* A mutant of Clone_tag: the copy of a Dimension tag shares the hook.
Clone_tag_shares(tag) ==
  IF tag.name = "Hooks" THEN ForAll(HookIds, [h \in HookIds |-> single_hook_ref(tag.any[h])])
  ELSE NoChange

\* TAG_CLONE, hook_new and dimtag_init: what copying a tag does to the counts.
Clone_tag(tag) ==
  CASE tag.name = "Hooks" -> ForAll(HookIds, [h \in HookIds |-> single_hook_ref(tag.any[h])])
    [] tag.name = "Dimension" /\ tag.any.is = "hook" -> single_hook_ref(tag.any.hook)
    [] OTHER -> NoChange

\* TAG_FREE, hook_delete and dimtag_fini.
Free_tag(name, any) ==
  CASE name = "Hooks" -> ForAll(HookIds, [h \in HookIds |-> single_hook_deref(any[h])])
    [] name = "Dimension" /\ any.is = "hook" -> single_hook_deref(any.hook)
    [] OTHER -> NoChange

\* The hooks that find_hooks makes of a hash of values, those that are not
\* mentioned being in `others'.
find_hooks(hooks, others, new) ==
  [h \in HookIds |-> IF h \notin DOMAIN hooks THEN others[h]
                     ELSE single_hook_fill(hooks[h], IF h \in DOMAIN new THEN new[h] ELSE NULL)]

hook_update(any, found) ==
  ForAll(HookIds, [h \in HookIds |-> single_hook_update(any[h], found[h])])

AllHooks(hooks) == DOMAIN hooks \subseteq HookIds /\ \A h \in DOMAIN hooks : Fillable(hooks[h])

\* A mutant of Hooks_Set: hooks that are not mentioned are removed.
Hooks_Set_replaces(any, val, new) ==
  CASE val = Undef -> Ended("delete", any, NoChange)
    [] val.is = "bad" -> Ended("croak", any, NoChange)
    [] val.is = "hash" ->
         LET found == find_hooks(val.hooks, NoHooks, new)
         IN  IF ~AllHooks(val.hooks) THEN Ended("croak", any, NoChange)
             ELSE IF \A h \in HookIds : found[h].sub = NULL THEN Ended("delete", any, NoChange)
             ELSE Ended("update", found, hook_update(any, found))

\* Hooks_Set with find_hooks, which fills in a copy, and hook_update.
Hooks_Set(any, val, new) ==
  CASE val = Undef -> Ended("delete", any, NoChange)
    [] val.is = "bad" -> Ended("croak", any, NoChange)
    [] val.is = "hash" ->
         LET found == find_hooks(val.hooks, any, new)
         IN  IF ~AllHooks(val.hooks) THEN Ended("croak", any, NoChange)
             ELSE IF \A h \in HookIds : found[h].sub = NULL THEN Ended("delete", any, NoChange)
             ELSE Ended("update", found, hook_update(any, found))

\* dimtag_parse: whether the value is one.
IsDimension(w, val) ==
  \/ val.is = "flexible"
  \/ val.is = "fixed" /\ val.n >= 0
  \/ val.is = "member" /\ val.expr \in w.usable
  \/ val.is \in {"code", "list"}

\* Dimension_Set: dimtag_parse has a new hook before dimtag_update lets the
\* old one go.
Dimension_Set(w, any, val, new) ==
  LET hook == single_hook_fill(val, IF val.is = "list" THEN new["dimension"] ELSE NULL)
  IN  CASE val = Undef -> Ended("delete", any, NoChange)
        [] val # Undef /\ ~IsDimension(w, val) -> Ended("croak", any, NoChange)
        [] val.is \in {"code", "list"} ->
             Ended("update", [is |-> "hook", hook |-> hook],
                   Together(single_hook_ref(hook), Free_tag("Dimension", any)))
        [] val.is \in {"flexible", "fixed", "member"} /\ IsDimension(w, val) ->
             Ended("update", val, Free_tag("Dimension", any))

\* Format_Set and ByteOrder_Set, which token/tag.pl generates.
String_Set(name, any, val) ==
  CASE val = Undef -> Ended("delete", any, NoChange)
    [] val.is = "string" /\ val.string \in Strings[name] -> Ended("update", val, NoChange)
    [] OTHER -> Ended("croak", any, NoChange)

Tag_Set(w, name, any, val, new) ==
  CASE name = "Hooks"     -> Hooks_Set(any, val, new)
    [] name = "Dimension" -> Dimension_Set(w, any, val, new)
    [] OTHER              -> String_Set(name, any, val)

\* TAG_VERIFY: no Dimension but for an array, and nothing for a bitfield.
Verified(w, name) == CASE name = "Hooks"     -> TRUE
                       [] name = "Dimension" -> w.kind = "array"
                       [] OTHER              -> ~w.bitfield

-----------------------------------------------------------------------------
(* Lists of tags.                                                          *)

find_tag(list, name) == {i \in DOMAIN list : list[i].name = name}

\* insert_tag for a new tag; an old one stays where it is.
With_tag(list, name, any) ==
  IF find_tag(list, name) = {} THEN <<[name |-> name, any |-> any]>> \o list
  ELSE [i \in DOMAIN list |-> IF list[i].name = name THEN [name |-> name, any |-> any] ELSE list[i]]

remove_tag(list, name) ==
  LET old == find_tag(list, name)
  IN  IF old = {} THEN list ELSE RemoveAt(list, CHOOSE i \in old : TRUE)

\* What deleting or copying all tags of a list does to the counts.
delete_taglist(list) == Total([i \in 1 .. Len(list) |-> Free_tag(list[i].name, list[i].any)])
clone_taglist(list)  == Total([i \in 1 .. Len(list) |-> Clone_tag(list[i])])

-----------------------------------------------------------------------------

\* What get_member_info and check_allowed_types_string tell of an expression.
Info == [place : Places, kind : {"struct", "union", "array", "pointer", "enum", "basic"},
         bitfield : BOOLEAN, usable : SUBSET Members]

Init == /\ where \in [Exprs -> Info]
        /\ objs = [o \in Objs |-> NoObject]
        /\ refs = [x \in Counted |-> IF x \in Subs THEN 1 ELSE 0]
        /\ script = Subs

Existing == {o \in Objs : objs[o].exists}

\* get_member_info finds the expression: its type is defined.
Found(o, e) == o \in Existing /\ (objs[o].parsed \/ where[e].place \in Basic)

\* A call can name the subs that the program still holds.
Held(val) ==
  CASE val.is \in {"code", "list"} -> val.sub \in script
    [] val.is = "hash" -> \A h \in DOMAIN val.hooks :
                            val.hooks[h].is \in {"code", "list"} => val.hooks[h].sub \in script
    [] OTHER -> TRUE

\* The new arrays for the lists in a value: one for each, of those not in use.
Lists(val) ==
  CASE val.is = "hash" -> {h \in DOMAIN val.hooks : val.hooks[h].is = "list"}
    [] val.is = "list" -> {"dimension"}
    [] OTHER           -> {}
NewArrays(val) == {f \in [Lists(val) -> {a \in Arrays : refs[a] = 0}] : IsInjective(f)}

\* tag with a name and a value, and untag with a name, where the value is
\* Undef: handle_tag.  A new tag is only inserted if its method returns.
handle_tag(o, e, name, val, new) ==
  LET w    == where[e]
      list == objs[o].tags[w.place]
      old  == find_tag(list, name)
      any  == IF old = {} THEN tag_new(name) ELSE list[CHOOSE i \in old : TRUE].any
      set  == IF Verified(w, name) THEN Tag_Set(w, name, any, val, new)
              ELSE Ended("croak", any, NoChange)
      left == CASE set.rv = "update" -> With_tag(list, name, set.any)
                [] set.rv = "delete" -> remove_tag(list, name)
                [] set.rv = "croak"  -> IF old = {} THEN list ELSE With_tag(list, name, set.any)
      gone == set.rv = "delete" \/ (set.rv = "croak" /\ old = {})
  IN  /\ Found(o, e) /\ Held(val)
      /\ objs' = [objs EXCEPT ![o].tags[w.place] = left]
      /\ refs' = Together(refs, IF gone THEN Together(set.by, Free_tag(name, set.any)) ELSE set.by)
      /\ UNCHANGED <<where, script>>

\* untag without names: delete_all_tags.
UntagAll(o, e) ==
  LET p == where[e].place
  IN  /\ Found(o, e)
      /\ objs' = [objs EXCEPT ![o].tags[p] = << >>]
      /\ refs' = Together(refs, delete_taglist(objs[o].tags[p]))
      /\ UNCHANGED <<where, script>>

\* tag with the name only (get_hooks, dimtag_get): the program gets the subs,
\* and keeps them.
GetTag(o, e, name) ==
  LET list == objs[o].tags[where[e].place]
      some == find_tag(list, name)
      any  == list[CHOOSE i \in some : TRUE].any
      subs == CASE name = "Hooks" -> {any[h].sub : h \in HookIds} \ {NULL}
                [] name = "Dimension" -> IF any.is = "hook" THEN {any.hook.sub} ELSE {}
  IN  /\ Found(o, e) /\ some # {}
      /\ script' = script \cup subs
      /\ refs' = [x \in Counted |-> IF x \in subs \ script THEN refs[x] + 1 ELSE refs[x]]
      /\ UNCHANGED <<where, objs>>

\* The program forgets about a sub.
Release(f) == /\ f \in script
              /\ script' = script \ {f}
              /\ refs' = Together(refs, Change(f, -1))
              /\ UNCHANGED <<where, objs>>

\* What the destructors of all types and declarators in `places' do, and their
\* copying.
DeleteAll(o, places) == ForAll(places, [p \in places |-> delete_taglist(objs[o].tags[p])])
CloneAll(o, places)  == ForAll(places, [p \in places |-> clone_taglist(objs[o].tags[p])])

Create(o) ==
  /\ o \notin Existing
  /\ objs' = [objs EXCEPT ![o] = [exists |-> TRUE, parsed |-> FALSE,
                                  tags |-> [p \in Places |-> << >>]]]
  /\ UNCHANGED <<where, refs, script>>

Parse(o) ==
  /\ o \in Existing /\ ~objs[o].parsed
  /\ objs' = [objs EXCEPT ![o].parsed = TRUE]
  /\ UNCHANGED <<where, refs, script>>

\* The destructors of types and declarators delete their tags; the basic
\* types belong to the object.
Clean(o) ==
  LET kept == [p \in Places |-> IF p \in Basic THEN objs[o].tags[p] ELSE << >>]
  IN  /\ o \in Existing
      /\ objs' = [objs EXCEPT ![o].parsed = FALSE, ![o].tags = kept]
      /\ refs' = Together(refs, DeleteAll(o, Places \ Basic))
      /\ UNCHANGED <<where, script>>

Clone(o, p) ==
  /\ o \in Existing /\ p \notin Existing
  /\ objs' = [objs EXCEPT ![p] = objs[o]]
  /\ refs' = Together(refs, CloneAll(o, Places))
  /\ UNCHANGED <<where, script>>

Destroy(o) ==
  /\ o \in Existing
  /\ objs' = [objs EXCEPT ![o] = NoObject]
  /\ refs' = Together(refs, DeleteAll(o, Places))
  /\ UNCHANGED <<where, script>>

Next ==
  \/ \E o \in Objs :
       \/ \E c \in Calls : \E new \in NewArrays(c.val) : handle_tag(o, c.expr, c.name, c.val, new)
       \/ \E e \in Exprs : UntagAll(o, e)
       \/ \E e \in Exprs, name \in {"Hooks", "Dimension"} : GetTag(o, e, name)
       \/ Create(o) \/ Parse(o) \/ Clean(o) \/ Destroy(o)
       \/ \E p \in Objs : Clone(o, p)
  \/ \E f \in Subs : Release(f)

Spec == Init /\ [][Next]_vars

-----------------------------------------------------------------------------

\* The hooks of a tag, those that refer to sub or array x, and those of all tags
\* that do.
HooksOf(tag) == CASE tag.name = "Hooks" -> tag.any
                  [] tag.name = "Dimension" /\ tag.any.is = "hook" -> [dimension |-> tag.any.hook]
                  [] OTHER -> << >>
Users(tag, x) == {h \in DOMAIN HooksOf(tag) : x \in {HooksOf(tag)[h].sub, HooksOf(tag)[h].arg}}
Referring(x) ==
  {u \in Existing \X Places \X TagNames \X (HookIds \cup {"dimension"}) :
     LET list == objs[u[1]].tags[u[2]]
     IN  \E i \in find_tag(list, u[3]) : u[4] \in Users(list[i], x)}

\* Every reference is counted, and nothing else: no sub or array is freed
\* while a hook of any object needs it, and none is kept for nothing.
RefsCounted ==
  \A x \in Counted :
    refs[x] = Cardinality(Referring(x)) + (IF x \in script THEN 1 ELSE 0)

\* What an object holds, where a hook whose sub or arguments are freed shows.
Freed(x) == x # NULL /\ refs[x] <= 0
HookHeld(hook) ==
  IF hook.sub = NULL THEN [is |-> "none"]
  ELSE [is  |-> IF hook.arg = NULL THEN "code" ELSE "list",
        sub |-> IF Freed(hook.sub) \/ Freed(hook.arg) THEN "freed" ELSE hook.sub]
TagHeld(tag) ==
  CASE tag.name = "Hooks" -> [is |-> "hooks", hooks |-> [h \in HookIds |-> HookHeld(tag.any[h])]]
    [] tag.name = "Dimension" /\ tag.any.is = "hook" -> HookHeld(tag.any.hook)
    [] OTHER -> tag.any
ListHeld(list) ==
  [n \in TagNames |-> LET some == find_tag(list, n)
                      IN  IF some = {} THEN [is |-> "none"]
                          ELSE TagHeld(list[CHOOSE i \in some : \A j \in some : i <= j])]
AllHeld ==
  [o \in Objs |->
     IF o \notin Existing THEN NoObject
     ELSE [exists |-> TRUE, parsed |-> objs[o].parsed,
           tags |-> [p \in Places |-> ListHeld(objs[o].tags[p])]]]

Promise == INSTANCE TagPromise WITH held <- AllHeld

\* Every call does what it promises, or nothing.
KeepsPromise == Promise!Spec

=============================================================================
