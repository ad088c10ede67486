------------------------------- MODULE Member -------------------------------
(***************************************************************************)
(* Member expressions: cbc/member.c, and get_member_info, the check for    *)
(* allowed types and the methods member and offsetof that use them.        *)
(*                                                                         *)
(* An expression is the sequence of its tokens: ".", "[", "]" and "+" as   *)
(* [sym |-> c], a name [id |-> x], a number [num |-> n] and anything else  *)
(* [bad |-> c].  Types are what a parse and the layout have left (cttype.h),*)
(* reduced to what matters here:                                           *)
(*                                                                         *)
(*   type    [is |-> "basic" or "enum"], or "struct" or "typedef" and name *)
(*   struct  [union, defined, size, decls], a sequence of declarations     *)
(*           [type, offset, size, ds]; ds, the declarators, is empty for   *)
(*           an unnamed struct or union                                    *)
(*   typedef [type, decl]                                                  *)
(*   decl    [id, offset, size, item, dims, open, pointer, bitfield]; the  *)
(*           first of dims is 0 if it is not given, as `open' says         *)
(*                                                                         *)
(* Whitespace, texts of errors and T_UNSAFE_VAL are left out, and so is    *)
(* CBC_GM_NO_OFFSET_SIZE_CALC, which only saves time.                      *)
(***************************************************************************)
EXTENDS Integers, Sequences, SequencesExt, FiniteSets

CONSTANT Tables     \* the types that the C sources may define

VARIABLES types,    \* [structs, typedefs]: the tables of the CParseInfo
          asked     \* the last question to the method member and its answer

NoDecl == [is |-> "NULL"]
NoStruct == "NULL"

Sym(c) == [sym |-> c]
Id(x)  == [id |-> x]
Num(n) == [num |-> n]
IsId(t)  == "id" \in DOMAIN t
IsNum(t) == "num" \in DOMAIN t

-----------------------------------------------------------------------------
(* The walker.                                                             *)

\* member_expr_walker_walk: what stands at the front of the tokens p, and
\* what comes after it.  startup is set for the first call only.
Walk(p, startup) ==
  LET n == Len(p)
      Found(rv, k) == rv @@ [rest |-> SubSeq(p, k + 1, n)]
      Error(what)  == [rv |-> "error", err |-> what]
  IN
  IF n = 0 THEN [rv |-> "end"]
  ELSE CASE IsId(p[1]) /\ startup -> Found([rv |-> "member", id |-> p[1].id, dot |-> FALSE], 1)
         [] p[1] = Sym("+") /\ n = 2 /\ IsNum(p[n]) /\ p[n].num >= 0 ->
              Found([rv |-> "offset", off |-> p[n].num], 2)
         [] p[1] = Sym(".") ->
              IF n = 1 THEN Error("incomplete")
              ELSE IF IsId(p[2]) THEN Found([rv |-> "member", id |-> p[2].id, dot |-> TRUE], 2)
              ELSE Error("invalid member start")
         [] p[1] = Sym("[") ->
              IF n = 1 THEN Error("incomplete")
              ELSE IF ~IsNum(p[2]) THEN Error("invalid index")
              ELSE IF n = 2 THEN Error("incomplete")
              ELSE IF p[3] = Sym("]") THEN Found([rv |-> "index", ix |-> p[2].num], 3)
              ELSE Error("index not terminated")
         [] OTHER -> Error("invalid character")

-----------------------------------------------------------------------------
(* Typedefs.                                                               *)

\* The loop that follows a typedef to the first one that is a pointer or an
\* array, or to what is none: the same in all functions that have it.
RECURSIVE Followed(_)
Followed(t) ==
  LET def == types.typedefs[t.name]
  IN  IF ~def.decl.pointer /\ def.type.is = "typedef" /\ def.decl.dims = << >>
      THEN Followed(def.type) ELSE def

\* FOLLOW_AND_CHECK_TSPTR, for the type of an unnamed member.
Unnamed(t) == IF t.is = "typedef" THEN Followed(t).type ELSE t

-----------------------------------------------------------------------------
(* From an expression to a place.                                          *)

\* A mutant of Search: an unnamed struct's own offset is forgotten.
RECURSIVE Search_flat(_, _)
Search_flat(s, id) ==
  LET In(sd) == IF sd.ds # << >>
                THEN [i \in DOMAIN sd.ds |-> [type |-> sd.type, decl |-> sd.ds[i], at |-> sd.ds[i].offset]]
                ELSE Search_flat(Unnamed(sd.type).name, id)
  IN  SelectSeq(FlattenSeq([i \in DOMAIN types.structs[s].decls |-> In(types.structs[s].decls[i])]),
                LAMBDA m : m.decl.id = id)

\* search_struct_member: the members with this name, in order, of which the
\* first is taken; those of an unnamed struct count from its offset.
RECURSIVE Search(_, _)
Search(s, id) ==
  LET Moved(ms, by) == [i \in DOMAIN ms |-> [ms[i] EXCEPT !.at = @ + by]]
      In(sd) == IF sd.ds # << >>
                THEN [i \in DOMAIN sd.ds |-> [type |-> sd.type, decl |-> sd.ds[i], at |-> sd.ds[i].offset]]
                ELSE Moved(Search(Unnamed(sd.type).name, id), sd.offset)
  IN  SelectSeq(FlattenSeq([i \in DOMAIN types.structs[s].decls |-> In(types.structs[s].decls[i])]),
                LAMBDA m : m.decl.id = id)

\* A MemberInfo.
Place(type, decl, level, offset, size, parent) ==
  [ok |-> TRUE, type |-> type, decl |-> decl, level |-> level, offset |-> offset,
   size |-> size, parent |-> parent]
Refused(why) == [ok |-> FALSE, err |-> why]

Product(s) == FoldLeft(LAMBDA a, b : a * b, 1, s)

\* The size of an element of d behind its first n dimensions.
Part(d, n) == d.item * Product(SubSeq(d.dims, n + 1, Len(d.dims)))

\* The level of get_member at which a typedef is looked through.
AtTypedef(m) ==
  m.decl # NoDecl /\ ~m.decl.pointer /\ m.type.is = "typedef" /\ m.level = Len(m.decl.dims)

\* ".id" behind m.
MemberOf(m, id) ==
  CASE m.decl # NoDecl /\ m.level < Len(m.decl.dims) -> Refused("array")
    [] m.decl # NoDecl /\ m.level >= Len(m.decl.dims) /\ m.decl.pointer -> Refused("pointer")
    [] m.decl = NoDecl \/ (m.level >= Len(m.decl.dims) /\ ~m.decl.pointer) ->
         IF m.type.is # "struct" THEN Refused("non-compound")
         ELSE LET found == Search(m.type.name, id)
              IN  IF found = << >> THEN Refused("no such member")
                  ELSE Place(found[1].type, found[1].decl, 0, m.offset + found[1].at,
                             found[1].decl.size, m.type.name)

\* "[ix]" behind m; `oobi' says that indices out of bounds are rejected.
IndexOf(m, ix, oobi) ==
  IF m.decl = NoDecl \/ m.level >= Len(m.decl.dims) THEN Refused("no array")
  ELSE LET unknown == m.level = 0 /\ m.decl.open
           n    == m.decl.dims[m.level + 1]
           size == IF unknown THEN Part(m.decl, 1) ELSE m.size \div n
       IN  IF oobi /\ ~unknown /\ ix \notin 0 .. n - 1 THEN Refused("index out of bounds")
           ELSE [m EXCEPT !.level = @ + 1, !.offset = @ + ix * size, !.size = size]

\* The loop of get_member, from the place m on.
RECURSIVE Access(_, _, _, _)
Access(m, p, startup, flags) ==
  LET w == Walk(p, startup)
      f == IF AtTypedef(m)
           THEN LET def == Followed(m.type)
                IN  [m EXCEPT !.type = def.type, !.decl = def.decl, !.level = 0, !.size = def.decl.size]
           ELSE m
      next == CASE w.rv = "member" -> IF ~w.dot /\ "dotless" \notin flags
                                      THEN Refused("invalid character") ELSE MemberOf(f, w.id)
                [] w.rv = "index"  -> IndexOf(f, w.ix, "reject oobi" \in flags)
                [] w.rv = "offset" -> IF "reject offset" \in flags THEN Refused("offset")
                                      ELSE [f EXCEPT !.offset = @ + w.off]
  IN  CASE w.rv = "end"   -> m
        [] w.rv = "error" -> Refused(w.err)
        [] w.rv \notin {"end", "error"} ->
             IF next.ok THEN Access(next, w.rest, FALSE, flags) ELSE next

\* get_member: what expression p means behind m.  Offsets count from m.
get_member(m, p, flags) ==
  LET def  == types.typedefs[m.type.name]
      from == IF m.decl = NoDecl /\ m.type.is = "typedef"
              THEN [m EXCEPT !.type = def.type, !.decl = def.decl] ELSE m
      size == IF from.decl = NoDecl THEN -1
              ELSE from.decl.size \div Product(SubSeq(from.decl.dims, 1, m.level))
  IN  Access([from EXCEPT !.offset = 0, !.size = size, !.parent = NoStruct], p, TRUE, flags)

\* The size of a struct or typedef itself.
TypeSize(t) == CASE t.is = "struct"  -> types.structs[t.name].size
                 [] t.is = "typedef" -> types.typedefs[t.name].decl.size

\* get_member_info, for the name of a struct or typedef with an expression.
get_member_info(t, p) ==
  LET whole == Place(t, NoDecl, 0, 0, TypeSize(t), NoStruct)
  IN  IF p # << >> THEN get_member(whole, p, {})
      ELSE IF t.is = "struct" /\ ~types.structs[t.name].defined THEN Refused("undefined")
      ELSE whole

\* check_allowed_types_string: what kind of type m is.
Kind(m) ==
  LET follow == m.type.is = "typedef"
                /\ (m.decl = NoDecl \/ (~m.decl.pointer /\ m.decl.dims = << >>))
      def    == IF follow THEN Followed(m.type) ELSE [type |-> m.type, decl |-> m.decl]
      level  == IF follow THEN 0 ELSE m.level
  IN  CASE def.decl # NoDecl /\ level < Len(def.decl.dims) -> "array"
        [] def.decl # NoDecl /\ level >= Len(def.decl.dims) /\ def.decl.pointer -> "pointer"
        [] def.decl = NoDecl \/ (level >= Len(def.decl.dims) /\ ~def.decl.pointer) ->
             IF def.type.is = "struct" /\ types.structs[def.type.name].union THEN "union"
             ELSE def.type.is

\* validate_member_expression: whether member p of the struct around place m
\* can determine the dimension of m.
Usable(m, p) ==
  LET parent == Place([is |-> "struct", name |-> m.parent], NoDecl, 0, 0, 0, NoStruct)
      found  == get_member(parent, p, {"dotless", "reject oobi", "reject offset"})
  IN  m.parent # NoStruct /\ found.ok /\ Kind(found) = "basic"
      /\ found.offset + found.size <= m.offset

-----------------------------------------------------------------------------
(* From an offset to expressions.                                          *)

\* GMS_NONE, GMS_PAD, GMS_HIT_OFF and GMS_HIT, with what was found on the way,
\* in order.
Rank == [none |-> 0, pad |-> 1, off |-> 2, hit |-> 3]
Hit(rank, e)  == [rank |-> Rank[rank], expr |-> e, log |-> <<[rank |-> rank, expr |-> e]>>]
NoHit(e)      == [rank |-> 0, expr |-> e, log |-> << >>]
Plus(e, n)    == e \o <<Sym("+"), Num(n)>>

\* The indices into an array of `size' bytes for an offset, and what remains.
Indices(dims, size, offset, e) ==
  FoldLeft(LAMBDA s, n : LET part == s.size \div n
                             ix   == s.offset \div part
                         IN  [size |-> part, offset |-> s.offset - ix * part,
                              expr |-> s.expr \o <<Sym("["), Num(ix), Sym("]")>>],
           [size |-> size, offset |-> offset, expr |-> e], dims)

\* A mutant of Events: an unnamed struct is entered with the outer offset.
Events_sameOffset(s, offset) ==
  LET In(sd) ==
        IF sd.offset > offset THEN <<[do |-> "pad"]>>
        ELSE IF offset >= sd.offset + sd.size THEN << >>
        ELSE IF sd.ds = << >>
        THEN <<[do |-> "unnamed", name |-> Unnamed(sd.type).name, offset |-> offset]>>
        ELSE FlattenSeq([i \in DOMAIN sd.ds |->
               IF sd.ds[i].offset > offset THEN <<[do |-> "pad"]>>
               ELSE IF offset >= sd.ds[i].offset + sd.ds[i].size THEN << >>
               ELSE <<[do |-> "declarator", type |-> sd.type, decl |-> sd.ds[i]]>>])
  IN  FlattenSeq([i \in DOMAIN types.structs[s].decls |-> In(types.structs[s].decls[i])])

\* What get_member_string_rec comes across in struct s, in order: padding, an
\* unnamed struct, or a declarator at this offset.
Events(s, offset) ==
  LET In(sd) ==
        IF sd.offset > offset THEN <<[do |-> "pad"]>>
        ELSE IF offset >= sd.offset + sd.size THEN << >>
        ELSE IF sd.ds = << >>
        THEN <<[do |-> "unnamed", name |-> Unnamed(sd.type).name, offset |-> offset - sd.offset]>>
        ELSE FlattenSeq([i \in DOMAIN sd.ds |->
               IF sd.ds[i].offset > offset THEN <<[do |-> "pad"]>>
               ELSE IF offset >= sd.ds[i].offset + sd.ds[i].size THEN << >>
               ELSE <<[do |-> "declarator", type |-> sd.type, decl |-> sd.ds[i]]>>])
  IN  FlattenSeq([i \in DOMAIN types.structs[s].decls |-> In(types.structs[s].decls[i])])

\* GMS_HANDLE_BEST_MEMBER.
Better(r, best) == r.rank > best.rank

\* append_member_string_rec, Descend its loop, and get_member_string_rec.
RECURSIVE Append_member(_, _, _, _), Descend(_, _, _, _), InStruct(_, _, _, _), Best(_, _, _, _, _)

Append_member(t, d, offset, e) ==
  LET named == IF d # NoDecl /\ d.id # "" THEN e \o <<Sym("."), Id(d.id)>> ELSE e
      def   == IF d = NoDecl /\ t.is = "typedef" THEN types.typedefs[t.name]
               ELSE [type |-> t, decl |-> d]
      at    == IF def.decl # NoDecl /\ def.decl.offset > 0 THEN offset - def.decl.offset ELSE offset
  IN  Descend(def.type, def.decl, at, named)

Descend(t, d, offset, e) ==
  LET s == IF d = NoDecl THEN [offset |-> offset, expr |-> e]
           ELSE Indices(d.dims, d.size, offset, e)
  IN  IF d # NoDecl /\ ~d.pointer /\ t.is = "typedef"
      THEN LET def == Followed(t) IN Descend(def.type, def.decl, s.offset, s.expr)
      ELSE IF t.is = "struct" /\ (d = NoDecl \/ ~d.pointer)
      THEN InStruct(t.name, s.offset, s.offset, s.expr)
      ELSE IF s.offset > 0 THEN Hit("off", Plus(s.expr, s.offset)) ELSE Hit("hit", s.expr)

\* Padding counts from the innermost struct with a name: realoffset.
InStruct(name, offset, realoffset, e) ==
  IF ~types.structs[name].defined THEN NoHit(e)
  ELSE Best(Events(name, offset), types.structs[name].union,
            NoHit(e), [offset |-> offset, real |-> realoffset], e)

Best(events, union, best, at, e) ==
  LET pad == Hit("pad", Plus(e, at.real))
      ev  == Head(events)
      r   == IF ev.do = "unnamed" THEN InStruct(ev.name, ev.offset, at.real, e)
             ELSE Append_member(ev.type, ev.decl, at.offset, e)
      got == best.log \o r.log
  IN  CASE events = << >> -> IF best.rank = 0 THEN [pad EXCEPT !.log = best.log \o @] ELSE best
        [] events # << >> /\ ev.do = "pad" -> [pad EXCEPT !.log = best.log \o @]
        [] events # << >> /\ ev.do # "pad" /\ ~union -> r
        [] events # << >> /\ ev.do # "pad" /\ union  ->
             Best(Tail(events), union,
                  IF Better(r, best) THEN [r EXCEPT !.log = got] ELSE [best EXCEPT !.log = got], at, e)

\* get_member_string.  In scalar context it does not look further behind a hit,
\* the best there is.
get_member_string(m, offset) ==
  LET rest == IF m.decl # NoDecl /\ m.level < Len(m.decl.dims)
              THEN Indices(SubSeq(m.decl.dims, m.level + 1, Len(m.decl.dims)), m.size, offset, << >>)
              ELSE [offset |-> offset, expr |-> << >>]
  IN  Append_member(m.type, NoDecl, rest.offset, rest.expr)

Listed(log, rank) ==
  LET some == SelectSeq(log, LAMBDA r : r.rank = rank)
  IN  [i \in DOMAIN some |-> some[i].expr]

\* GMSInfo: all that was found, each padding region once (htpad).
GMSInfo(log) ==
  LET Once(s) == FoldLeft(LAMBDA done, x : IF Contains(done, x) THEN done ELSE Append(done, x),
                          << >>, s)
  IN  [hit |-> Listed(log, "hit"), off |-> Listed(log, "off"), pad |-> Once(Listed(log, "pad"))]

\* get_ams_type and get_ams_struct: all members, without an offset.
RECURSIVE AllStrings(_, _, _, _)
AllStrings(t, d, level, e) ==
  IF d # NoDecl /\ level < Len(d.dims)
  THEN IF level = 0 /\ d.open THEN << >>
       ELSE FlattenSeq([i \in 1 .. d.dims[level + 1] |->
              AllStrings(t, d, level + 1, e \o <<Sym("["), Num(i - 1), Sym("]")>>)])
  ELSE IF t.is \in {"basic", "enum"} \/ (d # NoDecl /\ d.pointer) THEN <<e>>
  ELSE IF t.is = "typedef"
  THEN AllStrings(types.typedefs[t.name].type, types.typedefs[t.name].decl, 0, e)
  ELSE LET decls == types.structs[t.name].decls
           In(sd) == IF sd.ds = << >> THEN AllStrings(Unnamed(sd.type), NoDecl, 0, e)
                     ELSE LET ds == SelectSeq(sd.ds, LAMBDA x : ~(x.bitfield /\ x.id = ""))
                          IN  FlattenSeq([i \in DOMAIN ds |->
                                AllStrings(sd.type, ds[i], 0, e \o <<Sym("."), Id(ds[i].id)>>)])
       IN  FlattenSeq([i \in DOMAIN decls |-> In(decls[i])])

get_all_member_strings(m) == AllStrings(m.type, m.decl, m.level, << >>)

\* The method offsetof, which croaks for bitfields.
offsetof(m, p) ==
  LET r == get_member(m, p, {"dotless"})
  IN  IF r.ok /\ r.decl # NoDecl /\ r.decl.bitfield THEN Refused("bitfield") ELSE r

-----------------------------------------------------------------------------
(* A program that asks which member is at an offset of a type.             *)

NotAsked == [where |-> "nothing"]

InitMember == types \in Tables /\ asked = NotAsked

Named == {[is |-> "struct", name |-> s] : s \in DOMAIN types.structs}
         \cup {[is |-> "typedef", name |-> t] : t \in DOMAIN types.typedefs}

\* The places in type t that have a name: its members and what they are in.
Complete(e) == e = << >> \/ IsId(Last(e)) \/ Last(e) = Sym("]")
PlacesIn(t) ==
  LET all == ToSet(AllStrings(t, NoDecl, 0, << >>))
  IN  {e \in UNION {{SubSeq(m, 1, n) : n \in 0 .. Len(m)} : m \in all} : Complete(e)}

\* member, with an offset: in scalar context the best, else the list.
member(t, e, offset) ==
  LET m     == get_member_info(t, e)
      found == get_member_string(m, offset)
      info  == GMSInfo(found.log)
  IN  /\ m.ok /\ Kind(m) \in {"struct", "union", "array"}
      /\ offset \in 0 .. m.size - 1
      /\ asked' = [where |-> m, offset |-> offset, best |-> found.expr, list |-> info]
      /\ UNCHANGED types

NextMember == \E t \in Named : \E e \in PlacesIn(t) :
          \E offset \in 0 .. get_member_info(t, e).size - 1 : member(t, e, offset)

-----------------------------------------------------------------------------

\* "member ... can be seen as the reverse of offsetof" (C.pm), and what
\* tests/218_member.t checks: each expression of the list leads back to the
\* offset, and the first of the list is the one returned in scalar context.
OffsetsComeBack ==
  asked # NotAsked =>
    LET list == asked.list.hit \o asked.list.off \o asked.list.pad
    IN  /\ list # << >>
        /\ asked.best = list[1]
        /\ \A i \in DOMAIN list :
             LET back == offsetof(asked.where, list[i])
             IN  back.ok /\ back.offset = asked.offset

\* The list has all members at this offset, and all that extend over it.
FindsAllMembers ==
  asked # NotAsked =>
    LET all == ToSet(get_all_member_strings(asked.where))
        At(e) == offsetof(asked.where, e).offset
        Over  == {e \in all : At(e) < asked.offset
                              /\ asked.offset < At(e) + offsetof(asked.where, e).size}
    IN  /\ ToSet(asked.list.hit) = {e \in all : At(e) = asked.offset}
        /\ ToSet(asked.list.off) = {Plus(e, asked.offset - At(e)) : e \in Over}

=============================================================================
