------------------------------ MODULE Sourcify ------------------------------
(***************************************************************************)
(* cbc/sourcify.c: get_parsed_definitions_string writes what has been      *)
(* parsed as C code again.  The code is a sequence of the parser's tokens, *)
(* which the parser of module Parser then reads.                           *)
(***************************************************************************)
EXTENDS Parser

\* What the functions hand on: the text that is complete (str), the text of
\* the declaration at hand (s), and who has T_ALREADY_DUMPED set.
NewText(u) == [str |-> << >>, s |-> << >>, structs |-> u.dumpedStructs, enums |-> u.dumpedEnums]
Add(m, tokens) == [m EXCEPT !.s = @ \o tokens]
Flush(m) == [m EXCEPT !.str = @ \o m.s, !.s = << >>]

EnumTokens_firstIsZero(u, i) ==
  LET e == u.enums[i]
      value(k) == u.enumerators[e.list[k]].value
      given(k) == IF k = 1 \/ value(k) = value(k - 1) + 1 THEN NoValue ELSE value(k)
  IN  IF ~e.defined THEN <<Token("enum", e.name)>>
      ELSE <<Token("enum{", e.name)>>
           \o [k \in DOMAIN e.list |-> Token("const", [name |-> u.enumerators[e.list[k]].name,
                                                       value |-> given(k)])]
           \o <<Token("enum}", 0)>>
\* add_enum_spec_string_rec: a value is given where it is not the next one.
EnumTokens(u, i) ==
  LET e == u.enums[i]
      value(k) == u.enumerators[e.list[k]].value
      given(k) == IF value(k) = (IF k = 1 THEN 0 ELSE value(k - 1) + 1) THEN NoValue ELSE value(k)
  IN  IF ~e.defined THEN <<Token("enum", e.name)>>
      ELSE <<Token("enum{", e.name)>>
           \o [k \in DOMAIN e.list |-> Token("const", [name |-> u.enumerators[e.list[k]].name,
                                                       value |-> given(k)])]
           \o <<Token("enum}", 0)>>

AddEnumSpec(u, m, i) == Add([m EXCEPT !.enums = @ \cup {i}], EnumTokens(u, i))

PushPack(u, i, pack) == LET s == u.structs[i]
                        IN  s.defined /\ s.pack # 0 /\ s.pack # pack
PopPack_never(m, pushed) == m
PopPack(m, pushed) == IF pushed THEN Add(m, <<Token("pop", 0)>>) ELSE m

\* add_type_spec_string_rec: a name, or the whole definition if it has none or
\* is not written yet.  Gives the text, and whether a pack(pop) is due.
RECURSIVE AddTypeSpec(_, _, _, _, _), AddStructSpec(_, _, _, _), AddMembers(_, _, _, _, _),
          CheckDefine(_, _, _)
AddTypeSpec(u, m, t, pack, expand) ==
  CASE t.kind = "typedef" ->
         <<Add(m, <<Token("name", u.typedefs[t.at].names[t.nth].name)>>), FALSE>>
    [] t.kind = "enum" ->
         IF u.enums[t.at].name # Unnamed /\ (t.at \in m.enums \/ ~expand)
         THEN <<Add(m, <<Token("enum", u.enums[t.at].name)>>), FALSE>>
         ELSE <<AddEnumSpec(u, m, t.at), FALSE>>
    [] t.kind = "struct" ->
         IF u.structs[t.at].name # Unnamed /\ (t.at \in m.structs \/ ~expand)
         THEN <<Add(m, <<Token("struct", u.structs[t.at].name)>>), FALSE>>
         ELSE <<AddStructSpec(u, m, t.at, pack), PushPack(u, t.at, pack)>>
    [] OTHER -> <<Add(m, <<Token("basic", 0)>>), FALSE>>

AddStructSpec(u, m, i, pack) ==
  LET s == u.structs[i]
      pushed == PushPack(u, i, pack)
      d == [m EXCEPT !.structs = @ \cup {i}]
      p == IF pushed THEN Add(d, <<Token("push", s.pack)>>) ELSE d
  IN  IF ~s.defined THEN Add(p, <<Token("struct", s.name)>>)
      ELSE Add(AddMembers(u, Add(p, <<Token("{", s.name)>>), s.decls, 1,
                          IF pushed THEN s.pack ELSE 0),
               <<Token("}", 0)>>)

\* The loop over the members.  A struct that a member names only through a
\* typedef is defined in str, before the text at hand.
AddMembers(u, m, decls, k, pack) ==
  IF k > Len(decls) THEN m
  ELSE LET d == decls[k]
           needed == \E n \in DOMAIN d.pointers : ~d.pointers[n]
           r == AddTypeSpec(u, m, d.type, pack, needed)
           w == PopPack(Add(r[1], <<Token("member", d.pointers)>>), r[2])
       IN  AddMembers(u, IF needed THEN CheckDefine(u, w, d.type) ELSE w, decls, k + 1, pack)

\* check_define_type, with add_enum_spec_string and add_struct_spec_string.
Behind(u, t) ==
  LET declarator(x) == u.typedefs[x.at].names[x.nth]
      walk[n \in 0..Len(u.typedefs)] ==
        IF n = 0 THEN t
        ELSE LET x == walk[n - 1]
             IN  IF x.kind # "typedef" THEN x
                 ELSE IF declarator(x).pointer THEN BasicType ELSE u.typedefs[x.at].type
  IN  walk[Len(u.typedefs)]
Separately(m, n) == [n EXCEPT !.s = m.s, !.str = n.str \o n.s]
Alone(m) == [m EXCEPT !.s = << >>]
StructAlone(u, m, i) ==
  Separately(m, PopPack(Add(AddStructSpec(u, Alone(m), i, 0), <<Token(";", 0)>>),
                        PushPack(u, i, 0)))
EnumAlone(u, m, i) == Separately(m, Add(AddEnumSpec(u, Alone(m), i), <<Token(";", 0)>>))
CheckDefine(u, m, t) ==
  LET b == Behind(u, t)
  IN  CASE b.kind = "enum" /\ b.at \notin m.enums -> EnumAlone(u, m, b.at)
        [] b.kind = "struct" /\ b.at \notin m.structs -> StructAlone(u, m, b.at)
        [] OTHER -> m

-----------------------------------------------------------------------------
(* get_parsed_definitions_string: section by section. *)

TypedefText(u, m, l) ==
  LET r == AddTypeSpec(u, m, l.type, 0, TRUE)
  IN  Flush(PopPack(Add(r[1], <<Token("typedef", l.names)>>), r[2]))

TagOf(u, t) == CASE t.kind = "enum" -> u.enums[t.at].name
                 [] t.kind = "struct" -> u.structs[t.at].name
                 [] OTHER -> Unnamed

Predeclared(u, m, l) ==
  IF l.type.kind = "basic" THEN TypedefText(u, m, l)
  ELSE IF TagOf(u, l.type) # Unnamed
  THEN [m EXCEPT !.str = @ \o <<Token(l.type.kind, TagOf(u, l.type)), Token("typedef", l.names)>>]
  ELSE m

\* The second section: typedefs of what has no name of its own, and of typedefs.
TypedefOfUnnamed(u, m, l) ==
  IF l.type.kind # "basic" /\ TagOf(u, l.type) = Unnamed THEN TypedefText(u, m, l) ELSE m

DefinedEnum(u, m, i) ==
  IF u.enums[i].defined /\ u.enums[i].name # Unnamed /\ i \notin m.enums
  THEN EnumAlone(u, m, i) ELSE m
DefinedStruct(u, m, i) ==
  IF u.structs[i].defined /\ u.structs[i].name # Unnamed /\ i \notin m.structs
  THEN StructAlone(u, m, i) ELSE m
\* The last two sections take the flags away again, one after the other: what
\* is written behind its turn keeps its flag.
OtherEnum(u, m, i) ==
  LET n == IF i \notin m.enums /\ ~u.enums[i].used THEN EnumAlone(u, m, i) ELSE m
  IN  [n EXCEPT !.enums = @ \ {i}]
OtherStruct(u, m, i) ==
  LET n == IF i \notin m.structs /\ ~u.structs[i].used THEN StructAlone(u, m, i) ELSE m
  IN  [n EXCEPT !.structs = @ \ {i}]

Section(Do(_, _), m, list) == FoldLeft(Do, m, list)
Indices(list) == [i \in DOMAIN list |-> i]

Text(u) ==
  LET a == Section(LAMBDA m, l : Predeclared(u, m, l), NewText(u), u.typedefs)
      b == Section(LAMBDA m, l : TypedefOfUnnamed(u, m, l), a, u.typedefs)
      c == Section(LAMBDA m, i : DefinedEnum(u, m, i), b, Indices(u.enums))
      d == Section(LAMBDA m, i : DefinedStruct(u, m, i), c, Indices(u.structs))
      e == Section(LAMBDA m, i : OtherEnum(u, m, i), d, Indices(u.enums))
  IN  Section(LAMBDA m, i : OtherStruct(u, m, i), e, Indices(u.structs))

Dumped(u, m) == [u EXCEPT !.dumpedStructs = m.structs, !.dumpedEnums = m.enums]
sourcify == ~unit.parsing /\ unit' = Dumped(unit, Text(unit))

SourcifyNext == Next \/ sourcify
SourcifySpec == Init /\ [][SourcifyNext]_unit

-----------------------------------------------------------------------------
(* What the text means to the parser. *)

\* The parser reads tokens; at one it does not accept it stops with an error.
Reread(tokens) ==
  FoldLeft(LAMBDA u, t : IF u.parsing /\ Accepts(u, t) THEN Step(u, t) ELSE Abort(u),
           NewParser(NewInfo), tokens)

\* What is defined, by names.  What has no name is part of what refers to it.
RECURSIVE Shape(_, _)
Body(u, i) == [k \in DOMAIN u.structs[i].decls |->
                 <<Shape(u, u.structs[i].decls[k].type), u.structs[i].decls[k].pointers>>]
List(u, i) == [k \in DOMAIN u.enums[i].list |-> u.enumerators[u.enums[i].list[k]]]
Shape(u, t) ==
  CASE t.kind = "typedef" -> <<"typedef", u.typedefs[t.at].names[t.nth].name>>
    [] t.kind = "enum" -> IF u.enums[t.at].name # Unnamed THEN <<"enum", u.enums[t.at].name>>
                          ELSE <<"unnamed enum", List(u, t.at)>>
    [] t.kind = "struct" -> IF u.structs[t.at].name # Unnamed THEN <<"struct", u.structs[t.at].name>>
                            ELSE <<"unnamed struct", Body(u, t.at)>>
    [] OTHER -> <<"basic">>

DefinedTags(u) == {x \in DOMAIN u.htStructs : u.structs[u.htStructs[x]].defined}
DefinedEnums(u) == {x \in DOMAIN u.htEnums : u.enums[u.htEnums[x]].defined}
\* What can be reached from a struct through its members, and from the names
\* and what nothing refers to: a struct or enum without name whose only user
\* was destroyed, by a syntax error or as a second definition, is left out.
TypesIn(u, i, kind) == {d.type.at : d \in {d \in ToSet(u.structs[i].decls) : d.type.kind = kind}}
Reach(u, from) ==
  LET reach[n \in 0..Len(u.structs)] ==
        IF n = 0 THEN from
        ELSE reach[n - 1] \cup UNION {TypesIn(u, j, "struct") : j \in reach[n - 1]}
  IN  reach[Len(u.structs)]
Typedefd(u, kind) == {l.type.at : l \in {l \in ToSet(u.typedefs) : l.type.kind = kind}}
Reached(u) == Reach(u, {i \in DOMAIN u.structs : u.structs[i].name # Unnamed \/ ~u.structs[i].used}
                       \cup Typedefd(u, "struct"))
ReachedEnums(u) == {i \in DOMAIN u.enums : u.enums[i].name # Unnamed \/ ~u.enums[i].used}
                   \cup Typedefd(u, "enum") \cup UNION {TypesIn(u, i, "enum") : i \in Reached(u)}

\* The constants of enums that are there, and the typedefs, that have one
\* definition.
Owned(u) == UNION {ToSet(u.enums[i].list) : i \in ReachedEnums(u)}
OnceConstants(u) == {x \in DOMAIN u.htEnumerators :
                       {a \in Owned(u) : u.enumerators[a].name = x} = {u.htEnumerators[x]}}
OnceTypes(u) == {x \in DOMAIN u.htTypedefs :
                   \A l \in DOMAIN u.typedefs : \A n \in DOMAIN u.typedefs[l].names :
                     u.typedefs[l].names[n].name = x => u.htTypedefs[x] = TypedefType(l, n)}

StructMeanings(u) == [x \in DefinedTags(u) |-> Body(u, u.htStructs[x])]
EnumMeanings(u) == [x \in DefinedEnums(u) |-> List(u, u.htEnums[x])]
ConstantMeanings(u) == [x \in OnceConstants(u) |-> u.enumerators[u.htEnumerators[x]].value]
TypedefMeanings(u) == [x \in OnceTypes(u) |->
                         LET l == u.typedefs[u.htTypedefs[x].at]
                         IN  <<Shape(u, l.type), l.names[u.htTypedefs[x].nth].pointer>>]
NotReferredTo(u) == {i \in DOMAIN u.structs : u.structs[i].name = Unnamed /\ ~u.structs[i].used}

-----------------------------------------------------------------------------
(* Properties. *)

\* The parser accepts what sourcify writes, every pack(push) in it has its
\* pack(pop), and the definitions are the same: all of them, with the same
\* members, types, enumerators and values, however often sourcify was asked before.
\* (C.pm:4027: the code can be parsed by the Convert::Binary::C parser.)
MeansTheSame ==
  ~unit.parsing =>
    LET v == Reread(Text(unit).str)
    IN  /\ v.parsing /\ AtRest(v) /\ v.saved = << >> /\ v.current = 0
        /\ StructMeanings(v) = StructMeanings(unit) /\ EnumMeanings(v) = EnumMeanings(unit)
        /\ TypedefMeanings(v) = TypedefMeanings(unit)
        /\ \A x \in OnceConstants(unit) :
             x \in OnceConstants(v) /\ ConstantMeanings(v)[x] = ConstantMeanings(unit)[x]
        /\ {Body(unit, i) : i \in NotReferredTo(unit)} \subseteq {Body(v, i) : i \in NotReferredTo(v)}

PackOf(u, x) == u.structs[u.htStructs[x]].pack

\* A struct has the same packing when it is read again, except that one without
\* a packing may take on that of a struct it is a member of: sourcify never
\* writes #pragma pack for a packing of zero (sourcify.c:363).
PacksKept ==
  ~unit.parsing =>
    LET v == Reread(Text(unit).str)
    IN  \A x \in DefinedTags(unit) :
          PackOf(v, x) # PackOf(unit, x) =>
            /\ PackOf(unit, x) = 0
            /\ \E j \in DOMAIN unit.structs : /\ unit.structs[j].pack = PackOf(v, x)
                                              /\ unit.htStructs[x] \in Reach(unit, {j})

=============================================================================
