------------------------------- MODULE Parser -------------------------------
(***************************************************************************)
(* ctlib/parser.y and ctlib/pragma.y: how declarations become the lists    *)
(* and tables of a CParseInfo, over any number of parse calls, some of     *)
(* which end with a syntax error.                                          *)
(*                                                                         *)
(* A step is a reduction of the grammar, or a #pragma, which the lexer     *)
(* handles when it meets it.  A program is given by these steps, so that   *)
(* module Sourcify can say what it writes in the same terms.               *)
(***************************************************************************)
EXTENDS Integers, Sequences, SequencesExt, FiniteSets, TLC

CONSTANTS Tags,       \* names of structs, unions and enums
          TypeNames,  \* names of typedefs
          Constants,  \* names of enumerators
          Values,     \* values an enumerator is given
          Packs,      \* arguments of #pragma pack
          Unnamed,
          NoValue,    \* of an enumerator that is given none
          MaxThings,  \* bound on what the lists hold
          MaxDepth,   \* bound on declarations within declarations
          MaxSaved    \* bound on the packings that are saved

ASSUME ParserAssumption == Values \subseteq Int

VARIABLE unit         \* the CParseInfo and, while it parses, the ParserState

Names == Tags \cup {Unnamed}

\* A TypeSpec.  What it points to is given by its place in its list: a struct,
\* an enum, or the declarator of a typedef.  Unions are structs here.
Type(kind, at) == [kind |-> kind, at |-> at, nth |-> 0]
TypedefType(list, n) == [kind |-> "typedef", at |-> list, nth |-> n]
NoType == Type("none", 0)
BasicType == Type("basic", 0)
NullType == Type("null", 0)    \* in the body of a function

NoTable == << >>
\* HT_store, HT_storenode: what is there stays.
Stored(table, name, x) ==
  [y \in DOMAIN table \cup {name} |-> IF y \in DOMAIN table THEN table[y] ELSE x]

NewParser(u) ==
  [u EXCEPT !.parsing = TRUE, !.local = FALSE, !.open = << >>, !.spec = NoType,
            !.saved = << >>, !.current = 0]

NewInfo == [structs |-> << >>, htStructs |-> NoTable, enums |-> << >>, htEnums |-> NoTable,
            enumerators |-> << >>, freed |-> {}, htEnumerators |-> NoTable,
            typedefs |-> << >>, htTypedefs |-> NoTable,
            dumpedStructs |-> {}, dumpedEnums |-> {},  \* T_ALREADY_DUMPED
            parsing |-> FALSE, local |-> FALSE, open |-> << >>, spec |-> NoType,
            saved |-> << >>, current |-> 0]

-----------------------------------------------------------------------------
(* ctlib/pragma.y.  An argument that is not valid is an error message, and
   changes nothing. *)

ValidPack(n) == n \in {0, 1, 2, 4, 8}
PackSet(u, n) == IF ValidPack(n) THEN [u EXCEPT !.current = n] ELSE u
PackReset(u) == [u EXCEPT !.current = 0]
PackPush(u, n) ==
  IF ValidPack(n) THEN [u EXCEPT !.saved = Append(@, u.current), !.current = n]
  ELSE u
PackPop(u) ==
  IF u.saved = << >> THEN [u EXCEPT !.current = 0]
  ELSE [u EXCEPT !.saved = Front(@), !.current = Last(u.saved)]

-----------------------------------------------------------------------------
(* Type specifiers. *)

InEnum(u) == u.open # << >> /\ Last(u.open).what = "enum"
AtSpecifier(u) == u.parsing /\ u.spec = NoType /\ ~InEnum(u)
HasSpecifier(u) == u.spec # NoType
InStruct(u) == u.open # << >> /\ Last(u.open).what = "struct"

\* In a function names are NULL.
Opened(u, what, name) ==
  [u EXCEPT !.open = Append(@, [what |-> what, name |-> IF u.local THEN Unnamed ELSE name,
                                list |-> << >>])]
Null(u) == [u EXCEPT !.spec = NullType]

\* ctt_refcount_inc: of the count it matters whether it is zero.
Counted(u, t) ==
  CASE t.kind = "struct" -> [u EXCEPT !.structs[t.at].used = TRUE]
    [] t.kind = "enum" -> [u EXCEPT !.enums[t.at].used = TRUE]
    [] OTHER -> u

\* struct_new, LL_push and HT_storenode.
AddStruct(u, name, defined, pack, decls) ==
  LET i == Len(u.structs) + 1
  IN  [u EXCEPT !.structs = Append(@, [name |-> name, defined |-> defined, pack |-> pack,
                                       decls |-> decls, used |-> FALSE]),
                !.htStructs = IF name = Unnamed THEN @ ELSE Stored(@, name, i),
                !.spec = Type("struct", i)]

CloseStruct_again(u) ==
  LET f == Last(u.open)
      v == [u EXCEPT !.open = Front(@)]
      i == u.htStructs[f.name]
  IN  IF u.local THEN Null(v)
      ELSE IF f.name \notin DOMAIN u.htStructs THEN AddStruct(v, f.name, TRUE, u.current, f.list)
      ELSE [v EXCEPT !.structs[i] = [@ EXCEPT !.defined = TRUE, !.decls = f.list, !.pack = u.current],
                     !.spec = Type("struct", i)]

\* aggregate_name, with a list of members: the packing is the one in force at
\* the closing brace.
CloseStruct(u) ==
  LET f == Last(u.open)
      v == [u EXCEPT !.open = Front(@)]
      i == u.htStructs[f.name]
  IN  IF u.local THEN Null(v)
      ELSE IF f.name \notin DOMAIN u.htStructs THEN AddStruct(v, f.name, TRUE, u.current, f.list)
      ELSE IF u.structs[i].defined THEN [v EXCEPT !.spec = Type("struct", i)]
      ELSE [v EXCEPT !.structs[i] = [@ EXCEPT !.defined = TRUE, !.decls = f.list, !.pack = u.current],
                     !.spec = Type("struct", i)]

\* aggregate_name, without.
NameStruct_always(u, name) == IF u.local THEN Null(u) ELSE AddStruct(u, name, FALSE, 0, << >>)
NameStruct(u, name) ==
  IF u.local THEN Null(u)
  ELSE IF name \in DOMAIN u.htStructs THEN [u EXCEPT !.spec = Type("struct", u.htStructs[name])]
  ELSE AddStruct(u, name, FALSE, 0, << >>)

AddEnum(u, name, defined, list) ==
  LET i == Len(u.enums) + 1
  IN  [u EXCEPT !.enums = Append(@, [name |-> name, defined |-> defined, list |-> list, used |-> FALSE]),
                !.htEnums = IF name = Unnamed THEN @ ELSE Stored(@, name, i),
                !.spec = Type("enum", i)]

\* enumerator and enumerator_list: the table has the enumerator before the
\* enum has it.
AddedEnumerator(u, name, value) ==
  LET f == Last(u.open)
      a == Len(u.enumerators) + 1
      v == IF value # NoValue THEN value
           ELSE IF f.list = << >> THEN 0 ELSE u.enumerators[Last(f.list)].value + 1
  IN  [u EXCEPT !.enumerators = Append(@, [name |-> name, value |-> v]),
                !.htEnumerators = Stored(@, name, a),
                !.open = Append(Front(@), [f EXCEPT !.list = Append(@, a)])]
AddEnumerator(u, name, value) ==
  IF u.local THEN u ELSE AddedEnumerator(u, name, value)

\* enum_name, with a list of enumerators: that of a second definition is
\* destroyed, and the table goes on pointing to its enumerators.
CloseEnum(u) ==
  LET f == Last(u.open)
      v == [u EXCEPT !.open = Front(@)]
      i == u.htEnums[f.name]
  IN  IF u.local THEN Null(v)
      ELSE IF f.name \notin DOMAIN u.htEnums THEN AddEnum(v, f.name, TRUE, f.list)
      ELSE IF u.enums[i].defined
      THEN [v EXCEPT !.freed = @ \cup ToSet(f.list), !.spec = Type("enum", i)]
      ELSE [v EXCEPT !.enums[i] = [@ EXCEPT !.defined = TRUE, !.list = f.list],
                     !.dumpedEnums = @ \ {i}, !.spec = Type("enum", i)]

NameEnum(u, name) ==
  IF u.local THEN Null(u)
  ELSE IF name \in DOMAIN u.htEnums THEN [u EXCEPT !.spec = Type("enum", u.htEnums[name])]
  ELSE AddEnum(u, name, FALSE, << >>)

\* check_type: a name that is in the table is a TYPE_NAME, in functions, too.
NameType(u, name) == [u EXCEPT !.spec = u.htTypedefs[name]]

-----------------------------------------------------------------------------
(* Declarations: what a specifier is for.  Of the declarators of a member it
   matters which are pointers; an unnamed struct in a struct has none. *)

AddMember(u, pointers) ==
  LET f == Last(u.open)
      d == [type |-> u.spec, pointers |-> pointers]
      v == [u EXCEPT !.spec = NoType]
  IN  IF u.local THEN v
      ELSE [Counted(v, u.spec) EXCEPT !.open = Append(Front(@), [f EXCEPT !.list = Append(@, d)])]

\* MAKE_TYPEDEF for each of the declarators.
StoredAll(table, list, names) ==
  [x \in DOMAIN table \cup {names[n].name : n \in DOMAIN names} |->
     IF x \in DOMAIN table THEN table[x]
     ELSE TypedefType(list, CHOOSE n \in DOMAIN names :
            names[n].name = x /\ \A k \in 1..(n - 1) : names[k].name # x)]

AddTypedefs_inFunctions(u, names) ==
  [u EXCEPT !.spec = NoType, !.typedefs = Append(@, [type |-> u.spec, names |-> names]),
            !.htTypedefs = StoredAll(@, Len(u.typedefs) + 1, names)]
AddTypedefs(u, names) ==
  LET v == [u EXCEPT !.spec = NoType]
  IN  IF u.local THEN v
      ELSE [Counted(v, u.spec) EXCEPT !.typedefs = Append(@, [type |-> u.spec, names |-> names]),
                                      !.htTypedefs = StoredAll(@, Len(u.typedefs) + 1, names)]

\* A declaration that ends after the specifier, or that declares variables or
\* functions.
Discard(u) == [u EXCEPT !.spec = NoType]

BEGIN_LOCAL(u) == [u EXCEPT !.local = TRUE]
END_LOCAL(u) == [u EXCEPT !.local = FALSE]

\* A syntax error, or YYERROR: the destructors free the lists on the stack of
\* the parser.  The tables stay.
Abort(u) ==
  LET lists == {u.open[k].list : k \in {k \in DOMAIN u.open : u.open[k].what = "enum"}}
  IN  [u EXCEPT !.parsing = FALSE, !.local = FALSE, !.open = << >>, !.spec = NoType,
                !.freed = @ \cup UNION {ToSet(s) : s \in lists},
                !.saved = << >>, !.current = 0]
End(u) == [u EXCEPT !.parsing = FALSE, !.saved = << >>, !.current = 0]

-----------------------------------------------------------------------------
(* The steps as data, for programs that are not typed in but written by
   sourcify: which may come next, and what each does. *)

Token(op, arg) == [op |-> op, arg |-> arg]

Accepts(u, t) ==
  CASE t.op \in {"set", "reset", "push", "pop"} -> u.parsing
    [] t.op \in {"struct", "enum", "basic", "{", "enum{"} -> AtSpecifier(u)
    [] t.op = "name" -> AtSpecifier(u) /\ t.arg \in DOMAIN u.htTypedefs
    [] t.op = "}" -> InStruct(u) /\ u.spec = NoType
    [] t.op = "const" -> InEnum(u)
    [] t.op = "enum}" -> InEnum(u) /\ Last(u.open).list # << >>
    [] t.op = "member" -> InStruct(u) /\ HasSpecifier(u)
                          /\ (t.arg = << >> => u.spec.kind \in {"struct", "typedef", "null"})
    [] t.op = "typedef" -> HasSpecifier(u) /\ u.open = << >>
    [] t.op = ";" -> HasSpecifier(u) /\ u.open = << >>

Step(u, t) ==
  CASE t.op = "set" -> PackSet(u, t.arg)
    [] t.op = "reset" -> PackReset(u)
    [] t.op = "push" -> PackPush(u, t.arg)
    [] t.op = "pop" -> PackPop(u)
    [] t.op = "basic" -> [u EXCEPT !.spec = BasicType]
    [] t.op = "name" -> NameType(u, t.arg)
    [] t.op = "struct" -> NameStruct(u, t.arg)
    [] t.op = "{" -> Opened(u, "struct", t.arg)
    [] t.op = "}" -> CloseStruct(u)
    [] t.op = "enum" -> NameEnum(u, t.arg)
    [] t.op = "enum{" -> Opened(u, "enum", t.arg)
    [] t.op = "const" -> AddEnumerator(u, t.arg.name, t.arg.value)
    [] t.op = "enum}" -> CloseEnum(u)
    [] t.op = "member" -> AddMember(u, t.arg)
    [] t.op = "typedef" -> AddTypedefs(u, t.arg)
    [] t.op = ";" -> Discard(u)

-----------------------------------------------------------------------------
(* The specification. *)

Sizes(list, F(_)) == FoldSeq(LAMBDA x, n : F(x) + n, 0, list)
Things(u) == Len(u.enumerators) + Sizes(u.structs, LAMBDA s : 1 + Len(s.decls))
             + Sizes(u.enums, LAMBDA e : 1) + Sizes(u.typedefs, LAMBDA t : Len(t.names))
             + Sizes(u.open, LAMBDA f : 1 + Len(f.list))
Fits(u) == /\ Things(u) <= MaxThings
           /\ Len(u.open) <= (IF u.local THEN 1 ELSE MaxDepth)
           /\ Len(u.saved) <= MaxSaved

Init == unit = NewInfo
Reads(op, arg) == LET t == Token(op, arg)
                  IN  Accepts(unit, t) /\ unit' = Step(unit, t) /\ Fits(unit')

\* c_parser_new, c_parser_run, c_parser_delete.
Parse == ~unit.parsing /\ unit' = NewParser(unit)
AtRest(u) == u.open = << >> /\ u.spec = NoType /\ ~u.local
EndParse == unit.parsing /\ AtRest(unit) /\ unit' = End(unit)
SyntaxError == unit.parsing /\ unit' = Abort(unit)

Pragma == \/ \E n \in Packs : Reads("set", n) \/ Reads("push", n)
          \/ Reads("reset", 0) \/ Reads("pop", 0)
Basic == Reads("basic", 0)
TypeName == \E x \in TypeNames : Reads("name", x)
Struct == \E x \in Tags : Reads("struct", x)
BeginStruct == \E x \in Names : Reads("{", x)
EndStruct == Reads("}", 0)
Enum == \E x \in Tags : Reads("enum", x)
BeginEnum == \E x \in Names : Reads("enum{", x)
Enumerator == \E x \in Constants, v \in Values \cup {NoValue} : Reads("const", [name |-> x, value |-> v])
EndEnum == Reads("enum}", 0)
Member == \E p \in {<< >>, <<TRUE>>, <<FALSE>>} : Reads("member", p)
Declarators == {<<[name |-> x, pointer |-> p]>> : x \in TypeNames, p \in BOOLEAN}
               \cup {<<[name |-> x, pointer |-> TRUE], [name |-> y, pointer |-> FALSE]>> :
                       x \in TypeNames, y \in TypeNames}
Typedefs == \E ds \in Declarators : Reads("typedef", ds)
Semicolon == Reads(";", 0)

\* (A bound on the inputs: functions stand where no packing is in force.)
BeginFunction == /\ unit.parsing /\ AtRest(unit) /\ unit.current = 0 /\ unit.saved = << >>
                 /\ unit' = BEGIN_LOCAL(unit)
EndFunction == /\ unit.local /\ unit.open = << >> /\ unit.spec = NoType
               /\ unit' = END_LOCAL(unit)

Next == \/ Parse \/ EndParse \/ SyntaxError \/ Pragma
        \/ Basic \/ TypeName \/ Struct \/ BeginStruct \/ EndStruct
        \/ Enum \/ BeginEnum \/ Enumerator \/ EndEnum
        \/ Member \/ Typedefs \/ Semicolon \/ BeginFunction \/ EndFunction

Spec == Init /\ [][Next]_unit

-----------------------------------------------------------------------------
(* Properties. *)

Valid(u, t) ==
  CASE t.kind = "struct" -> t.at \in DOMAIN u.structs
    [] t.kind = "enum" -> t.at \in DOMAIN u.enums
    [] t.kind = "typedef" -> t.at \in DOMAIN u.typedefs /\ t.nth \in DOMAIN u.typedefs[t.at].names
    [] OTHER -> t \in {NoType, BasicType, NullType}

\* Every type that a member, a typedef or the parser refers to is in its list,
\* and what is read in the body of a function leaves nothing behind on the
\* stack of the parser.
TypeOK ==
  /\ \A s \in ToSet(unit.structs) : \A d \in ToSet(s.decls) : Valid(unit, d.type)
  /\ \A t \in ToSet(unit.typedefs) : Valid(unit, t.type)
  /\ \A k \in DOMAIN unit.open :
       LET f == unit.open[k]
       IN  /\ f.what = "struct" => \A d \in ToSet(f.list) : Valid(unit, d.type)
           /\ f.what = "enum" => ToSet(f.list) \subseteq DOMAIN unit.enumerators
           /\ unit.local => f.list = << >>
  /\ Valid(unit, unit.spec)
  /\ unit.current \in {0, 1, 2, 4, 8} /\ ToSet(unit.saved) \subseteq {0, 1, 2, 4, 8}
  /\ unit.freed \subseteq DOMAIN unit.enumerators

\* No two definitions of a name: the table leads to the only one in the list,
\* also after nested and repeated definitions and after parses that failed.
\* (parser.y:1178: struct S { struct S { ... } m; } completes S twice.)
OneOfEachName ==
  /\ \A i \in DOMAIN unit.structs :
       unit.structs[i].name # Unnamed => unit.htStructs[unit.structs[i].name] = i
  /\ \A i \in DOMAIN unit.enums :
       unit.enums[i].name # Unnamed => unit.htEnums[unit.enums[i].name] = i

\* Both: whatever is looked up or referred to leads to the one type that is meant.
WellLinked == TypeOK /\ OneOfEachName

Info(u) == <<u.structs, u.htStructs, u.enums, u.htEnums, u.enumerators, u.freed,
             u.htEnumerators, u.typedefs, u.htTypedefs>>

\* What a function declares in its body changes nothing, whatever is nested
\* there and wherever a syntax error ends it (IS_LOCAL, parser.y:146).
LocalsVanish == [][unit.local => Info(unit') = Info(unit)]_unit

\* A definition is final: no later one, nested or in another parse call, nor a
\* failure changes what a name stands for, its members or its packing.
DefinitionsStay ==
  [][/\ \A i \in DOMAIN unit.structs :
          LET s == unit.structs[i]  t == unit'.structs[i]
          IN  s.name = t.name /\ (s.defined => [t EXCEPT !.used = s.used] = s)
     /\ \A i \in DOMAIN unit.enums :
          LET e == unit.enums[i]  f == unit'.enums[i]
          IN  e.name = f.name /\ (e.defined => [f EXCEPT !.used = e.used] = e)
     /\ \A x \in DOMAIN unit.htTypedefs : unit'.htTypedefs[x] = unit.htTypedefs[x]
     /\ \A x \in DOMAIN unit.htEnumerators : unit'.htEnumerators[x] = unit.htEnumerators[x]
     /\ IsPrefix(unit.typedefs, unit'.typedefs)]_unit

=============================================================================
