# Convert::Binary::C in TLA+

Convert::Binary::C is a Perl extension, written in C, that parses C source
code, computes the layout of the types it finds there as a given compiler
would, and converts between Perl data and packed binary data of those types.
This directory holds TLA+ modules that model its core, TLC configurations that
check them, and theorems about them that TLAPS proves.

The library is single threaded and runs every call to its end; only the cache
files of Convert::Binary::C::Cached are shared, by processes that know nothing
of each other. What makes it hard is state that outlives calls: one bitfield layouter
object serves all structs, layouts and sizes are computed once and cached, a
preprocessor object stays between parses with its macros and what it knows of files, options change after parsing, packing
recurses over types with a position, a byte order and a parent that all levels
share, types are written as source in an order that is found on the way, and any
call may end in a Perl exception half way. A test exercises one order of calls; the
interesting failures need a particular one.

## 1. Inventory

Line counts are those of the C sources, comments included.

| Component | Source | State it keeps | Operations |
|---|---|---|---|
| bitfield layouters | `ctlib/bitfields.c` (892) | one object per Convert::Binary::C object: offset, bit position, current type, alignment, byte order, class options | `reset`, `push`, `finalize`, `get`, `set` of three classes |
| layout | `ctlib/layout.c` (733) | align and size of `Struct`, offset and size of declarators; the shared layouter | `get_type_info_generic`, `layout_compound_generic` (they call each other) |
| object life cycle | `cbc/object.c`, `xsubs/*.xs`, `C.xs` | `CBC`: options, `cpi`, `basic`, tag and hook tables | `new`, `clone`, `clean`, `DESTROY`, everything behind `NEED_PARSE_DATA` |
| configuration | `cbc/option.c` (1177), `xsubs/configure.xs`, `xsubs/include.xs` | the options; lists of macros, assertions and include paths | `configure`, `Include`, `Define`, `Assert` |
| parse information | `ctlib/ctparse.c` (1082) | `CParseInfo`: types, symbol tables, preprocessor, `available`, `ready`, `htPredefined`, error stack | `parse_buffer`, `reset_parse_info`, `update_parse_info`, `clone_parse_info`, `free_parse_info` |
| parser, symbol tables | `ctlib/parser.y` (2559), `ctlib/cttype.c` (1130) | scopes, the types under construction | declarations, constant expressions |
| pragmas | `ctlib/pragma.y` (539) | current packing and the stack of pushed ones | `pack(n)`, `pack(push, n)`, `pack(pop)` |
| pack and unpack | `cbc/pack.c` (2154) | `PackInfo`: buffer, position, alignment base, byte order, parent, member path | `pk_create`, `pack_*`, `unpack_*` over a type |
| integers | `ctlib/byteorder.c` (1289) | none | `fetch_integer`, `store_integer` with bitfields |
| member expressions | `cbc/member.c` (1382) | none | `get_member`, `get_member_string`, `get_all_member_strings` |
| types by name | `cbc/type.c`, `cbc/basic.c` | the cached basic types | `get_type_spec`, `get_member_info` |
| tags, hooks, dimensions | `cbc/tag.c`, `ctlib/cttags.c`, `cbc/hook.c` (788), `cbc/dimension.c` (860) | a list of tags at each type and declarator; hooks with argument lists and reference counts | set, delete, clone, call |
| hash table, linked list | `util/hash.c` (1393), `util/list.c` (854) | buckets, chains, iterators | insert, fetch, delete, grow, shrink; insert, extract, splice, sort |
| cached objects | `lib/Convert/Binary/C/Cached.pm` (449) | the cache file | load if valid, save after a parse |
| errors, files | `ctlib/cterror.c`, `ctlib/fileinfo.c` | error stack; size and times of files | push, pop; stat |
| text output | `cbc/sourcify.c` (1000), `cbc/init.c`, `cbc/typeinfo.c` | none | source code, initializers, type descriptions |
| preprocessor | `ucpp/cpp.c` (2775), `ucpp/macro.c` (2110), `eval.c`, `lexer.c` ... | macros with their nesting counters; files found and the macros that protect them; the state of conditions and of guard detection, per file; the stack of files | `lex`/`cpp` (one token or directive), `handle_*` for each directive, `find_file`, `substitute_macro` |
| allocation, debug | `util/memalloc.c`, `cbc/debug.c` | counters | diagnostics |
| tools | `autogen/`, `bin/`, `token/`, `devel/` | none | code generators, `ccconfig` |

How they interact. A question (`sizeof`, `pack`, `member` ...) goes through
`NEED_PARSE_DATA` to `update_parse_info`, which asks the layouter for every
struct without layout; the layouter calls itself for members that are structs,
and uses the one bitfield layouter object of the configuration. The parser also
calls it, when it evaluates `sizeof` in constant expressions. `configure`
discards layouts, the cached basic types and the preprocessor, depending on
which options changed. A parse adds to the type lists and withdraws `ready`.

What makes each of them correct:

- *Layouters*: no bit is handed out twice, a field lies in the storage unit it
  is read from, the run ends behind its last unit, each `push` returns, and
  nothing of an earlier run is left. Generic places fields as GCC does.
- *Layout*: members are disjoint and aligned, whatever order structs are asked
  for in and however deep they nest; a layout once visible is final; calls return.
- *Object, configuration, parse information*: caches are invisible. Every answer
  is the one of the settings in force when the question is asked; `ready` is
  true only with all layouts in place; a clone and its original are independent.
- *Parser*: one definition for each name, and a definition, once complete, is
  final; functions leave nothing behind; a syntax error leaves tables that the
  next parse can go on with.
- *Pragmas*: pop undoes push; errors leave the packing alone.
- *Source code output*: what is written, the parser accepts, and it defines the
  same, however often it was written before.
- *pack and unpack*: every access is inside the buffer; pack changes the members
  it has data for and no others, and unpack returns what was packed; the byte
  order of a tag ends with the tagged type; dimensions that depend on data are
  looked up in the right struct.
- *Member expressions*: the expressions given for an offset lead back to it and
  are all there are.
- *Tags and hooks*: a call sets or removes what it names and nothing else, or, if
  its value is refused, nothing; no sub or argument array is freed while some hook
  refers to it, and none is kept for nothing.
- *Preprocessor*: text, macros and errors are those that C99 asks for, whatever
  was read before; a file is left out as protected only if reading it would add
  nothing.
- *Hash table, list*: the abstract map and sequence survive growing, shrinking
  and removal; iterators see every node once.
- *Cached objects*: a cache that is believed gives the answers a parse would, and
  one that a crash left broken is replaced, if it can be told from a whole one.

`PROJECT.json` lists under `hazards` where this can go wrong and a test would
hardly reach it, at the line where it bites.

## 2. What is modelled

### Bitfield layouters: `BLBase`, `BLGeneric`, `BLMicrosoft`, `BLSimple`, `BLEngine`

The engine object is a record with the members of the C struct, an operator per
method. A `push` is cut into the pieces that are separate ideas in the code
(turn to another type, move on, place the field, fill in the declarator).
`BLEngine` is the method table: it selects the class and puts a push together.
Byte order matters for what is stored in a declarator, so a field's bits are
read off the declarator (`BitRange`) as addresses in memory order.

- `GenericRun` drives the Generic engine the way `layout_compound_generic` does:
  `Open` (reset, `ALIGN`, `OFFSET`), `Push`, rounds of the loop (`Move`),
  `EndPush`, `Close` (`FINISH_BITFIELD`). The object stays between runs.
- `EngineRun` does so for all three engines with a push as one step, with packing
  tighter than the types, and with fields that are refused (`Refuse`).

Two abstract specifications stand above them. `BitAlloc` is what the layouter
relies on: positions only move forward, so bits are never handed out twice.
`GccAlloc` is GCC's rule as a single bit position (`RoundUp` and `Target`, in `BLBase`),
over the same variables. GCC's rule implements `BitAlloc`, the Generic engine implements GCC's rule unless packing is
tighter than a type, and all three engines implement `BitAlloc` up to the first
field an engine does not cope with (history variable `sound`): for Generic, a
field of width zero whose type is larger than the packing; for Simple, a field
wider than a block; Microsoft refuses a field that is too wide, and the run is
given up.

### Layout: `Layout`

The call stack of `layout_compound_generic` is the variable `stack`, so that
calls nest and share `bl` as they do in the code. `Ask` begins a layout from
outside; `Descend` is the call of `get_type_info_generic` for a member whose
struct has no layout yet; `Place`, `PushBits` and `EndRun` are rounds of the
member loop, `Return` what follows it, and `Fatal` is the Perl exception for a
refused bitfield, which leaves all calls at once. A type table and the options
(`setup`) are chosen in the initial state. The history variable `spoiled` holds
the structs into whose layout a nested call interfered: one that reset the
layouter during an open run, or changed its packing, or was left by an
exception; and structs that contain themselves.

### Objects: `CBCObject`, `CBCPromise`

`CBCObject` has an object's `CBC` and `CParseInfo` members that decide which
cached value is used when: `available`, `ready`, the cached sizes (as the set of
settings each rests on), `basic`, the preprocessor with the macros it knows, and
`htPredefined`. A parse is cut at the statements of the source and `configure`
at its options, since either can end after any of them with an exception.
`CBCPromise` has no caches: an answer is that of the settings in force. Two
things the code does not cope with are recorded in `faults`, and the promise of
such an object is void, until it is cleaned or destroyed.

Not part of this model: which option has which value (only whether it matters
for layouts or the preprocessor), the error stack, the file table. Tags have a
module of their own.

### pack and unpack: `ByteOrder`, `Pack`

`ByteOrder` has `fetch_integer` and `store_integer` as operators on sequences of
bytes: order, sign extension, and the field of a storage unit that a bitfield is
read from and merged into.

`Pack` is `pack_type`, `pack_struct`, `unpack_type`, `unpack_struct` and the leaf
functions. Their recursion is the variable `todo`, a stack of calls; an action
runs the call at its head up to the calls it makes, and puts what a function
restores afterwards (`RESTORE_BYTEORDER`, `PACK->parent`) behind them. The members
of `PackInfo` are variables: `len` is `PACKLEN`, `order`, `parent`; the position is
an argument, since every function sets it before it calls another. `string` is
what Perl has as the string's value, which is not always `len` bytes long.
`results` are the values unpacked so far, with the containers under way.
A behaviour unpacks a string, packs data into it, takes the first `k` bytes of
what that left, for any `k`, and unpacks them in scalar or list context. `want`
and `reach` are history: the order of the innermost tag around a call, and how
far the call has read or written. The values that are packed are the set `Data`, and
`Text` is what Perl prints for those that are no strings; a value that is a string
has its bytes. `IsStruct`, `IsTypedef`, `IsDeclared` and the like say which tables of types the
parser, the layout and the tags leave: members lie in their structs, an element of an
array has the size that its declarator has, bitfields are integers (the assertions of
`pack_type`), a Dimension tag is on an array and names a member only within a
struct (`dimension.c:170`).

`MCPack` has, with the instance, the two properties of what unpack returns:
`PutsDataOver` relates the first unpack, the data and the last unpack, and
`OwnDimension` the lengths of arrays and the members that say them.

Left out: hooks (they may run any Perl code), floats, enumerators by name and
numbers given as strings (any string is one that Perl takes for zero, and zero is
what is stored for it), warnings with the path they print (`idl.c`), dimensions
from hooks and longer member expressions. The 64 bits of a value in transit are
an unbounded integer. `GROW_BUFFER` is computed with the width of a long: what is
required (`Required`), and the byte more that `SvGROW` is asked for (`Asked`),
wrap around. For a dimension that comes out negative, what is asked for is more than
there is, and the call dies of it (`OutOfMemory`), or it is zero, when the array would end
one byte in front of the string: then nothing is grown, and filling up with zeros
runs through all of the memory (`Overrun`, where a behaviour ends).

### Member expressions: `Member`

`cbc/member.c` keeps no state between calls, and is operators here: `Walk` is the
walker over the tokens of an expression, `get_member` goes from an expression to
a place (type, declarator, level, offset, size), `get_member_string` from an
offset to expressions, with the ranks by which a union picks the best of its
members and the list of everything met on the way, and `AllStrings` lists the
members. `get_member_info`, the check for allowed types (`Kind`) and the one for
members that determine a dimension (`Usable`) are those of `cbc/type.c` and
`cbc/dimension.c`. The tables of types are what parser and layout have left. A
program asks one question, `member`; the properties ask back with `offsetof`.

### Tags and hooks: `Tags`, `TagPromise`

`Tags` has the list of tags of each type and declarator, as sequences, and the
reference counts of the subs and argument arrays that hooks refer to. An
operator stands for each of the methods of a tag (`TAG_INIT`, `TAG_CLONE`,
`TAG_FREE`, `TAG_SET`, `TAG_VERIFY`), and gives what is left in the tag, by how much
the method raised each count (`by`), and how it ended: updated, to be deleted, or
with an exception. The code's loops over hooks, lists and declarators add such
changes up (`Total`, `ForAll`).
`handle_tag` puts them together, for a tag that is new or was there. `Clean`,
`Clone` and `Destroy` are what those methods do with tags. The Perl program
holds references too (`script`): it lets go of a sub at any time (`Release`), or
gets one back by asking for a tag (`GetTag`).

`TagPromise` has neither lists nor counts nor calls that fail: an object holds a
value for each place and tag. Where a hook's sub or arguments have been freed,
the refinement mapping (`AllHeld`) says so, and no promise allows that.

`MCTags` composes the two: what the expressions in calls of `tag` mean (the place,
its kind, and which members may determine its dimension) is looked up with
`Member`'s operators in a table of types.

### Hash table and linked list: `HashTable`, `KeyMap`, `LinkedList`, `ListPromise`

All the other components keep what they know in these two. `HashTable` has the
chains of `util/hash.c` as sequences of node addresses: a search stops at the
first node that does not come before its key (`Stop`), `ht_grow` splits chains
and `ht_shrink` merges them (`Grow`, `Part`; `Shrink`, `Move`), and storing and removing nodes
does either on its way. A node is in the hands of its caller or in a table;
`call` records what the last call returned. `KeyMap` is what callers
are promised: finite maps, with a walk that gives each key once. The
refinement maps the chains to the map, and the order of an iterator's walk to the
set of keys it has still to give.

`LinkedList` has the links of `util/list.c`: `next` and `prev` of every link, with
the list itself as the link between the last and the first. `Insert`, `Extract`
and the two halves of `LL_splice` (`Cut`, `Fill`) are the pointer assignments of
the code, in their order; `QuickSort` sorts as the code does, from both ends; its calls of
itself and the turns of its loop are functions of their number.
`ListPromise` is the sequence each list stands for, with Perl's rules for
negative positions.

What their callers keep is in the guards: a table or list is not changed during a
walk; `HT_delete` and `LL_delete` are for empty ones (the code asserts it);
`LL_splice` does not take links from behind the last one and puts in no empty list
(`Spliceable`), which no caller does and the code does not cope with (section 3).

### Declarations and source code: `Parser`, `Sourcify`

`Parser` is `ctlib/parser.y` and `ctlib/pragma.y` from the point of view of the
`CParseInfo`: each operator is the code of a grammar rule, and a declaration is a
sequence of them. `unit` is that structure together with the `ParserState`: lists
of structs, enums, enumerators and typedefs, the four hash tables with names, the
flag that a function is being read (`local`), the declarations that are open
(`open`, with what their lists hold so far), the last type specifier (`spec`), and
the packing with its stack. `SyntaxError` may follow any token. Rules that only
read, declarators other than pointers, bitfields and expressions are left out;
unions are structs. A function begins where no packing is in force, a bound on
the inputs and not a rule of the code.

`Sourcify` is `cbc/sourcify.c`: `Text` writes section after section, with the two
buffers the functions hand on, the types that have `T_ALREADY_DUMPED` and the
packing in force. A text is a sequence of tokens of `Parser`, so that the
property `MeansTheSame` can let the parser read it (`Reread`) and compare what it
has defined then. `Shape` and `Body` are definitions by name, as a reader of the
text knows them. `#line`, macros, comments and spacing are left out.

### The preprocessor: `Preprocessor`, `MacroExpansion`, `CStandard`

`Preprocessor` is `ucpp/cpp.c`, with an action for each directive in text that
is read and in text that is compiled out. A file is a sequence of tokens and
directives. `ls` is the lexer state of the current file (`ifnest`, `condf`, and the
three that no #include saves: `condcomp`, `condmet`, `condnest`), `prot` is
`protect_detect`, `stack` what `push_file_context` saves, `found` and `foundSys` the
two tables of files. `Enters` is the end of `handle_include` with the push and the
pop, `EndOfFile` what `cpp` does at the end of a file. A flag of `condf` that is read or
set beside its two words, which an unbalanced file brings about, is any flag.
`ParseFile` and `ParseBuffer` begin a parse the way `ctparse.c` does; macros and tables
of files stay.

`MacroExpansion` is `ucpp/macro.c` as operators: when a definition is accepted, as
a first one or as a repetition, `CollectArguments`, `Fill` (the definition with
arguments put in, `#` and `##`), `Prescan` of an argument, `Rescan` with more tokens from
behind the call, and the counter `nest` and the marks (`Zap`) that end replacement.
`Substitute` puts them together; it is recursive, and so these modules are for TLC
only.

`CStandard` is the measure and no code of the repository: C99's macro replacement
with a set of hidden names per token, groups by nesting, an #include replaced by
the file. `inner` leaves open what the standard does (6.10.3.4 and its footnote), and
what the standard calls undefined is not constrained.

`faults` is history and holds the departures from the standard that a parse has
met, each at the place where it happens: `guard` (a file that is left out as
protected although it would add something), `lookup` (another file than the one the
search should give), `else` (an #else or #elif behind the #else in text that is
compiled out), `unmarked` (a name that must not be replaced loses its mark) and
`redefined` (a definition is taken for the same and is not). Section 3 describes them.

### Cached objects: `Cached`

Processes with a Convert::Binary::C::Cached object each, and one cache file.
Each access to the file system is a step of its own: the look at the header
(`CheckHeader`), the stamps of the files (`CheckFiles`), the parse of the cache
file (`ParseCache`) or of the sources (`Stat`, `Read`), and the writing of the
cache file (`Open`, which cuts it off, and `Write`, half a block each time). A
file is a sequence of blocks, the header first, and remembers for each who
wrote it and whether it is complete; one that a crash or another process cut off
between two blocks has too few (`Deceptive`). Other processes, edits of the sources and
the end of a process come between any two steps. `version` stands for size and
times of the sources: two edits within a second that keep the size have the same
stamp in reality, and such edits are left out.

## 3. Runs

| Run | Question | Bounds |
|---|---|---|
| `GenericRun` | Does the Generic engine follow GCC's rule for every run, does its loop end, is nothing left over? | up to 3 fields a run and any number of runs; 23 widths and types at the boundaries of 1, 2, 4 bytes; starts aligned and unaligned; both byte orders |
| `EngineRun` | Do all engines hand out bits once, within units and run, packed or not? | up to 3 fields of 15 kinds, two of them too wide for their type; packing 1, 2, 8; blocks of 1 and 4 bytes |
| `Layout` | Are nested structs and unions laid out right in whatever order, by whatever engine? | two structs with up to 3 members each, three levels deep, or mutually recursive; unions of bitfields and plain members; about 7800 type tables with options, packings 0, 1 and 2 |
| `CBCObject` | Do an object and its clone answer as if they had no caches? | two structs, one in the other, a typedef, one macro, two settings; one object changes at a time, and while both exist they are asked for types and macros, cleaned and destroyed, which shows whether anything is shared; the objects are interchangeable |
| `Pack` | Does each access stay inside the string, does each tag end where it should, is each dimension looked up in the struct it belongs to, does pack change what it has data for and nothing else? | some 500 combinations of types, data and a string (`MCPack`), numbers of 1 to 3 bytes, both byte orders, strings cut off at every length; longs of 12 bits, memory for 100 bytes |
| `Containers` | Is a table a map, through growing, shrinking, cloning and walks, and is a list the sequence its callers were promised? | two tables of 2 to 4 buckets, two keys, four nodes; a table grows when it has as many nodes as buckets (`Dyades`); three lists, three links, two objects; every position and length from beyond one end to beyond the other. A behaviour has tables or lists for its `subject`; calls that only ask are made of a table while the other does not exist |
| `Preprocessor` | Does the preprocessor give what C99 asks for, with all it remembers? | two parses with one object, of a file and of a buffer in either order, over about 17000 sets of files: all sequences of five conditional directives and text; two files with any two of them each; twelve headers with guards that are right or look alike, with another file included before, inside or behind; three directories with files of the same name and `#include_next`; macros with 0 to 2 parameters in text, conditions and names of files, defined twice. Conditions nest 2 deep (63 in the code), files 3 |
| `Cached` | Is a believed cache right, and does one that can be told from a whole one heal? | two processes, one of which also parses with other options; two edits, the first of which is a syntax error; one process killed while it works; cache files of two blocks |
| `Tags` | Are member expressions and offsets inverse to each other, and does each call of `tag` do what it promises? | 26 tables of types: arrays of arrays of structs through typedefs with padding, unnamed structs and unions three deep, the members of a union in every order; for tags two objects, three places of which one is reached by two expressions, two hooks, two subs, three argument arrays at a time, 14 calls of which half are refused; objects and arrays are interchangeable |
| `Sourcify` | Does the parser keep its tables consistent, and is sourcify's text parsed to the same definitions? | two tags, one typedef name, one constant; four structs, enums, members, enumerators and typedefs together, nested two deep; packings 0, 1 and an invalid one, one of them saved; in a function, and while a packing is saved, three things; any number of parse calls |
| `LayoutNested`, `CBCStale` | What the documentation says and the code does not do | as above |

Why the bounds are enough. The state of an engine in a run is its position and
the type of the last field, so that two fields reach every transition and a
third shows that the result is still sound; the widths stand at and around every
boundary where a comparison changes its outcome. Nested layouts interfere through
one object, so two levels suffice for the interference and a third shows
that it does not depend on being the innermost. For an object, a cached value is
fresh or stale, for which two settings are enough, and the dependencies between
caches are those of a struct, what contains it, and a typedef of it. Packing treats
a byte like any other, so that two bytes tell byte orders apart, and a third size
shows that elements need not be a power of two; each table of `MCPack` has what
one of the ideas needs to go wrong: tags on up to four levels, a struct between a
dimension and its array, bitfields that share a unit. A long of twelve bits wraps
around for the same reason a longer one does: the difference is below zero.

The two keys of the tables fall into one bucket of two and into two of four, and the
one that compares first is in the upper of these, so that merging has to insert
and cannot append. What the preprocessor remembers of a file is whether it was
found and its macro: a second parse meets every memory that the first can leave.
A group has at most an #if, an #elif, an #else and an #endif, so that five lines have all of
them and one too many; guards are told apart by what stands before the #ifndef,
behind the #endif and between them, one thing at a time. A ring is changed at one place, between two neighbours: three
links have every case of distinct and of coinciding neighbours, and a splice needs
a list that is cut, one that is put in, and one that results. Two processes
are enough for a cache file, of which each step sees what was written last; a
header and one block tell apart the file that is empty, cut off behind the
header, and whole. In a union the rank of a member is compared with the best so far:
all orders of one that pads, one that covers the offset and two that hit it
have every comparison. A reference count goes wrong by one call, and shows when
the other holders are gone: two objects, the program and two hooks that refer to the
same sub are enough for a holder to be last. Of the arrays, two may be
in use when a third replaces one of them. For `Sourcify` four things reach every pair of rules that
disturb each other, and in a function or between a push and its pop three do (a definition within its own definition, a struct that is
complete only after it was used, a packing that changes within a struct); beyond
these, ten million states of random behaviours with eight things, three
tags and two typedef names showed no violation.

Properties worth knowing about: `ImplementsGcc`, `ImplementsAlloc`,
`ImplementsPromise`, `ImplementsMap` and `KeepsPromise` are refinements. `AsGcc`
compares each finished layout with one computed member by member with no state at
all. `UnitsNest` says that access to one bitfield never touches another's unit.
`KeepsPromise` of `Tags` fails also when something is freed that a hook needs, and
`RefsCounted` says exactly how often each sub and array is counted.
`AsStandard` compares the outcome of each parse with the one `CStandard` computes from
the files alone, with no memory and no counters; `GuardsRight` asks of every guard that is
remembered whether it still holds at each later time. `WellLinked` has the parser's types and
that each name is in its table once and refers to the right object.
`OffsetsComeBack` and `FindsAllMembers` tie three algorithms together that are
written apart (`get_member`, `get_member_string`, `get_all_member_strings`).
`MeansTheSame` runs the parser over the text for every set of definitions that any
sequence of declarations and failures can leave. `SoundIsRight` speaks of the
caches that one process wrote to their end and nobody touched between the look at the
header and the parse; what the code does otherwise is described below.
`InBuffer` says of every access that it is inside the string but one, which it names. `ParentInPlace` compares
`PACK->parent` with where the data of an array come from and where its elements go, and
`OwnDimension` looks at the outcome only.
`GuardsRight`, `LayoutIsFinal`, `SharesWhenItFits`, `DefinitionsStay`, `LocalsVanish` and
`CloneKeepsOrder` are action properties; `PushReturns`, `CallsReturn` and `Heals` are
liveness properties. `Heals` says that, whatever crashes and other processes
left in the file, a process that comes again and again alone ends up with what is in
the sources, read from the cache, unless the file is and stays `Deceptive`: it can be parsed, its
header is right, and it is not what one process wrote to its end.
`CHECK_DEADLOCK FALSE` in the runs of `Layout`: when every struct has its layout
there is nothing left to do; in `Tags`, where a question about members is the
last; and in `Preprocessor`, after the last parse (`MaxParses`).

### Fairness

`GenericRun` assumes weak fairness of `Move \/ EndPush` and `Layout` of `Step`,
the steps within a call. The library is single threaded and never waits, so a
call that has begun goes on. `Cached` assumes it of each process's steps within a
call (`InCall`), which wait for nothing and for nobody: there are no locks. Nothing is assumed of the user: no call has to be
made, and no run has to be continued.

### What the code does differently from its documentation

Two runs show it, and list it under `findings` in `PROJECT.json`:

- `LayoutNested`: `struct B { int a : 3; }` first laid out as a member of a struct
  that is in the middle of a run of bitfields resets the layouter under it, and
  members of the outer struct overlap. `layout.c` passes one layouter object
  through all levels.
- `CBCStale`: a struct laid out for a `sizeof` in the source keeps that layout
  when an option is changed before the first question.

The following were met on the way. The models have the behaviour, and where a
property would not hold because of it, the property says so:

- With the Simple engine the end of a run of bitfields sets the struct's alignment
  to the block size (`bitfields.c:741`), also where it was larger: a struct with a
  `double` and a bitfield has the alignment 4. `Aligned` is about tables in which
  nothing asks for more than a block's alignment (`BlocksSuffice`, section 4).
- In a union every bitfield overwrites the union's size (`layout.c:423`), so that
  the union `{ double d; int b : 3; }` is as small as the bitfield's storage.
- A call of `Define` that dies in the middle has added macros and not reset the
  preprocessor (`xsubs/include.xs:66`). Reading the list with `Define` resets it
  as changing it does (`xsubs/include.xs:85`). Macros that once were configured
  stay in `htPredefined`, hidden in sourcify's output (`ctlib/ctparse.c:592`).
- A string that ends an element or more before a flexible array of elements of
  several bytes makes the number of its elements huge, where the comment beside it
  expects a negative one (`cbc/pack.c:1800`); the call runs out of memory. A member
  that gives an array in data for `pack` a negative dimension makes `GROW_BUFFER` wrap
  around; it then writes behind the string if the array would end one byte in front of it
  (`cbc/pack.c:81-83`). `InBuffer` excepts this, and no sentence of the documentation
  speaks of it. `pack`
  into a string longer than the type, when a flexible member or a dimension tag
  needs more than the type's size, zeroes what follows that size and may cut the
  string off (`xsubs/pack.xs:103`). Data for a `String` that are shorter than the
  field leave the bytes behind them, as no zero is written (`pack.c:1102`).
- The enumerators of a second definition of an enum, and of one that a syntax error
  ends, are freed, but `htEnumerators` keeps them (`parser.y:1441`, `parser.y:543`);
  `freed` in `Parser` records them. `DefinitionsStay` speaks of the table only.
- A struct or enum without name whose only user was destroyed (by a second
  definition or a syntax error) stays in the list with a reference count, and
  sourcify leaves it out. One that nothing ever referred to and that has members
  with tags is written with their definitions inside it, so that they are
  defined twice when sourcify is asked twice (`tests/209_sourcify.t:41` prints
  the difference of two dumps).
- `#pragma pack` is never written for a packing of zero (`sourcify.c:363`), so that
  a struct without packing inside one that has some takes the latter's when it
  is read again; `clone` of the documentation (C.pm:2600-2614) calls such a
  copy "technically equivalent". `PacksKept` excepts it.
- Sourcify may use a struct by value before its definition, which the parser of
  this library accepts and "any standard C compiler" (C.pm:4026) does not.
- While one process has written only the header of a cache file another may
  believe it and parse a file without definitions (`Cached.pm:189`): the header
  has its `#endif` and all that follows is missing. The documentation says that
  it is detected automatically whether the cache is up to date.
- If the process is killed when it has written the header, or up to the end of a
  declaration, the file passes every check of `__can_use_cache` and parses without
  an error. Every later process believes it, lacks what is missing, and does not
  write it again. `Cached.pm:395-397` says that the algorithm detects when the cache
  file cannot be used and updates it, and line 409 which files it means: those that
  cannot be parsed. `Deceptive` names the others, and `Heals` excepts them.
- If the parse of the cache file fails, `clean` deletes what was to be parsed
  together with what the header said (`Cached.pm:110`); the cache file saved then
  names no code and is not believed. One more run heals it. Macros are not in a
  cache file, and `dependencies` in list context gives a hash reference when the
  cache was used (`Cached.pm:160`).
- `get_member_string` looks at the type of the place without its declarator
  (`member.c:695`): with an offset, `member` of an array of pointers to a struct
  names members of the struct, which `offsetof` refuses. And `get_member` called for
  an element of an array without first dimension divides by that dimension
  (`member.c:807`). The program of `Member` asks about structs and typedefs and the
  members `get_all_member_strings` lists, which are neither.
- Whether a member may determine a dimension is decided by comparing its offset in
  the struct with the array's offset in the expression (`dimension.c:195`): for
  `A.b.v`, a member of `b` behind `v` is accepted when `b` is not the first
  member of `A`, which `tests/203_warnings.t` calls an error for `v`. `MCTags` has
  `b` in front.
- `HT_delete` is documented to do nothing for a table that is not empty, and
  asserts that it is. `CHECK_AUTOSHRINK` shifts by a negative number for tables
  of fewer than eight buckets; no table of the library shrinks by itself.
- `LL_splice` with an offset behind the last link and a length above zero takes
  the head of the ring with it, and with an empty list as replacement
  leaves links to a freed head. No caller does either.

- A header whose first directive is an #include and whose next is the #ifndef of a
  guard is taken for protected by it: `pop_file_context` (`ucpp/cpp.c:561`) brings back
  the state in which no directive was seen. Included again, the header is left out
  together with its leading #include, although the comment in `find_file`'s head calls
  a protected file "useless to read". `GuardsRight` excepts such files.
- A file found with `#include <y.h>` is also what a later `#include "y.h"` gives, if the
  file beside the includer has not been found yet (`cpp.c:811`).
- A second #else, or an #elif behind the #else, is an error where text is read and at most a
  warning where it is compiled out (`cpp.c:2022`). An #if that an included file does not
  end leaves the rest of the includer compiled out, since `condcomp` is not restored,
  and the nesting may fall below zero; an error is reported then (`cpp.c:2155`).
- With `#define f(x) x` and `#define h(x) x`, the inner `f` of `h(f(f)(1))` loses the
  mark that keeps it from being replaced (`macro.c:1175`): the result is `1`, and
  `f(1)` by C99; without `h` it is `f(1)`.
- A macro may be "redefined" with fewer parameters or with none, as only those
  present are compared (`macro.c:568`); the comment above `handle_define` says that the
  rule of identical redefinition is enforced.
- Not in the model: behind an included file without a newline at its end, the next
  directive of the includer is taken for text (`ltwnl` is not among what
  `restore_lexer_state` restores, `cpp.c:484`).

## 4. Proofs

TLAPS proves, for all values of the constants that satisfy the assumptions
stated with them:

- `GenericRun_proofs`: `TypeCorrect`, and `GenericImplementsGcc`: for runs of any
  length, from any start, with types of 1, 2, 4 and 8 bytes and any widths that
  fit them, with a packing no tighter than a type (`Unpacked`), the engine's loop,
  its steps back to a boundary and its rounding at the end amount to GCC's rule.
  Of what they are compared with, in variables of its own (`Rule`): `AllocSafe`, no two fields
  of a run overlap and none ends behind the frontier (the property is inductive
  together with the types, `AllocTypeCorrect`); `GccIsAlloc`, GCC's rule implements
  `BitAlloc`, and `GccSafe`.
- `EngineRun_proofs`, for all three engines and any packing: `UnitsAlwaysNest`,
  `UnitsStayInside`, `UnitsAreShared` (an action property), and
  `EnginesAreAllocs`, the refinement of `BitAlloc`.
- `Layout_proofs`, for all tables of types (`LayoutAssumption`: alignments, clamped by
  the packing, are powers of two up to 16; the types of bitfields are aligned for
  their sizes; no field is wider than its engine can take), all options, all
  engines, and calls nested to any depth: `TypeCorrect`; `LayoutsAreFinal`, an action
  property; `MembersAreDisjoint`; and `MembersAreAligned`, under `BlocksSuffice`, which
  only restricts tables for the Simple engine.
- `CBCObject_proofs`: `TypeCorrect`, `ReadyIsLaidOut`, `ConfiguredIsHidden`, and
  `PromiseKept`, the refinement of `CBCPromise`, for any number of objects,
  structs, typedefs, macros and settings. About `Cached`, whose processes are instances of these
  objects, `SoundCacheIsRight` and `DependenciesAreThose`, for any number of
  processes, edits, crashes and blocks of a file.
- `HashTable_proofs`: `HashInvariance`, `NodesAreThereOnce`, `ClonesKeepOrder` (an action
  property) and `TablesAreMaps`, the refinement of `KeyMap`, for all tables, nodes, keys, hash sums,
  sizes and flags (`HashAssumption`: nodes are finitely many, keys and hash sums are natural
  numbers, NULL is neither a key nor an object).
- `Parser_proofs`: `OneDefinitionEach`, `FunctionsLeaveNothing` and
  `DefinitionsAreFinal`, for declarations of any number, nested to any depth, over
  any number of parses. About `LinkedList`, the structure declarations, members and
  declarators are kept in: `QuickSortIsRight` (`LL_sort` leaves a sequence of any length
  sorted, with the same objects in it), `ListsAreSorted`, and `ListsAreRings`, for any lists,
  links and objects (`ListAssumption`: links are finitely many and no lists, objects are
  numbers, and NULL is none of them).
- `Pack_proofs`: `BufferSafe` (nothing behind the end of the string is read or written but
  for a negative dimension from a member, and bytes are bytes), `OrderSafe` (a ByteOrder tag ends with what it is attached to) and
  `ParentSafe` (a dimension is looked up in the struct it belongs to), for any types nested
  to any depth, any tags, data and strings. `MachineAssumption`, `DataAssumption` and
  `SetupsAssumption` say what is supposed: a string and a type have at most `Memory` bytes, which is less
  than a quarter of what an unsigned long counts; the product that `GROW_BUFFER` is given
  for an array with a Dimension tag is no positive one that wraps around, with the NUL or without; and the tables are what the
  parser, the layout and the tags leave (section 2).
- `Tags_proofs`: `ReferencesAreCounted`, `ListsAreRight` (no list has two tags of the
  same name), and `PromiseKept`, the refinement of `TagPromise`, for any number of
  objects, places, hooks, subs and arrays, and any calls (`TagsAssumption`: objects,
  hooks and places are finite, a sub is no array, and the calls name tags that exist).
  `PromiseKept` is about runs that begin with `Covered`: `Changes`, what `TagPromise` lets
  calls do, has what each of the calls does that `C.pm` allows for the type or member that its
  expression stands for (`Allowed`, `Meant`). In `MCTags` the two are the same.

### The arguments

*`GenericRun`.* The types alone are not inductive: that `offset` stays natural when
the engine steps back needs that it is no smaller than the
remainder taken off. The invariant `Settled` says that between fields the
offset is on a boundary of the current type, so that the engine's position and
GCC's agree modulo the unit; within the loop, `Agrees` says that the place GCC's
rule assigns from the position at which the push began equals the one it
assigns from the current position: the lemma `MoveTarget` shows that a round of
the loop keeps this. When the loop is left the field fits its unit, and then
the rule places it exactly where the engine does (`TargetInUnit`,
`RoundUpInUnit`). Remainders are taken apart by cases on the four sizes, which
is what the SMT solver can do.

*`EngineRun`.* Here a push is one step, and `BLEngine` has the Generic engine's loop in
closed form, as the number of its rounds (`Generic_rounds`); the lemma
`RoundsOfTheLoop` ties it to the loop, which is `Generic_move` in `BLGeneric`. The
invariant `IInv` says of each engine where it stands: on a boundary of its
current type's alignment, clamped by the packing, with no more bits in use than
the unit has (`MsGood`, `SimGood`, `GenGood`), and, for Microsoft and Simple, that
every unit handed out is the current one or lies before it (`Holds`). That the
units nest does not follow from `UnitsNest` before the push, which does not know the
engine's position. A push then finds the current unit or one behind everything in
use (`MsPush`, `SimPush`), and `NestsAppend` adds the field. The packing is any of
1, 2, 4, 8 and 16: with packing, a unit of eight bytes may begin at an odd
address, and it is its clamped alignment that the arithmetic is about. For
`BitAlloc` each push goes ahead from the engine's position (`Advances`), and a run is
abandoned where the abstract allocator may abandon it (`UnsoundIsAlloc`).

*`Layout`.* None of its properties is inductive, since a struct whose layout is in
progress has a part of its members in its own tables and the end of its run in the
layouter, which all calls share. `Orderly` is the part of the invariant that holds
whatever interferes: the types (`Typed`), a struct has places for its members
exactly as far as its call has come (`Filled`), no struct is in progress twice, and while a
call is open the layouter is fit for use (`Called`). `LayoutsAreFinal` needs no more. For what
holds until something interferes, `RunsKept` says of each call whose struct is not
`spoiled` that the layouter has its packing, and, if it has a run open, that
this run is the layouter's and no call it has made has opened one. With it, `Reach`, how far a struct
has got, is `info` or the engine's position, and `StaysAligned` and `StaysApart` say that what has been
placed is aligned, ordered and below it; a member goes behind it. What each
engine does to a position is taken from the lemmas about `EngineRun`
(`Eng`, an INSTANCE of its proofs), extended by `GoodPush` and `GoodFinalize`: a
field lies between the positions before and after. Each of the actions is brought into
one form first (`Top`: the innermost call's tables, frame and layouter change, and nothing else), and
the invariants are shown for that form. That a storage unit of the Generic
engine, which may be larger than its fields, ends within the struct is
`UnitEnds`: it begins below the end, on a boundary of a size that the struct's
alignment is a multiple of. A nested struct whose layout is taken for a member
must not change later, which is where a member that contains its own struct comes in.

*`CBCObject`.* `Fine` says of an object, between any two statements of a call: without
`available` it is blank, with `ready` all is laid out, the table of predefined macros
has the configured ones, and, while it has no faults, sizes are those of the
setting in force, unless the `configure` call that is running is bound to discard
them (`Relays`, `Resets`). The last part is what makes it inductive: in the middle of
`configure` the caches are stale, and only the rest of the call makes that good.
A call that dies there is one of the two `faults`. `PromiseKept` has a lemma for each
action, under `Promised` as the refinement mapping.

*`Cached`.* Processes know of each other through the file only. `FileOK` says that code
behind a header of the same process was read under the same options and no earlier
than the header's stamps were taken; `Mine`, that what a process has written of its file so far is
what its object holds; `Knows`, that a process that found the file whole and in its
hands since has compared the versions that are in it now. Whoever writes in between
takes the others out of `sound`, and those have nothing to keep.

*`HashTable`.* `HashInv` says that every node is in the bucket its hash sum asks for
and that every chain is strictly sorted (`RootOK`). That is what lets a search stop at the first node
that does not come before its key: `FoundFacts` shows that it finds a node with the key if there
is one, and so that no key is in a table twice (`KeysDiffer`); a node put in where the search
stops leaves the chain sorted (`InsertFacts`). `ht_grow` only appends: a new bucket gets its nodes from
a single old one, since the remainder by the old number of buckets is that of the remainder by
the new one (`BucketFacts`), so they come in order (`GrowRoot`). `ht_shrink` moves the
nodes of the upper buckets one by one, each to the place where a search for it stops (`MoveFacts`,
`ShrinkRoot`). Both loops, and the powers of two, are inductions over numbers (`LoopFacts`).
The nodes of a clone are as many as those of the original, because new nodes for
different keys differ (`Images`). For the refinement, what a table holds is a function of the
set of its nodes (`HeldBy`), and a call changes one of these sets by a node, or all of it
(`MapChange`); an iterator has still to give the rest of its chain and the buckets
behind it (`Coming`), and a step takes the head of the first chain that is not empty (`OneGiven`).

*`Pack`.* Each of the three properties is about the call at the head of the stack `todo`,
and none is inductive, since the next call may be any number of calls further down. The
invariant `IInv` speaks of the whole stack. `AreCalls`: each call is one of a type of the setup
at a place where it fits in, which is what the size that `GROW_BUFFER` is given rests on
when `pack` runs; `unpack` checks each size against the string. `Scoped`: there are byte
orders `O`, one before each call and one behind the last, beginning with the order that is set
now, each of them set by the entry before it or left by it, such that every call wants the one before it.
A call puts others in front that want the order of its tag, and the order that was set behind them
(`ScopeCalls`), so that the rest of the stack finds what it found before. `Parented`: a call that looks up a dimension
has a hash as parent now, when it is the head, or stands directly behind an entry that sets one, and
its data are what that hash has under its name (`Fits`).
For `unpack` the parent is the container under way, which has to be a hash when the call for a
member runs: `Filled` has numbers `K` of results before each call, and says that a call which fills a
container finds one of its kind at the depth it will have come to then, and that no call in between
takes it away. `DepthsReplace`, `DepthsPush` and `DepthsCalls` keep that when the head is replaced, and
each action has a lemma of its own (`UnpackStructKeeps`, for one). What the stack is made of comes from `FlattenSeq`
and loops over bytes and dimensions; `FlattenFacts`, `TwoToFacts`, `NumberFacts` and `ItemSizeFacts` show by
induction over numbers (`NatSetInduction`, `LoopFacts`) what those functions return. That bytes stay bytes
when a bitfield is merged is `StoreFacts`.
What `GROW_BUFFER` computes wraps around for a negative number of elements only (`FailFacts`, `AskedFacts`),
and that number can only come from a member (`NegativeFacts`); `Overran` describes the state
in which a process then ends, which no action leaves (`OverranStays`). `ParentInv` says that a call of
`unpack` which looks up a dimension has as its parent the container that the array will be put into;
it holds because only `UnpackMember` makes such a call, and all other actions leave one at the
head that looks up nothing (`Quiet`). `Inv`, which is what is proved of `Spec` (`Inductive`), is
`IInv /\ ParentInv` or `Overran`.

*`Parser`.* `Intact` is `WellLinked` together with what is under way: everything that the
lists, the open definitions and the last type specifier refer to is in its list, each
name in a table refers to the object that has it, complete if the table promises it,
and in a function the lists collected so far are empty. Each rule is shown to lead to a state that is
`Good`: intact again, with no definition changed (`Stay`) and no list shorter
(`Grows`). The two action properties follow from the same lemmas.

*`LinkedList`.* `Rings` counts links and walks along them; it does not say where in a list a
link is. The invariant `ListInv` says that there are chains, one sequence of links for each list,
such that `next` leads along the chain and back to the list, `prev` the other way (`RingOf`), sizes are
lengths, no link is in two places, and each allocated one is in one of them (`AreRings`); a walk stands
in its list. Each operation is shown to keep it by naming the chains after it: one with a link more
(`InsertRing`) or less (`ExtractRing`), a part taken out as a chain of its own (`CutRing`), a chain
put between two links (`FillRing`), a copy (`CloneRing`). That `LL_splice` finds the end of the part by counting, and a
position counted from the end is the one counted from the beginning, is `Places`. `LL_sort` moves
objects and no links. Of `QuickSort`, `Passed` says what holds at each turn of a pass: what is left of
`i` is not greater than the pivot, what is right of `j` is not smaller, the objects are the same in
another order (`Rearranged`), and either the places have moved or the pivot is still between them, so that neither
scan leaves the part (`UpFacts`, `DownFacts`). Then both parts are shorter than the whole, and by induction
over the length (`NatSetInduction`) sorted parts make a sorted whole.

*`Tags`.* A count is compared with the size of a set: the references to `x` are the
tuples of an object, a place, the name of a tag and a hook (`Referring`). What each
function does to a count is then the number of the tuples it adds without the number
of those it removes, from the single hook (`RefFacts`, `UpdateFacts`) to a tag
(`TagFacts`, `SetRight` for each method), a list (`ListFacts`, `WithFacts`, `RemoveFacts`), the lists of
an object (`PlacesFacts`) and the object among others (`ObjectStep`). The sums over loops
of any length are `TotalCounts` and `ForAllCounts`, by induction (`NatSetInduction`, which
is taken from the library's theorem about minimal elements of sets of numbers):
they need that no two rounds count the same reference, which is why the invariant
`Inv` says that no list has two tags of the same name. With that, what a
Dimension tag holds and that all counted references are finitely many, it is inductive.
The refinement rests on it: what a hook of some object refers to is counted at least
once, and so is not freed (`AliveFacts`), and what an object holds is what its lists
mean (`HeldMeans`), whatever the counts are. A list means what the set of its tags does,
as no two have the same name (`SetMeans`), so that where a tag stands in it makes no
difference. From there on no step is about counts: `MethodRight` says of each method that it
leaves what the value stands for and only where `C.pm` allows it, `CallMeans` what
`handle_tag` makes of it for a tag that is new or was there, and `ListPromised` that a list
changed that way is one of the promised `Results`.

### Only model-checked, and why

- Liveness (`PushReturns`, `CallsReturn`, `Heals`) is out of the prover's reach.
- What is compared with a recursive reference: `AsGcc` of `Layout` (a recursion over members), `AsStandard` and `GuardsRight` of `Preprocessor` (macro
  replacement is recursive), `MeansTheSame` and `PacksKept` of `Sourcify`,
  `OffsetsComeBack` and `FindsAllMembers` of `Member`, `PutsDataOver` and `OwnDimension` of `MCPack`.
- `KeepsPromise` of `LinkedList`: not proved yet; the chains of `ListInv` are what it would rest on.
- `Aligned` without `BlocksSuffice` is false.
- Everything that is violated.

## 5. Plan

Done: (1) layouters, (2) layout, (3) objects, (4) integers, pack and unpack, (5)
hash table and linked list, (6) cached objects, (7) parser, pragmas and source
code, (8) member expressions, (9) tags and hooks, (10) the preprocessor. Next:

11. Hooks that die, or change the object, in the middle of `Pack`.
12. The widths of the declarator's fields, in `Layout`.

Proofs done: `BitAlloc`, `GccAlloc`, the Generic engine, all engines, objects, cached
objects, the parser, tags, layout, pack and unpack, hash tables, the rings of linked lists and
their sort. To come: lists as sequences (`ListPromise`).

## 6. Not modelled, and why

Of `ucpp`, assertions, `#line`, the special macros and `_Pragma`, operators in conditions
other than `!` (`eval.c`, `arith.c`), and the lexer: comments, trigraphs, white space, garbage
behind a directive. In `CBCObject` the preprocessor is the set of macros it knows.
The lists of errors, and which buffer a file belongs to, are read and
emptied by the caller alone. Memory allocation, debug output, the layout of written source code, initializers and
type descriptions have no state that a property here is about. Calls of hooks run
any Perl code; what that may do to the object is documented nowhere. The code
generators, benchmarks and `ccconfig` do not run with the library; `ppport.h`, the largest file,
is a compatibility header of Perl's, and `C.pm` is documentation but for a few lines. Sizes and offsets are
unbounded integers; the code's fields of 29, 16 and 8 bits are listed among the
hazards.

## 7. Running

    tlc -config GenericRun.cfg MCGenericRun      # and the other runs of PROJECT.json
    tlapm GenericRun_proofs.tla

A leaf that takes the SMT solver or Zenon more than about a second names the prover and a limit
well above its time (`SMTT(60)`, `ZenonT(60)`), and one that only Zenon proves names Zenon, so
that no proof depends on how fast or how busy the machine is: every module is also proved from
nothing with `--cleanfp --stretch 0.4`, on a machine with two provers per processor.
`Parser_proofs`, the longest, takes about ten minutes.
