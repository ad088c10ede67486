------------------------------ MODULE CBCObject -----------------------------
(***************************************************************************)
(* The life of Convert::Binary::C objects (cbc/object.c, the methods in    *)
(* xsubs/, ctlib/ctparse.c): options, definitions from C sources, and the  *)
(* caches between them.  Three things are computed once and then kept:     *)
(*                                                                         *)
(*   - the layout of a struct (align, size of Struct), the size of a       *)
(*     typedef and that of the basic types; the flag ready of CParseInfo   *)
(*     says that all definitions have theirs;                              *)
(*   - the preprocessor object pp, with the macros it was configured with  *)
(*     and those it has seen in the sources;                               *)
(*   - the table htPredefined of macros not to be taken for the source's.  *)
(*                                                                         *)
(* The options that matter for layouts are one value here, and a cached    *)
(* layout is the set of values it rests on: empty if there is none, more   *)
(* than one if it was put together under different settings.  A parse is   *)
(* cut at the statements of the source and a configure at the options, for *)
(* either may end after any of them with an exception.  One call is under  *)
(* way at a time.                                                          *)
(*                                                                         *)
(* faults is a history of two things the code does not cope with: "early", *)
(* a struct contained in another before it was defined, or an option that  *)
(* matters for layouts set while some are there and the set is incomplete; *)
(* and "failed", a call that threw after it had changed something.         *)
(***************************************************************************)
CONSTANTS Objs,      \* object identities
          Structs,   \* the struct and union types of all C sources
          Inner,     \* struct |-> the structs it contains, at any depth
          Typedefs,  \* the typedefs of all C sources
          Of,        \* typedef |-> the struct it names
          Settings,  \* combinations of the options that matter for layouts
          Names      \* names of preprocessor macros

ASSUME CBCAssumption ==
  /\ Inner \in [Structs -> SUBSET Structs]
  /\ \A s \in Structs : s \notin Inner[s] /\ \A i \in Inner[s] : Inner[i] \subseteq Inner[s]
  /\ Of \in [Typedefs -> Structs]
  /\ Structs \cap Typedefs = {}
  /\ "incomplete" \notin Settings

VARIABLES cbc,       \* object |-> its CBC structure, or NoObject
          call,      \* the call under way, if it is one that has several steps
          answer     \* what the last question was answered with

vars == <<cbc, call, answer>>

Items == Structs \cup Typedefs

NoObject == [exists |-> FALSE]
Void     == [exists |-> TRUE, void |-> TRUE]
NoCall   == [kind |-> "none"]
NoAnswer == [about |-> "nothing", basis |-> {}]
NoPP     == [live |-> FALSE, config |-> {}, source |-> {}]

\* init_parse_info: the part of an object that parsing fills.
InitInfo(c) ==
  [c EXCEPT !.available = FALSE, !.ready = FALSE, !.defined = {}, !.typedefs = {},
            !.size = [x \in Items |-> {}], !.pp = NoPP, !.predefined = {},
            !.faults = @ \ {"early"}]

\* cbc_new, and the options given to the method new.
New(setting, defines) ==
  [exists |-> TRUE, setting |-> setting, defines |-> defines, basic |-> {},
   available |-> FALSE, ready |-> FALSE, defined |-> {}, typedefs |-> {},
   size |-> [x \in Items |-> {}], pp |-> NoPP, predefined |-> {}, faults |-> {}]

Init == /\ cbc = [o \in Objs |-> NoObject]
        /\ call = NoCall
        /\ answer = NoAnswer

Idle(o) == cbc[o].exists /\ call = NoCall

Set(o, c) == cbc' = [cbc EXCEPT ![o] = c]

\* Only questions are answered.
Silent == answer' = NoAnswer

\* reset_preprocessor.
WithoutPP(c) == [c EXCEPT !.pp = NoPP]

\* reset_parse_info.
WithoutLayouts(c) == [c EXCEPT !.size = [x \in Items |-> {}], !.ready = FALSE]

-----------------------------------------------------------------------------
(* Layouts. *)

\* What the layout of struct s rests on when it is computed now: contained
\* structs keep the layout they have, and one without definition is an int.
Basis(c, s) ==
  (UNION {c.size[i] : i \in Inner[s]}) \cup {c.setting}
    \cup (IF Inner[s] \subseteq c.defined THEN {} ELSE {"incomplete"})

\* The layouter is called for the structs S: it computes what is missing, for
\* them and for what they contain.
WithLayouts(c, S) ==
  LET needed == (S \cup UNION {Inner[s] : s \in S}) \cap c.defined
  IN  [c EXCEPT !.size = [x \in Items |-> IF x \in needed /\ @[x] = {}
                                          THEN Basis(c, x) ELSE @[x]]]

\* update_parse_info: first the structs, then the typedefs, of which those of
\* a struct without definition have no size.
Updated(c) ==
  LET laid == WithLayouts(c, c.defined)
  IN  [laid EXCEPT
         !.ready = TRUE,
         !.size = [x \in Items |->
                     IF x \in c.typedefs /\ @[x] = {} /\ Of[x] \in c.defined
                     THEN laid.size[Of[x]] ELSE @[x]]]

\* NEED_PARSE_DATA.
Needed(c) == IF c.available /\ ~c.ready THEN Updated(c) ELSE c

-----------------------------------------------------------------------------
(* parse and parse_file. *)

\* Faulty variants of the operators below stand in front of them, each named
\* for its fault; the mutation checks put them in the place of the original.
BeginParse_noPredefined(o) ==
  LET c == cbc[o]
  IN  /\ Idle(o)
      /\ call' = [kind |-> "parse", obj |-> o]
      /\ Set(o, [c EXCEPT
                   !.available = TRUE, !.ready = FALSE,
                   !.pp = IF c.pp.live THEN @
                          ELSE [live |-> TRUE, config |-> c.defines, source |-> {}]])
      /\ Silent

\* parse_buffer up to where the parser runs.  A new preprocessor gets the
\* configured macros, and htPredefined takes them in; it is never emptied.
BeginParse(o) ==
  LET c == cbc[o]
  IN  /\ Idle(o)
      /\ call' = [kind |-> "parse", obj |-> o]
      /\ Set(o, [c EXCEPT
                   !.available = TRUE, !.ready = FALSE,
                   !.pp = IF c.pp.live THEN @
                          ELSE [live |-> TRUE, config |-> c.defines, source |-> {}],
                   !.predefined = IF c.pp.live THEN @ ELSE @ \cup c.defines])
      /\ Silent

\* parse_file, and there is no such file.
FileNotFound(o) ==
  /\ Idle(o)
  /\ Set(o, [cbc[o] EXCEPT !.available = TRUE, !.ready = FALSE])
  /\ call' = call /\ Silent

Parsing(o) == call = [kind |-> "parse", obj |-> o]

DefineStruct(o, s) ==
  /\ Parsing(o)
  /\ Set(o, [cbc[o] EXCEPT !.defined = @ \cup {s},
                           !.faults = IF Inner[s] \subseteq cbc[o].defined THEN @
                                      ELSE @ \cup {"early"}])
  /\ call' = call /\ Silent

DefineTypedef(o, t) ==
  /\ Parsing(o)
  /\ Set(o, [cbc[o] EXCEPT !.typedefs = @ \cup {t}])
  /\ call' = call /\ Silent

DefineMacro(o, m) ==
  /\ Parsing(o)
  /\ Set(o, [cbc[o] EXCEPT !.pp.source = @ \cup {m}])
  /\ call' = call /\ Silent

\* sizeof(struct s) in a constant expression of the source.
EvaluateSizeof(o, s) ==
  /\ Parsing(o)
  /\ Set(o, WithLayouts(cbc[o], {s}))
  /\ call' = call /\ Silent

\* The end of the source or an error in it, which is thrown as an exception;
\* what was defined before it stays.
EndParse(o) ==
  /\ Parsing(o)
  /\ call' = NoCall
  /\ cbc' = cbc /\ Silent

-----------------------------------------------------------------------------
(* configure, and the methods Include, Define, Assert. *)

Failed(c) == [c EXCEPT !.faults = @ \cup {"failed"}]

BeginConfigure(o) ==
  /\ Idle(o)
  /\ call' = [kind |-> "configure", obj |-> o,
              changes |-> FALSE, layout |-> FALSE, preproc |-> FALSE]
  /\ cbc' = cbc /\ Silent

Configuring(o) == call.kind = "configure" /\ call.obj = o

HasLayouts(c) == \E x \in Items : c.size[x] # {}

\* An option that matters for layouts (IntSize, Alignment, Bitfields ...).
LayoutOption(o, v) ==
  /\ Configuring(o)
  /\ Set(o, [cbc[o] EXCEPT
               !.setting = v,
               !.faults = IF v # cbc[o].setting /\ HasLayouts(cbc[o]) /\ ~cbc[o].ready
                          THEN @ \cup {"early"} ELSE @])
  /\ call' = [call EXCEPT !.changes = @ \/ cbc[o].setting # v, !.layout = TRUE]
  /\ Silent

\* Define => [...]: counts as a change whatever the new list is.
DefineOption(o, d) ==
  /\ Configuring(o)
  /\ Set(o, [cbc[o] EXCEPT !.defines = d])
  /\ call' = [call EXCEPT !.changes = TRUE, !.preproc = TRUE]
  /\ Silent

\* An unknown option or an invalid value throws an exception on the spot.
BadOption(o) ==
  /\ Configuring(o)
  /\ Set(o, IF call.changes THEN Failed(cbc[o]) ELSE cbc[o])
  /\ call' = NoCall
  /\ Silent

EndConfigure_keepsBasic(o) ==
  LET c      == cbc[o]
      layout == IF call.changes /\ call.layout /\ c.available /\ c.ready
                THEN WithoutLayouts(c) ELSE c
  IN  /\ Configuring(o)
      /\ Set(o, IF call.changes /\ call.preproc THEN WithoutPP(layout) ELSE layout)
      /\ call' = NoCall
      /\ Silent

\* What follows the loop over the options.
EndConfigure(o) ==
  LET c      == cbc[o]
      basic  == [c EXCEPT !.basic = {}]
      layout == IF ~(call.changes /\ call.layout) THEN c
                ELSE IF c.available /\ c.ready THEN WithoutLayouts(basic) ELSE basic
  IN  /\ Configuring(o)
      /\ Set(o, IF call.changes /\ call.preproc THEN WithoutPP(layout) ELSE layout)
      /\ call' = NoCall
      /\ Silent

\* $c->Define(...) appends strings to the list, or has it replaced.
Define(o, d) ==
  /\ Idle(o)
  /\ \/ Set(o, WithoutPP([cbc[o] EXCEPT !.defines = @ \cup d]))
     \/ Set(o, WithoutPP([cbc[o] EXCEPT !.defines = d]))
  /\ call' = call /\ Silent

\* An argument that is no string, after some that are, or no array reference:
\* the list has been changed when the exception is thrown.
BadDefine(o, d) ==
  /\ Idle(o)
  /\ \/ Set(o, Failed([cbc[o] EXCEPT !.defines = @ \cup d]))
     \/ Set(o, Failed([cbc[o] EXCEPT !.defines = {}]))
  /\ call' = call /\ Silent

\* $c->Define without arguments returns the list.
ReadDefine(o) ==
  /\ Idle(o)
  /\ Set(o, WithoutPP(cbc[o]))
  /\ call' = call /\ Silent

-----------------------------------------------------------------------------
(* new, clean, clone, DESTROY, and the questions. *)

\* With an invalid option new throws an exception, and there is no object.
Create(o, v, d) ==
  /\ ~cbc[o].exists /\ call = NoCall
  /\ Set(o, New(v, d))
  /\ call' = call /\ Silent

\* free_parse_info.
Clean(o) ==
  /\ Idle(o)
  /\ Set(o, InitInfo(cbc[o]))
  /\ call' = call /\ Silent

Clone_withoutSizes(o, p) ==
  /\ Idle(o) /\ ~cbc[p].exists
  /\ Set(p, [cbc[o] EXCEPT !.size = [x \in Items |-> {}]])
  /\ call' = call /\ Silent

\* cbc_clone with clone_parse_info: lists, tables, caches and preprocessor are
\* all copied, and so are the flags.
Clone(o, p) ==
  /\ Idle(o) /\ ~cbc[p].exists
  /\ Set(p, cbc[o])
  /\ call' = call /\ Silent

Destroy(o) ==
  /\ Idle(o)
  /\ Set(o, NoObject)
  /\ call' = call /\ Silent

\* sizeof, member, pack, ... of a struct or a typedef.
AskType(o, x) ==
  LET c == Needed(cbc[o])
  IN  /\ Idle(o)
      /\ \/ x \in c.defined
         \/ x \in c.typedefs /\ Of[x] \in c.defined
      /\ Set(o, c)
      /\ answer' = [about |-> "layout", basis |-> c.size[x]]
      /\ call' = call

\* The size of a basic type, which needs no source at all.
AskBasic(o) ==
  LET c == Needed(cbc[o])
      b == IF c.basic = {} THEN {c.setting} ELSE c.basic
  IN  /\ Idle(o)
      /\ Set(o, [c EXCEPT !.basic = b])
      /\ answer' = [about |-> "layout", basis |-> b]
      /\ call' = call

\* macro_names, macro, defined.
Macros(c) == c.pp.config \cup c.pp.source

AskMacros(o) ==
  /\ Idle(o) /\ cbc[o].available
  /\ answer' = [about |-> "macros", basis |-> Macros(cbc[o])]
  /\ UNCHANGED <<cbc, call>>

\* sourcify with the option Defines: the macros of the sources.
SourcifiedMacros(c) == Macros(c) \ c.predefined

Next ==
  \E o \in Objs :
    \/ \E v \in Settings, d \in SUBSET Names : Create(o, v, d)
    \/ BeginParse(o) \/ FileNotFound(o) \/ EndParse(o)
    \/ \E s \in Structs : DefineStruct(o, s) \/ EvaluateSizeof(o, s)
    \/ \E t \in Typedefs : DefineTypedef(o, t)
    \/ \E m \in Names : DefineMacro(o, m)
    \/ BeginConfigure(o) \/ BadOption(o) \/ EndConfigure(o)
    \/ \E v \in Settings : LayoutOption(o, v)
    \/ ReadDefine(o)
    \/ \E d \in SUBSET Names : DefineOption(o, d) \/ Define(o, d) \/ BadDefine(o, d)
    \/ Clean(o) \/ Destroy(o)
    \/ \E p \in Objs : Clone(o, p)
    \/ \E x \in Items : AskType(o, x)
    \/ AskBasic(o) \/ AskMacros(o)

Spec == Init /\ [][Next]_vars

-----------------------------------------------------------------------------

Existing == {o \in Objs : cbc[o].exists}

CBC == [exists : {TRUE}, setting : Settings, defines : SUBSET Names,
        basic : SUBSET Settings, available : BOOLEAN, ready : BOOLEAN,
        defined : SUBSET Structs, typedefs : SUBSET Typedefs,
        size : [Items -> SUBSET (Settings \cup {"incomplete"})],
        pp : [live : BOOLEAN, config : SUBSET Names, source : SUBSET Names],
        predefined : SUBSET Names, faults : SUBSET {"early", "failed"}]

Call == [kind : {"none"}] \cup [kind : {"parse"}, obj : Objs]
        \cup [kind : {"configure"}, obj : Objs, changes : BOOLEAN,
              layout : BOOLEAN, preproc : BOOLEAN]

\* Types; an object without parse data holds none.
TypeOK ==
  /\ cbc \in [Objs -> CBC \cup {NoObject}]
  /\ call \in Call
  /\ call.kind # "none" => call.obj \in Existing
  /\ answer \in [about : {"nothing", "layout", "macros"},
                 basis : SUBSET (Settings \cup {"incomplete"} \cup Names)]
  /\ \A o \in Existing : ~cbc[o].available =>
       /\ cbc[o].defined = {} /\ cbc[o].typedefs = {} /\ ~HasLayouts(cbc[o])
       /\ cbc[o].pp = NoPP /\ cbc[o].predefined = {} /\ ~cbc[o].ready

\* The assertion behind NEED_PARSE_DATA, and what get_member relies on when it
\* dies for a size that is not initialized: with ready set, every struct and
\* every typedef that can have a layout has one.
ReadyMeansLaidOut ==
  \A o \in Existing : cbc[o].ready =>
    /\ \A s \in cbc[o].defined : cbc[o].size[s] # {}
    /\ \A t \in cbc[o].typedefs : Of[t] \in cbc[o].defined => cbc[o].size[t] # {}

\* The macros of a live preprocessor that can only come from configuration are
\* never taken for macros of the source.
PredefinedIsHidden ==
  \A o \in Existing : SourcifiedMacros(cbc[o]) \subseteq cbc[o].pp.source

\* The object keeps its promise to whom none of the faults happened.  While
\* configure is at work, what it is going to reset does not count any more.
Promised ==
  [o \in Objs |->
     IF ~cbc[o].exists THEN NoObject
     ELSE IF cbc[o].faults # {} THEN Void
     ELSE LET live == cbc[o].pp.live /\ ~(Configuring(o) /\ call.preproc)
          IN  [exists |-> TRUE, void |-> FALSE,
               setting |-> cbc[o].setting, defines |-> cbc[o].defines,
               available |-> cbc[o].available, defined |-> cbc[o].defined,
               typedefs |-> cbc[o].typedefs, live |-> live,
               source |-> IF live THEN cbc[o].pp.source ELSE {}]]

Promise == INSTANCE CBCPromise WITH obj <- Promised

ImplementsPromise == Promise!Spec

\* "You can reconfigure all options even after you have parsed some code.  The
\* changes will be applied to the already parsed definitions."  When nothing
\* is under way, a complete set of layouts is that of the settings in force
\* (where no call had failed).
LayoutFresh ==
  \A o \in Existing : call = NoCall /\ cbc[o].ready /\ "failed" \notin cbc[o].faults =>
    \A x \in Items : cbc[o].size[x] \cap Settings \subseteq {cbc[o].setting}

=============================================================================
