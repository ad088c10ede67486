----------------------------- MODULE CBCPromise -----------------------------
(***************************************************************************)
(* What a Convert::Binary::C object promises its users: it holds settings  *)
(* and definitions, and every answer about the layout of a type is that of *)
(* the settings in force when the question is asked.  There are no caches  *)
(* here, no order in which things have to be recomputed, and nothing to be *)
(* reset; CBCObject has all of that and is shown to implement this module. *)
(* The promise of an object can become void, and is renewed when the       *)
(* object is cleaned; of a void one nothing is known but that it exists.   *)
(***************************************************************************)
CONSTANTS Objs,      \* object identities
          Structs,   \* the struct and union types of all C sources
          Typedefs,  \* the typedefs of all C sources
          Settings,  \* combinations of the options that matter for layouts
          Names      \* names of preprocessor macros

VARIABLES obj,       \* object |-> what it holds, or NoObject
          answer     \* the last answer: what was asked about, what it rests on

vars == <<obj, answer>>

NoObject == [exists |-> FALSE]
Void     == [exists |-> TRUE, void |-> TRUE]

Nothing == [about |-> "nothing", basis |-> {}]

\* live: the preprocessor's macros can be asked for, and serve the next parse.
New(setting, defines) ==
  [exists |-> TRUE, void |-> FALSE,
   setting |-> setting, defines |-> defines, available |-> FALSE,
   defined |-> {}, typedefs |-> {}, live |-> FALSE, source |-> {}]

Existing == {o \in Objs : obj[o].exists}
Sound    == {o \in Existing : ~obj[o].void}

Init == /\ obj = [o \in Objs |-> NoObject]
        /\ answer = Nothing

Create(o) ==
  /\ o \notin Existing
  /\ \E v \in Settings, d \in SUBSET Names : obj' = [obj EXCEPT ![o] = New(v, d)]
  /\ answer' = Nothing

\* Only object o changes, its promise holds before and after, and nobody is
\* answered.
Only(o) == /\ o \in Sound
           /\ obj' = [obj EXCEPT ![o] = obj'[o]]
           /\ obj'[o].exists /\ ~obj'[o].void
           /\ answer' = Nothing

\* New values for the options; other definitions for the preprocessor mean
\* that what it knows is forgotten.
Change(o) ==
  /\ Only(o)
  /\ obj'[o].setting \in Settings
  /\ obj'[o].defines \subseteq Names
  /\ obj'[o].live => obj[o].live /\ obj'[o].defines = obj[o].defines
  /\ obj'[o] = [obj[o] EXCEPT !.setting = obj'[o].setting, !.defines = obj'[o].defines,
                              !.live = obj'[o].live,
                              !.source = IF obj'[o].live THEN @ ELSE {}]

\* A parse begins: macros of earlier parses are still there if nothing was
\* reset, else the configured ones are.
Open(o) ==
  /\ Only(o)
  /\ obj'[o] = [obj[o] EXCEPT !.available = TRUE, !.live = obj'[o].live]
  /\ obj'[o].live \in {TRUE, obj[o].live}

\* Definitions are only ever added.
Learn(o) ==
  /\ Only(o)
  /\ obj[o].available
  /\ obj[o].defined \subseteq obj'[o].defined /\ obj'[o].defined \subseteq Structs
  /\ obj[o].typedefs \subseteq obj'[o].typedefs /\ obj'[o].typedefs \subseteq Typedefs
  /\ obj[o].source \subseteq obj'[o].source /\ obj'[o].source \subseteq Names
  /\ obj'[o] = [obj[o] EXCEPT !.defined = obj'[o].defined,
                              !.typedefs = obj'[o].typedefs, !.source = obj'[o].source]

Clean(o) ==
  /\ Only(o)
  /\ obj'[o] = New(obj[o].setting, obj[o].defines)

\* From now on nothing is promised.
Forfeit(o) ==
  /\ o \in Existing
  /\ obj' = [obj EXCEPT ![o] = Void]
  /\ answer' = Nothing

\* After cleaning, the object holds no definitions, and some settings.
Renew(o) ==
  /\ o \in Existing \ Sound
  /\ \E v \in Settings, d \in SUBSET Names : obj' = [obj EXCEPT ![o] = New(v, d)]
  /\ answer' = Nothing

Clone(o, p) ==
  /\ o \in Existing /\ p \notin Existing
  /\ obj' = [obj EXCEPT ![p] = obj[o]]
  /\ answer' = Nothing

Destroy(o) ==
  /\ o \in Existing
  /\ obj' = [obj EXCEPT ![o] = NoObject]
  /\ answer' = Nothing

\* The layout of a type rests on the settings in force, and on nothing else.
AskLayout(o) ==
  /\ o \in Sound
  /\ answer' = [about |-> "layout", basis |-> {obj[o].setting}]
  /\ obj' = obj

\* The macros are those configured and those of the source.
AskMacros(o) ==
  /\ o \in Sound
  /\ answer' = [about |-> "macros",
                basis |-> IF obj[o].live THEN obj[o].defines \cup obj[o].source ELSE {}]
  /\ obj' = obj

\* The answer of a void object may be anything.
AskVoid(o) ==
  /\ o \in Existing \ Sound
  /\ obj' = obj
  /\ answer'.about \in {"layout", "macros"}

Next ==
  \E o \in Objs :
    \/ Create(o) \/ Change(o) \/ Open(o) \/ Learn(o) \/ Clean(o) \/ Destroy(o)
    \/ Forfeit(o) \/ Renew(o)
    \/ AskLayout(o) \/ AskMacros(o) \/ AskVoid(o)
    \/ \E p \in Objs : Clone(o, p)

Spec == Init /\ [][Next]_vars

=============================================================================
