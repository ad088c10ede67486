-------------------------- MODULE CBCObject_proofs --------------------------
(***************************************************************************)
(* Objects keep their promise: what CBCObject.cfg checks for two structs   *)
(* and two settings holds for all.  What Cached.cfg checks of the files in *)
(* which they are cached, for two processes, two edits and a file of two   *)
(* blocks, holds for any number of them.                                   *)
(*                                                                         *)
(* The inductive invariant says of every object, Fine, what its caches     *)
(* rest on.  What it says depends on the call under way on that object,    *)
(* and on the faults that happened to it.  An action changes one object    *)
(* and the call (lemma OneObject), so that each is left with a fact about  *)
(* the record of that object.                                              *)
(*                                                                         *)
(* A reader of a cache file takes blocks out of a file that others may be  *)
(* writing.  The inductive invariant CacheInv therefore says what the      *)
(* blocks of one writer have to do with each other, whoever it was and     *)
(* whether or not it still runs (FileOK), what they have to do with an     *)
(* object that is being written (Mine), and what a process that saw a      *)
(* whole file knows of it at each of the steps from the header to the      *)
(* parse (Knows).                                                          *)
(***************************************************************************)
EXTENDS CBCObject, Cached, TLAPS

\* The call under way is going to reset the layouts, and the preprocessor,
\* unless it fails.
Relays(o) == Configuring(o) /\ call.changes /\ call.layout
Resets(o) == Configuring(o) /\ call.preproc

LaidOut(c) ==
  /\ \A s \in c.defined : c.size[s] # {}
  /\ \A t \in c.typedefs : Of[t] \in c.defined => c.size[t] # {}

Blank(c) ==
  /\ c.defined = {} /\ c.typedefs = {} /\ ~HasLayouts(c)
  /\ c.pp = NoPP /\ c.predefined = {} /\ ~c.ready

\* What is defined contains what is defined, and layouts are those of the
\* setting.
Closed(c) == \A s \in c.defined : Inner[s] \subseteq c.defined
Fresh(c) == \A x \in Items : c.size[x] \subseteq {c.setting}

\* The last two conjuncts are about objects without (certain) faults, and do
\* not hold for what is going to be reset.
Fine(o) ==
  LET c == cbc[o]
  IN  /\ c \in CBC
      /\ Parsing(o) => c.available /\ ~c.ready /\ c.pp.live
      /\ ~c.available => Blank(c)
      /\ c.ready => LaidOut(c)
      /\ c.pp.config \subseteq c.predefined
      /\ ~c.pp.live => c.pp = NoPP
      /\ "failed" \notin c.faults => c.basic \subseteq {c.setting} \/ Relays(o)
      /\ c.faults = {} =>
           /\ Closed(c)
           /\ Fresh(c) \/ (Relays(o) /\ c.ready)
           /\ c.pp.live => c.pp.config = c.defines \/ Resets(o)

AnswerOK == answer \in [about : {"nothing", "layout", "macros"},
                        basis : SUBSET (Settings \cup {"incomplete"} \cup Names)]

CallOK ==
  /\ call \in Call
  /\ call.kind # "none" => call.obj \in Existing
  /\ call.kind = "configure" => (call.preproc => call.changes)

IInv ==
  /\ cbc \in [Objs -> CBC \cup {NoObject}]
  /\ CallOK
  /\ AnswerOK
  /\ \A o \in Existing : Fine(o)

-----------------------------------------------------------------------------
(* An action changes one object and the call on it. *)

\* If a call is under way it is on object o.
CallOn(o) == call = NoCall \/ call.obj = o

Changes(o) ==
  /\ cbc' = [cbc EXCEPT ![o] = cbc'[o]]
  /\ CallOn(o) /\ CallOn(o)'

\* The other objects are fine as they were.
LEMMA OneObject ==
  ASSUME IInv, NEW o \in Objs, Changes(o), AnswerOK',
         call' \in Call,
         call'.kind = "configure" => (call'.preproc => call'.changes),
         Fine(o)'
  PROVE  IInv'
<1>1. cbc' \in [Objs -> CBC \cup {NoObject}] /\ cbc'[o] \in CBC
  BY DEF IInv, Fine, Changes
<1>2. o \in Existing'
  BY <1>1 DEF Existing, CBC
<1>3. CallOK'
  BY <1>2 DEF CallOK, CallOn, NoCall, Changes
<1>4. ASSUME NEW q \in Objs, q \in Existing'
      PROVE  Fine(q)'
  <2>1. CASE q = o
    BY <2>1
  <2>2. CASE q # o
    <3>1. cbc'[q] = cbc[q] /\ q \in Existing
      BY <1>4, <2>2 DEF IInv, Existing, Changes
    <3>2. /\ ~Parsing(q) /\ ~Configuring(q)
          /\ ~Parsing(q)' /\ ~Configuring(q)'
      BY <2>2 DEF CallOn, Parsing, Configuring, NoCall, Changes
    <3>3. Fine(q)
      BY <3>1 DEF IInv
    <3> QED BY <3>1, <3>2, <3>3 DEF Relays, Resets, Fine
  <2> QED BY <2>1, <2>2
<1>5. Existing' \subseteq Objs
  BY DEF Existing
<1> QED BY <1>1, <1>3, <1>4, <1>5 DEF IInv

-----------------------------------------------------------------------------
(* Layouts. *)

LEMMA BasisFacts ==
  ASSUME NEW c \in CBC, NEW s \in Structs
  PROVE  /\ Basis(c, s) \subseteq Settings \cup {"incomplete"}
         /\ Basis(c, s) # {}
         /\ s \in c.defined /\ Closed(c) /\ Fresh(c) => Basis(c, s) = {c.setting}
<1> Inner[s] \subseteq Structs /\ Structs \subseteq Items
  BY CBCAssumption DEF Items
<1>1. \A i \in Items : c.size[i] \subseteq Settings \cup {"incomplete"}
  BY DEF CBC
<1>2. c.setting \in Settings
  BY DEF CBC
<1> DEFINE contained == UNION {c.size[i] : i \in Inner[s]}
           undefined == IF Inner[s] \subseteq c.defined THEN {} ELSE {"incomplete"}
<1>3. Basis(c, s) = contained \cup {c.setting} \cup undefined
  BY DEF Basis
<1>4. contained \subseteq Settings \cup {"incomplete"}
  BY <1>1
<1>5. undefined \subseteq {"incomplete"}
  OBVIOUS
<1>6. ASSUME s \in c.defined, Closed(c), Fresh(c)
      PROVE  Basis(c, s) = {c.setting}
  <2>1. contained \subseteq {c.setting}
    BY <1>6 DEF Fresh
  <2>2. undefined = {}
    BY <1>6 DEF Closed
  <2> QED BY <1>3, <2>1, <2>2
<1> HIDE DEF contained, undefined
<1> QED BY <1>2, <1>3, <1>4, <1>5, <1>6

\* The layouter changes sizes only, from empty to what they rest on now.
LEMMA WithLayoutsFacts ==
  ASSUME NEW c \in CBC, NEW S \in SUBSET Structs
  PROVE  LET d == WithLayouts(c, S)
         IN  /\ d \in CBC
             /\ d = [c EXCEPT !.size = d.size]
             /\ \A x \in Items : d.size[x] = c.size[x] \/ (x \in c.defined /\ d.size[x] = Basis(c, x))
             /\ \A x \in Items : c.size[x] # {} => d.size[x] = c.size[x]
             /\ \A x \in S \cap c.defined : d.size[x] # {}
<1> DEFINE needed == (S \cup UNION {Inner[s] : s \in S}) \cap c.defined
           size == [x \in Items |-> IF x \in needed /\ c.size[x] = {} THEN Basis(c, x) ELSE c.size[x]]
<1>1. c.defined \subseteq Structs /\ Structs \subseteq Items
  BY DEF CBC, Items
<1>2. size \in [Items -> SUBSET (Settings \cup {"incomplete"})]
  BY <1>1, BasisFacts DEF CBC
<1>3. WithLayouts(c, S) = [c EXCEPT !.size = size]
  BY DEF WithLayouts
<1>4. [c EXCEPT !.size = size] \in CBC /\ [c EXCEPT !.size = size].size = size
  <2> HIDE DEF size
  <2> QED BY <1>2 DEF CBC
<1>5. \A x \in S \cap c.defined : size[x] # {}
  BY <1>1, BasisFacts
<1> QED BY <1>3, <1>4, <1>5

\* All definitions have a layout afterwards, and where all was fresh it is.
LEMMA UpdatedFacts ==
  ASSUME NEW c \in CBC
  PROVE  LET d == Updated(c)
         IN  /\ d \in CBC
             /\ d = [c EXCEPT !.ready = TRUE, !.size = d.size]
             /\ LaidOut(d)
             /\ Closed(c) /\ Fresh(c) => Fresh(d)
<1> DEFINE laid == WithLayouts(c, c.defined)
           size == [x \in Items |-> IF x \in c.typedefs /\ laid.size[x] = {} /\ Of[x] \in c.defined
                                    THEN laid.size[Of[x]] ELSE laid.size[x]]
           d == Updated(c)
<1>0. c.defined \subseteq Structs /\ c.typedefs \subseteq Typedefs
      /\ Structs \cap Typedefs = {} /\ Items = Structs \cup Typedefs
  BY CBCAssumption DEF CBC, Items
<1>1. /\ laid \in CBC
      /\ laid = [c EXCEPT !.size = laid.size]
      /\ \A x \in Items : laid.size[x] = c.size[x] \/ (x \in c.defined /\ laid.size[x] = Basis(c, x))
      /\ \A x \in c.defined : laid.size[x] # {}
  BY <1>0, WithLayoutsFacts
<1>2. size \in [Items -> SUBSET (Settings \cup {"incomplete"})]
  <2> HIDE DEF laid
  <2> QED BY <1>0, <1>1 DEF CBC
<1>3. d = [c EXCEPT !.ready = TRUE, !.size = size]
  <2>1. d = [laid EXCEPT !.ready = TRUE, !.size = size]
    BY DEF Updated
  <2> HIDE DEF laid, d, size
  <2> QED BY <1>1, <2>1 DEF CBC
<1>4. d \in CBC /\ d.size = size /\ d.defined = c.defined /\ d.typedefs = c.typedefs /\ d.setting = c.setting
  <2> HIDE DEF d, size
  <2> QED BY <1>2, <1>3 DEF CBC
<1>5. LaidOut(d)
  <2> HIDE DEF laid, d
  <2> QED BY <1>0, <1>1, <1>4 DEF LaidOut
<1>6. ASSUME Closed(c), Fresh(c)
      PROVE  Fresh(d)
  <2>1. \A x \in Items : laid.size[x] \subseteq {c.setting}
    BY <1>0, <1>1, <1>6, BasisFacts DEF Fresh
  <2> HIDE DEF laid, d
  <2> QED BY <1>0, <1>4, <2>1 DEF Fresh
<1> QED BY <1>3, <1>4, <1>5, <1>6


-----------------------------------------------------------------------------
(* Every action keeps the invariant. *)

LEMMA CallFacts ==
  ASSUME NEW o \in Objs
  PROVE  /\ NoCall \in Call /\ NoCall.kind = "none"
         /\ [kind |-> "parse", obj |-> o] \in Call
         /\ call = NoCall => CallOn(o) /\ ~Parsing(o) /\ ~Configuring(o)
         /\ Parsing(o) => CallOn(o) /\ ~Configuring(o) /\ call \in Call /\ call.kind = "parse"
         /\ Configuring(o) => CallOn(o) /\ ~Parsing(o)
         /\ call \in Call /\ Configuring(o) =>
              /\ call = [kind |-> "configure", obj |-> o, changes |-> call.changes,
                         layout |-> call.layout, preproc |-> call.preproc]
              /\ call.changes \in BOOLEAN /\ call.layout \in BOOLEAN /\ call.preproc \in BOOLEAN
BY DEF NoCall, Call, CallOn, Parsing, Configuring

LEMMA SilentOK == Silent => AnswerOK'
BY DEF Silent, AnswerOK, NoAnswer

\* What holds of an object that no call is about.
LEMMA IdleFacts ==
  ASSUME IInv, NEW o \in Objs, cbc[o].exists, call = NoCall
  PROVE  LET c == cbc[o]
         IN  /\ o \in Existing /\ Fine(o) /\ c \in CBC
             /\ ~c.available => Blank(c)
             /\ c.ready => LaidOut(c)
             /\ c.pp.config \subseteq c.predefined
             /\ ~c.pp.live => c.pp = NoPP
             /\ "failed" \notin c.faults => c.basic \subseteq {c.setting}
             /\ c.faults = {} => /\ Closed(c) /\ Fresh(c)
                                 /\ c.pp.live => c.pp.config = c.defines
BY CallFacts DEF IInv, Existing, Fine, Relays, Resets

\* When no call is under way any more, an object whose record is fine by itself.
LEMMA IdleStep ==
  ASSUME IInv, NEW o \in Objs, NEW d \in CBC,
         call = NoCall \/ call.obj = o, call' = NoCall, AnswerOK', cbc' = [cbc EXCEPT ![o] = d],
         ~d.available => Blank(d),
         d.ready => LaidOut(d),
         d.pp.config \subseteq d.predefined,
         ~d.pp.live => d.pp = NoPP,
         "failed" \notin d.faults => d.basic \subseteq {d.setting},
         d.faults = {} => Closed(d) /\ Fresh(d) /\ (d.pp.live => d.pp.config = d.defines)
  PROVE  IInv'
<1>1. Changes(o) /\ cbc'[o] = d
  BY DEF IInv, Changes, CallOn
<1>2. ~Parsing(o)'
  BY CallFacts DEF Parsing, NoCall
<1>3. Fine(o)'
  BY <1>1, <1>2 DEF Fine
<1> QED BY <1>1, <1>3, CallFacts, OneObject

\* What an object holds is as it was, but for the cached layouts.
LEMMA NeededFacts ==
  ASSUME IInv, NEW o \in Objs, cbc[o].exists, call = NoCall
  PROVE  LET c == cbc[o]
             d == Needed(c)
         IN  /\ d \in CBC
             /\ d = [c EXCEPT !.ready = d.ready, !.size = d.size]
             /\ ~d.available => Blank(d)
             /\ d.available => LaidOut(d)
             /\ c.faults = {} => Fresh(d)
<1> DEFINE c == cbc[o]
           d == Needed(c)
<1>1. /\ c \in CBC
      /\ ~c.available => Blank(c)
      /\ c.ready => LaidOut(c)
      /\ c.faults = {} => Closed(c) /\ Fresh(c)
  BY IdleFacts
<1>2. CASE c.available /\ ~c.ready
  <2> HIDE DEF c
  <2>1. d = Updated(c)
    BY <1>2 DEF Needed
  <2>2. /\ d \in CBC
        /\ d = [c EXCEPT !.ready = TRUE, !.size = d.size]
        /\ LaidOut(d)
        /\ Closed(c) /\ Fresh(c) => Fresh(d)
    BY <1>1, <2>1, UpdatedFacts
  <2> HIDE DEF d
  <2>3. d.available /\ d.ready
    BY <1>1, <1>2, <2>2 DEF CBC
  <2>4. d = [c EXCEPT !.ready = d.ready, !.size = d.size]
    BY <1>1, <2>2, <2>3 DEF CBC
  <2> QED BY <1>1, <2>2, <2>3, <2>4 DEF c, d
<1>3. CASE ~(c.available /\ ~c.ready)
  <2>1. d = c
    BY <1>3 DEF Needed
  <2>2. c = [c EXCEPT !.ready = c.ready, !.size = c.size]
    <3> HIDE DEF c
    <3> QED BY <1>1 DEF CBC
  <2> QED BY <1>1, <1>3, <2>1, <2>2
<1> QED BY <1>2, <1>3

\* What holds of an object while its sources are parsed.
LEMMA ParseFacts ==
  ASSUME IInv, NEW o \in Objs, Parsing(o)
  PROVE  LET c == cbc[o]
         IN  /\ c \in CBC /\ c.available /\ ~c.ready /\ c.pp.live
             /\ c.pp.config \subseteq c.predefined
             /\ "failed" \notin c.faults => c.basic \subseteq {c.setting}
             /\ c.faults = {} => Closed(c) /\ Fresh(c) /\ c.pp.config = c.defines
<1>1. call.obj = o /\ call.kind = "parse" /\ o \in Existing
  BY DEF Parsing, IInv, CallOK
<1>2. Fine(o) /\ ~Relays(o) /\ ~Resets(o)
  BY <1>1, CallFacts DEF IInv, Relays, Resets
<1> QED BY <1>2 DEF Fine

LEMMA ParseStep ==
  ASSUME IInv, NEW o \in Objs, NEW d \in CBC,
         CallOn(o), call' = [kind |-> "parse", obj |-> o], AnswerOK', cbc' = [cbc EXCEPT ![o] = d],
         d.available, ~d.ready, d.pp.live,
         d.pp.config \subseteq d.predefined,
         "failed" \notin d.faults => d.basic \subseteq {d.setting},
         d.faults = {} => Closed(d) /\ Fresh(d) /\ d.pp.config = d.defines
  PROVE  IInv'
<1>1. Changes(o) /\ cbc'[o] = d
  BY DEF IInv, Changes, CallOn
<1>2. call' \in Call /\ call'.kind = "parse"
  BY DEF Call
<1>3. Fine(o)'
  BY <1>1 DEF Fine
<1> QED BY <1>1, <1>2, <1>3, OneObject

\* The steps of parse.
LEMMA ParseSteps ==
  ASSUME IInv, NEW o \in Objs,
         \/ BeginParse(o) \/ FileNotFound(o) \/ EndParse(o)
         \/ \E s \in Structs : DefineStruct(o, s) \/ EvaluateSizeof(o, s)
         \/ \E t \in Typedefs : DefineTypedef(o, t)
         \/ \E m \in Names : DefineMacro(o, m)
  PROVE  IInv'
<1> DEFINE c == cbc[o]
<1>0. AnswerOK'
  BY SilentOK DEF BeginParse, FileNotFound, EndParse, DefineStruct, EvaluateSizeof, DefineTypedef,
                  DefineMacro
<1>1. ASSUME Idle(o)
      PROVE  /\ c.exists /\ call = NoCall /\ c \in CBC /\ CallOn(o)
             /\ ~c.available => Blank(c)
             /\ c.pp.config \subseteq c.predefined
             /\ ~c.pp.live => c.pp = NoPP
             /\ "failed" \notin c.faults => c.basic \subseteq {c.setting}
             /\ c.faults = {} => Closed(c) /\ Fresh(c) /\ (c.pp.live => c.pp.config = c.defines)
  BY <1>1, IdleFacts, CallFacts DEF Idle
<1>2. ASSUME Parsing(o)
      PROVE  /\ c \in CBC /\ c.available /\ ~c.ready /\ c.pp.live
             /\ c.pp.config \subseteq c.predefined
             /\ "failed" \notin c.faults => c.basic \subseteq {c.setting}
             /\ c.faults = {} => Closed(c) /\ Fresh(c) /\ c.pp.config = c.defines
             /\ CallOn(o) /\ call = [kind |-> "parse", obj |-> o]
  BY <1>2, ParseFacts, CallFacts DEF Parsing
<1>3. CASE BeginParse(o)
  <2> DEFINE pp == IF c.pp.live THEN c.pp ELSE [live |-> TRUE, config |-> c.defines, source |-> {}]
             predefined == IF c.pp.live THEN c.predefined ELSE c.predefined \cup c.defines
             n == [c EXCEPT !.available = TRUE, !.ready = FALSE, !.pp = pp, !.predefined = predefined]
  <2>1. Idle(o) /\ cbc' = [cbc EXCEPT ![o] = n] /\ call' = [kind |-> "parse", obj |-> o]
    BY <1>3 DEF BeginParse, Set
  <2> HIDE DEF c
  <2>2. /\ pp \in [live : BOOLEAN, config : SUBSET Names, source : SUBSET Names]
        /\ pp.live /\ predefined \in SUBSET Names /\ pp.config \subseteq predefined
        /\ c.faults = {} => pp.config = c.defines
    BY <1>1, <2>1 DEF CBC
  <2> HIDE DEF pp, predefined
  <2>3. /\ n \in CBC /\ n.available /\ ~n.ready /\ n.pp = pp /\ n.predefined = predefined
        /\ n.faults = c.faults /\ n.basic = c.basic /\ n.setting = c.setting /\ n.defines = c.defines
        /\ n.defined = c.defined /\ n.size = c.size
    BY <1>1, <2>1, <2>2 DEF CBC
  <2>4. n.faults = {} => Closed(n) /\ Fresh(n)
    BY <1>1, <2>1, <2>3 DEF Closed, Fresh
  <2> HIDE DEF n
  <2> QED BY <1>0, <1>1, <2>1, <2>2, <2>3, <2>4, ParseStep DEF c
<1>4. CASE FileNotFound(o)
  <2> DEFINE n == [c EXCEPT !.available = TRUE, !.ready = FALSE]
  <2>1. Idle(o) /\ cbc' = [cbc EXCEPT ![o] = n] /\ call' = NoCall
    BY <1>1, <1>4 DEF FileNotFound, Set
  <2> HIDE DEF c
  <2>2. /\ n \in CBC /\ n.available /\ ~n.ready /\ n.pp = c.pp /\ n.predefined = c.predefined
        /\ n.faults = c.faults /\ n.basic = c.basic /\ n.setting = c.setting /\ n.defines = c.defines
        /\ n.defined = c.defined /\ n.size = c.size
    BY <1>1, <2>1 DEF CBC
  <2>3. n.faults = {} => Closed(n) /\ Fresh(n)
    BY <1>1, <2>1, <2>2 DEF Closed, Fresh
  <2> HIDE DEF n
  <2> QED BY <1>0, <1>1, <2>1, <2>2, <2>3, IdleStep DEF c
<1>5. CASE EndParse(o)
  <2>1. Parsing(o) /\ cbc' = cbc /\ call' = NoCall
    BY <1>5 DEF EndParse
  <2>2. Changes(o)
    BY <1>2, <2>1, CallFacts DEF Changes, CallOn, IInv
  <2>3. ~Parsing(o)'
    BY <2>1 DEF Parsing, NoCall
  <2>4. Fine(o)'
    BY <1>2, <2>1, <2>3 DEF Fine
  <2> QED BY <1>0, <2>1, <2>2, <2>4, CallFacts, OneObject
<1>6. ASSUME NEW s \in Structs, DefineStruct(o, s)
      PROVE  IInv'
  <2> DEFINE faults == IF Inner[s] \subseteq c.defined THEN c.faults ELSE c.faults \cup {"early"}
             n == [c EXCEPT !.defined = c.defined \cup {s}, !.faults = faults]
  <2>1. Parsing(o) /\ cbc' = [cbc EXCEPT ![o] = n] /\ call' = call
    BY <1>6 DEF DefineStruct, Set
  <2> HIDE DEF c
  <2>2. /\ faults \in SUBSET {"early", "failed"} /\ c.faults \subseteq faults
        /\ faults = {} => Inner[s] \subseteq c.defined
    BY <1>2, <2>1 DEF CBC
  <2> HIDE DEF faults
  <2>3. /\ n \in CBC /\ n.available /\ ~n.ready /\ n.pp = c.pp /\ n.predefined = c.predefined
        /\ n.faults = faults /\ n.basic = c.basic /\ n.setting = c.setting /\ n.defines = c.defines
        /\ n.defined = c.defined \cup {s} /\ n.size = c.size
    BY <1>2, <2>1, <2>2 DEF CBC
  <2>4. n.faults = {} => Closed(n) /\ Fresh(n)
    BY <1>2, <2>1, <2>2, <2>3 DEF Closed, Fresh
  <2> HIDE DEF n
  <2> QED BY <1>0, <1>2, <2>1, <2>2, <2>3, <2>4, ParseStep DEF c
<1>7. ASSUME NEW s \in Structs, EvaluateSizeof(o, s)
      PROVE  IInv'
  <2> DEFINE n == WithLayouts(c, {s})
  <2>1. Parsing(o) /\ cbc' = [cbc EXCEPT ![o] = n] /\ call' = call
    BY <1>7 DEF EvaluateSizeof, Set
  <2> HIDE DEF c
  <2>2. /\ n \in CBC
        /\ n = [c EXCEPT !.size = n.size]
        /\ \A x \in Items : n.size[x] = c.size[x] \/ (x \in c.defined /\ n.size[x] = Basis(c, x))
    <3>1. {s} \in SUBSET Structs
      OBVIOUS
    <3> QED BY <1>2, <2>1, <3>1, WithLayoutsFacts
  <2> HIDE DEF n
  <2>3. /\ n.available /\ ~n.ready /\ n.pp = c.pp /\ n.predefined = c.predefined
        /\ n.faults = c.faults /\ n.basic = c.basic /\ n.setting = c.setting /\ n.defines = c.defines
        /\ n.defined = c.defined
    BY <1>2, <2>1, <2>2 DEF CBC
  <2>4. c.defined \subseteq Structs
    BY <1>2, <2>1 DEF CBC
  <2>5. Closed(c) /\ Fresh(c) => Closed(n) /\ Fresh(n)
    <3>1. Closed(c) /\ Fresh(c) => \A x \in c.defined : Basis(c, x) = {c.setting}
      BY <1>2, <2>1, <2>4, BasisFacts
    <3> QED BY <2>2, <2>3, <3>1 DEF Closed, Fresh
  <2> QED BY <1>0, <1>2, <2>1, <2>2, <2>3, <2>5, ParseStep DEF c
<1>8. ASSUME NEW t \in Typedefs, DefineTypedef(o, t)
      PROVE  IInv'
  <2> DEFINE n == [c EXCEPT !.typedefs = c.typedefs \cup {t}]
  <2>1. Parsing(o) /\ cbc' = [cbc EXCEPT ![o] = n] /\ call' = call
    BY <1>8 DEF DefineTypedef, Set
  <2> HIDE DEF c
  <2>2. /\ n \in CBC /\ n.available /\ ~n.ready /\ n.pp = c.pp /\ n.predefined = c.predefined
        /\ n.faults = c.faults /\ n.basic = c.basic /\ n.setting = c.setting /\ n.defines = c.defines
        /\ n.defined = c.defined /\ n.size = c.size
    BY <1>2, <2>1 DEF CBC
  <2>3. n.faults = {} => Closed(n) /\ Fresh(n)
    BY <1>2, <2>1, <2>2 DEF Closed, Fresh
  <2> HIDE DEF n
  <2> QED BY <1>0, <1>2, <2>1, <2>2, <2>3, ParseStep DEF c
<1>9. ASSUME NEW m \in Names, DefineMacro(o, m)
      PROVE  IInv'
  <2> DEFINE n == [c EXCEPT !.pp = [c.pp EXCEPT !.source = c.pp.source \cup {m}]]
  <2>1. Parsing(o) /\ cbc' = [cbc EXCEPT ![o] = n] /\ call' = call
    BY <1>9 DEF DefineMacro, Set
  <2> HIDE DEF c
  <2>2. /\ n \in CBC /\ n.available /\ ~n.ready /\ n.predefined = c.predefined
        /\ n.pp.live = c.pp.live /\ n.pp.config = c.pp.config
        /\ n.faults = c.faults /\ n.basic = c.basic /\ n.setting = c.setting /\ n.defines = c.defines
        /\ n.defined = c.defined /\ n.size = c.size
    BY <1>2, <2>1 DEF CBC
  <2>3. n.faults = {} => Closed(n) /\ Fresh(n)
    BY <1>2, <2>1, <2>2 DEF Closed, Fresh
  <2> HIDE DEF n
  <2> QED BY <1>0, <1>2, <2>1, <2>2, <2>3, ParseStep DEF c
<1> QED BY <1>3, <1>4, <1>5, <1>6, <1>7, <1>8, <1>9

\* What holds of an object while its options are set.
LEMMA ConfigureFacts ==
  ASSUME IInv, NEW o \in Objs, Configuring(o)
  PROVE  LET c == cbc[o]
             relays == call.changes /\ call.layout
         IN  /\ c \in CBC /\ call \in Call /\ call.obj = o
             /\ call.preproc => call.changes
             /\ ~c.available => Blank(c)
             /\ c.ready => LaidOut(c)
             /\ c.pp.config \subseteq c.predefined
             /\ ~c.pp.live => c.pp = NoPP
             /\ "failed" \notin c.faults => c.basic \subseteq {c.setting} \/ relays
             /\ c.faults = {} => /\ Closed(c)
                                 /\ Fresh(c) \/ (relays /\ c.ready)
                                 /\ c.pp.live => c.pp.config = c.defines \/ call.preproc
<1>1. call.obj = o /\ call.kind = "configure" /\ o \in Existing /\ call \in Call
      /\ (call.preproc => call.changes)
  BY DEF Configuring, IInv, CallOK
<1>2. Fine(o)
  BY <1>1 DEF IInv
<1> QED BY <1>1, <1>2 DEF Fine, Relays, Resets

LEMMA ConfigureStep ==
  ASSUME IInv, NEW o \in Objs, NEW d \in CBC,
         CallOn(o), call' \in Call, Configuring(o)', AnswerOK', cbc' = [cbc EXCEPT ![o] = d],
         call'.preproc => call'.changes,
         ~d.available => Blank(d),
         d.ready => LaidOut(d),
         d.pp.config \subseteq d.predefined,
         ~d.pp.live => d.pp = NoPP,
         "failed" \notin d.faults => d.basic \subseteq {d.setting} \/ (call'.changes /\ call'.layout),
         d.faults = {} => /\ Closed(d)
                          /\ Fresh(d) \/ (call'.changes /\ call'.layout /\ d.ready)
                          /\ d.pp.live => d.pp.config = d.defines \/ call'.preproc
  PROVE  IInv'
<1>1. Changes(o) /\ cbc'[o] = d
  BY CallFacts DEF IInv, Changes, CallOn, Configuring
<1>2. ~Parsing(o)'
  BY DEF Parsing, Configuring
<1>3. Fine(o)'
  BY <1>1, <1>2 DEF Fine, Relays, Resets
<1> QED BY <1>1, <1>3, OneObject

\* The steps of configure.
LEMMA ConfigureSteps ==
  ASSUME IInv, NEW o \in Objs,
         \/ BeginConfigure(o) \/ BadOption(o) \/ EndConfigure(o)
         \/ \E v \in Settings : LayoutOption(o, v)
         \/ \E d \in SUBSET Names : DefineOption(o, d)
  PROVE  IInv'
<1> DEFINE c == cbc[o]
           relays == call.changes /\ call.layout
<1>0. AnswerOK'
  BY SilentOK DEF BeginConfigure, BadOption, EndConfigure, LayoutOption, DefineOption
<1>1. CASE BeginConfigure(o)
  <2>1. /\ c.exists /\ call = NoCall /\ cbc' = cbc
        /\ call' = [kind |-> "configure", obj |-> o, changes |-> FALSE, layout |-> FALSE, preproc |-> FALSE]
    BY <1>1 DEF BeginConfigure, Idle
  <2>2. /\ c \in CBC /\ CallOn(o)
        /\ ~c.available => Blank(c)
        /\ c.ready => LaidOut(c)
        /\ c.pp.config \subseteq c.predefined
        /\ ~c.pp.live => c.pp = NoPP
        /\ "failed" \notin c.faults => c.basic \subseteq {c.setting}
        /\ c.faults = {} => Closed(c) /\ Fresh(c) /\ (c.pp.live => c.pp.config = c.defines)
    BY <2>1, IdleFacts, CallFacts
  <2>3. call' \in Call /\ Configuring(o)' /\ ~call'.preproc
    BY <2>1 DEF Call, Configuring
  <2>4. cbc' = [cbc EXCEPT ![o] = c]
    BY <2>1 DEF IInv
  <2> HIDE DEF c
  <2> QED BY <1>0, <2>2, <2>3, <2>4, ConfigureStep
<1>2. ASSUME Configuring(o)
      PROVE  /\ c \in CBC /\ call \in Call /\ call.obj = o /\ CallOn(o)
             /\ call = [kind |-> "configure", obj |-> o, changes |-> call.changes,
                        layout |-> call.layout, preproc |-> call.preproc]
             /\ call.changes \in BOOLEAN /\ call.layout \in BOOLEAN /\ call.preproc \in BOOLEAN
             /\ call.preproc => call.changes
             /\ ~c.available => Blank(c)
             /\ c.ready => LaidOut(c)
             /\ c.pp.config \subseteq c.predefined
             /\ ~c.pp.live => c.pp = NoPP
             /\ "failed" \notin c.faults => c.basic \subseteq {c.setting} \/ relays
             /\ c.faults = {} => /\ Closed(c)
                                 /\ Fresh(c) \/ (relays /\ c.ready)
                                 /\ c.pp.live => c.pp.config = c.defines \/ call.preproc
  BY <1>2, ConfigureFacts, CallFacts
<1>3. ASSUME NEW v \in Settings, LayoutOption(o, v)
      PROVE  IInv'
  <2> DEFINE early == v # c.setting /\ HasLayouts(c) /\ ~c.ready
             faults == IF early THEN c.faults \cup {"early"} ELSE c.faults
             n == [c EXCEPT !.setting = v, !.faults = faults]
  <2>1. /\ Configuring(o) /\ cbc' = [cbc EXCEPT ![o] = n]
        /\ call' = [call EXCEPT !.changes = @ \/ c.setting # v, !.layout = TRUE]
    BY <1>3 DEF LayoutOption, Set
  <2>2. /\ call' \in Call /\ Configuring(o)' /\ call'.layout
        /\ call'.changes = (call.changes \/ c.setting # v)
        /\ call'.preproc = call.preproc
    BY <1>2, <2>1 DEF Call, Configuring
  <2> HIDE DEF c
  <2>3. /\ faults \in SUBSET {"early", "failed"} /\ c.faults \subseteq faults
        /\ "failed" \notin faults => "failed" \notin c.faults
        /\ faults = {} => c.faults = {} /\ (v = c.setting \/ ~HasLayouts(c) \/ c.ready)
    BY <1>2, <2>1 DEF CBC
  <2> HIDE DEF faults
  <2>4. /\ n \in CBC /\ n.available = c.available /\ n.ready = c.ready /\ n.pp = c.pp
        /\ n.predefined = c.predefined /\ n.typedefs = c.typedefs
        /\ n.faults = faults /\ n.basic = c.basic /\ n.setting = v /\ n.defines = c.defines
        /\ n.defined = c.defined /\ n.size = c.size
    BY <1>2, <2>1, <2>3 DEF CBC
  <2> HIDE DEF n
  <2>5. /\ ~n.available => Blank(n)
        /\ n.ready => LaidOut(n)
    BY <1>2, <2>1, <2>4 DEF Blank, LaidOut, HasLayouts
  <2>6. n.faults = {} => Closed(n) /\ (Fresh(n) \/ (call'.changes /\ call'.layout /\ n.ready))
    BY <1>2, <2>1, <2>2, <2>3, <2>4 DEF Closed, Fresh, HasLayouts
  <2>7. n.faults = {} => (n.pp.live => n.pp.config = n.defines \/ call'.preproc)
    BY <1>2, <2>1, <2>2, <2>3, <2>4
  <2>8. "failed" \notin n.faults => n.basic \subseteq {n.setting} \/ (call'.changes /\ call'.layout)
    BY <1>2, <2>1, <2>2, <2>3, <2>4
  <2>9. call'.preproc => call'.changes
    BY <1>2, <2>1, <2>2
  <2>10. n.pp.config \subseteq n.predefined /\ (~n.pp.live => n.pp = NoPP) /\ n \in CBC /\ CallOn(o)
    BY <1>2, <2>1, <2>4
  <2> QED BY <1>0, <2>1, <2>2, <2>5, <2>6, <2>7, <2>8, <2>9, <2>10, ConfigureStep DEF c
<1>4. ASSUME NEW d \in SUBSET Names, DefineOption(o, d)
      PROVE  IInv'
  <2> DEFINE n == [c EXCEPT !.defines = d]
  <2>1. /\ Configuring(o) /\ cbc' = [cbc EXCEPT ![o] = n]
        /\ call' = [call EXCEPT !.changes = TRUE, !.preproc = TRUE]
    BY <1>4 DEF DefineOption, Set
  <2>2. /\ call' \in Call /\ Configuring(o)' /\ call'.changes /\ call'.preproc
        /\ call'.layout = call.layout
    BY <1>2, <2>1 DEF Call, Configuring
  <2> HIDE DEF c
  <2>3. /\ n \in CBC /\ n.available = c.available /\ n.ready = c.ready /\ n.pp = c.pp
        /\ n.predefined = c.predefined /\ n.typedefs = c.typedefs
        /\ n.faults = c.faults /\ n.basic = c.basic /\ n.setting = c.setting
        /\ n.defined = c.defined /\ n.size = c.size
    BY <1>2, <2>1 DEF CBC
  <2> HIDE DEF n
  <2>4. /\ ~n.available => Blank(n)
        /\ n.ready => LaidOut(n)
        /\ n.faults = {} => Closed(n) /\ (Fresh(n) \/ (call'.changes /\ call'.layout /\ n.ready))
        /\ "failed" \notin n.faults => n.basic \subseteq {n.setting} \/ (call'.changes /\ call'.layout)
    BY <1>2, <2>1, <2>2, <2>3 DEF Blank, LaidOut, HasLayouts, Closed, Fresh
  <2>5. n.pp.config \subseteq n.predefined /\ (~n.pp.live => n.pp = NoPP) /\ n \in CBC /\ CallOn(o)
    BY <1>2, <2>1, <2>3
  <2> QED BY <1>0, <2>1, <2>2, <2>4, <2>5, ConfigureStep DEF c
<1>5. CASE BadOption(o)
  <2>1. /\ Configuring(o) /\ call' = NoCall
        /\ cbc' = [cbc EXCEPT ![o] = IF call.changes THEN Failed(c) ELSE c]
    BY <1>5 DEF BadOption, Set
  <2>2. CASE call.changes
    <3> DEFINE n == [c EXCEPT !.faults = c.faults \cup {"failed"}]
    <3>1. cbc' = [cbc EXCEPT ![o] = n]
      BY <2>1, <2>2 DEF Failed
    <3> HIDE DEF c
    <3>2. /\ n \in CBC /\ n.available = c.available /\ n.ready = c.ready /\ n.pp = c.pp
          /\ n.predefined = c.predefined /\ n.typedefs = c.typedefs
          /\ "failed" \in n.faults /\ n.defined = c.defined /\ n.size = c.size
      BY <1>2, <2>1 DEF CBC
    <3> HIDE DEF n
    <3>3. /\ ~n.available => Blank(n)
          /\ n.ready => LaidOut(n)
          /\ n.pp.config \subseteq n.predefined
          /\ ~n.pp.live => n.pp = NoPP
      BY <1>2, <2>1, <3>2 DEF Blank, LaidOut, HasLayouts
    <3>4. call.obj = o
      BY <1>2, <2>1
    <3>5. n.faults # {} /\ n \in CBC /\ "failed" \in n.faults
      BY <3>2
    <3> QED BY <1>0, <2>1, <3>1, <3>3, <3>4, <3>5, IdleStep
  <2>3. CASE ~call.changes
    <3>1. cbc' = [cbc EXCEPT ![o] = c]
      BY <2>1, <2>3
    <3> HIDE DEF c
    <3> QED BY <1>0, <1>2, <2>1, <2>3, <3>1, IdleStep
  <2> QED BY <2>2, <2>3
<1>6. CASE EndConfigure(o)
  <2> DEFINE basic  == [c EXCEPT !.basic = {}]
             layout == IF ~relays THEN c
                       ELSE IF c.available /\ c.ready THEN WithoutLayouts(basic) ELSE basic
             n == IF call.changes /\ call.preproc THEN WithoutPP(layout) ELSE layout
  <2>1. Configuring(o) /\ call' = NoCall /\ cbc' = [cbc EXCEPT ![o] = n]
    BY <1>6 DEF EndConfigure, Set
  <2> HIDE DEF c
  <2>2. basic \in CBC /\ basic = [c EXCEPT !.basic = {}]
    BY <1>2, <2>1 DEF CBC
  <2> DEFINE empty == [x \in Items |-> {}]
             cleared == [c EXCEPT !.basic = {}, !.size = empty, !.ready = FALSE]
  <2>3. empty \in [Items -> SUBSET (Settings \cup {"incomplete"})] /\ \A x \in Items : empty[x] = {}
    OBVIOUS
  <2>4. WithoutLayouts(basic) = cleared
    BY <1>2, <2>1 DEF WithoutLayouts, CBC
  <2> HIDE DEF empty
  <2>5. cleared \in CBC /\ cleared = [c EXCEPT !.basic = {}, !.size = empty, !.ready = FALSE]
    BY <1>2, <2>1, <2>3 DEF CBC
  <2> HIDE DEF basic, cleared
  <2>6. layout = IF ~relays THEN c ELSE IF c.available /\ c.ready THEN cleared ELSE basic
    BY <2>4
  <2> HIDE DEF layout
  <2>7. /\ layout \in CBC /\ layout.available = c.available /\ layout.pp = c.pp
        /\ layout.predefined = c.predefined /\ layout.faults = c.faults
        /\ layout.setting = c.setting /\ layout.defines = c.defines
        /\ layout.defined = c.defined /\ layout.typedefs = c.typedefs
        /\ layout.basic = IF relays THEN {} ELSE c.basic
        /\ layout.ready = IF relays /\ c.available THEN FALSE ELSE c.ready
        /\ layout.size = IF relays /\ c.available /\ c.ready THEN empty ELSE c.size
    <3>1. CASE ~relays
      <4>1. layout = c
        BY <2>6, <3>1
      <4> QED BY <1>2, <2>1, <3>1, <4>1
    <3>2. CASE relays /\ c.available /\ c.ready
      <4>1. layout = cleared
        BY <2>6, <3>2
      <4> QED BY <1>2, <2>5, <3>2, <4>1 DEF CBC
    <3>3. CASE relays /\ ~(c.available /\ c.ready)
      <4>1. layout = basic
        BY <2>6, <3>3
      <4> QED BY <1>2, <2>1, <2>2, <3>3, <4>1 DEF CBC
    <3> QED BY <3>1, <3>2, <3>3
  <2>8. /\ ~layout.available => Blank(layout)
        /\ layout.ready => LaidOut(layout)
        /\ layout.faults = {} => Closed(layout) /\ Fresh(layout)
        /\ "failed" \notin layout.faults => layout.basic \subseteq {layout.setting}
    <3>1. CASE ~relays
      <4>1. layout = c
        BY <2>6, <3>1
      <4> QED BY <1>2, <2>1, <3>1, <4>1
    <3>2. CASE relays
      <4>1. layout.basic = {} /\ ~layout.ready
        BY <1>2, <2>1, <2>7, <3>2 DEF Blank
      <4>2. ~layout.available => Blank(layout)
        BY <1>2, <2>1, <2>7 DEF Blank, HasLayouts
      <4>3. layout.faults = {} => Closed(layout) /\ Fresh(layout)
        BY <1>2, <2>1, <2>3, <2>7, <3>2 DEF Closed, Fresh, Blank, HasLayouts
      <4> QED BY <4>1, <4>2, <4>3
    <3> QED BY <3>1, <3>2
  <2>9. CASE call.preproc
    <3>1. n = [layout EXCEPT !.pp = NoPP]
      BY <1>2, <2>1, <2>9 DEF WithoutPP
    <3> HIDE DEF n
    <3>2. /\ n \in CBC /\ n.available = layout.available /\ n.pp = NoPP
          /\ n.predefined = layout.predefined /\ n.faults = layout.faults
          /\ n.setting = layout.setting /\ n.basic = layout.basic /\ n.ready = layout.ready
          /\ n.defined = layout.defined /\ n.typedefs = layout.typedefs /\ n.size = layout.size
          /\ n.pp.config = {} /\ ~n.pp.live
      BY <2>7, <3>1 DEF CBC, NoPP
    <3>3. /\ ~n.available => Blank(n)
          /\ n.ready => LaidOut(n)
          /\ n.faults = {} => Closed(n) /\ Fresh(n)
          /\ "failed" \notin n.faults => n.basic \subseteq {n.setting}
          /\ n.pp.config \subseteq n.predefined
      BY <2>8, <3>2 DEF Blank, LaidOut, HasLayouts, Closed, Fresh
    <3>4. call.obj = o
      BY <1>2, <2>1
    <3> QED BY <1>0, <2>1, <3>2, <3>3, <3>4, IdleStep
  <2>10. CASE ~call.preproc
    <3>1. n = layout
      BY <1>2, <2>1, <2>10
    <3> HIDE DEF n
    <3> QED BY <1>0, <1>2, <2>1, <2>7, <2>8, <2>10, <3>1, IdleStep
  <2> QED BY <2>9, <2>10
<1> QED BY <1>1, <1>3, <1>4, <1>5, <1>6

\* The other methods, none of which has several steps.
LEMMA MethodSteps ==
  ASSUME IInv, NEW o \in Objs,
         \/ \E v \in Settings, d \in SUBSET Names : Create(o, v, d)
         \/ ReadDefine(o)
         \/ \E d \in SUBSET Names : Define(o, d) \/ BadDefine(o, d)
         \/ Clean(o) \/ Destroy(o)
         \/ \E p \in Objs : Clone(o, p)
         \/ \E x \in Items : AskType(o, x)
         \/ AskBasic(o) \/ AskMacros(o)
  PROVE  IInv'
<1> DEFINE c == cbc[o]
<1>1. ASSUME NEW v \in Settings, NEW d \in SUBSET Names, Create(o, v, d)
      PROVE  IInv'
  <2> DEFINE n == New(v, d)
  <2>1. n \in CBC
    BY DEF New, CBC, NoPP
  <2>2. cbc' = [cbc EXCEPT ![o] = n] /\ call = NoCall /\ call' = NoCall /\ AnswerOK'
    BY <1>1, SilentOK DEF Create, Set
  <2>3. /\ Blank(n) /\ Closed(n) /\ Fresh(n) /\ ~n.ready /\ ~n.pp.live
        /\ n.pp = NoPP /\ n.pp.config = {} /\ n.basic = {}
    BY DEF New, NoPP, Blank, HasLayouts, Closed, Fresh
  <2> HIDE DEF n
  <2> QED BY <2>1, <2>2, <2>3, IdleStep
<1>2. ASSUME Idle(o)
      PROVE  /\ c.exists /\ call = NoCall /\ c \in CBC
             /\ ~c.available => Blank(c)
             /\ c.ready => LaidOut(c)
             /\ c.pp.config \subseteq c.predefined
             /\ ~c.pp.live => c.pp = NoPP
             /\ "failed" \notin c.faults => c.basic \subseteq {c.setting}
             /\ c.faults = {} => Closed(c) /\ Fresh(c) /\ (c.pp.live => c.pp.config = c.defines)
  BY <1>2, IdleFacts DEF Idle
<1>3. ASSUME NEW d \in SUBSET Names, Idle(o), Set(o, WithoutPP([c EXCEPT !.defines = d])),
             call' = call, Silent
      PROVE  IInv'
  <2> DEFINE n == WithoutPP([c EXCEPT !.defines = d])
  <2>1. n = [c EXCEPT !.defines = d, !.pp = NoPP] /\ n \in CBC
    BY <1>2, <1>3 DEF WithoutPP, CBC, NoPP
  <2>2. cbc' = [cbc EXCEPT ![o] = n] /\ call = NoCall /\ call' = NoCall /\ AnswerOK'
    BY <1>2, <1>3, SilentOK DEF Set
  <2> HIDE DEF n
  <2>3. /\ ~n.available => Blank(n)
        /\ n.ready => LaidOut(n)
        /\ n.pp = NoPP /\ n.pp.config = {} /\ ~n.pp.live
        /\ "failed" \notin n.faults => n.basic \subseteq {n.setting}
        /\ n.faults = {} => Closed(n) /\ Fresh(n)
    BY <1>2, <1>3, <2>1 DEF CBC, NoPP, Blank, LaidOut, HasLayouts, Closed, Fresh
  <2> QED BY <2>1, <2>2, <2>3, IdleStep
<1>4. CASE ReadDefine(o)
  <2>1. c \in CBC /\ c.defines \in SUBSET Names /\ c = [c EXCEPT !.defines = c.defines]
    BY <1>2, <1>4 DEF ReadDefine, CBC
  <2> QED BY <1>3, <1>4, <2>1 DEF ReadDefine
<1>5. ASSUME NEW d \in SUBSET Names, Define(o, d)
      PROVE  IInv'
  <2>1. c \in CBC /\ c.defines \cup d \in SUBSET Names
    BY <1>2, <1>5 DEF Define, CBC
  <2> QED BY <1>3, <1>5, <2>1 DEF Define
<1>6. ASSUME NEW d \in SUBSET Names, Idle(o), Set(o, Failed([c EXCEPT !.defines = d])),
             call' = call, Silent
      PROVE  IInv'
  <2> DEFINE n == Failed([c EXCEPT !.defines = d])
  <2>1. n = [c EXCEPT !.defines = d, !.faults = c.faults \cup {"failed"}] /\ n \in CBC
    BY <1>2, <1>6 DEF Failed, CBC
  <2>2. cbc' = [cbc EXCEPT ![o] = n] /\ call = NoCall /\ call' = NoCall /\ AnswerOK'
    BY <1>2, <1>6, SilentOK DEF Set
  <2> HIDE DEF n
  <2>3. /\ ~n.available => Blank(n)
        /\ n.ready => LaidOut(n)
        /\ n.pp.config \subseteq n.predefined
        /\ ~n.pp.live => n.pp = NoPP
        /\ "failed" \in n.faults
    BY <1>2, <1>6, <2>1 DEF CBC, NoPP, Blank, LaidOut, HasLayouts
  <2> QED BY <2>1, <2>2, <2>3, IdleStep
<1>7. ASSUME NEW d \in SUBSET Names, BadDefine(o, d)
      PROVE  IInv'
  <2>1. c \in CBC /\ c.defines \cup d \in SUBSET Names /\ {} \in SUBSET Names
    BY <1>2, <1>7 DEF BadDefine, CBC
  <2> QED BY <1>6, <1>7, <2>1 DEF BadDefine
<1>8. CASE Clean(o)
  <2> DEFINE n == InitInfo(c)
  <2>1. Idle(o)
    BY <1>8 DEF Clean
  <2>2. n = [c EXCEPT !.available = FALSE, !.ready = FALSE, !.defined = {}, !.typedefs = {},
                      !.size = [x \in Items |-> {}], !.pp = NoPP, !.predefined = {},
                      !.faults = c.faults \ {"early"}]
        /\ n \in CBC
    BY <1>2, <2>1 DEF InitInfo, CBC, NoPP
  <2>3. cbc' = [cbc EXCEPT ![o] = n] /\ call = NoCall /\ call' = NoCall /\ AnswerOK'
    BY <1>2, <1>8, <2>1, SilentOK DEF Set, Clean
  <2> HIDE DEF n
  <2>4. /\ ~n.ready /\ n.defined = {} /\ n.typedefs = {} /\ n.pp = NoPP /\ n.predefined = {}
        /\ n.basic = c.basic /\ n.setting = c.setting
        /\ "failed" \notin n.faults => "failed" \notin c.faults
        /\ \A x \in Items : n.size[x] = {}
    BY <1>2, <2>2 DEF CBC
  <2>5. n.pp.config = {} /\ ~n.pp.live
    BY <2>4 DEF NoPP
  <2>6. Blank(n) /\ Closed(n) /\ Fresh(n)
    BY <2>4 DEF Blank, HasLayouts, Closed, Fresh
  <2>7. "failed" \notin n.faults => n.basic \subseteq {n.setting}
    BY <1>2, <2>1, <2>4
  <2> QED BY <2>2, <2>3, <2>4, <2>5, <2>6, <2>7, IdleStep
<1>9. ASSUME NEW p \in Objs, Clone(o, p)
      PROVE  IInv'
  <2>1. Idle(o) /\ cbc' = [cbc EXCEPT ![p] = c] /\ call' = call /\ AnswerOK'
    BY <1>9, SilentOK DEF Clone, Set
  <2> HIDE DEF c
  <2> QED BY <1>2, <2>1, IdleStep
<1>10. CASE Destroy(o)
  <2>1. /\ call = NoCall /\ call' = NoCall /\ AnswerOK'
        /\ cbc' = [cbc EXCEPT ![o] = NoObject]
    BY <1>2, <1>10, SilentOK DEF Destroy, Set, Idle
  <2>2. cbc' \in [Objs -> CBC \cup {NoObject}]
    BY <2>1 DEF IInv
  <2>3. ASSUME NEW q \in Objs, q \in Existing'
        PROVE  Fine(q)'
    <3>1. q # o /\ cbc'[q] = cbc[q] /\ Fine(q)
      BY <2>1, <2>3 DEF Existing, NoObject, IInv
    <3> QED BY <2>1, <3>1 DEF Fine, Relays, Resets, Parsing, Configuring
  <2>4. CallOK'
    BY <2>1, CallFacts DEF CallOK, NoCall
  <2> QED BY <2>1, <2>2, <2>3, <2>4 DEF IInv, Existing
<1>11. ASSUME Idle(o)
       PROVE  LET n == Needed(c)
              IN  /\ n \in CBC
                  /\ n = [c EXCEPT !.ready = n.ready, !.size = n.size]
                  /\ ~n.available => Blank(n)
                  /\ n.available => LaidOut(n)
                  /\ c.faults = {} => Fresh(n)
  BY <1>11, NeededFacts DEF Idle
<1>12. ASSUME NEW x \in Items, AskType(o, x)
       PROVE  IInv'
  <2> DEFINE n == Needed(c)
  <2>1. /\ Idle(o) /\ cbc' = [cbc EXCEPT ![o] = n] /\ call' = NoCall
        /\ answer' = [about |-> "layout", basis |-> n.size[x]]
    BY <1>2, <1>12 DEF AskType, Set
  <2>2. n \in CBC
    BY <1>11, <2>1
  <2>3. /\ ~n.available => Blank(n)
        /\ n.ready => LaidOut(n)
        /\ n.pp.config \subseteq n.predefined
        /\ ~n.pp.live => n.pp = NoPP
        /\ "failed" \notin n.faults => n.basic \subseteq {n.setting}
        /\ n.faults = {} => Closed(n) /\ Fresh(n) /\ (n.pp.live => n.pp.config = n.defines)
    <3>1. /\ n = [c EXCEPT !.ready = n.ready, !.size = n.size]
          /\ ~n.available => Blank(n)
          /\ n.available => LaidOut(n)
          /\ c.faults = {} => Fresh(n)
      BY <1>11, <2>1
    <3> HIDE DEF n
    <3> QED BY <1>2, <2>1, <2>2, <3>1 DEF CBC, Closed, Blank
  <2> HIDE DEF n
  <2>4. AnswerOK'
    BY <2>1, <2>2, <1>12 DEF AnswerOK, CBC
  <2> QED BY <1>2, <2>1, <2>2, <2>3, <2>4, IdleStep
<1>13. CASE AskBasic(o)
  <2> DEFINE n == Needed(c)
             b == IF n.basic = {} THEN {n.setting} ELSE n.basic
             m == [n EXCEPT !.basic = b]
  <2>1. /\ Idle(o) /\ cbc' = [cbc EXCEPT ![o] = m] /\ call' = NoCall
        /\ answer' = [about |-> "layout", basis |-> b]
    BY <1>2, <1>13 DEF AskBasic, Set
  <2>2. /\ n \in CBC
        /\ n = [c EXCEPT !.ready = n.ready, !.size = n.size]
        /\ ~n.available => Blank(n)
        /\ n.available => LaidOut(n)
        /\ c.faults = {} => Fresh(n)
    BY <1>11, <2>1
  <2> HIDE DEF n
  <2>3. b \in SUBSET Settings /\ m \in CBC
    BY <2>2, ZenonT(60) DEF CBC
  <2>4. AnswerOK'
    BY <2>1, <2>3 DEF AnswerOK
  <2> HIDE DEF b
  <2>5. n.basic = c.basic /\ n.setting = c.setting /\ n.faults = c.faults /\ n.pp = c.pp
        /\ n.available = c.available /\ n.defined = c.defined /\ n.typedefs = c.typedefs
        /\ n.defines = c.defines /\ n.predefined = c.predefined
    BY <1>2, <2>1, <2>2 DEF CBC
  <2>6. "failed" \notin c.faults => b \subseteq {c.setting}
    BY <1>2, <2>1, <2>5 DEF b
  <2>7. /\ ~m.available => Blank(m)
        /\ m.ready => LaidOut(m)
        /\ m.pp.config \subseteq m.predefined
        /\ ~m.pp.live => m.pp = NoPP
        /\ "failed" \notin m.faults => m.basic \subseteq {m.setting}
        /\ m.faults = {} => Closed(m) /\ Fresh(m) /\ (m.pp.live => m.pp.config = m.defines)
    BY <1>2, <2>1, <2>2, <2>5, <2>6, ZenonT(60) DEF CBC, Closed, Fresh, Blank, LaidOut, HasLayouts
  <2> HIDE DEF m
  <2> QED BY <1>2, <2>1, <2>3, <2>4, <2>7, IdleStep
<1>14. CASE AskMacros(o)
  <2>1. /\ c.exists /\ call = NoCall /\ c \in CBC
        /\ UNCHANGED <<cbc, call>> /\ answer' = [about |-> "macros", basis |-> Macros(c)]
    BY <1>2, <1>14 DEF AskMacros
  <2>2. AnswerOK'
    BY <2>1 DEF AnswerOK, Macros, CBC
  <2> QED BY <2>1, <2>2 DEF IInv, CallOK, Existing, Fine, Parsing, Relays, Resets, Configuring
<1> QED BY <1>1, <1>4, <1>5, <1>7, <1>8, <1>9, <1>10, <1>12, <1>13, <1>14

-----------------------------------------------------------------------------
(* Invariance. *)

LEMMA InitIInv == Init => IInv
BY CallFacts DEF Init, IInv, CallOK, AnswerOK, NoAnswer, NoObject, NoCall, Call, Existing

LEMMA NextIInv == IInv /\ [Next]_vars => IInv'
<1> SUFFICES ASSUME IInv, [Next]_vars
             PROVE  IInv'
  OBVIOUS
<1>1. CASE Next
  <2>1. PICK o \in Objs : Next!(o)
    BY <1>1 DEF Next
  <2> QED BY <2>1, ParseSteps, ConfigureSteps, MethodSteps
<1>2. CASE UNCHANGED vars
  BY <1>2 DEF vars, IInv, CallOK, AnswerOK, Existing, Fine, Parsing, Relays, Resets, Configuring
<1> QED BY <1>1, <1>2

LEMMA Invariance == Spec => []IInv
BY InitIInv, NextIInv, PTL DEF Spec

\* Types, and that an object without parse data holds nothing that came from
\* a parse (init_parse_info and free_parse_info, ctlib/ctparse.c).
THEOREM TypeCorrect == Spec => []TypeOK
<1>1. IInv => TypeOK
  BY DEF IInv, TypeOK, CallOK, AnswerOK, Existing, Fine, Blank
<1> QED BY Invariance, <1>1, PTL

\* Whenever the flag ready is set, every struct and every typedef that can
\* have a layout has one, whatever calls came before it and however they
\* ended: NEED_PARSE_DATA may rely on the flag (cbc/cbc.h).
THEOREM ReadyIsLaidOut == Spec => []ReadyMeansLaidOut
<1>1. IInv => ReadyMeansLaidOut
  BY DEF IInv, ReadyMeansLaidOut, Fine, LaidOut
<1> QED BY Invariance, <1>1, PTL

\* The macros that can only come from configuration are not taken for macros
\* of the source: htPredefined has all of a live preprocessor.
THEOREM ConfiguredIsHidden == Spec => []PredefinedIsHidden
<1>1. IInv => PredefinedIsHidden
  BY DEF IInv, PredefinedIsHidden, Fine, SourcifiedMacros, Macros
<1> QED BY Invariance, <1>1, PTL

-----------------------------------------------------------------------------
(* The promise is kept.  What is promised of an object follows from its    *)
(* record, and from whether its preprocessor is going to be reset.         *)

Lives(o) == cbc[o].pp.live /\ ~Resets(o)
View(o) ==
  [exists |-> TRUE, void |-> FALSE,
   setting |-> cbc[o].setting, defines |-> cbc[o].defines,
   available |-> cbc[o].available, defined |-> cbc[o].defined,
   typedefs |-> cbc[o].typedefs, live |-> Lives(o),
   source |-> IF Lives(o) THEN cbc[o].pp.source ELSE {}]

LEMMA PromisedIs ==
  ASSUME NEW o \in Objs
  PROVE  /\ ~cbc[o].exists => Promised[o] = NoObject
         /\ cbc[o].exists /\ cbc[o].faults # {} => Promised[o] = Void
         /\ cbc[o].exists /\ cbc[o].faults = {} => Promised[o] = View(o)
BY DEF Promised, View, Lives, Resets

LEMMA PromisedNext ==
  ASSUME NEW o \in Objs
  PROVE  /\ ~cbc'[o].exists => Promised'[o] = NoObject
         /\ cbc'[o].exists /\ cbc'[o].faults # {} => Promised'[o] = Void
         /\ cbc'[o].exists /\ cbc'[o].faults = {} => Promised'[o] = View(o)'
BY DEF Promised, View, Lives, Resets

\* What is promised of the other objects stays.
LEMMA OthersPromised ==
  ASSUME IInv, NEW o \in Objs, Changes(o)
  PROVE  Promised' = [Promised EXCEPT ![o] = Promised'[o]]
<1> DEFINE f == Promised
           g == Promised'
<1>1. f = [q \in Objs |-> f[q]] /\ g = [q \in Objs |-> g[q]]
  BY DEF Promised
<1>2. ASSUME NEW q \in Objs, q # o
      PROVE  g[q] = f[q]
  <2>1. cbc'[q] = cbc[q] /\ ~Configuring(q) /\ ~Configuring(q)'
    BY <1>2 DEF Changes, CallOn, Configuring, NoCall, IInv
  <2>2. View(q)' = View(q)
    BY <2>1 DEF View, Lives, Resets
  <2>3. CASE ~cbc[q].exists
    BY <2>1, <2>3, PromisedIs, PromisedNext
  <2>4. CASE cbc[q].exists /\ cbc[q].faults # {}
    BY <2>1, <2>4, PromisedIs, PromisedNext
  <2>5. CASE cbc[q].exists /\ cbc[q].faults = {}
    BY <2>1, <2>2, <2>5, PromisedIs, PromisedNext
  <2> QED BY <2>3, <2>4, <2>5
<1> HIDE DEF f, g
<1>3. g = [f EXCEPT ![o] = g[o]]
  BY <1>1, <1>2
<1> QED BY <1>3 DEF f, g

LEMMA OnlyStep ==
  ASSUME IInv, NEW o \in Objs, Changes(o), Silent,
         cbc[o].exists, cbc[o].faults = {}, cbc'[o].exists, cbc'[o].faults = {}
  PROVE  /\ Promise!Only(o)
         /\ Promised[o] = View(o) /\ Promised'[o] = View(o)'
<1>1. Promised[o] = View(o) /\ Promised'[o] = View(o)'
  BY PromisedIs, PromisedNext
<1>2. o \in Promise!Sound
  BY <1>1 DEF Promise!Sound, Promise!Existing, View
<1>3. Promised' = [Promised EXCEPT ![o] = Promised'[o]]
  BY OthersPromised
<1>4. Promised'[o].exists /\ ~Promised'[o].void
  BY <1>1 DEF View
<1>5. answer' = Promise!Nothing
  BY DEF Silent, NoAnswer, Promise!Nothing
<1> QED BY <1>1, <1>2, <1>3, <1>4, <1>5 DEF Promise!Only

\* Whatever a call does to an object that ends with a fault.
LEMMA ForfeitStep ==
  ASSUME IInv, NEW o \in Objs, Changes(o), Silent,
         cbc[o].exists, cbc'[o].exists, cbc'[o].faults # {}
  PROVE  Promise!Next
<1>1. Promised'[o] = Void /\ Promised' = [Promised EXCEPT ![o] = Promised'[o]]
  BY PromisedNext, OthersPromised
<1>2. Promised[o].exists
  <2>1. View(o).exists /\ Void.exists
    BY DEF View, Void
  <2>2. Promised[o] \in {View(o), Void}
    BY PromisedIs
  <2> QED BY <2>1, <2>2
<1>3. Promise!Forfeit(o)
  BY <1>1, <1>2 DEF Promise!Forfeit, Promise!Existing, Promise!Void, Void, Silent, NoAnswer,
                    Promise!Nothing
<1> QED BY <1>3 DEF Promise!Next

Entries ==
  [exists : {TRUE}, void : {FALSE}, setting : Settings, defines : SUBSET Names,
   available : BOOLEAN, defined : SUBSET Structs, typedefs : SUBSET Typedefs, live : BOOLEAN,
   source : SUBSET Names]

LEMMA ViewFields ==
  ASSUME NEW o \in Objs
  PROVE  /\ View(o).setting = cbc[o].setting /\ View(o)'.setting = cbc'[o].setting
         /\ View(o).defines = cbc[o].defines /\ View(o)'.defines = cbc'[o].defines
         /\ View(o).available = cbc[o].available /\ View(o)'.available = cbc'[o].available
         /\ View(o).defined = cbc[o].defined /\ View(o)'.defined = cbc'[o].defined
         /\ View(o).typedefs = cbc[o].typedefs /\ View(o)'.typedefs = cbc'[o].typedefs
         /\ View(o).live = Lives(o) /\ View(o)'.live = Lives(o)'
         /\ View(o).source = IF View(o).live THEN cbc[o].pp.source ELSE {}
         /\ View(o)'.source = IF View(o)'.live THEN cbc'[o].pp.source ELSE {}
BY DEF View

LEMMA ViewType ==
  ASSUME NEW o \in Objs
  PROVE  /\ IInv /\ cbc[o].exists => View(o) \in Entries
         /\ IInv' /\ cbc'[o].exists => View(o)' \in Entries
<1>1. IInv /\ cbc[o].exists => cbc[o] \in CBC
  BY DEF IInv, Existing, Fine
<1>2. IInv' /\ cbc'[o].exists => cbc'[o] \in CBC
  BY DEF IInv, Existing, Fine
<1>3. Lives(o) \in BOOLEAN /\ Lives(o)' \in BOOLEAN
  BY DEF Lives
<1> QED BY <1>1, <1>2, <1>3 DEF View, Entries, CBC

LEMMA ChangedEntry ==
  ASSUME NEW v \in Entries, NEW w \in Entries, w.available = v.available, w.defined = v.defined,
         w.typedefs = v.typedefs, w.source = IF w.live THEN v.source ELSE {}
  PROVE  w = [v EXCEPT !.setting = w.setting, !.defines = w.defines, !.live = w.live,
                       !.source = IF w.live THEN v.source ELSE {}]
<1>1. w = [v EXCEPT !.setting = w.setting, !.defines = w.defines, !.live = w.live,
                    !.source = w.source]
  BY DEF Entries
<1> QED BY <1>1

LEMMA OpenedEntry ==
  ASSUME NEW v \in Entries, NEW w \in Entries, w.available, w.defined = v.defined,
         w.typedefs = v.typedefs, w.source = v.source, w.setting = v.setting, w.defines = v.defines
  PROVE  w = [v EXCEPT !.available = TRUE, !.live = w.live]
BY DEF Entries

LEMMA LearntEntry ==
  ASSUME NEW v \in Entries, NEW w \in Entries, w.available = v.available, w.live = v.live,
         w.setting = v.setting, w.defines = v.defines
  PROVE  w = [v EXCEPT !.defined = w.defined, !.typedefs = w.typedefs, !.source = w.source]
BY DEF Entries

LEMMA ChangeStep ==
  ASSUME IInv, IInv', NEW o \in Objs, Changes(o), Silent,
         cbc[o].exists, cbc[o].faults = {}, cbc'[o].exists, cbc'[o].faults = {},
         cbc'[o].setting \in Settings, cbc'[o].defines \subseteq Names,
         cbc'[o].available = cbc[o].available, cbc'[o].defined = cbc[o].defined,
         cbc'[o].typedefs = cbc[o].typedefs,
         Lives(o)' => Lives(o) /\ cbc'[o].defines = cbc[o].defines
                      /\ cbc'[o].pp.source = cbc[o].pp.source
  PROVE  Promise!Next
<1>0. View(o) \in Entries /\ View(o)' \in Entries
  BY ViewType
<1>1. /\ Promise!Only(o)
      /\ Promised[o] = View(o) /\ Promised'[o] = View(o)'
  BY OnlyStep
<1>2. /\ View(o)'.setting \in Settings /\ View(o)'.defines \subseteq Names
      /\ View(o)'.live => View(o).live /\ View(o)'.defines = View(o).defines
      /\ View(o)'.available = View(o).available /\ View(o)'.defined = View(o).defined
      /\ View(o)'.typedefs = View(o).typedefs
      /\ View(o)'.source = IF View(o)'.live THEN View(o).source ELSE {}
  BY ViewFields
<1>3. View(o)' = [View(o) EXCEPT !.setting = View(o)'.setting, !.defines = View(o)'.defines,
                                 !.live = View(o)'.live,
                                 !.source = IF View(o)'.live THEN View(o).source ELSE {}]
  BY <1>0, <1>2, ChangedEntry
<1>4. Promise!Change(o)
  BY <1>1, <1>2, <1>3 DEF Promise!Change
<1> QED BY <1>4 DEF Promise!Next

LEMMA OpenStep ==
  ASSUME IInv, IInv', NEW o \in Objs, Changes(o), Silent,
         cbc[o].exists, cbc[o].faults = {}, cbc'[o].exists, cbc'[o].faults = {},
         cbc'[o].setting = cbc[o].setting, cbc'[o].defines = cbc[o].defines,
         cbc'[o].available = TRUE, cbc'[o].defined = cbc[o].defined,
         cbc'[o].typedefs = cbc[o].typedefs,
         Lives(o) => Lives(o)' /\ cbc'[o].pp.source = cbc[o].pp.source,
         ~Lives(o) /\ Lives(o)' => cbc'[o].pp.source = {}
  PROVE  Promise!Next
<1>0. View(o) \in Entries /\ View(o)' \in Entries
  BY ViewType
<1>1. /\ Promise!Only(o)
      /\ Promised[o] = View(o) /\ Promised'[o] = View(o)'
  BY OnlyStep
<1>2. /\ View(o)'.setting = View(o).setting /\ View(o)'.defines = View(o).defines
      /\ View(o)'.available = TRUE /\ View(o)'.defined = View(o).defined
      /\ View(o)'.typedefs = View(o).typedefs
      /\ View(o)'.source = View(o).source
  BY ViewFields, ZenonT(60)
<1>3. View(o)'.live \in {TRUE, View(o).live}
  BY ViewFields DEF Lives
<1>4. View(o)' = [View(o) EXCEPT !.available = TRUE, !.live = View(o)'.live]
  BY <1>0, <1>2, OpenedEntry
<1>5. Promise!Open(o)
  BY <1>1, <1>3, <1>4 DEF Promise!Open
<1> QED BY <1>5 DEF Promise!Next

LEMMA LearnStep ==
  ASSUME IInv, IInv', NEW o \in Objs, Changes(o), Silent,
         cbc[o].exists, cbc[o].faults = {}, cbc'[o].exists, cbc'[o].faults = {},
         cbc'[o].setting = cbc[o].setting, cbc'[o].defines = cbc[o].defines,
         cbc[o].available, cbc'[o].available = cbc[o].available,
         cbc[o].defined \subseteq cbc'[o].defined, cbc'[o].defined \subseteq Structs,
         cbc[o].typedefs \subseteq cbc'[o].typedefs, cbc'[o].typedefs \subseteq Typedefs,
         Lives(o)' = Lives(o),
         cbc[o].pp.source \subseteq cbc'[o].pp.source, cbc'[o].pp.source \subseteq Names
  PROVE  Promise!Next
<1>0. View(o) \in Entries /\ View(o)' \in Entries
  BY ViewType
<1>1. /\ Promise!Only(o)
      /\ Promised[o] = View(o) /\ Promised'[o] = View(o)'
  BY OnlyStep
<1>5. /\ View(o).available
      /\ View(o)'.live = View(o).live
      /\ View(o)'.setting = View(o).setting /\ View(o)'.defines = View(o).defines
      /\ View(o)'.available = View(o).available
  <2>1. View(o)'.live = View(o).live
    BY ViewFields
  <2>2. /\ View(o).available = cbc[o].available /\ View(o)'.available = cbc'[o].available
        /\ View(o)'.setting = View(o).setting /\ View(o)'.defines = View(o).defines
    BY ViewFields
  <2> QED BY <2>1, <2>2
<1>6. /\ View(o).defined \subseteq View(o)'.defined /\ View(o)'.defined \subseteq Structs
      /\ View(o).typedefs \subseteq View(o)'.typedefs /\ View(o)'.typedefs \subseteq Typedefs
  BY ViewFields
<1>7. View(o).source \subseteq View(o)'.source /\ View(o)'.source \subseteq Names
  <2>1. CASE View(o).live
    <3>1. View(o).source = cbc[o].pp.source /\ View(o)'.source = cbc'[o].pp.source
      BY <1>5, <2>1, ViewFields
    <3> QED BY <3>1
  <2>2. CASE ~View(o).live
    <3>1. View(o).source = {} /\ View(o)'.source = {}
      BY <1>5, <2>2, ViewFields
    <3> QED BY <3>1
  <2> QED BY <2>1, <2>2
<1>2. /\ View(o).available
      /\ View(o)'.live = View(o).live
      /\ View(o).defined \subseteq View(o)'.defined /\ View(o)'.defined \subseteq Structs
      /\ View(o).typedefs \subseteq View(o)'.typedefs /\ View(o)'.typedefs \subseteq Typedefs
      /\ View(o).source \subseteq View(o)'.source /\ View(o)'.source \subseteq Names
      /\ View(o)'.setting = View(o).setting /\ View(o)'.defines = View(o).defines
      /\ View(o)'.available = View(o).available
  BY <1>5, <1>6, <1>7
<1>3. View(o)' = [View(o) EXCEPT !.defined = View(o)'.defined, !.typedefs = View(o)'.typedefs,
                                 !.source = View(o)'.source]
  BY <1>0, <1>2, LearntEntry
<1>4. Promise!Learn(o)
  BY <1>1, <1>2, <1>3 DEF Promise!Learn
<1> QED BY <1>4 DEF Promise!Next

\* A step after which the same is promised, and which may answer.
LEMMA SameView ==
  ASSUME IInv, NEW o \in Objs, Changes(o),
         cbc[o].exists, cbc'[o].exists, cbc'[o].faults = cbc[o].faults,
         cbc'[o].setting = cbc[o].setting, cbc'[o].defines = cbc[o].defines,
         cbc'[o].available = cbc[o].available, cbc'[o].defined = cbc[o].defined,
         cbc'[o].typedefs = cbc[o].typedefs, cbc'[o].pp = cbc[o].pp, Resets(o)' = Resets(o)
  PROVE  Promised' = Promised
<1>1. View(o)' = View(o)
  BY DEF View, Lives
<1>2. Promised'[o] = Promised[o]
  BY <1>1, PromisedIs, PromisedNext
<1>3. Promised' = [Promised EXCEPT ![o] = Promised'[o]]
  BY OthersPromised
<1>4. Promised = [Promised EXCEPT ![o] = Promised[o]]
  <2> DEFINE f == Promised
  <2>1. f = [q \in Objs |-> f[q]]
    BY DEF Promised
  <2> HIDE DEF f
  <2>2. f = [f EXCEPT ![o] = f[o]]
    BY <2>1
  <2> QED BY <2>2 DEF f
<1> QED BY <1>2, <1>3, <1>4

LEMMA Effect ==
  ASSUME IInv, NEW o \in Objs, NEW n, CallOn(o), CallOn(o)', cbc' = [cbc EXCEPT ![o] = n]
  PROVE  Changes(o) /\ cbc'[o] = n
BY DEF Changes, IInv

\* What parse does is to open an object, and to learn.
LEMMA ParsePromise ==
  ASSUME IInv, IInv', NEW o \in Objs,
         \/ BeginParse(o) \/ FileNotFound(o) \/ EndParse(o)
         \/ \E s \in Structs : DefineStruct(o, s) \/ EvaluateSizeof(o, s)
         \/ \E t \in Typedefs : DefineTypedef(o, t)
         \/ \E m \in Names : DefineMacro(o, m)
  PROVE  [Promise!Next]_(Promise!vars)
<1> DEFINE c == cbc[o]
<1>1. ASSUME Idle(o)
      PROVE  /\ c.exists /\ c \in CBC /\ call = NoCall /\ CallOn(o)
             /\ ~Resets(o) /\ (~c.pp.live => c.pp = NoPP)
  BY <1>1, IdleFacts, CallFacts DEF Idle, Resets
<1>2. ASSUME Parsing(o)
      PROVE  /\ c.exists /\ c \in CBC /\ c.available /\ c.pp.live /\ CallOn(o) /\ ~Resets(o)
             /\ call # NoCall
  BY <1>2, ParseFacts, CallFacts DEF CBC, Resets, Parsing, NoCall
<1>3. CASE BeginParse(o)
  <2> DEFINE pp == IF c.pp.live THEN c.pp ELSE [live |-> TRUE, config |-> c.defines, source |-> {}]
             predefined == IF c.pp.live THEN c.predefined ELSE c.predefined \cup c.defines
             n == [c EXCEPT !.available = TRUE, !.ready = FALSE, !.pp = pp, !.predefined = predefined]
  <2>1. /\ Idle(o) /\ cbc' = [cbc EXCEPT ![o] = n] /\ call' = [kind |-> "parse", obj |-> o]
        /\ Silent
    BY <1>3 DEF BeginParse, Set
  <2>2. CallOn(o)' /\ ~Resets(o)'
    BY <2>1 DEF CallOn, Resets, Configuring
  <2>3. Changes(o) /\ cbc'[o] = n
    BY <1>1, <2>1, <2>2, Effect
  <2>4. /\ c.pp.live => pp = c.pp
        /\ ~c.pp.live => pp.source = {}
        /\ pp.live
    BY <1>1, <2>1
  <2> HIDE DEF c, pp, predefined
  <2>5. /\ n.exists /\ n.available = TRUE /\ n.pp = pp /\ n.faults = c.faults
        /\ n.setting = c.setting /\ n.defines = c.defines /\ n.defined = c.defined
        /\ n.typedefs = c.typedefs
    BY <1>1, <2>1 DEF CBC
  <2> HIDE DEF n
  <2>6. (Lives(o) <=> c.pp.live) /\ (Lives(o)' <=> pp.live)
    BY <1>1, <2>1, <2>2, <2>3, <2>5 DEF Lives, c
  <2>7. CASE c.faults = {}
    BY <1>1, <2>1, <2>3, <2>4, <2>5, <2>6, <2>7, OpenStep DEF c
  <2>8. CASE c.faults # {}
    BY <1>1, <2>1, <2>3, <2>5, <2>8, ForfeitStep DEF c
  <2> QED BY <2>7, <2>8
<1>4. CASE FileNotFound(o)
  <2> DEFINE n == [c EXCEPT !.available = TRUE, !.ready = FALSE]
  <2>1. Idle(o) /\ cbc' = [cbc EXCEPT ![o] = n] /\ call' = NoCall /\ Silent
    BY <1>1, <1>4 DEF FileNotFound, Set
  <2>2. CallOn(o)' /\ ~Resets(o)'
    BY <2>1 DEF CallOn, Resets, Configuring, NoCall
  <2>3. Changes(o) /\ cbc'[o] = n
    BY <1>1, <2>1, <2>2, Effect
  <2> HIDE DEF c
  <2>5. /\ n.exists /\ n.available = TRUE /\ n.pp = c.pp /\ n.faults = c.faults
        /\ n.setting = c.setting /\ n.defines = c.defines /\ n.defined = c.defined
        /\ n.typedefs = c.typedefs
    BY <1>1, <2>1 DEF CBC
  <2> HIDE DEF n
  <2>6. (Lives(o) <=> c.pp.live) /\ (Lives(o)' <=> c.pp.live)
    BY <1>1, <2>1, <2>2, <2>3, <2>5 DEF Lives, c
  <2>7. CASE c.faults = {}
    BY <1>1, <2>1, <2>3, <2>5, <2>6, <2>7, OpenStep DEF c
  <2>8. CASE c.faults # {}
    BY <1>1, <2>1, <2>3, <2>5, <2>8, ForfeitStep DEF c
  <2> QED BY <2>7, <2>8
<1>5. ASSUME NEW n, Parsing(o), n.exists, cbc' = [cbc EXCEPT ![o] = n], call' = call, Silent,
             n.available = c.available, n.setting = c.setting, n.defines = c.defines,
             n.faults = {} => c.faults = {},
             c.defined \subseteq n.defined, n.defined \subseteq Structs,
             c.typedefs \subseteq n.typedefs, n.typedefs \subseteq Typedefs,
             n.pp.live = c.pp.live, c.pp.source \subseteq n.pp.source, n.pp.source \subseteq Names
      PROVE  Promise!Next
  <2>1. CallOn(o)' /\ ~Resets(o)'
    BY <1>2, <1>5 DEF CallOn, Resets, Configuring
  <2>2. Changes(o) /\ cbc'[o] = n
    BY <1>2, <1>5, <2>1, Effect
  <2>3. Lives(o) = c.pp.live /\ Lives(o)' = c.pp.live
    BY <1>2, <1>5, <2>1, <2>2 DEF Lives
  <2>4. CASE n.faults = {}
    BY <1>2, <1>5, <2>2, <2>3, <2>4, LearnStep
  <2>5. CASE n.faults # {}
    BY <1>2, <1>5, <2>2, <2>5, ForfeitStep
  <2> QED BY <2>4, <2>5
<1>6. CASE EndParse(o)
  <2>1. Parsing(o) /\ cbc' = cbc /\ call' = NoCall /\ Silent
    BY <1>6 DEF EndParse
  <2>2. CallOn(o)' /\ ~Resets(o)'
    BY <2>1 DEF CallOn, Resets, Configuring, NoCall
  <2>3. Changes(o) /\ cbc'[o] = c
    BY <1>2, <2>1, <2>2 DEF Changes, IInv
  <2>4. /\ c.defined \subseteq Structs /\ c.typedefs \subseteq Typedefs /\ c.pp.source \subseteq Names
        /\ Lives(o)' = Lives(o)
    BY <1>2, <2>1, <2>2 DEF CBC, Lives
  <2>5. CASE c.faults = {}
    BY <1>2, <2>1, <2>3, <2>4, <2>5, LearnStep
  <2>6. CASE c.faults # {}
    BY <1>2, <2>1, <2>3, <2>6, ForfeitStep
  <2> QED BY <2>5, <2>6
<1>7. ASSUME NEW s \in Structs, DefineStruct(o, s)
      PROVE  Promise!Next
  <2> DEFINE faults == IF Inner[s] \subseteq c.defined THEN c.faults ELSE c.faults \cup {"early"}
             n == [c EXCEPT !.defined = c.defined \cup {s}, !.faults = faults]
  <2>1. Parsing(o) /\ cbc' = [cbc EXCEPT ![o] = n] /\ call' = call /\ Silent
    BY <1>7 DEF DefineStruct, Set
  <2>2. faults = {} => c.faults = {}
    OBVIOUS
  <2> HIDE DEF c, faults
  <2>3. /\ n.exists /\ n.available = c.available /\ n.pp = c.pp /\ n.faults = faults
        /\ n.setting = c.setting /\ n.defines = c.defines
        /\ n.defined = c.defined \cup {s} /\ n.typedefs = c.typedefs
        /\ c.defined \subseteq Structs /\ c.typedefs \subseteq Typedefs /\ c.pp.source \subseteq Names
    BY <1>2, <2>1 DEF CBC
  <2> HIDE DEF n
  <2> QED BY <1>5, <2>1, <2>2, <2>3
<1>8. ASSUME NEW s \in Structs, EvaluateSizeof(o, s)
      PROVE  Promise!Next
  <2> DEFINE n == WithLayouts(c, {s})
  <2>1. Parsing(o) /\ cbc' = [cbc EXCEPT ![o] = n] /\ call' = call /\ Silent
    BY <1>8 DEF EvaluateSizeof, Set
  <2> HIDE DEF c
  <2>2. n = [c EXCEPT !.size = n.size]
    <3>1. {s} \in SUBSET Structs
      OBVIOUS
    <3> QED BY <1>2, <2>1, <3>1, WithLayoutsFacts
  <2> HIDE DEF n
  <2>3. /\ n.exists /\ n.available = c.available /\ n.pp = c.pp /\ n.faults = c.faults
        /\ n.setting = c.setting /\ n.defines = c.defines
        /\ n.defined = c.defined /\ n.typedefs = c.typedefs
        /\ c.defined \subseteq Structs /\ c.typedefs \subseteq Typedefs /\ c.pp.source \subseteq Names
    BY <1>2, <2>1, <2>2 DEF CBC
  <2> QED BY <1>5, <2>1, <2>3
<1>9. ASSUME NEW t \in Typedefs, DefineTypedef(o, t)
      PROVE  Promise!Next
  <2> DEFINE n == [c EXCEPT !.typedefs = c.typedefs \cup {t}]
  <2>1. Parsing(o) /\ cbc' = [cbc EXCEPT ![o] = n] /\ call' = call /\ Silent
    BY <1>9 DEF DefineTypedef, Set
  <2> HIDE DEF c
  <2>2. /\ n.exists /\ n.available = c.available /\ n.pp = c.pp /\ n.faults = c.faults
        /\ n.setting = c.setting /\ n.defines = c.defines
        /\ n.defined = c.defined /\ n.typedefs = c.typedefs \cup {t}
        /\ c.defined \subseteq Structs /\ c.typedefs \subseteq Typedefs /\ c.pp.source \subseteq Names
    BY <1>2, <2>1 DEF CBC
  <2> HIDE DEF n
  <2> QED BY <1>5, <2>1, <2>2
<1>10. ASSUME NEW m \in Names, DefineMacro(o, m)
       PROVE  Promise!Next
  <2> DEFINE pp == [c.pp EXCEPT !.source = c.pp.source \cup {m}]
             n == [c EXCEPT !.pp = pp]
  <2>1. Parsing(o) /\ cbc' = [cbc EXCEPT ![o] = n] /\ call' = call /\ Silent
    BY <1>10 DEF DefineMacro, Set
  <2> HIDE DEF c
  <2>2. /\ pp.live = c.pp.live /\ pp.source = c.pp.source \cup {m} /\ c.pp.source \subseteq Names
    BY <1>2, <2>1 DEF CBC
  <2> HIDE DEF pp
  <2>3. /\ n.exists /\ n.available = c.available /\ n.pp = pp /\ n.faults = c.faults
        /\ n.setting = c.setting /\ n.defines = c.defines
        /\ n.defined = c.defined /\ n.typedefs = c.typedefs
        /\ c.defined \subseteq Structs /\ c.typedefs \subseteq Typedefs
    BY <1>2, <2>1 DEF CBC
  <2> HIDE DEF n
  <2> QED BY <1>5, <2>1, <2>2, <2>3
<1> QED BY <1>3, <1>4, <1>6, <1>7, <1>8, <1>9, <1>10

\* Options and definitions of an object are changed, or the call fails.
LEMMA ChangeOrForfeit ==
  ASSUME IInv, IInv', NEW o \in Objs, NEW n, CallOn(o), CallOn(o)',
         cbc' = [cbc EXCEPT ![o] = n], Silent, cbc[o].exists, n.exists,
         n.faults = {} =>
           /\ cbc[o].faults = {}
           /\ n.setting \in Settings /\ n.defines \subseteq Names
           /\ n.available = cbc[o].available /\ n.defined = cbc[o].defined
           /\ n.typedefs = cbc[o].typedefs
           /\ Lives(o)' => Lives(o) /\ n.defines = cbc[o].defines /\ n.pp.source = cbc[o].pp.source
  PROVE  Promise!Next
<1>1. Changes(o) /\ cbc'[o] = n
  BY Effect
<1>2. CASE n.faults = {}
  BY <1>1, <1>2, ChangeStep
<1>3. CASE n.faults # {}
  BY <1>1, <1>3, ForfeitStep
<1> QED BY <1>2, <1>3

\* What configure does is to change options.
LEMMA ConfigurePromise ==
  ASSUME IInv, IInv', NEW o \in Objs,
         \/ BeginConfigure(o) \/ BadOption(o) \/ EndConfigure(o)
         \/ \E v \in Settings : LayoutOption(o, v)
         \/ \E d \in SUBSET Names : DefineOption(o, d)
  PROVE  [Promise!Next]_(Promise!vars)
<1> DEFINE c == cbc[o]
<1>1. CASE BeginConfigure(o)
  <2>1. /\ c.exists /\ call = NoCall /\ cbc' = cbc /\ Silent
        /\ call' = [kind |-> "configure", obj |-> o, changes |-> FALSE, layout |-> FALSE, preproc |-> FALSE]
    BY <1>1 DEF BeginConfigure, Idle
  <2>2. c \in CBC /\ CallOn(o) /\ CallOn(o)' /\ ~Resets(o) /\ ~Resets(o)'
    BY <2>1, IdleFacts, CallFacts DEF CallOn, Resets
  <2>3. cbc' = [cbc EXCEPT ![o] = c]
    BY <2>1 DEF IInv
  <2>4. Lives(o)' => Lives(o)
    BY <2>1, <2>2 DEF Lives
  <2>5. c.setting \in Settings /\ c.defines \subseteq Names
    BY <2>2 DEF CBC
  <2> QED BY <2>1, <2>2, <2>3, <2>4, <2>5, ChangeOrForfeit
<1>2. ASSUME Configuring(o)
      PROVE  /\ c \in CBC /\ c.exists /\ CallOn(o)
             /\ call = [kind |-> "configure", obj |-> o, changes |-> call.changes,
                        layout |-> call.layout, preproc |-> call.preproc]
             /\ call.preproc => call.changes
             /\ Resets(o) <=> call.preproc
  BY <1>2, ConfigureFacts, CallFacts DEF CBC, Resets
<1>3. ASSUME NEW v \in Settings, LayoutOption(o, v)
      PROVE  Promise!Next
  <2> DEFINE early == v # c.setting /\ HasLayouts(c) /\ ~c.ready
             faults == IF early THEN c.faults \cup {"early"} ELSE c.faults
             n == [c EXCEPT !.setting = v, !.faults = faults]
  <2>1. /\ Configuring(o) /\ cbc' = [cbc EXCEPT ![o] = n] /\ Silent
        /\ call' = [call EXCEPT !.changes = @ \/ c.setting # v, !.layout = TRUE]
    BY <1>3 DEF LayoutOption, Set
  <2>2. CallOn(o)' /\ (Resets(o)' <=> call.preproc)
    BY <1>2, <2>1 DEF CallOn, Resets, Configuring
  <2>3. cbc'[o] = n
    BY <1>2, <2>1, <2>2, Effect
  <2>4. faults = {} => c.faults = {}
    OBVIOUS
  <2> HIDE DEF c, faults
  <2>5. /\ n.exists /\ n.available = c.available /\ n.pp = c.pp /\ n.faults = faults
        /\ n.setting = v /\ n.defines = c.defines /\ n.defined = c.defined
        /\ n.typedefs = c.typedefs /\ c.defines \subseteq Names
    BY <1>2, <2>1 DEF CBC
  <2> HIDE DEF n
  <2>6. Lives(o)' => Lives(o)
    BY <1>2, <2>1, <2>2, <2>3, <2>5 DEF Lives, c
  <2> QED BY <1>2, <2>1, <2>2, <2>4, <2>5, <2>6, ChangeOrForfeit DEF c
<1>4. ASSUME NEW d \in SUBSET Names, DefineOption(o, d)
      PROVE  Promise!Next
  <2> DEFINE n == [c EXCEPT !.defines = d]
  <2>1. /\ Configuring(o) /\ cbc' = [cbc EXCEPT ![o] = n] /\ Silent
        /\ call' = [call EXCEPT !.changes = TRUE, !.preproc = TRUE]
    BY <1>4 DEF DefineOption, Set
  <2>2. CallOn(o)' /\ Resets(o)'
    BY <1>2, <2>1 DEF CallOn, Resets, Configuring
  <2>3. ~Lives(o)'
    BY <2>2 DEF Lives
  <2> HIDE DEF c
  <2>4. /\ n.exists /\ n.available = c.available /\ n.faults = c.faults
        /\ n.setting \in Settings /\ n.defines \subseteq Names /\ n.defined = c.defined
        /\ n.typedefs = c.typedefs
    BY <1>2, <2>1 DEF CBC
  <2> HIDE DEF n
  <2> QED BY <1>2, <2>1, <2>2, <2>3, <2>4, ChangeOrForfeit DEF c
<1>5. CASE BadOption(o)
  <2>1. /\ Configuring(o) /\ call' = NoCall /\ Silent
        /\ cbc' = [cbc EXCEPT ![o] = IF call.changes THEN Failed(c) ELSE c]
    BY <1>5 DEF BadOption, Set
  <2>2. CallOn(o)' /\ ~Resets(o)'
    BY <2>1 DEF CallOn, Resets, Configuring, NoCall
  <2>3. CASE call.changes
    <3> DEFINE n == Failed(c)
    <3>1. cbc' = [cbc EXCEPT ![o] = n]
      BY <2>1, <2>3
    <3> HIDE DEF c
    <3>2. n.exists /\ n.faults # {}
      BY <1>2, <2>1 DEF Failed, CBC
    <3> HIDE DEF n
    <3> QED BY <1>2, <2>1, <2>2, <3>1, <3>2, ChangeOrForfeit DEF c
  <2>4. CASE ~call.changes
    <3>1. cbc' = [cbc EXCEPT ![o] = c] /\ ~Resets(o)
      BY <1>2, <2>1, <2>4
    <3>2. cbc'[o] = c
      BY <3>1 DEF IInv
    <3>3. Lives(o)' => Lives(o)
      BY <2>2, <3>1, <3>2 DEF Lives
    <3>4. c.setting \in Settings /\ c.defines \subseteq Names
      BY <1>2, <2>1 DEF CBC
    <3> QED BY <1>2, <2>1, <2>2, <3>1, <3>3, <3>4, ChangeOrForfeit
  <2> QED BY <2>3, <2>4
<1>6. CASE EndConfigure(o)
  <2> DEFINE relays == call.changes /\ call.layout
             basic  == [c EXCEPT !.basic = {}]
             layout == IF ~relays THEN c
                       ELSE IF c.available /\ c.ready THEN WithoutLayouts(basic) ELSE basic
             n == IF call.changes /\ call.preproc THEN WithoutPP(layout) ELSE layout
  <2>1. Configuring(o) /\ call' = NoCall /\ cbc' = [cbc EXCEPT ![o] = n] /\ Silent
    BY <1>6 DEF EndConfigure, Set
  <2>2. CallOn(o)' /\ ~Resets(o)'
    BY <2>1 DEF CallOn, Resets, Configuring, NoCall
  <2>3. cbc'[o] = n
    BY <1>2, <2>1, <2>2, Effect
  <2> HIDE DEF c
  <2> DEFINE Same(d) == /\ d.exists /\ d.available = c.available /\ d.pp = c.pp /\ d.faults = c.faults
                        /\ d.setting = c.setting /\ d.defines = c.defines /\ d.defined = c.defined
                        /\ d.typedefs = c.typedefs
  <2>4. Same(c) /\ Same(basic) /\ Same(WithoutLayouts(basic))
    BY <1>2, <2>1 DEF WithoutLayouts, CBC
  <2>5. Same(layout)
    BY <2>4
  <2>6. layout \in CBC
    <3> DEFINE empty == [x \in Items |-> {}]
    <3>1. empty \in [Items -> SUBSET (Settings \cup {"incomplete"})]
      OBVIOUS
    <3>2. basic \in CBC
      BY <1>2, <2>1 DEF CBC
    <3>3. WithoutLayouts(basic) = [basic EXCEPT !.size = empty, !.ready = FALSE]
      BY DEF WithoutLayouts
    <3> HIDE DEF empty, basic
    <3>4. WithoutLayouts(basic) \in CBC
      BY <3>1, <3>2, <3>3 DEF CBC
    <3> QED BY <1>2, <2>1, <3>2, <3>4
  <2> HIDE DEF layout
  <2>7. /\ n.exists /\ n.available = c.available /\ n.faults = c.faults
        /\ n.setting = c.setting /\ n.defines = c.defines /\ n.defined = c.defined
        /\ n.typedefs = c.typedefs /\ c.setting \in Settings /\ c.defines \subseteq Names
        /\ n.pp = IF call.preproc THEN NoPP ELSE c.pp
    <3>1. CASE call.preproc
      <4>1. n = [layout EXCEPT !.pp = NoPP]
        BY <1>2, <2>1, <3>1 DEF WithoutPP
      <4> HIDE DEF n
      <4> QED BY <1>2, <2>1, <2>5, <2>6, <3>1, <4>1 DEF CBC
    <3>2. CASE ~call.preproc
      <4>1. n = layout
        BY <3>2
      <4> HIDE DEF n
      <4> QED BY <1>2, <2>1, <2>5, <3>2, <4>1 DEF CBC
    <3> QED BY <3>1, <3>2
  <2> HIDE DEF n
  <2>8. Lives(o)' => ~call.preproc /\ n.pp = c.pp
    BY <2>2, <2>3, <2>7 DEF Lives, NoPP
  <2>9. Lives(o)' => Lives(o)
    BY <1>2, <2>1, <2>3, <2>8 DEF Lives, c
  <2> QED BY <1>2, <2>1, <2>2, <2>7, <2>8, <2>9, ChangeOrForfeit DEF c
<1> QED BY <1>1, <1>3, <1>4, <1>5, <1>6

\* The other methods.
LEMMA MethodPromise ==
  ASSUME IInv, IInv', NEW o \in Objs,
         \/ \E v \in Settings, d \in SUBSET Names : Create(o, v, d)
         \/ ReadDefine(o)
         \/ \E d \in SUBSET Names : Define(o, d) \/ BadDefine(o, d)
         \/ Clean(o) \/ Destroy(o)
         \/ \E p \in Objs : Clone(o, p)
  PROVE  [Promise!Next]_(Promise!vars)
<1> DEFINE c == cbc[o]
<1>1. ASSUME Idle(o)
      PROVE  /\ c.exists /\ c \in CBC /\ call = NoCall /\ CallOn(o) /\ ~Resets(o)
             /\ Promised[o].exists
             /\ o \in Promise!Existing
             /\ c.faults # {} => Promised[o] = Void
             /\ c.faults = {} => Promised[o] = View(o)
  <2>1. c.exists /\ c \in CBC /\ call = NoCall /\ CallOn(o) /\ ~Resets(o)
    BY <1>1, IdleFacts, CallFacts DEF Idle, Resets
  <2>2. (c.faults # {} => Promised[o] = Void) /\ (c.faults = {} => Promised[o] = View(o))
    BY <2>1, PromisedIs
  <2>3. View(o).exists /\ Void.exists
    BY DEF View, Void
  <2> QED BY <2>1, <2>2, <2>3 DEF Promise!Existing
<1>2. call' = NoCall => \A q \in Objs : CallOn(q)' /\ ~Resets(q)'
  BY DEF CallOn, Resets, Configuring, NoCall
<1>3. ASSUME NEW v \in Settings, NEW d \in SUBSET Names, Create(o, v, d)
      PROVE  Promise!Next
  <2> DEFINE n == New(v, d)
  <2>1. ~c.exists /\ call = NoCall /\ call' = NoCall /\ cbc' = [cbc EXCEPT ![o] = n] /\ Silent
    BY <1>3 DEF Create, Set
  <2>2. Changes(o) /\ cbc'[o] = n
    BY <1>2, <2>1, CallFacts, Effect
  <2>3. /\ n.exists /\ n.faults = {} /\ n.setting = v /\ n.defines = d /\ n.available = FALSE
        /\ n.defined = {} /\ n.typedefs = {} /\ ~n.pp.live
    BY DEF New, NoPP
  <2> HIDE DEF n
  <2>4. Lives(o)' = FALSE
    BY <2>2, <2>3 DEF Lives
  <2>5. View(o)' = Promise!New(v, d)
    BY <2>2, <2>3, <2>4 DEF View, Promise!New
  <2>6. Promised'[o] = Promise!New(v, d) /\ Promised[o] = NoObject
    BY <2>1, <2>2, <2>3, <2>5, PromisedIs, PromisedNext
  <2>7. Promised' = [Promised EXCEPT ![o] = Promise!New(v, d)]
    BY <2>2, <2>6, OthersPromised
  <2>8. o \notin Promise!Existing
    BY <2>6 DEF Promise!Existing, NoObject
  <2>9. Promise!Create(o)
    BY <2>1, <2>7, <2>8 DEF Promise!Create, Silent, NoAnswer, Promise!Nothing
  <2> QED BY <2>9 DEF Promise!Next
<1>4. ASSUME NEW d \in SUBSET Names, Idle(o), Set(o, WithoutPP([c EXCEPT !.defines = d])),
             call' = call, Silent
      PROVE  Promise!Next
  <2> DEFINE n == WithoutPP([c EXCEPT !.defines = d])
  <2>1. n = [c EXCEPT !.defines = d, !.pp = NoPP]
    BY <1>1, <1>4 DEF WithoutPP, CBC
  <2>2. cbc' = [cbc EXCEPT ![o] = n] /\ CallOn(o)' /\ call' = NoCall
    BY <1>1, <1>2, <1>4 DEF Set
  <2> HIDE DEF c, n
  <2>3. /\ n.exists /\ n.available = c.available /\ n.faults = c.faults
        /\ n.setting \in Settings /\ n.defines \subseteq Names /\ n.defined = c.defined
        /\ n.typedefs = c.typedefs /\ ~n.pp.live
    BY <1>1, <1>4, <2>1 DEF CBC, NoPP
  <2>4. cbc'[o] = n
    BY <1>1, <1>4, <2>2, Effect
  <2>5. ~Lives(o)'
    BY <2>3, <2>4 DEF Lives
  <2> QED BY <1>1, <1>4, <2>2, <2>3, <2>5, ChangeOrForfeit DEF c
<1>5. CASE ReadDefine(o)
  <2>1. c \in CBC /\ c.defines \in SUBSET Names /\ c = [c EXCEPT !.defines = c.defines]
    BY <1>1, <1>5 DEF ReadDefine, CBC
  <2> QED BY <1>4, <1>5, <2>1 DEF ReadDefine
<1>6. ASSUME NEW d \in SUBSET Names, Define(o, d)
      PROVE  Promise!Next
  <2>1. c.defines \cup d \in SUBSET Names
    BY <1>1, <1>6 DEF Define, CBC
  <2> QED BY <1>4, <1>6, <2>1 DEF Define
<1>7. ASSUME NEW d \in SUBSET Names, Idle(o), Set(o, Failed([c EXCEPT !.defines = d])),
             call' = call, Silent
      PROVE  Promise!Next
  <2> DEFINE n == Failed([c EXCEPT !.defines = d])
  <2>1. cbc' = [cbc EXCEPT ![o] = n] /\ CallOn(o)'
    BY <1>1, <1>2, <1>7 DEF Set
  <2> HIDE DEF c
  <2>2. n.exists /\ n.faults # {}
    BY <1>1, <1>7 DEF Failed, CBC
  <2> HIDE DEF n
  <2> QED BY <1>1, <1>7, <2>1, <2>2, ChangeOrForfeit DEF c
<1>8. ASSUME NEW d \in SUBSET Names, BadDefine(o, d)
      PROVE  Promise!Next
  <2>1. c.defines \cup d \in SUBSET Names /\ {} \in SUBSET Names
    BY <1>1, <1>8 DEF BadDefine, CBC
  <2> QED BY <1>7, <1>8, <2>1 DEF BadDefine
<1>9. CASE Clean(o)
  <2> DEFINE n == InitInfo(c)
  <2>1. Idle(o) /\ cbc' = [cbc EXCEPT ![o] = n] /\ Silent /\ call' = NoCall
    BY <1>1, <1>9 DEF Clean, Set
  <2>2. Changes(o) /\ cbc'[o] = n
    BY <1>1, <1>2, <2>1, Effect
  <2> HIDE DEF c
  <2>3. /\ n.exists /\ n.available = FALSE /\ n.faults = c.faults \ {"early"} /\ n.setting = c.setting
        /\ n.defines = c.defines /\ n.defined = {} /\ n.typedefs = {} /\ ~n.pp.live
        /\ c.setting \in Settings /\ c.defines \in SUBSET Names
    BY <1>1, <2>1 DEF InitInfo, CBC, NoPP
  <2> HIDE DEF n
  <2>4. Lives(o)' = FALSE
    BY <2>2, <2>3 DEF Lives
  <2>5. View(o)' = Promise!New(c.setting, c.defines)
    BY <2>2, <2>3, <2>4 DEF View, Promise!New
  <2>6. CASE c.faults = {}
    <3>1. n.faults = {} /\ cbc[o].faults = {}
      BY <2>3, <2>6 DEF c
    <3>2. /\ Promise!Only(o)
          /\ Promised[o] = View(o) /\ Promised'[o] = View(o)'
      BY <1>1, <2>1, <2>2, <2>3, <3>1, OnlyStep DEF c
    <3>3. Promised[o].setting = c.setting /\ Promised[o].defines = c.defines
      BY <3>2, ViewFields DEF c
    <3>4. Promise!Clean(o)
      BY <2>5, <3>2, <3>3 DEF Promise!Clean
    <3> QED BY <3>4 DEF Promise!Next
  <2>7. CASE c.faults # {} /\ n.faults = {}
    <3>1. Promised'[o] = View(o)' /\ Promised[o] = Void
      BY <1>1, <2>1, <2>2, <2>3, <2>7, PromisedNext
    <3>2. Promised' = [Promised EXCEPT ![o] = Promise!New(c.setting, c.defines)]
      BY <2>2, <2>5, <3>1, OthersPromised
    <3>3. o \in Promise!Existing \ Promise!Sound
      BY <1>1, <2>1, <3>1 DEF Promise!Sound, Void
    <3>4. Promise!Renew(o)
      BY <2>1, <2>3, <3>2, <3>3 DEF Promise!Renew, Silent, NoAnswer, Promise!Nothing
    <3> QED BY <3>4 DEF Promise!Next
  <2>8. CASE n.faults # {}
    BY <1>1, <2>1, <2>2, <2>3, <2>8, ForfeitStep DEF c
  <2> QED BY <2>6, <2>7, <2>8
<1>10. ASSUME NEW p \in Objs, Clone(o, p)
       PROVE  Promise!Next
  <2>1. /\ Idle(o) /\ ~cbc[p].exists /\ cbc' = [cbc EXCEPT ![p] = c] /\ Silent /\ call = NoCall
        /\ call' = NoCall
    BY <1>1, <1>10 DEF Clone, Set
  <2>2. Changes(p) /\ cbc'[p] = c
    BY <1>2, <2>1, CallFacts, Effect
  <2>3. Lives(p)' = Lives(o)
    BY <1>1, <1>2, <2>1, <2>2 DEF Lives
  <2>4. View(p)' = View(o)
    BY <2>2, <2>3 DEF View
  <2>5. Promised'[p] = Promised[o] /\ Promised[p] = NoObject
    BY <1>1, <2>1, <2>2, <2>4, PromisedIs, PromisedNext
  <2>6. Promised' = [Promised EXCEPT ![p] = Promised[o]]
    BY <2>2, <2>5, OthersPromised
  <2>7. o \in Promise!Existing /\ p \notin Promise!Existing
    BY <1>1, <2>1, <2>5 DEF Promise!Existing, NoObject
  <2>8. Promise!Clone(o, p)
    BY <2>1, <2>6, <2>7 DEF Promise!Clone, Silent, NoAnswer, Promise!Nothing
  <2> QED BY <2>8 DEF Promise!Next
<1>11. CASE Destroy(o)
  <2>1. Idle(o) /\ cbc' = [cbc EXCEPT ![o] = NoObject] /\ Silent /\ call' = NoCall
    BY <1>1, <1>11 DEF Destroy, Set
  <2>2. Changes(o) /\ cbc'[o] = NoObject
    BY <1>1, <1>2, <2>1, Effect
  <2>3. Promised'[o] = NoObject
    BY <2>2, PromisedNext DEF NoObject
  <2>4. Promised' = [Promised EXCEPT ![o] = NoObject]
    BY <2>2, <2>3, OthersPromised
  <2>5. Promise!Destroy(o)
    BY <1>1, <2>1, <2>4 DEF Promise!Destroy, Silent, NoAnswer, Promise!Nothing, NoObject,
                            Promise!NoObject
  <2> QED BY <2>5 DEF Promise!Next
<1> QED BY <1>3, <1>5, <1>6, <1>8, <1>9, <1>10, <1>11

\* What is answered is what was promised.
LEMMA AskPromise ==
  ASSUME IInv, NEW o \in Objs,
         (\E x \in Items : AskType(o, x)) \/ AskBasic(o) \/ AskMacros(o)
  PROVE  Promise!Next
<1> DEFINE c == cbc[o]
           d == Needed(c)
<1>1. /\ Idle(o) /\ c.exists /\ call = NoCall /\ c \in CBC /\ CallOn(o) /\ ~Resets(o)
      /\ ~c.pp.live => c.pp = NoPP
      /\ "failed" \notin c.faults => c.basic \subseteq {c.setting}
      /\ c.faults = {} => (c.pp.live => c.pp.config = c.defines)
  <2>1. Idle(o)
    BY DEF AskType, AskBasic, AskMacros
  <2> QED BY <2>1, IdleFacts, CallFacts DEF Idle, Resets
<1>2. /\ d \in CBC
      /\ d = [c EXCEPT !.ready = d.ready, !.size = d.size]
      /\ ~d.available => Blank(d)
      /\ d.available => LaidOut(d)
      /\ c.faults = {} => Fresh(d)
  BY <1>1, NeededFacts
<1>3. o \in Promise!Existing /\ (o \in Promise!Sound <=> c.faults = {})
      /\ (c.faults = {} => Promised[o] = View(o))
  <2>1. (c.faults # {} => Promised[o] = Void) /\ (c.faults = {} => Promised[o] = View(o))
    BY <1>1, PromisedIs
  <2>2. View(o).exists /\ Void.exists /\ ~View(o).void /\ Void.void
    BY DEF View, Void
  <2> QED BY <2>1, <2>2 DEF Promise!Existing, Promise!Sound
<1>4. /\ Lives(o) <=> c.pp.live
      /\ c.faults = {} => /\ Promised[o].setting = c.setting
                          /\ Promised[o].defines = c.defines
                          /\ Promised[o].live = Lives(o)
                          /\ Promised[o].source = IF Lives(o) THEN c.pp.source ELSE {}
  BY <1>1, <1>3 DEF View, Lives
\* The settings, the definitions and the preprocessor stay as they are.
<1>5. ASSUME NEW n, cbc' = [cbc EXCEPT ![o] = n], call' = NoCall, n.exists, n.faults = c.faults,
             n.setting = c.setting, n.defines = c.defines, n.available = c.available,
             n.defined = c.defined, n.typedefs = c.typedefs, n.pp = c.pp
      PROVE  Promised' = Promised
  <2>1. CallOn(o)' /\ ~Resets(o)'
    BY <1>5 DEF CallOn, Resets, Configuring, NoCall
  <2>2. Changes(o) /\ cbc'[o] = n /\ Resets(o)' = Resets(o)
    BY <1>1, <1>5, <2>1, Effect DEF Resets
  <2> QED BY <1>1, <1>5, <2>2, SameView
\* An answer about layouts: it may be anything if the object is faulty.
<1>6. ASSUME NEW b, answer' = [about |-> "layout", basis |-> b], Promised' = Promised,
             c.faults = {} => b = {c.setting}
      PROVE  Promise!Next
  <2>1. CASE c.faults = {}
    <3>1. Promise!AskLayout(o)
      BY <1>3, <1>4, <1>6, <2>1 DEF Promise!AskLayout
    <3> QED BY <3>1 DEF Promise!Next
  <2>2. CASE c.faults # {}
    <3>1. Promise!AskVoid(o)
      BY <1>3, <1>6, <2>2 DEF Promise!AskVoid
    <3> QED BY <3>1 DEF Promise!Next
  <2> QED BY <2>1, <2>2
<1> HIDE DEF d
<1>7. d.faults = c.faults /\ d.setting = c.setting /\ d.defines = c.defines /\ d.basic = c.basic
      /\ d.available = c.available /\ d.defined = c.defined /\ d.typedefs = c.typedefs /\ d.pp = c.pp
      /\ d.exists
  <2> HIDE DEF c
  <2> QED BY <1>1, <1>2 DEF CBC
<1>8. ASSUME NEW x \in Items, AskType(o, x)
      PROVE  Promise!Next
  <2>1. /\ cbc' = [cbc EXCEPT ![o] = d] /\ call' = NoCall
        /\ answer' = [about |-> "layout", basis |-> d.size[x]]
        /\ x \in d.defined \/ (x \in d.typedefs /\ Of[x] \in d.defined)
    BY <1>1, <1>8 DEF AskType, Set, d
  <2>2. Promised' = Promised
    BY <1>5, <1>7, <2>1
  <2>3. d.size[x] # {}
    BY <1>2, <2>1 DEF LaidOut, Blank
  <2>4. c.faults = {} => d.size[x] = {c.setting}
    BY <1>2, <1>7, <2>3 DEF Fresh
  <2> QED BY <1>6, <2>1, <2>2, <2>4
<1>9. CASE AskBasic(o)
  <2> DEFINE b == IF d.basic = {} THEN {d.setting} ELSE d.basic
             n == [d EXCEPT !.basic = b]
  <2>1. /\ cbc' = [cbc EXCEPT ![o] = n] /\ call' = NoCall
        /\ answer' = [about |-> "layout", basis |-> b]
    BY <1>1, <1>9 DEF AskBasic, Set, d
  <2>2. c.faults = {} => b = {c.setting}
    BY <1>1, <1>7
  <2> HIDE DEF c, b
  <2>3. /\ n.exists /\ n.faults = c.faults /\ n.setting = c.setting /\ n.defines = c.defines
        /\ n.available = c.available /\ n.defined = c.defined /\ n.typedefs = c.typedefs
        /\ n.pp = c.pp
    BY <1>2, <1>7 DEF CBC
  <2> HIDE DEF n
  <2>4. Promised' = Promised
    BY <1>5, <2>1, <2>3
  <2> QED BY <1>6, <2>1, <2>2, <2>4
<1>10. CASE AskMacros(o)
  <2>1. /\ cbc' = cbc /\ call' = NoCall
        /\ answer' = [about |-> "macros", basis |-> Macros(c)]
    BY <1>1, <1>10 DEF AskMacros
  <2>2. cbc' = [cbc EXCEPT ![o] = c]
    BY <2>1 DEF IInv
  <2>3. Promised' = Promised
    BY <1>1, <1>5, <2>1, <2>2
  <2>4. CASE c.faults = {}
    <3>1. Macros(c) = IF Lives(o) THEN c.defines \cup c.pp.source ELSE {}
      BY <1>1, <1>4, <2>4 DEF Macros, NoPP
    <3>2. Macros(c) = IF Promised[o].live THEN Promised[o].defines \cup Promised[o].source ELSE {}
      BY <1>4, <2>4, <3>1
    <3>3. Promise!AskMacros(o)
      BY <1>3, <2>1, <2>3, <2>4, <3>2 DEF Promise!AskMacros
    <3> QED BY <3>3 DEF Promise!Next
  <2>5. CASE c.faults # {}
    <3>1. Promise!AskVoid(o)
      BY <1>3, <2>1, <2>3, <2>5 DEF Promise!AskVoid
    <3> QED BY <3>1 DEF Promise!Next
  <2> QED BY <2>4, <2>5
<1> QED BY <1>8, <1>9, <1>10

\* Of a void object nothing is known; of one to which nothing of what the code
\* does not cope with has happened, every answer is that of the settings and
\* definitions in force: the caches, and the order in which they are filled
\* and emptied, cannot be seen (object.c, option.c, ctparse.c).
THEOREM PromiseKept == Spec => ImplementsPromise
<1>1. Init => Promise!Init
  <2> SUFFICES ASSUME Init
               PROVE  Promise!Init
    OBVIOUS
  <2>1. \A o \in Objs : Promised[o] = NoObject
    BY PromisedIs DEF Init, NoObject
  <2>2. Promised = [o \in Objs |-> NoObject]
    <3> DEFINE f == Promised
    <3>1. f = [o \in Objs |-> f[o]]
      BY DEF Promised
    <3> HIDE DEF f
    <3>2. \A o \in Objs : f[o] = NoObject
      BY <2>1 DEF f
    <3>3. f = [o \in Objs |-> NoObject]
      BY <3>1, <3>2
    <3> QED BY <3>3 DEF f
  <2> QED BY <2>2 DEF Init, NoAnswer, NoObject, Promise!Init, Promise!NoObject, Promise!Nothing
<1>2. IInv /\ IInv' /\ [Next]_vars => [Promise!Next]_(Promise!vars)
  <2> SUFFICES ASSUME IInv, IInv', [Next]_vars
               PROVE  [Promise!Next]_(Promise!vars)
    OBVIOUS
  <2>1. CASE Next
    <3>1. PICK o \in Objs : Next!(o)
      BY <2>1 DEF Next
    <3> QED BY <3>1, ParsePromise, ConfigurePromise, MethodPromise, AskPromise
  <2>2. CASE UNCHANGED vars
    <3>1. Promised' = Promised /\ answer' = answer
      BY <2>2 DEF vars, Promised, Configuring
    <3> QED BY <3>1 DEF Promise!vars
  <2> QED BY <2>1, <2>2
<1> QED BY <1>1, <1>2, Invariance, PTL DEF Spec, ImplementsPromise, Promise!Spec

-----------------------------------------------------------------------------
(* The cache file. *)

Places == {"out", "ready", "header", "files", "cache", "stat", "read", "open", "write", "done"}

Stamps == Versions \cup {Unknown}
Piece  == [request : Requests, ver : Versions]
Object == [request : Requests \cup {0}, named : BOOLEAN, seen : Stamps, files : Stamps,
           stamp : Stamps, data : Seq(Piece), uses_cache : BOOLEAN, pos : Nat]
Header == [hole : {FALSE}, by : Procs, torn : BOOLEAN, request : Requests, ver : Versions,
           named : BOOLEAN]
Block  == [hole : {FALSE}, by : Procs, torn : BOOLEAN, request : Requests, ver : Versions]

Types ==
  /\ version \in Versions
  /\ file \in Seq(Header \cup Block \cup {Hole})
  /\ obj \in [Procs -> Object]
  /\ pc \in [Procs -> Places]

\* Declarations come behind the header, and were read after the stamps of the
\* header were taken if both are from one process.
FileOK ==
  \A i \in DOMAIN file : ~file[i].hole =>
    /\ i = 1 => file[i] \in Header
    /\ i > 1 => file[i] \in Block /\ file[i].ver <= version
    /\ i > 1 /\ ~file[1].hole /\ file[1].by = file[i].by =>
         file[i].request = file[1].request /\ file[1].ver <= file[i].ver

\* What process p has written so far fits what it is going to write.
Mine(p) ==
  \A i \in DOMAIN file : ~file[i].hole /\ file[i].by = p =>
    /\ file[i].request = obj[p].request
    /\ i = 1 => file[i].ver = obj[p].stamp
    /\ i > 1 => obj[p].stamp <= file[i].ver

\* The object holds nothing yet, or a parse of its own.
Parsed(p) ==
  /\ pc[p] = "read" => obj[p].stamp \in Versions /\ obj[p].stamp <= version
  /\ pc[p] \in {"open", "write"} => obj[p].stamp \in Versions /\ Len(obj[p].data) = Parts
  /\ pc[p] \notin {"open", "write", "done"} => obj[p].data = << >>
  /\ ~obj[p].uses_cache =>
       \A i \in DOMAIN obj[p].data :
         /\ obj[p].data[i].request = obj[p].request
         /\ obj[p].stamp <= obj[p].data[i].ver /\ obj[p].data[i].ver <= version

\* The cache file, of which p has seen the header.
Seen(p) == /\ Whole(file) /\ SameHeader(file[1], obj[p].request)

\* What a process knows that found the file whole.
Knows(p) ==
  p \in sound =>
    /\ pc[p] = "files" => Seen(p) /\ obj[p].seen = file[1].ver
    /\ pc[p] = "cache" => /\ Seen(p) /\ obj[p].files = file[1].ver
                          /\ \A i \in 2..(Parts + 1) : file[i].ver = obj[p].files
    /\ pc[p] = "done" /\ obj[p].uses_cache =>
         obj[p].files \in Versions /\ obj[p].data = Code(obj[p].request, obj[p].files)

ObjectOK(p) ==
  /\ pc[p] # "out" => obj[p].request \in Requests
  /\ obj[p].uses_cache => pc[p] = "done"
  /\ obj[p].files = Unknown \/ pc[p] = "cache" \/ obj[p].uses_cache
  /\ Parsed(p)
  /\ pc[p] = "write" => Mine(p) /\ obj[p].pos <= 2 * Parts + 1
  /\ Knows(p)

CacheInv == Types /\ FileOK /\ \A p \in Procs : ObjectOK(p)

-----------------------------------------------------------------------------
(* Steps that leave the cache file alone. *)

LEMMA Bounds ==
  /\ Parts \in Nat /\ Parts >= 1 /\ MaxEdits \in Nat
  /\ 0 \in Versions /\ Versions \subseteq Nat /\ Unknown \notin Versions /\ Unknown \in Stamps
BY CachedAssumption DEF Versions, Unknown, Stamps

\* What is written at a place of an object with a type.
LEMMA CacheEffect ==
  ASSUME Types, NEW p \in Procs, NEW o \in Object, NEW l \in Places,
         obj' = [obj EXCEPT ![p] = o], pc' = [pc EXCEPT ![p] = l],
         version' \in Versions, file' \in Seq(Header \cup Block \cup {Hole})
  PROVE  /\ Types' /\ obj'[p] = o /\ pc'[p] = l
         /\ \A q \in Procs \ {p} : obj'[q] = obj[q] /\ pc'[q] = pc[q]
BY DEF Types

LEMMA SameFile ==
  ASSUME CacheInv, NEW p \in Procs, NEW o \in Object, NEW l \in Places,
         obj' = [obj EXCEPT ![p] = o], pc' = [pc EXCEPT ![p] = l],
         file' = file, version' = version,
         \A q \in Procs \ {p} : q \in sound' => q \in sound,
         ObjectOK(p)'
  PROVE  CacheInv'
<1>1. /\ Types'
      /\ \A q \in Procs \ {p} : obj'[q] = obj[q] /\ pc'[q] = pc[q]
  BY CacheEffect DEF CacheInv, Types
<1>2. FileOK'
  BY DEF CacheInv, FileOK
<1>3. ASSUME NEW q \in Procs \ {p}
      PROVE  ObjectOK(q)'
  <2>1. ObjectOK(q)
    BY DEF CacheInv
  <2> QED BY <1>1, <1>3, <2>1 DEF ObjectOK, Parsed, Mine, Knows, Seen
<1> QED BY <1>1, <1>2, <1>3 DEF CacheInv

LEMMA NewObject ==
  ASSUME NEW r \in Requests \cup {0}
  PROVE  /\ NewCached(r) \in Object /\ NewCached(r).request = r /\ NewCached(r).data = << >>
         /\ NewCached(r).uses_cache = FALSE /\ NewCached(r).files = Unknown
         /\ \A i \in DOMAIN NewCached(r).data : FALSE
<1>1. << >> \in Seq(Piece) /\ \A i \in DOMAIN << >> : FALSE
  OBVIOUS
<1> QED BY <1>1, Bounds DEF NewCached, Object

\* An object that has nothing yet and knows nothing is fine anywhere.
LEMMA NewIsFine ==
  ASSUME CacheInv, NEW p \in Procs, NEW r \in Requests \cup {0}, NEW l \in {"out", "ready", "stat"},
         l = "out" \/ r \in Requests,
         obj' = [obj EXCEPT ![p] = NewCached(r)], pc' = [pc EXCEPT ![p] = l],
         file' = file, version' = version,
         \A q \in Procs \ {p} : q \in sound' => q \in sound
  PROVE  CacheInv'
<1> DEFINE o == NewCached(r)
<1>1. /\ o \in Object /\ o.request = r /\ o.data = << >> /\ ~o.uses_cache /\ o.files = Unknown
      /\ \A i \in DOMAIN o.data : FALSE
  BY NewObject
<1>2. obj' = [obj EXCEPT ![p] = o]
  OBVIOUS
<1> HIDE DEF o
<1>3. l \in Places /\ obj'[p] = o /\ pc'[p] = l
  BY <1>1, <1>2, CacheEffect DEF Places, CacheInv, Types
<1>4. ObjectOK(p)'
  BY <1>1, <1>3 DEF ObjectOK, Parsed, Knows
<1> QED BY <1>1, <1>2, <1>3, <1>4, SameFile

LEMMA CreateStep ==
  ASSUME CacheInv, NEW p \in Procs,
         \/ \E r \in Wants[p] : CreateCached(p, r)
         \/ CleanUp(p) \/ Exit(p) \/ Kill(p)
  PROVE  CacheInv'
<1>1. ASSUME NEW r \in Wants[p], CreateCached(p, r)
      PROVE  CacheInv'
  <2>1. r \in Requests
    BY DEF Requests
  <2> QED BY <1>1, <2>1, NewIsFine DEF CreateCached, Goto, Become, Still
<1>2. CASE CleanUp(p)
  <2>1. obj[p].request \in Requests
    BY <1>2 DEF CacheInv, ObjectOK, CleanUp
  <2> QED BY <1>2, <2>1, NewIsFine DEF CleanUp, Cleaned, Goto, Become, Still
<1>3. CASE Exit(p) \/ Kill(p)
  BY <1>3, NewIsFine DEF Exit, Kill, Leave, Gone, Goto, Become
<1> QED BY <1>1, <1>2, <1>3

\* A step within a call that sets some fields of an object.
LEMMA CallStep ==
  ASSUME CacheInv, NEW p \in Procs, NEW o \in Object, NEW l \in Places \ {"out", "write"},
         pc[p] # "out", o.request = obj[p].request,
         obj' = [obj EXCEPT ![p] = o], pc' = [pc EXCEPT ![p] = l],
         file' = file, version' = version,
         \A q \in Procs \ {p} : q \in sound' => q \in sound,
         o.uses_cache => l = "done",
         o.files = Unknown \/ l = "cache" \/ o.uses_cache,
         l = "read" => o.stamp \in Versions /\ o.stamp <= version,
         l = "open" => o.stamp \in Versions /\ Len(o.data) = Parts,
         l \notin {"open", "done"} => o.data = << >>,
         o.uses_cache \/ o.data = << >> \/
           \A i \in DOMAIN o.data : o.data[i].request = o.request
                                    /\ o.stamp <= o.data[i].ver /\ o.data[i].ver <= version,
         p \in sound' /\ l = "files" =>
           Whole(file) /\ SameHeader(file[1], o.request) /\ o.seen = file[1].ver,
         p \in sound' /\ l = "cache" =>
           /\ Whole(file) /\ SameHeader(file[1], o.request) /\ o.files = file[1].ver
           /\ \A i \in 2..(Parts + 1) : file[i].ver = o.files,
         p \in sound' /\ l = "done" /\ o.uses_cache =>
           o.files \in Versions /\ o.data = Code(o.request, o.files)
  PROVE  CacheInv'
<1>1. obj'[p] = o /\ pc'[p] = l
  BY CacheEffect DEF CacheInv, Types
<1>2. ObjectOK(p)
  BY DEF CacheInv
<1>3. Parsed(p)'
  <2>1. o.data = << >> => \A i \in DOMAIN o.data : FALSE
    OBVIOUS
  <2> QED BY <1>1, <2>1 DEF Parsed
<1>4. Knows(p)'
  BY <1>1 DEF Knows, Seen
<1>5. ObjectOK(p)'
  BY <1>1, <1>2, <1>3, <1>4 DEF ObjectOK
<1> QED BY <1>5, SameFile

\* What holds of an object in a call.
LEMMA InCallFacts ==
  ASSUME CacheInv, NEW p \in Procs, pc[p] \notin {"out", "done"}
  PROVE  LET c == obj[p]
         IN  /\ c \in Object /\ c.request \in Requests /\ c.uses_cache = FALSE
             /\ c.files = Unknown \/ pc[p] = "cache"
             /\ pc[p] \notin {"open", "write"} => c.data = << >>
             /\ pc[p] = "read" => c.stamp \in Versions /\ c.stamp <= version
BY DEF CacheInv, Types, ObjectOK, Parsed, Object

LEMMA CacheParseStep ==
  ASSUME CacheInv, NEW p \in Procs, Parse(p)
  PROVE  CacheInv'
<1> DEFINE c == obj[p]
           o == [c EXCEPT !.named = TRUE]
<1>1. /\ pc[p] = "ready" /\ pc' = [pc EXCEPT ![p] = "header"] /\ obj' = [obj EXCEPT ![p] = o]
      /\ file' = file /\ version' = version /\ sound' = sound
  BY DEF Parse, Goto, Become, Still
<1>2. c \in Object /\ c.uses_cache = FALSE /\ c.files = Unknown /\ c.data = << >>
  BY <1>1, InCallFacts
<1> HIDE DEF c
<1>3. /\ o \in Object /\ o.request = c.request /\ o.uses_cache = FALSE /\ o.files = Unknown
      /\ o.data = << >>
  BY <1>2 DEF Object
<1> HIDE DEF o
<1>4. "header" \in Places \ {"out", "write"}
  BY DEF Places
<1> QED BY <1>1, <1>3, <1>4, CallStep DEF c

LEMMA CheckHeaderStep ==
  ASSUME CacheInv, NEW p \in Procs, CheckHeader(p)
  PROVE  CacheInv'
<1> DEFINE c == obj[p]
           good == file # Missing /\ ~file[1].hole /\ SameHeader(file[1], c.request)
           o == [c EXCEPT !.seen = file[1].ver]
<1>1. /\ pc[p] = "header" /\ file' = file /\ version' = version
      /\ sound' = IF good /\ Whole(file) THEN sound \cup {p} ELSE sound \ {p}
      /\ \/ /\ good
            /\ pc' = [pc EXCEPT ![p] = "files"] /\ obj' = [obj EXCEPT ![p] = o]
         \/ pc' = [pc EXCEPT ![p] = "stat"] /\ obj' = obj
  BY DEF CheckHeader, Goto, Become, Still
<1>2. c \in Object /\ c.uses_cache = FALSE /\ c.files = Unknown /\ c.data = << >>
  BY <1>1, InCallFacts
<1>3. {"files", "stat"} \subseteq Places \ {"out", "write"}
  BY DEF Places
<1>4. CASE good /\ pc' = [pc EXCEPT ![p] = "files"] /\ obj' = [obj EXCEPT ![p] = o]
  <2>1. file[1].ver \in Versions
    <3>1. 1 \in DOMAIN file
      BY <1>4 DEF CacheInv, Types, Missing
    <3> QED BY <1>4, <3>1 DEF CacheInv, FileOK, Header
  <2>2. p \in sound' => Whole(file) /\ SameHeader(file[1], c.request)
    BY <1>1
  <2> HIDE DEF c
  <2>3. /\ o \in Object /\ o.request = c.request /\ o.uses_cache = FALSE /\ o.files = Unknown
        /\ o.data = << >> /\ o.seen = file[1].ver
    BY <1>2, <2>1, Bounds DEF Object, Stamps
  <2> HIDE DEF o
  <2> QED BY <1>1, <1>3, <1>4, <2>2, <2>3, CallStep DEF c
<1>5. CASE pc' = [pc EXCEPT ![p] = "stat"] /\ obj' = obj
  <2>1. obj' = [obj EXCEPT ![p] = c]
    BY <1>5 DEF CacheInv, Types
  <2> QED BY <1>1, <1>2, <1>3, <1>5, <2>1, CallStep
<1> QED BY <1>1, <1>4, <1>5

LEMMA CheckFilesStep ==
  ASSUME CacheInv, NEW p \in Procs, CheckFiles(p)
  PROVE  CacheInv'
<1> DEFINE c == obj[p]
           o == [c EXCEPT !.files = c.seen, !.seen = Unknown]
           n == [c EXCEPT !.seen = Unknown]
<1>1. /\ pc[p] = "files" /\ file' = file /\ version' = version /\ sound' = sound
      /\ \/ /\ c.seen = version
            /\ pc' = [pc EXCEPT ![p] = "cache"] /\ obj' = [obj EXCEPT ![p] = o]
         \/ pc' = [pc EXCEPT ![p] = "stat"] /\ obj' = [obj EXCEPT ![p] = n]
  BY DEF CheckFiles, SameStamps, Goto, Become, Still
<1>2. c \in Object /\ c.uses_cache = FALSE /\ c.files = Unknown /\ c.data = << >>
  BY <1>1, InCallFacts
<1>3. {"cache", "stat"} \subseteq Places \ {"out", "write"}
  BY DEF Places
<1>4. CASE c.seen = version /\ pc' = [pc EXCEPT ![p] = "cache"] /\ obj' = [obj EXCEPT ![p] = o]
  <2>1. p \in sound => Whole(file) /\ SameHeader(file[1], c.request) /\ c.seen = file[1].ver
    BY <1>1 DEF CacheInv, ObjectOK, Knows, Seen
  <2>2. ASSUME p \in sound, NEW i \in 2..(Parts + 1)
        PROVE  file[i].ver = c.seen
    <3>1. /\ i \in DOMAIN file /\ 1 \in DOMAIN file /\ i > 1 /\ ~file[i].hole /\ ~file[1].hole
          /\ file[1].by = file[i].by
      BY <2>1, <2>2, Bounds DEF Whole, Torn, CacheInv, Types
    <3>2. file[i] \in Block /\ file[i].ver <= version /\ file[1].ver <= file[i].ver
      BY <3>1 DEF CacheInv, FileOK
    <3>3. file[i].ver \in Nat /\ version \in Nat
      BY <3>2, Bounds DEF Block, CacheInv, Types
    <3>4. version <= file[i].ver
      BY <1>4, <2>1, <2>2, <3>2
    <3> QED BY <1>4, <3>2, <3>3, <3>4
  <2> HIDE DEF c
  <2>3. /\ o \in Object /\ o.request = c.request /\ o.uses_cache = FALSE /\ o.files = c.seen
        /\ o.data = << >>
    BY <1>2, Bounds DEF Object
  <2> HIDE DEF o
  <2> QED BY <1>1, <1>3, <1>4, <2>1, <2>2, <2>3, CallStep DEF c
<1>5. CASE pc' = [pc EXCEPT ![p] = "stat"] /\ obj' = [obj EXCEPT ![p] = n]
  <2> HIDE DEF c
  <2>1. /\ n \in Object /\ n.request = c.request /\ n.uses_cache = FALSE /\ n.files = Unknown
        /\ n.data = << >>
    BY <1>2, Bounds DEF Object
  <2> HIDE DEF n
  <2> QED BY <1>1, <1>3, <1>5, <2>1, CallStep DEF c
<1> QED BY <1>1, <1>4, <1>5

LEMMA IsSeq ==
  ASSUME NEW S, NEW n \in Int, NEW f \in [1..n -> S]
  PROVE  f \in Seq(S)
<1>1. CASE n \in Nat
  BY <1>1
<1>2. CASE n < 0
  <2>1. 1..n = 1..0
    BY <1>2
  <2>2. f \in [1..0 -> S] /\ 0 \in Nat
    BY <2>1
  <2>3. \A k \in Nat : [1..k -> S] \subseteq Seq(S)
    OBVIOUS
  <2> QED BY <2>2, <2>3
<1> QED BY <1>1, <1>2

LEMMA ParseCacheStep ==
  ASSUME CacheInv, NEW p \in Procs, ParseCache(p)
  PROVE  CacheInv'
<1> DEFINE c == obj[p]
           data == [i \in 1..(Len(file) - 1) |->
                      [request |-> file[i + 1].request, ver |-> file[i + 1].ver]]
           o == [c EXCEPT !.uses_cache = TRUE, !.data = data]
<1>1. /\ pc[p] = "cache" /\ file' = file /\ version' = version /\ sound' = sound
      /\ \/ /\ \A i \in DOMAIN file : ~Torn(file[i])
            /\ pc' = [pc EXCEPT ![p] = "done"] /\ obj' = [obj EXCEPT ![p] = o]
         \/ pc' = [pc EXCEPT ![p] = "stat"] /\ obj' = [obj EXCEPT ![p] = Cleaned(c)]
  BY DEF ParseCache, Goto, Become, Still
<1>2. c \in Object /\ c.request \in Requests
  BY <1>1, InCallFacts
<1>3. "done" \in Places \ {"out", "write"}
  BY DEF Places
<1>4. CASE /\ \A i \in DOMAIN file : ~Torn(file[i])
           /\ pc' = [pc EXCEPT ![p] = "done"] /\ obj' = [obj EXCEPT ![p] = o]
  <2>1. ASSUME NEW i \in 1..(Len(file) - 1)
        PROVE  file[i + 1] \in Block /\ file[i + 1].ver \in Versions /\ file[i + 1].request \in Requests
    <3>1. i + 1 \in DOMAIN file /\ i + 1 > 1
      BY <2>1 DEF CacheInv, Types
    <3>2. ~file[i + 1].hole
      BY <1>4, <3>1 DEF Torn
    <3> QED BY <3>1, <3>2 DEF CacheInv, FileOK, Block
  <2>2. data \in Seq(Piece)
    <3>1. \A i \in 1..(Len(file) - 1) : data[i] \in Piece
      BY <2>1 DEF Piece
    <3>2. Len(file) - 1 \in Int
      BY DEF CacheInv, Types
    <3>3. data \in [1..(Len(file) - 1) -> Piece]
      BY <3>1
    <3> QED BY <3>2, <3>3, IsSeq
  <2>3. ASSUME p \in sound
        PROVE  c.files \in Versions /\ data = Code(c.request, c.files)
    <3>1. /\ Whole(file) /\ SameHeader(file[1], c.request) /\ c.files = file[1].ver
          /\ \A i \in 2..(Parts + 1) : file[i].ver = c.files
      BY <1>1, <2>3 DEF CacheInv, ObjectOK, Knows, Seen
    <3>2. Len(file) = Parts + 1
      BY <3>1 DEF Whole
    <3>3. file[1].ver \in Versions
      <4>1. 1 \in DOMAIN file /\ ~file[1].hole
        BY <1>4, <3>2, Bounds DEF CacheInv, Types, Torn
      <4> QED BY <4>1 DEF CacheInv, FileOK, Header
    <3>4. ASSUME NEW i \in 1..Parts
          PROVE  file[i + 1].request = c.request /\ file[i + 1].ver = c.files
      <4>1. /\ i + 1 \in DOMAIN file /\ 1 \in DOMAIN file /\ i + 1 > 1 /\ i + 1 \in 2..(Parts + 1)
        BY <3>2, <3>4, Bounds DEF CacheInv, Types
      <4>2. ~file[i + 1].hole /\ ~file[1].hole /\ file[1].by = file[i + 1].by
        BY <1>4, <3>1, <4>1 DEF Whole, Torn
      <4>3. file[i + 1].request = file[1].request
        BY <4>1, <4>2 DEF CacheInv, FileOK
      <4> QED BY <3>1, <4>1, <4>3 DEF SameHeader
    <3>5. data = [i \in 1..Parts |-> [request |-> c.request, ver |-> c.files]]
      BY <3>2, <3>4, Bounds
    <3> QED BY <3>1, <3>3, <3>5 DEF Code
  <2> HIDE DEF c, data
  <2>4. /\ o \in Object /\ o.request = c.request /\ o.uses_cache = TRUE /\ o.data = data
        /\ o.files = c.files
    BY <1>2, <2>2 DEF Object
  <2> HIDE DEF o
  <2> QED BY <1>1, <1>3, <1>4, <2>3, <2>4, CallStep DEF c
<1>5. CASE pc' = [pc EXCEPT ![p] = "stat"] /\ obj' = [obj EXCEPT ![p] = Cleaned(c)]
  BY <1>1, <1>2, <1>5, NewIsFine DEF Cleaned
<1> QED BY <1>1, <1>4, <1>5

LEMMA ReadSteps ==
  ASSUME CacheInv, NEW p \in Procs, Stat(p) \/ Read(p)
  PROVE  CacheInv'
<1> DEFINE c == obj[p]
<1>1. version \in Versions /\ {"read", "open", "done"} \subseteq Places \ {"out", "write"}
  BY DEF CacheInv, Types, Places
<1>2. CASE Stat(p)
  <2> DEFINE o == [c EXCEPT !.stamp = version]
  <2>1. /\ pc[p] = "stat" /\ pc' = [pc EXCEPT ![p] = "read"] /\ obj' = [obj EXCEPT ![p] = o]
        /\ file' = file /\ version' = version /\ sound' = sound
    BY <1>2 DEF Stat, Goto, Become, Still
  <2>2. c \in Object /\ c.uses_cache = FALSE /\ c.files = Unknown /\ c.data = << >>
    BY <2>1, InCallFacts
  <2> HIDE DEF c
  <2>3. /\ o \in Object /\ o.request = c.request /\ o.uses_cache = FALSE /\ o.files = Unknown
        /\ o.data = << >> /\ o.stamp = version
    BY <1>1, <2>2 DEF Object, Stamps
  <2>4. version <= version
    BY <1>1, Bounds
  <2> HIDE DEF o
  <2> QED BY <1>1, <2>1, <2>3, <2>4, CallStep DEF c
<1>3. CASE Read(p)
  <2> DEFINE data == Code(c.request, version)
             o == [c EXCEPT !.data = data]
  <2>1. /\ pc[p] = "read" /\ file' = file /\ version' = version /\ sound' = sound
        /\ \/ pc' = [pc EXCEPT ![p] = "done"] /\ obj' = obj
           \/ pc' = [pc EXCEPT ![p] = "open"] /\ obj' = [obj EXCEPT ![p] = o]
    BY <1>3 DEF Read, Goto, Become, Still
  <2>2. /\ c \in Object /\ c.uses_cache = FALSE /\ c.files = Unknown /\ c.data = << >>
        /\ c.stamp \in Versions /\ c.stamp <= version /\ c.request \in Requests
    BY <2>1, InCallFacts
  <2>3. CASE pc' = [pc EXCEPT ![p] = "done"] /\ obj' = obj
    <3>1. obj' = [obj EXCEPT ![p] = c]
      BY <2>3 DEF CacheInv, Types
    <3> QED BY <1>1, <2>1, <2>2, <2>3, <3>1, CallStep
  <2>4. CASE pc' = [pc EXCEPT ![p] = "open"] /\ obj' = [obj EXCEPT ![p] = o]
    <3> HIDE DEF c
    <3>1. /\ data \in Seq(Piece) /\ Len(data) = Parts /\ version <= version
          /\ \A i \in DOMAIN data : data[i].request = c.request /\ data[i].ver = version
      <4>1. [request |-> c.request, ver |-> version] \in Piece
        BY <1>1, <2>2 DEF Piece
      <4> QED BY <1>1, <4>1, Bounds DEF Code
    <3> HIDE DEF data
    <3>2. /\ o \in Object /\ o.request = c.request /\ o.uses_cache = FALSE /\ o.files = Unknown
          /\ o.data = data /\ o.stamp = c.stamp
      BY <2>2, <3>1 DEF Object
    <3> HIDE DEF o
    <3> QED BY <1>1, <2>1, <2>2, <2>4, <3>1, <3>2, CallStep DEF c
  <2> QED BY <2>1, <2>3, <2>4
<1> QED BY <1>2, <1>3

-----------------------------------------------------------------------------
(* Steps that change the cache file, or the sources. *)

LEMMA CacheOpenStep ==
  ASSUME CacheInv, NEW p \in Procs, Open(p)
  PROVE  CacheInv'
<1> DEFINE c == obj[p]
           o == [c EXCEPT !.pos = 0]
<1>1. /\ pc[p] = "open" /\ pc' = [pc EXCEPT ![p] = "write"] /\ obj' = [obj EXCEPT ![p] = o]
      /\ file' = << >> /\ version' = version
      /\ sound' = {q \in sound : pc[q] \notin {"files", "cache"}}
  BY DEF Open, Goto, Become, Still, Missing, Disturb
<1>2. c \in Object /\ ObjectOK(p) /\ version \in Versions /\ "write" \in Places
  BY DEF CacheInv, Types, Places
<1> HIDE DEF c
<1>3. /\ o \in Object /\ o.request = c.request /\ o.uses_cache = c.uses_cache /\ o.files = c.files
      /\ o.data = c.data /\ o.stamp = c.stamp /\ o.pos = 0
  BY <1>2 DEF Object
<1> HIDE DEF o
<1>4. file' \in Seq(Header \cup Block \cup {Hole}) /\ \A i \in DOMAIN file' : FALSE
  BY <1>1
<1>5. /\ Types' /\ obj'[p] = o /\ pc'[p] = "write"
      /\ \A q \in Procs \ {p} : obj'[q] = obj[q] /\ pc'[q] = pc[q]
  BY <1>1, <1>2, <1>3, <1>4, CacheEffect DEF CacheInv
<1>6. ObjectOK(p)'
  <2>1. Parsed(p)'
    BY <1>1, <1>2, <1>3, <1>5 DEF ObjectOK, Parsed, c
  <2>2. Mine(p)' /\ o.pos <= 2 * Parts + 1
    BY <1>3, <1>4, Bounds DEF Mine
  <2> QED BY <1>1, <1>2, <1>3, <1>5, <2>1, <2>2 DEF ObjectOK, Knows, c
<1>7. ASSUME NEW q \in Procs \ {p}
      PROVE  ObjectOK(q)'
  <2>1. ObjectOK(q)
    BY DEF CacheInv
  <2>2. Parsed(q)'
    BY <1>1, <1>5, <1>7, <2>1 DEF ObjectOK, Parsed
  <2>3. Mine(q)'
    BY <1>4 DEF Mine
  <2>4. Knows(q)'
    BY <1>1, <1>5, <1>7, <2>1 DEF ObjectOK, Knows
  <2> QED BY <1>5, <1>7, <2>1, <2>2, <2>3, <2>4 DEF ObjectOK
<1> QED BY <1>4, <1>5, <1>6, <1>7 DEF CacheInv, FileOK

\* What a block written over a file at place i leaves of it.
LEMMA PutFacts ==
  ASSUME NEW S, NEW f \in Seq(S), NEW b \in S, NEW i \in Nat \ {0}, Hole \in S
  PROVE  LET g == Put(f, i, b)
         IN  /\ g \in Seq(S) /\ i \in DOMAIN g /\ g[i] = b
             /\ \A j \in DOMAIN g \ {i} : (j \in DOMAIN f /\ g[j] = f[j]) \/ g[j] = Hole
<1> DEFINE n == IF Len(f) < i THEN i ELSE Len(f)
           g == Put(f, i, b)
<1>1. n \in Nat /\ Len(f) \in Nat /\ DOMAIN f = 1..Len(f) /\ i \in 1..n
  OBVIOUS
<1>2. g = [j \in 1..n |-> IF j = i THEN b ELSE IF j <= Len(f) THEN f[j] ELSE Hole]
  BY DEF Put
<1>3. \A j \in 1..n : g[j] = (IF j = i THEN b ELSE IF j <= Len(f) THEN f[j] ELSE Hole)
  BY <1>2
<1> HIDE DEF n
<1>4. \A j \in 1..n : j <= Len(f) => j \in DOMAIN f
  BY <1>1
<1>5. \A j \in 1..n : g[j] \in S
  BY <1>1, <1>3, <1>4
<1>6. g \in [1..n -> S]
  BY <1>2, <1>3, <1>5
<1>7. g \in Seq(S) /\ DOMAIN g = 1..n
  BY <1>1, <1>2, <1>6, IsSeq
<1> HIDE DEF g
<1> QED BY <1>1, <1>3, <1>4, <1>7 DEF g

LEMMA WriteStep ==
  ASSUME CacheInv, NEW p \in Procs, Write(p)
  PROVE  CacheInv'
<1> DEFINE c == obj[p]
           i == c.pos \div 2 + 1
           torn == (c.pos % 2 = 0)
           b == Written(p, i, torn)
           o == [c EXCEPT !.pos = c.pos + 1]
           l == IF c.pos = 2 * Parts + 1 THEN "done" ELSE "write"
           S == Header \cup Block \cup {Hole}
<1>1. /\ pc[p] = "write" /\ version' = version /\ file' = Put(file, i, b)
      /\ obj' = [obj EXCEPT ![p] = o]
      /\ sound' = {q \in sound : pc[q] \notin {"files", "cache"}}
  BY DEF Write, Become, Still, Disturb
<1>2. pc' = [pc EXCEPT ![p] = l]
  BY DEF Write, Goto, CacheInv, Types
<1>3. /\ c \in Object /\ ObjectOK(p) /\ Mine(p) /\ c.pos <= 2 * Parts + 1 /\ c.pos \in Nat
      /\ c.uses_cache = FALSE /\ c.files = Unknown /\ c.stamp \in Versions /\ Len(c.data) = Parts
      /\ c.request \in Requests /\ c.data \in Seq(Piece)
      /\ \A j \in DOMAIN c.data : /\ c.data[j].request = c.request
                                  /\ c.stamp <= c.data[j].ver /\ c.data[j].ver <= version
  <2>1. c \in Object /\ ObjectOK(p)
    BY DEF CacheInv, Types
  <2>2. c.pos \in Nat /\ c.data \in Seq(Piece) /\ c.uses_cache \in BOOLEAN
    BY <2>1 DEF Object
  <2>3. c.uses_cache = FALSE
    BY <1>1, <2>1, <2>2 DEF ObjectOK
  <2> QED BY <1>1, <2>1, <2>2, <2>3 DEF ObjectOK, Parsed
<1>4. version \in Versions /\ l \in Places
  BY DEF CacheInv, Types, Places
<1>5. i \in 1..(Parts + 1) /\ i \in Nat \ {0}
  BY <1>3, Bounds
<1>6. torn \in BOOLEAN
  OBVIOUS
<1> HIDE DEF c, i, torn
<1>7. /\ b.hole = FALSE /\ b.by = p /\ b.request = c.request /\ b \in S
      /\ i = 1 => b \in Header /\ b.ver = c.stamp
      /\ i > 1 => b \in Block /\ c.stamp <= b.ver /\ b.ver <= version
  <2>1. CASE i = 1
    <3>1. b = [hole |-> FALSE, by |-> p, torn |-> torn, request |-> c.request, ver |-> c.stamp,
               named |-> c.named]
      BY <2>1 DEF Written, c
    <3>2. b \in Header
      BY <1>3, <1>6, <3>1 DEF Header, Object
    <3> HIDE DEF b
    <3> QED BY <1>3, <2>1, <3>1, <3>2
  <2>2. CASE i # 1
    <3>1. b = [hole |-> FALSE, by |-> p, torn |-> torn, request |-> c.data[i - 1].request,
               ver |-> c.data[i - 1].ver]
      BY <2>2 DEF Written, c
    <3>2. i - 1 \in DOMAIN c.data
      BY <1>3, <1>5, <2>2, Bounds
    <3>3. c.data[i - 1] \in Piece
      BY <1>3, <3>2
    <3>4. c.data[i - 1].ver \in Versions
      BY <3>3 DEF Piece
    <3>5. c.data[i - 1].request = c.request /\ c.stamp <= c.data[i - 1].ver
          /\ c.data[i - 1].ver <= version
      BY <1>3, <3>2
    <3>6. b \in Block
      BY <1>3, <1>6, <3>1, <3>4, <3>5 DEF Block
    <3> HIDE DEF b
    <3> QED BY <1>3, <2>2, <3>1, <3>5, <3>6
  <2> QED BY <2>1, <2>2
<1> HIDE DEF b
<1>8. /\ file' \in Seq(S) /\ i \in DOMAIN file' /\ file'[i] = b
      /\ \A j \in DOMAIN file' \ {i} : (j \in DOMAIN file /\ file'[j] = file[j]) \/ file'[j] = Hole
  <2>1. Hole \in S /\ file \in Seq(S)
    BY DEF CacheInv, Types
  <2> HIDE DEF S
  <2> QED BY <1>1, <1>5, <1>7, <2>1, PutFacts
<1>9. Hole.hole
  BY DEF Hole
\* A block that is there is the one just written, or was there before.
<1>10. ASSUME NEW j \in DOMAIN file', ~file'[j].hole
       PROVE  (j = i /\ file'[j] = b) \/ (j # i /\ j \in DOMAIN file /\ file'[j] = file[j] /\ ~file[j].hole)
  BY <1>8, <1>9, <1>10
<1>11. FileOK'
  <2> SUFFICES ASSUME NEW j \in DOMAIN file', ~file'[j].hole
               PROVE  /\ j = 1 => file'[j] \in Header
                      /\ j > 1 => file'[j] \in Block /\ file'[j].ver <= version
                      /\ j > 1 /\ ~file'[1].hole /\ file'[1].by = file'[j].by =>
                           file'[j].request = file'[1].request /\ file'[1].ver <= file'[j].ver
    BY <1>1 DEF FileOK
  <2>1. /\ j = 1 => file'[j] \in Header
        /\ j > 1 => file'[j] \in Block /\ file'[j].ver <= version
    BY <1>7, <1>10 DEF CacheInv, FileOK
  <2>2. ASSUME j > 1, ~file'[1].hole, file'[1].by = file'[j].by
        PROVE  file'[j].request = file'[1].request /\ file'[1].ver <= file'[j].ver
    <3>1. 1 \in DOMAIN file'
      BY <1>8, <2>2
    <3>2. (i = 1 /\ file'[1] = b) \/ (i # 1 /\ 1 \in DOMAIN file /\ file'[1] = file[1] /\ ~file[1].hole)
      BY <1>10, <2>2, <3>1
    <3>3. (j = i /\ file'[j] = b) \/ (j # i /\ j \in DOMAIN file /\ file'[j] = file[j] /\ ~file[j].hole)
      BY <1>10
    <3>4. CASE i = 1
      <4>1. file'[1] = b /\ file'[j] = file[j] /\ j \in DOMAIN file /\ ~file[j].hole /\ file[j].by = p
        BY <1>7, <2>2, <3>2, <3>3, <3>4
      <4>2. file[j].request = c.request /\ c.stamp <= file[j].ver
        BY <1>3, <2>2, <4>1 DEF Mine, c
      <4> QED BY <1>7, <3>4, <4>1, <4>2
    <3>5. CASE i # 1 /\ j = i
      <4>1. file'[1] = file[1] /\ file'[j] = b /\ 1 \in DOMAIN file /\ ~file[1].hole /\ file[1].by = p
        BY <1>7, <2>2, <3>2, <3>3, <3>5
      <4>2. file[1].request = c.request /\ file[1].ver = c.stamp
        BY <1>3, <4>1 DEF Mine, c
      <4> QED BY <1>7, <2>2, <3>5, <4>1, <4>2
    <3>6. CASE i # 1 /\ j # i
      BY <2>2, <3>2, <3>3, <3>6 DEF CacheInv, FileOK
    <3> QED BY <3>4, <3>5, <3>6
  <2> QED BY <2>1, <2>2
<1>12. /\ o \in Object /\ o.request = c.request /\ o.uses_cache = FALSE /\ o.files = Unknown
       /\ o.data = c.data /\ o.stamp = c.stamp /\ o.pos = c.pos + 1
  BY <1>3 DEF Object
<1> HIDE DEF o, l
<1>13. /\ Types' /\ obj'[p] = o /\ pc'[p] = l
       /\ \A q \in Procs \ {p} : obj'[q] = obj[q] /\ pc'[q] = pc[q]
  BY <1>1, <1>2, <1>4, <1>8, <1>12, CacheEffect DEF CacheInv
<1>14. ObjectOK(p)'
  <2>1. Parsed(p)'
    BY <1>1, <1>3, <1>12, <1>13 DEF Parsed, l
  <2>2. ASSUME NEW j \in DOMAIN file', ~file'[j].hole, file'[j].by = p
        PROVE  /\ file'[j].request = c.request
               /\ j = 1 => file'[j].ver = c.stamp
               /\ j > 1 => c.stamp <= file'[j].ver
    BY <1>3, <1>7, <1>10, <2>2 DEF Mine, c
  <2>3. Mine(p)'
    BY <1>12, <1>13, <2>2 DEF Mine
  <2>4. l = "write" => o.pos <= 2 * Parts + 1
    BY <1>3, <1>12, Bounds DEF l
  <2>5. l \in {"write", "done"}
    BY DEF l
  <2>6. Knows(p)'
    BY <1>12, <1>13, <2>5 DEF Knows
  <2> QED BY <1>3, <1>12, <1>13, <2>1, <2>3, <2>4, <2>6 DEF ObjectOK
<1>15. ASSUME NEW q \in Procs \ {p}
       PROVE  ObjectOK(q)'
  <2>1. ObjectOK(q)
    BY DEF CacheInv
  <2>2. Parsed(q)'
    BY <1>1, <1>13, <1>15, <2>1 DEF ObjectOK, Parsed
  <2>3. pc[q] = "write" => Mine(q)'
    <3> SUFFICES ASSUME pc[q] = "write", NEW j \in DOMAIN file', ~file'[j].hole, file'[j].by = q
                 PROVE  /\ file'[j].request = obj[q].request
                        /\ j = 1 => file'[j].ver = obj[q].stamp
                        /\ j > 1 => obj[q].stamp <= file'[j].ver
      BY <1>13 DEF Mine
    <3>1. Mine(q)
      BY <2>1 DEF ObjectOK
    <3>2. j \in DOMAIN file /\ file'[j] = file[j] /\ ~file[j].hole
      BY <1>7, <1>10, <1>15
    <3> QED BY <3>1, <3>2 DEF Mine
  <2>4. Knows(q)'
    BY <1>1, <1>13, <1>15, <2>1 DEF ObjectOK, Knows
  <2> QED BY <1>13, <1>15, <2>1, <2>2, <2>3, <2>4 DEF ObjectOK
<1> QED BY <1>11, <1>13, <1>14, <1>15 DEF CacheInv

LEMMA EditStep ==
  ASSUME CacheInv, Edit
  PROVE  CacheInv'
<1>1. /\ version' = version + 1 /\ version < MaxEdits /\ version \in Nat
      /\ file' = file /\ obj' = obj /\ pc' = pc /\ sound' = sound
  BY Bounds DEF Edit, CacheInv, Types
<1>2. version' \in Versions /\ \A k \in Versions : k <= version => k <= version'
  BY <1>1, Bounds DEF Versions
<1>3. Types'
  BY <1>1, <1>2 DEF CacheInv, Types
<1>4. FileOK'
  <2>1. \A k \in DOMAIN file : file[k] \in Block => file[k].ver \in Versions
    BY DEF Block
  <2> QED BY <1>1, <1>2, <2>1 DEF CacheInv, FileOK
<1>5. ASSUME NEW q \in Procs
      PROVE  ObjectOK(q)'
  <2>1. ObjectOK(q) /\ obj[q] \in Object
    BY DEF CacheInv, Types
  <2>2. \A j \in DOMAIN obj[q].data : obj[q].data[j].ver \in Versions
    <3>1. obj[q].data \in Seq(Piece)
      BY <2>1 DEF Object
    <3>2. \A j \in DOMAIN obj[q].data : obj[q].data[j] \in Piece
      BY <3>1
    <3> QED BY <3>2 DEF Piece
  <2>3. Parsed(q)'
    BY <1>1, <1>2, <2>1, <2>2 DEF ObjectOK, Parsed
  <2> QED BY <1>1, <2>1, <2>3 DEF ObjectOK, Mine, Knows, Seen
<1> QED BY <1>3, <1>4, <1>5 DEF CacheInv

-----------------------------------------------------------------------------
(* CacheInvariance. *)

LEMMA InitCacheInv == CacheInit => CacheInv
<1> SUFFICES ASSUME CacheInit
             PROVE  CacheInv
  OBVIOUS
<1>1. /\ NewCached(0) \in Object /\ NewCached(0).data = << >>
      /\ NewCached(0).uses_cache = FALSE /\ NewCached(0).files = Unknown
      /\ \A i \in DOMAIN NewCached(0).data : FALSE
  BY NewObject
<1>2. file = << >> /\ file \in Seq(Header \cup Block \cup {Hole}) /\ \A i \in DOMAIN file : FALSE
  BY DEF CacheInit, Missing
<1>3. Types
  BY <1>1, <1>2, Bounds DEF CacheInit, Types, Gone, Places
<1>4. ASSUME NEW q \in Procs
      PROVE  ObjectOK(q)
  <2>1. obj[q] = NewCached(0) /\ pc[q] = "out"
    BY DEF CacheInit, Gone
  <2> QED BY <1>1, <2>1 DEF ObjectOK, Parsed, Knows
<1> QED BY <1>2, <1>3, <1>4 DEF CacheInv, FileOK

LEMMA NextCacheInv == CacheInv /\ [CacheNext]_cacheVars => CacheInv'
<1> SUFFICES ASSUME CacheInv, [CacheNext]_cacheVars
             PROVE  CacheInv'
  OBVIOUS
<1>1. ASSUME NEW p \in Procs,
             (\E r \in Wants[p] : CreateCached(p, r)) \/ CleanUp(p) \/ Exit(p) \/ Parse(p) \/ InCall(p)
             \/ Kill(p)
      PROVE  CacheInv'
  BY <1>1, CreateStep, CacheParseStep, CheckHeaderStep, CheckFilesStep, ParseCacheStep, ReadSteps,
     CacheOpenStep, WriteStep DEF InCall
<1>2. CASE Edit
  BY <1>2, EditStep
<1>3. CASE UNCHANGED cacheVars
  BY <1>3 DEF cacheVars, CacheInv, Types, FileOK, ObjectOK, Parsed, Mine, Knows, Seen
<1> QED BY <1>1, <1>2, <1>3 DEF CacheNext

LEMMA CacheInvariance == CacheSpec => []CacheInv
BY InitCacheInv, NextCacheInv, PTL DEF CacheSpec

LEMMA SoundProcs == CacheSpec => [](sound \subseteq Procs)
<1>1. CacheInit => sound \subseteq Procs
  BY DEF CacheInit
<1>2. sound \subseteq Procs /\ [CacheNext]_cacheVars => (sound \subseteq Procs)'
  BY ZenonT(30) DEF CacheNext, cacheVars, CreateCached, CleanUp, Exit, Leave, Parse, InCall, CheckHeader, CheckFiles, ParseCache,
         Stat, Read, Open, Write, Disturb, Kill, Edit
<1> QED BY <1>1, <1>2, PTL DEF CacheSpec

\* A cache file that one process wrote to its end, and nobody touched between
\* the look at its header and its parse, is used only if it holds what a parse
\* of the sources would have given at that look (__can_use_cache): whatever
\* other processes do, whoever is killed, and however often sources change.
THEOREM SoundCacheIsRight == CacheSpec => []SoundIsRight
<1>1. CacheInv /\ sound \subseteq Procs => SoundIsRight
  BY DEF CacheInv, SoundIsRight, Ready, ObjectOK, Knows
<1> QED BY CacheInvariance, SoundProcs, <1>1, PTL

\* dependencies() tells the files as they were when what the object holds was
\* parsed, or earlier; also for an object that tried the cache first.
THEOREM DependenciesAreThose == CacheSpec => []DependenciesMatch
<1>1. CacheInv => DependenciesMatch
  <2> SUFFICES ASSUME CacheInv, NEW p \in Procs, pc[p] = "done"
               PROVE  /\ ~obj[p].uses_cache => Dependencies(p) = obj[p].stamp
                      /\ p \in sound \/ ~obj[p].uses_cache =>
                           \A i \in DOMAIN obj[p].data : Dependencies(p) <= obj[p].data[i].ver
    BY DEF DependenciesMatch, Ready
  <2>1. CASE ~obj[p].uses_cache
    BY <2>1 DEF CacheInv, ObjectOK, Parsed, Dependencies
  <2>2. CASE p \in sound /\ obj[p].uses_cache
    <3>1. obj[p].files \in Versions /\ obj[p].data = Code(obj[p].request, obj[p].files)
      BY <2>2 DEF CacheInv, ObjectOK, Knows
    <3>2. Dependencies(p) = obj[p].files
      BY <3>1, Bounds DEF Dependencies
    <3>3. \A i \in DOMAIN obj[p].data : obj[p].data[i].ver = obj[p].files
      BY <3>1 DEF Code
    <3> QED BY <2>2, <3>1, <3>2, <3>3, Bounds
  <2> QED BY <2>1, <2>2
<1> QED BY CacheInvariance, <1>1, PTL

=============================================================================
