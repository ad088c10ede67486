---------------------------- MODULE Preprocessor ----------------------------
(***************************************************************************)
(* ucpp/cpp.c: directives, conditional groups and the inclusion of files.  *)
(*                                                                         *)
(* A file is a sequence of elements: tokens of text, and directives, each  *)
(* a record that holds what is on its line.  Every file ends with a        *)
(* newline.  A path is a directory and a name; <<Beside, name>> is a file  *)
(* in the working directory.                                               *)
(*                                                                         *)
(* Macros and what is known of files outlive a parse; the rest of the      *)
(* state is set up anew by parse_file and parse_buffer of ctparse.c.       *)
(***************************************************************************)
EXTENDS CStandard, TLC

CONSTANTS Disks,      \* what the files may hold: functions from paths
          Mains,      \* the files that are parsed
          Buffers,    \* the buffers that are parsed
          Path,       \* the include path, a sequence of directories
          MaxIf,      \* nested conditions: 63 in the code
          MaxNest,    \* nested files that the system lets a process open
          MaxParses   \* bound: parses of one object

ASSUME PathAssumption == Beside \notin Range(Path)

VARIABLES disk,       \* the files
          macros,     \* macros: name -> definition
          found,      \* found_files: path -> macro that protects it, or NoMacro
          foundSys,   \* found_files_sys: name -> path and place in the include path
          prot,       \* protect_detect
          ls,         \* the lexer, with what is to be read of the current file
          stack,      \* ls_stack and protect_detect_stack
          out,        \* the tokens for the parser
          failed,     \* an error has been reported
          begun,      \* history: what is parsed, and the macros at its start
          faults,     \* history: departures from C that have been met
          parses

known == <<macros, found, foundSys>>
vars == <<disk, macros, found, foundSys, prot, ls, stack, out, failed, begun, faults, parses>>

NoMacro == <<>>
NoFile == <<"none", "none">>

Lexer(file, incdir, rest) ==
  [file |-> file, incdir |-> incdir, rest |-> rest, ifnest |-> 0,
   condf |-> [i \in 0..MaxIf |-> FALSE], condcomp |-> TRUE, condmet |-> FALSE, condnest |-> 0]
Idle == Lexer(NoFile, 0, <<>>)
Running == ls.file # NoFile

Init == /\ disk \in Disks
        /\ macros = <<>> /\ found = <<>> /\ foundSys = <<>>
        /\ prot = [state |-> 0, macro |-> NoMacro, ff |-> NoFile]
        /\ ls = Idle /\ stack = <<>> /\ out = <<>> /\ failed = FALSE
        /\ begun = [main |-> NoFile, rest |-> <<>>, macros |-> <<>>]
        /\ faults = {} /\ parses = 0

-----------------------------------------------------------------------------
(***************************************************************************)
(* A parse.  A file that is known already keeps its old record; the new    *)
(* one is nobody's.                                                        *)
(***************************************************************************)
Start(file, rest) ==
  /\ ~Running /\ parses < MaxParses
  /\ ls' = Lexer(file, 0, rest)
  /\ out' = <<>> /\ failed' = FALSE /\ faults' = {} /\ parses' = parses + 1
  /\ begun' = [main |-> file, rest |-> rest, macros |-> macros]
  /\ UNCHANGED <<disk, macros, foundSys, stack>>

ParseFile(f) ==
  /\ Start(f, disk[f])
  /\ prot' = [state |-> 1, macro |-> NoMacro,
              ff |-> IF f \in DOMAIN found THEN NoFile ELSE f]
  /\ found' = found @@ (f :> NoMacro)

ParseBuffer(b) ==
  /\ Start(<<Beside, "[buffer]">>, b)
  /\ prot' = [prot EXCEPT !.state = 0]
  /\ UNCHANGED found

-----------------------------------------------------------------------------
(***************************************************************************)
(* Text.                                                                   *)
(***************************************************************************)
\* The first token of any kind behind the #endif ends the protection, text in
\* front of the #ifndef too.
Touched(p) == IF p.state = 3 THEN [p EXCEPT !.state = 0] ELSE p
Spoiled(p) == IF p.state \in {1, 3} THEN [p EXCEPT !.state = 0] ELSE p

Raw(e) == IF IsDirective(e) THEN SHARP ELSE e

IsText == Running /\ ls.rest # <<>> /\ ~IsDirective(Head(ls.rest))

Text ==
  /\ IsText /\ ~(ls.condcomp /\ IsMacro(macros, Head(ls.rest)))
  /\ prot' = Spoiled(prot)
  /\ ls' = [ls EXCEPT !.rest = Tail(@)]
  /\ out' = IF ls.condcomp THEN Append(out, Head(ls.rest)) ELSE out
  /\ UNCHANGED <<disk, known, stack, failed, begun, faults, parses>>

\* w is what the replacement of a macro has come to.
Replaces(w) ==
  /\ ls' = [ls EXCEPT !.rest = SubSeq(@, 1 + Len(@) - Len(w.src), Len(@))]
  /\ out' = out \o Bared(w.out)
  /\ failed' = (failed \/ w.err)
  /\ faults' = faults \cup (IF w.unmarked THEN {"unmarked"} ELSE {})

MacroCall ==
  /\ IsText /\ ls.condcomp /\ IsMacro(macros, Head(ls.rest))
  /\ prot' = Spoiled(prot)
  /\ LET src == [i \in 1..(Len(ls.rest) - 1) |-> Raw(ls.rest[i + 1])]
     IN  Replaces(Substitute(macros, Work(macros, src), Head(ls.rest).s, <<>>, TRUE, 0).w)
  /\ UNCHANGED <<disk, known, stack, begun, parses>>

-----------------------------------------------------------------------------
(***************************************************************************)
(* Directives: handle_cpp.                                                 *)
(***************************************************************************)
Line == Head(ls.rest)
At(ds) == Running /\ ls.rest # <<>> /\ IsDirective(Line) /\ Line.d \in ds

\* What every directive ends with: only the first one may open the protection.
Shown(p) == IF p.state = 1 THEN [p EXCEPT !.state = 0] ELSE p

Ends(l, p, fail) ==
  /\ ls' = [l EXCEPT !.rest = Tail(ls.rest)]
  /\ prot' = Shown(p)
  /\ failed' = (failed \/ fail)
  /\ UNCHANGED <<disk, found, foundSys, stack, begun, parses>>

Keeps == UNCHANGED <<macros, out, faults>>

Define ==
  /\ At({"define"}) /\ ls.condcomp
  /\ LET n    == Line.name
         old  == n \in DOMAIN macros
         good == IF old THEN SameDefinition(macros[n], Line.m) ELSE GoodDefinition(Line.m)
     IN  /\ macros' = IF good /\ ~old THEN macros @@ (n :> Line.m) ELSE macros
         /\ faults' = faults \cup (IF good /\ old /\ macros[n] # Line.m THEN {"redefined"} ELSE {})
         /\ Ends(ls, Touched(prot), ~good)
  /\ UNCHANGED out

Undef ==
  /\ At({"undef"}) /\ ls.condcomp
  /\ macros' = Without(macros, Line.name)
  /\ Ends(ls, Touched(prot), FALSE)
  /\ UNCHANGED <<out, faults>>

Pragma ==
  /\ At({"pragma"}) /\ ls.condcomp
  /\ out' = Append(out, Line.t)
  /\ Ends(ls, Touched(prot), FALSE)
  /\ UNCHANGED <<macros, faults>>

\* An #error, or a directive that is not known.
Error ==
  /\ At({"error"}) /\ ls.condcomp
  /\ Ends(ls, Touched(prot), TRUE)
  /\ Keeps

\* A lone # is gone before the end of handle_cpp.
Null ==
  /\ At({"null"})
  /\ ls' = [ls EXCEPT !.rest = Tail(@)]
  /\ prot' = Touched(prot)
  /\ Keeps
  /\ UNCHANGED <<disk, found, foundSys, stack, failed, begun, parses>>

\* handle_if: the condition of an #if or #elif, "yes", "no" or "error".
Evaluated(w) == [holds |-> IF w.err THEN "error" ELSE Truth(w.out), unmarked |-> w.unmarked]
Condition(toks) ==
  Evaluated(Scan(macros, Work(macros, <<>>), WithDefined(macros, toks)))

\* #if, #ifdef and #ifndef, whose condition is c.
Opens(c) ==
  /\ ls.condcomp
  /\ LET guard == Line.d = "ifndef" /\ prot.state = 1 /\ ls.ifnest < MaxIf
         p == IF guard THEN [prot EXCEPT !.state = 2, !.macro = Line.name] ELSE Touched(prot)
         l == [ls EXCEPT !.ifnest = @ + 1]
         o == [l EXCEPT !.condf[ls.ifnest] = FALSE]
     IN  IF l.ifnest > MaxIf THEN Ends(l, p, TRUE)
         ELSE IF c = "no"
         THEN Ends([o EXCEPT !.condcomp = FALSE, !.condmet = FALSE, !.condnest = ls.ifnest],
                   p, FALSE)
         ELSE Ends(o, p, c = "error")

IfIs(c) == /\ Opens(c.holds)
           /\ faults' = faults \cup (IF c.unmarked THEN {"unmarked"} ELSE {})
           /\ UNCHANGED <<macros, out>>
If == At({"if"}) /\ IfIs(Condition(Line.toks))

IfDef ==
  /\ At({"ifdef", "ifndef"})
  /\ Opens(IF (Line.name \in DOMAIN macros) = (Line.d = "ifdef") THEN "yes" ELSE "no")
  /\ Keeps

\* condf has a flag for each level; a read or a write beside it is undefined.
Flags(i) == IF i \in DOMAIN ls.condf THEN {ls.condf[i]} ELSE BOOLEAN
Flagged_never(i) == {ls.condf}
Flagged(i) == IF i \in DOMAIN ls.condf THEN {[ls.condf EXCEPT ![i] = TRUE]}
              ELSE {ls.condf} \cup {[ls.condf EXCEPT ![j] = TRUE] : j \in DOMAIN ls.condf}

Spoils_never(p) == p
Spoils(p) == IF ls.ifnest = 1 THEN [p EXCEPT !.state = 0] ELSE p

\* #else and #elif behind a group that is read.
Closes(flags) ==
  /\ ls.condcomp
  /\ \E set \in IF ls.ifnest = 0 THEN {TRUE} ELSE Flags(ls.ifnest - 1) :
       IF set THEN Ends(ls, Touched(prot), TRUE)
       ELSE \E c \in flags :
              Ends([ls EXCEPT !.condf = c, !.condcomp = FALSE, !.condmet = TRUE,
                              !.condnest = ls.ifnest - 1],
                   Spoils(Touched(prot)), FALSE)

Else == At({"else"}) /\ Closes(Flagged(ls.ifnest - 1)) /\ Keeps
Elif == At({"elif"}) /\ Closes({ls.condf}) /\ Keeps

EndIf ==
  /\ At({"endif"}) /\ ls.condcomp
  /\ LET p == Touched(prot)
     IN  IF ls.ifnest = 0 THEN Ends(ls, p, TRUE)
         ELSE Ends([ls EXCEPT !.ifnest = @ - 1],
                   IF ls.ifnest = 1 /\ p.state = 2 THEN [p EXCEPT !.state = 3] ELSE p, FALSE)
  /\ Keeps

\* The same where text is compiled out.
OutIf ==
  /\ At({"if", "ifdef", "ifndef"}) /\ ~ls.condcomp
  /\ LET l == [ls EXCEPT !.ifnest = @ + 1]
     IN  IF l.ifnest > MaxIf THEN Ends(l, Touched(prot), TRUE)
         ELSE Ends([l EXCEPT !.condf = [i \in DOMAIN @ |-> i # ls.ifnest /\ @[i]]],
                   Touched(prot), FALSE)
  /\ Keeps

\* A second #else is no more than a warning here.
OutElse ==
  /\ At({"else"}) /\ ~ls.condcomp
  /\ \E c \in Flagged(ls.ifnest - 1) :
       Ends([ls EXCEPT !.condcomp = ls.condnest = ls.ifnest - 1 /\ ~ls.condmet, !.condf = c],
            Spoils(Touched(prot)), FALSE)
  /\ faults' = faults \cup (IF Flags(ls.ifnest - 1) # {FALSE} THEN {"else"} ELSE {})
  /\ UNCHANGED <<macros, out>>

ElifIs(c) ==
  LET here == ls.condnest = ls.ifnest - 1 /\ ~ls.condmet
  IN  /\ IF ~here THEN Ends(ls, Touched(prot), FALSE)
         ELSE IF c.holds = "yes"
         THEN Ends([ls EXCEPT !.condcomp = TRUE, !.condmet = TRUE], Spoils(Touched(prot)), FALSE)
         ELSE Ends(ls, Spoils(Touched(prot)), c.holds = "error")
      /\ faults' = faults \cup (IF Flags(ls.ifnest - 1) # {FALSE} THEN {"else"} ELSE {})
                          \cup (IF here /\ c.unmarked THEN {"unmarked"} ELSE {})
      /\ UNCHANGED <<macros, out>>
OutElif == At({"elif"}) /\ ~ls.condcomp /\ ElifIs(Condition(Line.toks))

OutEndIf ==
  /\ At({"endif"}) /\ ~ls.condcomp
  /\ LET p == Touched(prot)
         ends == ls.ifnest - 1 = ls.condnest
     IN  Ends([ls EXCEPT !.ifnest = @ - 1, !.condcomp = ends],
              IF ends /\ ls.ifnest = 1 /\ p.state = 2 THEN [p EXCEPT !.state = 3] ELSE p, FALSE)
  /\ Keeps

OutOther ==
  /\ At({"define", "undef", "pragma", "error", "include", "include_next"}) /\ ~ls.condcomp
  /\ Ends(ls, Touched(prot), FALSE)
  /\ Keeps

-----------------------------------------------------------------------------
\* What C makes of a file, or of what is parsed, is given.
C(inner, nest) == [disk |-> disk, path |-> Path, maxif |-> MaxIf, maxnest |-> nest,
                   inner |-> inner]

\* A file that adds nothing to what is read, the macros being what they are.
Useless(f) == Outcome(C(FALSE, MaxNest), f, disk[f], macros)
              = [res |-> "ok", out |-> <<>>, macros |-> macros]

(***************************************************************************)
(* Files.                                                                  *)
(***************************************************************************)
CanOpen(p) == p \in DOMAIN disk /\ Len(stack) < MaxNest

Entry(p, i) == [file |-> p, incdir |-> i]

\* What find_file and find_file_next come to: the file, whether it is opened,
\* and what is then known.  With detect, its protection is looked for.
Missing == [res |-> "error", entry |-> Entry(NoFile, 0), detect |-> FALSE,
            found |-> found, foundSys |-> foundSys]

Cached(e, sys) ==
  LET g == found[e.file]
  IN  [res |-> IF g # NoMacro /\ g \in DOMAIN macros THEN "protect"
               ELSE IF CanOpen(e.file) THEN "open" ELSE "error",
       entry |-> e, detect |-> g = NoMacro, found |-> found, foundSys |-> sys]

New(e, sys) == [res |-> "open", entry |-> e, detect |-> TRUE,
                found |-> found @@ (e.file :> NoMacro), foundSys |-> sys]

\* The first directory of the path, from the i-th on, that has the file, as far
\* as is known or as can be seen.
Places(name, i) ==
  {j \in i..Len(Path) : <<Path[j], name>> \in DOMAIN found \/ CanOpen(<<Path[j], name>>)}
First(S) == CHOOSE j \in S : \A k \in S : j <= k

find_file(name, localdir) ==
  LET here == <<ls.file[1], name>>
      js   == Places(name, 1)
      e    == Entry(<<Path[First(js)], name>>, First(js))
      sys  == foundSys @@ (name :> e)
  IN  IF localdir /\ here \in DOMAIN found THEN Cached(Entry(here, 0), foundSys)
      ELSE IF name \in DOMAIN foundSys THEN Cached(foundSys[name], foundSys)
      ELSE IF localdir /\ CanOpen(here) THEN New(Entry(here, 0), foundSys)
      ELSE IF js = {} THEN Missing
      ELSE IF e.file \in DOMAIN found THEN Cached(e, sys)
      ELSE New(e, sys)

find_file_next(name) ==
  LET js == Places(name, ls.incdir + 1)
      e  == Entry(<<Path[First(js)], name>>, First(js))
  IN  IF js = {} THEN Missing
      ELSE IF e.file \in DOMAIN found THEN Cached(e, foundSys)
      ELSE New(e, foundSys)

Sought(n) == IF n.res # "ok" THEN Missing
             ELSE IF Line.d = "include" THEN find_file(n.name, n.quoted)
             ELSE find_file_next(n.name)

\* The name of the file, after replacement if the line does not show one.
Spelt(w) == IF w.err THEN Bad("error") ELSE FileName(w.out)
IncludeName ==
  IF FileName(Line.toks).res = "ok" THEN FileName(Line.toks)
  ELSE Spelt(Scan(macros, Work(macros, <<>>), Line.toks))

\* f has been found under the name n.
Enters(n, f) ==
  /\ LET p == Touched(prot)
         l == [ls EXCEPT !.rest = Tail(@)]
     IN  IF f.res = "open"
         THEN /\ stack' = Append(stack, [ls |-> l, prot |-> p])
              /\ ls' = [Lexer(f.entry.file, f.entry.incdir, disk[f.entry.file]) EXCEPT
                          !.condcomp = l.condcomp, !.condmet = l.condmet,
                          !.condnest = l.condnest]
              /\ prot' = [state |-> IF f.detect THEN 1 ELSE 0, macro |-> NoMacro,
                          ff |-> f.entry.file]
         ELSE stack' = stack /\ ls' = l /\ prot' = Shown(p)
  /\ found' = f.found /\ foundSys' = f.foundSys
  /\ failed' = (failed \/ f.res = "error")
  /\ faults' = faults
       \cup (IF f.res = "protect" /\ ~Useless(f.entry.file) THEN {"guard"} ELSE {})
       \cup (IF f.res # "error" /\ Line.d = "include"
                /\ f.entry.file # Lookup(DOMAIN disk, Path, ls.file[1], n.name, n.quoted)
             THEN {"lookup"} ELSE {})
  /\ UNCHANGED <<disk, macros, out, begun, parses>>

Includes(n) == Enters(n, Sought(n))
Include == At({"include", "include_next"}) /\ ls.condcomp /\ Includes(IncludeName)

\* The end of a file: what protects it is written down, and the file that has
\* included it is gone on with.
EndOfFile ==
  /\ Running /\ ls.rest = <<>>
  /\ found' = IF prot.state = 3 /\ prot.ff # NoFile /\ found[prot.ff] = NoMacro
              THEN [found EXCEPT ![prot.ff] = prot.macro] ELSE found
  /\ failed' = (failed \/ ls.ifnest # 0)
  /\ IF stack = <<>> THEN ls' = Idle /\ UNCHANGED <<prot, stack>>
     ELSE /\ prot' = Last(stack).prot
          /\ ls' = [Last(stack).ls EXCEPT !.condcomp = ls.condcomp, !.condmet = ls.condmet,
                                          !.condnest = ls.condnest]
          /\ stack' = Front(stack)
  /\ UNCHANGED <<disk, macros, foundSys, out, begun, faults, parses>>

Next == \/ \E f \in Mains \cap DOMAIN disk : ParseFile(f)
        \/ \E b \in Buffers : ParseBuffer(b)
        \/ Text \/ MacroCall \/ Define \/ Undef \/ Pragma \/ Error \/ Null
        \/ If \/ IfDef \/ Else \/ Elif \/ EndIf
        \/ OutIf \/ OutElse \/ OutElif \/ OutEndIf \/ OutOther
        \/ Include \/ EndOfFile

Spec == Init /\ [][Next]_vars

-----------------------------------------------------------------------------
Over == ~Running /\ parses > 0

Agrees(r) == \/ r.res = "undefined"
             \/ r.res = "error" /\ failed
             \/ r = [res |-> "ok", out |-> out, macros |-> macros] /\ ~failed

\* When a parse is over, the parser has been given the tokens, and the macros
\* are those, that C makes of the files - or an error has been reported and C
\* wants one - unless one of the known departures has been met.  This is what
\* the memory of found and protected files, the counters of macros and the
\* saved and the unsaved parts of the lexer must not change.  (A file that is
\* skipped is not opened, and so may be one nested deeper than files can be.)
AsStandard ==
  Over /\ faults = {} =>
    \E inner \in BOOLEAN, skip \in {0, 1} :
      Agrees(Outcome(C(inner, MaxNest + skip), begun.main, begun.rest, begun.macros))

\* One #ifndef group and nothing else.
Guarded(q) ==
  /\ q # <<>> /\ IsDirective(Head(q)) /\ Head(q).d = "ifndef"
  /\ IsDirective(Last(q)) /\ Last(q).d = "endif"
  /\ \A i \in 2..(Len(q) - 1) :
       IsDirective(q[i]) => q[i].d \notin {"if", "ifdef", "ifndef", "else", "elif", "endif"}

Leads(q) == q # <<>> /\ IsDirective(Head(q)) /\ Head(q).d = "include"

\* A file whose text is one #ifndef group is remembered with its macro as soon
\* as it has been read, whatever it includes itself.  And what is remembered is
\* right at any later time, with whatever macros there are then: a file "is
\* protected and therefore useless to read" (find_file), nothing would come of
\* it.  The exception is a file that begins with an #include: when that is over,
\* pop_file_context brings back the state in which an #ifndef may still open the
\* protection, and the #include is left out the next time.
GuardsRight ==
  [][/\ Running /\ ls.rest = <<>> /\ ~failed
        /\ ls.file \in DOMAIN found /\ Guarded(disk[ls.file])
        => found'[ls.file] = Head(disk[ls.file]).name
     /\ \A f \in DOMAIN found :
          found[f] # NoMacro /\ found[f] \in DOMAIN macros /\ ~Leads(disk[f]) => Useless(f)]_vars

=============================================================================
