----------------------------- MODULE CStandard ------------------------------
(***************************************************************************)
(* What C99 makes of preprocessing tokens, the measure for ucpp: macros    *)
(* are replaced with a set of names per token, the macros that it must not *)
(* be replaced by (6.10.3), conditions nest as groups (6.10.1), and an     *)
(* #include is replaced by the whole file (6.10.2).                        *)
(*                                                                         *)
(* Whether a macro may be replaced again in a call whose name is part of   *)
(* its definition, and whose arguments are not, is left open by the        *)
(* standard; the parameter inner says what is decided.                     *)
(***************************************************************************)
EXTENDS MacroExpansion, FiniteSets

Hiding(t, hs) == [k |-> t.k, s |-> t.s, hs |-> hs]
Bare(t) == Token(t.k, t.s)
Fresh(q) == [i \in DOMAIN q |-> Hiding(q[i], {})]
Bared(q) == [i \in DOMAIN q |-> Bare(q[i])]

\* The outcome: tokens; "error" if the standard wants a diagnostic,
\* "undefined" if it says nothing.
Ok(q) == [res |-> "ok", out |-> q]
Bad(res) == [res |-> res, out |-> <<>>]
Then(r, q) == IF r.res = "ok" THEN Ok(q \o r.out) ELSE r

RECURSIVE Replaced(_, _, _)

\* The tokens so far, s.out, and the next token or argument of a definition, with
\* the ## between them.  A placemarker stands for an operand without tokens.
Pasted(s, q) ==
  LET l == Last(s.out)
      r == Head(q)
      p == Paste(Bare(l), Bare(r))
      t == IF l.k = "none" THEN r ELSE IF r.k = "none" THEN l ELSE Hiding(p, l.hs \cap r.hs)
  IN  IF l.k # "none" /\ r.k # "none" /\ p = NoToken THEN [s EXCEPT !.res = "undefined"]
      ELSE [s EXCEPT !.out = Append(Front(@), t) \o Tail(q)]

Placed(q) == IF q = <<>> THEN <<Hiding(NoToken, {})>> ELSE q

\* 6.10.3.1 to 6.10.3.3 for one call.
Body(macros, m, args, inner) ==
  LET sharp(i) == m.body[i] = SHARP /\ HasParams(m)
      before(i) == i > 1 /\ m.body[i - 1] = DSHARP
      after(i)  == i < Len(m.body) /\ m.body[i + 1] = DSHARP
      piece(i) == IF ArgNo(m, m.body[i]) > 0 THEN args[ArgNo(m, m.body[i])]
                  ELSE <<Hiding(m.body[i], {})>>
      add(s, r) == IF r.res = "ok" THEN [s EXCEPT !.out = @ \o r.out] ELSE r
      step(s, i) ==
        IF s.res # "ok" \/ (i > 1 /\ sharp(i - 1)) THEN s
        ELSE IF m.body[i] = DSHARP THEN IF before(i) THEN Bad("undefined") ELSE s
        ELSE IF sharp(i)
        THEN IF before(i) \/ after(i + 1) THEN Bad("undefined")
             ELSE add(s, Ok(<<Hiding(Stringify(args[ArgNo(m, m.body[i + 1])]), {})>>))
        ELSE IF before(i) THEN Pasted(s, Placed(piece(i)))
        ELSE IF after(i) THEN add(s, Ok(Placed(piece(i))))
        ELSE IF ArgNo(m, m.body[i]) > 0 THEN add(s, Replaced(macros, piece(i), inner))
        ELSE add(s, Ok(piece(i)))
  IN  FoldLeftDomain(step, Ok(<<>>), m.body)

\* 6.10.3.4: a call whose definition makes b is replaced, and the result scanned
\* with the rest; none of its tokens may be replaced by a macro in hs.
Scanning(macros, b, hs, rest, inner) ==
  IF b.res # "ok" THEN b
  ELSE Replaced(macros,
                [t \in DOMAIN b.out |-> [b.out[t] EXCEPT !.hs = @ \cup hs]] \o rest, inner)

\* The arguments c of a call that q begins with, with what their tokens hide.
HidingArgs(q, c) ==
  LET start[i \in 1..Len(c.args)] ==
        IF i = 1 THEN 3 ELSE start[i - 1] + Len(c.args[i - 1]) + 1
  IN  [i \in 1..Len(c.args) |-> SubSeq(q, start[i], start[i] + Len(c.args[i]) - 1)]

Unmarked(q) == SelectSeq(q, LAMBDA t : t.k # "none")

\* The macro at the head of q, and c behind it.
Called(macros, q, c, inner) ==
  LET t == Head(q)
      m == macros[t.s]
      b == Body(macros, m, HidingArgs(q, c), inner)
      hides == IF ~HasParams(m) \/ inner THEN t.hs ELSE t.hs \cap q[1 + c.taken].hs
  IN  IF c.res = "none" THEN Then(Replaced(macros, Tail(q), inner), <<t>>)
      ELSE IF c.res = "error" THEN Bad("error")
      ELSE Scanning(macros, [b EXCEPT !.out = Unmarked(@)], hides \cup {t.s},
                    SubSeq(q, 2 + c.taken, Len(q)), inner)

Replaced(macros, q, inner) ==
  IF q = <<>> THEN Ok(<<>>)
  ELSE IF ~IsMacro(macros, Head(q)) \/ Head(q).s \in Head(q).hs
  THEN Then(Replaced(macros, Tail(q), inner), <<Head(q)>>)
  ELSE Called(macros, q, CallOf(macros[Head(q).s], Bared(Tail(q))), inner)

-----------------------------------------------------------------------------
(***************************************************************************)
(* Directives.  c says what is given: the files (disk), the include path,  *)
(* how deep groups and files may nest (maxif, maxnest), and inner.  s is   *)
(* how far a translation has come: what is left of the file, its groups    *)
(* from the outside in, the files around it, the macros and the result.    *)
(***************************************************************************)
Beside == "."

Without(f, x) == [y \in DOMAIN f \ {x} |-> f[y]]

\* A file is looked for beside the one that includes it and along the path.
LookupNext(files, path, i, name) ==
  LET js == {j \in i..Len(path) : <<path[j], name>> \in files}
  IN  IF js = {} THEN 0 ELSE CHOOSE j \in js : \A k \in js : j <= k

Lookup(files, path, dir, name, quoted) ==
  LET j == LookupNext(files, path, 1, name)
  IN  IF quoted /\ <<dir, name>> \in files THEN <<dir, name>>
      ELSE IF j = 0 THEN <<"none", "none">> ELSE <<path[j], name>>

Stop(s, res) == [s EXCEPT !.res = res]

\* Text up to the next directive, which is replaced by r.
Emitted(s, n, r) ==
  IF r.res # "ok" THEN Stop(s, r.res)
  ELSE [s EXCEPT !.rest = SubSeq(@, n + 1, Len(@)), !.out = @ \o Bared(r.out)]

Written(c, s) ==
  LET ds == {i \in DOMAIN s.rest : IsDirective(s.rest[i])}
      n  == IF ds = {} THEN Len(s.rest) ELSE (CHOOSE i \in ds : \A j \in ds : i <= j) - 1
  IN  Emitted(s, n, Replaced(s.macros, Fresh(SubSeq(s.rest, 1, n)), c.inner))

\* 6.10.1
Value(r) == IF r.res = "ok" THEN Truth(Bared(r.out)) ELSE r.res
Holds(c, s, e) ==
  IF e.d = "ifdef" THEN IF e.name \in DOMAIN s.macros THEN "yes" ELSE "no"
  ELSE IF e.d = "ifndef" THEN IF e.name \in DOMAIN s.macros THEN "no" ELSE "yes"
  ELSE IF e.d = "else" THEN "yes"
  ELSE Value(Replaced(s.macros, Fresh(WithDefined(s.macros, e.toks)), c.inner))

\* A group whose condition is h; on says that the one around it is read.
Group(c, s, on, h) ==
  IF h \notin {"yes", "no"} THEN Stop(s, h)
  ELSE IF Len(s.groups) = c.maxif THEN Stop(s, "error")
  ELSE [s EXCEPT !.groups = Append(@, [on |-> h = "yes", taken |-> ~on \/ h = "yes",
                                       last |-> FALSE])]

NextGroup(s, e, g, h) ==
  IF h \notin {"yes", "no"} THEN Stop(s, h)
  ELSE [s EXCEPT !.groups[Len(s.groups)] =
          [on |-> h = "yes", taken |-> g.taken \/ h = "yes", last |-> e.d = "else"]]

EndGroup(s) ==
  IF s.groups = <<>> THEN Stop(s, "error") ELSE [s EXCEPT !.groups = Front(@)]

\* 6.10.2: the file whose name is n; place is where to look for it in the path.
Entered(c, s, file, place) ==
  IF Len(s.around) = c.maxnest THEN Stop(s, "error")
  ELSE [s EXCEPT !.around = Append(@, [rest |-> s.rest, file |-> s.file,
                                       place |-> s.place, groups |-> s.groups]),
                 !.rest = c.disk[file], !.file = file, !.groups = <<>>, !.place = place]

Included(c, s, e, n) ==
  LET beside == <<s.file[1], n.name>>
      j == LookupNext(DOMAIN c.disk, c.path, IF e.d = "include" THEN 1 ELSE s.place + 1, n.name)
  IN  IF n.res # "ok" THEN Stop(s, n.res)
      ELSE IF e.d = "include" /\ n.quoted /\ beside \in DOMAIN c.disk
      THEN Entered(c, s, beside, 0)
      ELSE IF j = 0 THEN Stop(s, "error") ELSE Entered(c, s, <<c.path[j], n.name>>, j)

Naming(r) == IF r.res = "ok" THEN FileName(Bared(r.out)) ELSE r
Named(c, s, e) ==
  IF FileName(e.toks).res = "ok" THEN FileName(e.toks)
  ELSE Naming(Replaced(s.macros, Fresh(e.toks), c.inner))

\* 6.10.3: a macro may be defined again if nothing is different.
Defined(s, e) ==
  IF ~GoodDefinition(e.m) \/ (e.name \in DOMAIN s.macros /\ s.macros[e.name] # e.m)
  THEN Stop(s, "error")
  ELSE [s EXCEPT !.macros = [x \in DOMAIN @ \cup {e.name} |-> IF x = e.name THEN e.m ELSE @[x]]]

\* The end of a file.
Left(s) ==
  LET a == Last(s.around)
  IN  IF s.groups # <<>> THEN Stop(s, "error")
      ELSE [s EXCEPT !.rest = a.rest, !.file = a.file, !.place = a.place, !.groups = a.groups,
                     !.around = Front(@)]

\* A directive e, behind which n is left.
Obeyed(c, n, e, on) ==
  CASE e.d \in {"if", "ifdef", "ifndef"} -> Group(c, n, on, IF on THEN Holds(c, n, e) ELSE "no")
    [] e.d \in {"elif", "else"} ->
         IF n.groups = <<>> \/ Last(n.groups).last THEN Stop(n, "error")
         ELSE NextGroup(n, e, Last(n.groups),
                        IF Last(n.groups).taken THEN "no" ELSE Holds(c, n, e))
    [] e.d = "endif" -> EndGroup(n)
    [] e.d = "null" \/ (~on /\ e.d \in {"include", "include_next", "define", "undef", "pragma",
                                        "error"}) -> n
    [] on /\ e.d \in {"include", "include_next"} -> Included(c, n, e, Named(c, n, e))
    [] on /\ e.d = "define" -> Defined(n, e)
    [] on /\ e.d = "undef" -> [n EXCEPT !.macros = Without(@, e.name)]
    [] on /\ e.d = "pragma" -> [n EXCEPT !.out = Append(@, e.t)]
    [] on /\ e.d = "error" -> Stop(n, "error")

Step(c, s, on) ==
  IF s.rest = <<>> THEN Left(s)
  ELSE IF IsDirective(Head(s.rest))
  THEN Obeyed(c, [s EXCEPT !.rest = Tail(@)], Head(s.rest), on)
  ELSE IF on THEN Written(c, s) ELSE [s EXCEPT !.rest = Tail(@)]

RECURSIVE Translated(_, _)
Translated(c, s) ==
  IF s.res # "ok" \/ (s.rest = <<>> /\ s.groups = <<>> /\ s.around = <<>>) THEN s
  ELSE Translated(c, Step(c, s, s.groups = <<>> \/ Last(s.groups).on))

Result(s) == [res |-> s.res, out |-> s.out, macros |-> s.macros]
Outcome(c, file, text, macros) ==
  Result(Translated(c, [rest |-> text, file |-> file, place |-> 0, groups |-> <<>>,
                        around |-> <<>>, macros |-> macros, out |-> <<>>, res |-> "ok"]))

=============================================================================
