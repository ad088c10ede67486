--------------------------- MODULE MacroExpansion ---------------------------
(***************************************************************************)
(* ucpp/macro.c: definitions of macros and their substitution.             *)
(*                                                                         *)
(* A token is its kind, its spelling - a sequence of parts, so that ## and *)
(* # can put spellings together - and a mark: the code negates the line of *)
(* a name that must not be replaced any more.  White space is left out; in *)
(* a definition there is some between any two tokens.                      *)
(*                                                                         *)
(* A macro is replaced with no more state than a counter per macro, nest,  *)
(* that says at which depth of arguments the macro is being replaced.      *)
(***************************************************************************)
EXTENDS Integers, Sequences, SequencesExt

Token(k, s) == [k |-> k, s |-> s, off |-> FALSE]
Name(s)  == Token("name", <<s>>)
Number(s) == Token("number", <<s>>)
Punct(s) == Token("punct", <<s>>)
LPAR == Punct("(")
RPAR == Punct(")")
COMMA == Punct(",")
SHARP == Punct("#")
DSHARP == Punct("##")
VaArgs == Name("__VA_ARGS__")

NoToken == Token("none", <<>>)

\* A macro without parameters has narg = -1 in the code, here NoParams.
NoParams == <<NoToken>>
HasParams(m) == m.params # NoParams
narg(m) == IF HasParams(m) THEN Len(m.params) ELSE 0
NArgs(m) == narg(m) + (IF m.vaarg THEN 1 ELSE 0)

\* The number of the argument a token of the definition stands for, or 0:
\* the token MACROARG.
ArgNo(m, t) ==
  IF t.k # "name" \/ ~HasParams(m) THEN 0
  ELSE IF m.vaarg /\ t = VaArgs THEN narg(m) + 1
  ELSE IF \E i \in 1..narg(m) : m.params[i] = t
       THEN CHOOSE i \in 1..narg(m) : m.params[i] = t
       ELSE 0

\* What handle_define refuses in a new definition.
GoodDefinition(m) ==
  /\ \A i, j \in 1..narg(m) : m.params[i] = m.params[j] => i = j
  /\ ~m.vaarg => VaArgs \notin Range(m.body)
  /\ m.body # <<>> => m.body[1] # DSHARP /\ Last(m.body) # DSHARP
  /\ HasParams(m) => \A i \in 1..Len(m.body) : m.body[i] = SHARP =>
       i < Len(m.body) /\ ArgNo(m, m.body[i + 1]) > 0

\* When handle_define takes a second definition m for the same as the first, n:
\* it compares parameter by parameter, but not their number.
SameDefinition(n, m) ==
  /\ narg(m) > 0 => /\ HasParams(n) /\ narg(m) <= narg(n)
                    /\ \A i \in 1..narg(m) : m.params[i] = n.params[i]
  /\ m.vaarg => n.vaarg
  /\ HasParams(m) /\ n.vaarg => m.vaarg
  /\ ~n.vaarg => VaArgs \notin Range(m.body)
  /\ Len(m.body) = Len(n.body)
  /\ \A i \in 1..Len(m.body) :
       LET t == m.body[i]
           a == IF t = VaArgs THEN narg(n) + 1 ELSE ArgNo([m EXCEPT !.vaarg = FALSE], t)
       IN  a = ArgNo(n, n.body[i]) /\ (a = 0 => t = n.body[i])

\* concat_token: what two tokens make, if that is one valid token.
Paste(a, b) ==
  IF a.k \in {"name", "number"} /\ b.k \in {"name", "number"}
  THEN Token(a.k, a.s \o b.s) ELSE NoToken

Stringify(toks) == Token("string", FoldLeft(LAMBDA s, t : s \o t.s, <<>>, toks))

-----------------------------------------------------------------------------
(***************************************************************************)
(* The arguments of a call: taken from the tokens of the list that is      *)
(* being scanned and, if the caller lets it, from the file.                *)
(***************************************************************************)
Depth(q, i) == LET step(d, t) == IF t = LPAR THEN d + 1 ELSE IF t = RPAR THEN d - 1 ELSE d
               IN  FoldLeft(step, 0, SubSeq(q, 1, i))

Plain(q) == [i \in DOMAIN q |-> [q[i] EXCEPT !.off = FALSE]]

\* What stands between the parentheses and the commas at cuts.
Pieces(toks, cuts) ==
  [i \in 1..(Len(cuts) - 1) |-> SubSeq(toks, cuts[i] + 1, cuts[i + 1] - 1)]

\* The arguments of a call that ends at end; the variable one has the commas
\* that are too many.
Arguments(m, toks, end) ==
  LET commas == SelectSeq([i \in 1..end |-> i],
                          LAMBDA i : Plain(toks)[i] = COMMA /\ Depth(Plain(toks), i) = 1)
      cuts   == IF m.vaarg /\ narg(m) < Len(commas) THEN SubSeq(commas, 1, narg(m)) ELSE commas
  IN  IF NArgs(m) = 0 /\ end = 2 THEN <<>> ELSE Pieces(toks, <<1>> \o cuts \o <<end>>)

\* The result: how many tokens are taken, and the arguments.  Nothing is taken
\* if there is no parenthesis: the token behind the name is read again.
CollectArguments(m, toks) ==
  LET ends == {i \in 2..Len(toks) : Depth(Plain(toks), i) = 0}
      call(end, args) == [res |-> IF Len(args) = NArgs(m) THEN "ok" ELSE "error",
                          taken |-> end, args |-> args]
      upto(end) == call(end, Arguments(m, toks, end))
  IN  IF toks = <<>> \/ Plain(toks)[1] # LPAR THEN [res |-> "none", taken |-> 0, args |-> <<>>]
      ELSE IF ends = {} THEN [res |-> "error", taken |-> Len(toks), args |-> <<>>]
      ELSE upto(CHOOSE i \in ends : \A j \in ends : i <= j)

\* A macro without parameters takes nothing.
CallOf(m, toks) == IF HasParams(m) THEN CollectArguments(m, toks)
                   ELSE [res |-> "ok", taken |-> 0, args |-> <<>>]

-----------------------------------------------------------------------------
(***************************************************************************)
(* The work in progress: nest, the rest of the file, the list that is      *)
(* being written, whether an error ended it, and whether a name has lost   *)
(* the mark that keeps it from being replaced, which C does not allow.     *)
(***************************************************************************)
Work(macros, src) == [nest |-> [m \in DOMAIN macros |-> 0], src |-> src, out |-> <<>>,
                      err |-> FALSE, unmarked |-> FALSE]

Put(w, t) == [w EXCEPT !.out = Append(@, t)]
Failed(w) == [w EXCEPT !.err = TRUE]

IsMacro(macros, t) == t.k = "name" /\ t.s \in DOMAIN macros

\* ZAP_LINE: mark the name of a macro that is being replaced; a second time
\* takes the mark away again.
Zap(macros, w, t, rej) ==
  IF IsMacro(macros, t) /\ w.nest[t.s] > rej THEN [t EXCEPT !.off = ~@] ELSE t

ZapAll(macros, w, q, rej) == [i \in DOMAIN q |-> Zap(macros, w, q[i], rej)]

RECURSIVE Substitute(_, _, _, _, _, _)

\* A scan of q from left to right; step(s, i) is s after the token at s.next = i.
Scanned(step(_, _), start, q) ==
  FoldLeftDomain(LAMBDA s, i : IF s.w.err \/ i < s.next THEN s ELSE step(s, i), start, q)

\* A call at i is done.
Behind(r, i) == [w |-> r.w, next |-> i + 1 + r.taken]

\* An argument is replaced on its own, one level deeper, before it is put in.
Prescan(macros, w0, arg, rej) ==
  LET put(w, ct, z, i) == [w |-> [Put(w, z) EXCEPT !.unmarked = @ \/ (ct.off /\ ~z.off)],
                           next |-> i + 1]
      step(s, i) ==
        IF IsMacro(macros, arg[i]) /\ ~arg[i].off /\ s.w.nest[arg[i].s] <= rej + 1
        THEN Behind(Substitute(macros, s.w, arg[i].s, SubSeq(arg, i + 1, Len(arg)),
                               FALSE, rej + 1), i)
        ELSE put(s.w, arg[i], Zap(macros, s.w, arg[i], rej), i)
  IN  Scanned(step, [w |-> w0, next |-> 1], arg).w

\* A token of the definition, or an argument beside ##, is put in as it stands;
\* ## makes one token of the last one there, the left hand side, and the first one
\* here.
Beginning(s, q) == IF s.ltwds /\ s.glue /\ s.w.out # <<>> /\ q # <<>>
                   THEN Paste(Last(s.w.out), q[1]) ELSE NoToken
Joined(w, front, q, zapped) ==
  [w EXCEPT !.out = front \o zapped,
            !.unmarked = @ \/ \E k \in DOMAIN q : q[k].off /\ ~zapped[k].off]
Join(macros, w, q, pasted, rej) ==
  IF pasted = NoToken THEN Joined(w, w.out, q, ZapAll(macros, w, Plain(q), rej))
  ELSE Joined(w, Append(Front(w.out), Zap(macros, w, pasted, rej)), Tail(q),
              ZapAll(macros, w, Plain(Tail(q)), rej))

\* One after the other, the tokens of the definition: arguments are put in, #
\* and ## carried out.  s has the list so far in s.w.out; glue says that its last
\* token is the left hand side of the ## at hand.
Fill(macros, m, args, rej, w0) ==
  LET ntwds(i) == i < Len(m.body) /\ m.body[i + 1] = DSHARP
      named(i) == IF i < Len(m.body) THEN ArgNo(m, m.body[i + 1]) ELSE 0
      go(w, i, g, l) == [w |-> w, next |-> i, glue |-> g, ltwds |-> l]
      put(s, i, q, glue) == go(Join(macros, s.w, q, Beginning(s, q), rej), i + 1, glue, FALSE)
      argument(s, i, q) ==
        IF s.ltwds \/ ntwds(i) THEN put(s, i, q, q # <<>> \/ (s.ltwds /\ s.glue))
        ELSE go(Prescan(macros, s.w, q, rej), i + 1, FALSE, FALSE)
      step(s, i) ==
        LET ct == m.body[i]
        IN  IF ArgNo(m, ct) > 0 THEN argument(s, i, args[ArgNo(m, ct)])
            ELSE IF ct = DSHARP THEN go(IF s.ltwds THEN Failed(s.w) ELSE s.w, i + 1, s.glue, TRUE)
            ELSE IF ct = SHARP /\ named(i) > 0
            THEN go(Put(s.w, Stringify(args[named(i)])), i + 2, FALSE, FALSE)
            ELSE put(s, i, <<ct>>, TRUE)
  IN  Scanned(step, go(w0, 1, FALSE, FALSE), m.body).w

\* What fill has written is scanned again; calls may take their arguments, more
\* tokens, from those left behind it.
Rescan(macros, fill, out, left, penury, rej) ==
  LET toks == fill.out \o left
      step(s, i) ==
        IF IsMacro(macros, toks[i]) /\ ~toks[i].off
        THEN Behind(Substitute(macros, s.w, toks[i].s, SubSeq(toks, i + 1, Len(toks)),
                               penury, rej), i)
        ELSE [w |-> Put(s.w, [toks[i] EXCEPT !.off = @ /\ rej > 0]), next |-> i + 1]
      end(s) == [w |-> s.w, more |-> s.next - 1 - Len(fill.out)]
  IN  end(Scanned(step, [w |-> [fill EXCEPT !.out = out], next |-> 1], fill.out))

\* The work with a name and the arguments c that stand behind it, n tokens of
\* them in tfi and the others in the file.
Replace(macros, w, name, c, n, tfi, penury, rej) ==
  LET taken == [w EXCEPT !.src = SubSeq(@, c.taken - n + 1, Len(@))]
      fill  == Fill(macros, macros[name], c.args, rej,
                    [taken EXCEPT !.nest[name] = rej + 1, !.out = <<>>])
      end(s) == [w |-> [s.w EXCEPT !.nest[name] = w.nest[name]], taken |-> n + s.more]
  IN  IF w.nest[name] > rej
      THEN [w |-> [Put(w, Token("name", name)) EXCEPT !.unmarked = @ \/ rej > 0], taken |-> 0]
      ELSE IF c.res = "none" THEN [w |-> Put(w, Token("name", name)), taken |-> 0]
      ELSE IF c.res = "error" THEN [w |-> Failed(taken), taken |-> n]
      ELSE end(Rescan(macros, fill, w.out, SubSeq(tfi, n + 1, Len(tfi)), penury, rej))

Smaller(a, b) == IF a < b THEN a ELSE b
Expand(macros, w, name, c, tfi, penury, rej) ==
  Replace(macros, w, name, c, Smaller(c.taken, Len(tfi)), tfi, penury, rej)

\* substitute_macro: the work afterwards, and how many tokens of tfi, the list
\* the name stood in, have been taken.
Substitute(macros, w, name, tfi, penury, rej) ==
  Expand(macros, w, name, CallOf(macros[name], tfi \o (IF penury THEN w.src ELSE <<>>)),
          tfi, penury, rej)

\* A list on its own, as in an #if: nothing is taken from behind it.
Scan(macros, w, q) == Rescan(macros, [w EXCEPT !.out = q], w.out, <<>>, FALSE, 0).w

-----------------------------------------------------------------------------
(***************************************************************************)
(* What stands on the line of a directive.                                 *)
(***************************************************************************)
IsDirective(e) == e.k = "directive"

\* handle_if, first step: the operator defined, which is a name like any other
\* if no name follows it.
RECURSIVE WithDefined(_, _)
WithDefined(macros, q) ==
  LET bare  == Len(q) >= 2 /\ q[2].k = "name"
      paren == Len(q) >= 4 /\ q[2] = LPAR /\ q[3].k = "name" /\ q[4] = RPAR
      name  == IF bare THEN q[2] ELSE q[3]
      value == Number(IF name.s \in DOMAIN macros THEN "1" ELSE "0")
  IN  IF q = <<>> THEN <<>>
      ELSE IF Head(q) = Name("defined") /\ (bare \/ paren)
      THEN <<value>> \o WithDefined(macros, SubSeq(q, IF bare THEN 3 ELSE 5, Len(q)))
      ELSE <<Head(q)>> \o WithDefined(macros, Tail(q))

\* handle_if, last step: a name is 0 now.  Of expressions there are numbers and
\* the operator !.
Zero(t) == t.k = "name" \/ Range(t.s) = {"0"}
IsOperand(q) == Len(q) = 1 /\ q[1].k \in {"name", "number"}
Truth(q) ==
  LET truth(b) == IF b THEN "yes" ELSE "no"
  IN  IF IsOperand(q) THEN truth(~Zero(q[1]))
      ELSE IF q # <<>> /\ Head(q) = Punct("!") /\ IsOperand(Tail(q))
      THEN truth(Zero(q[2]))
      ELSE "error"

\* handle_include: "name" or <name>.
FileName(q) ==
  IF Len(q) = 1 /\ q[1].k = "string"
  THEN [res |-> "ok", name |-> q[1].s[1], quoted |-> TRUE]
  ELSE IF Len(q) = 3 /\ q[1] = Punct("<") /\ q[3] = Punct(">")
  THEN [res |-> "ok", name |-> q[2].s[1], quoted |-> FALSE]
  ELSE [res |-> "error"]

=============================================================================
