--------------------------- MODULE MCPreprocessor ---------------------------
(***************************************************************************)
(* Families of small sets of files for Preprocessor.                       *)
(***************************************************************************)
EXTENDS Preprocessor

G == <<"G">>
A == <<"A">>
F == <<"f">>
t == Name("t")

Directive(d) == [k |-> "directive", d |-> d]
On(d, name) == [k |-> "directive", d |-> d, name |-> name]
With(d, toks) == [k |-> "directive", d |-> d, toks |-> toks]
Object(name, body) ==
  [k |-> "directive", d |-> "define", name |-> name,
   m |-> [params |-> NoParams, vaarg |-> FALSE, body |-> body]]
Function(name, params, body) ==
  [k |-> "directive", d |-> "define", name |-> name,
   m |-> [params |-> params, vaarg |-> FALSE, body |-> body]]

Quoted(n) == <<Token("string", <<n>>)>>
Angled(n) == <<Punct("<"), Name(n), Punct(">")>>
Inc(n) == With("include", Quoted(n))

MCPath == <<"i1", "i2">>
main == <<Beside, "m.c">>
x == <<Beside, "x.h">>
z == <<Beside, "z.h">>
MCMains == {main}
MCBuffers == {<<Inc("x.h"), t>>}

UpTo(n, S) == UNION {[1..k -> S] : k \in 0..n}

\* Groups of all shapes, right and wrong ones, in one file...
Conditions == {With("if", <<Number("0")>>), With("if", <<Number("1")>>), Directive("else"),
               With("elif", <<Number("1")>>), Directive("endif")}
Groups == {main :> q : q \in UpTo(5, Conditions \cup {t})}

\* ... and in a file and the one that includes it.
Halves == {main :> (<<Inc("x.h")>> \o q) @@ x :> h :
             q \in UpTo(2, Conditions \cup {t}), h \in UpTo(2, Conditions)}

\* Headers with protections that are right, and others that look alike.
Opening == <<On("ifndef", G), Object(G, <<>>)>>
Closing == <<Directive("endif")>>
Headers == {Opening \o <<t>> \o Closing,
            Opening \o <<t, Inc("z.h")>> \o Closing,
            Opening \o Closing \o <<t>>,
            <<t>> \o Opening \o Closing,
            Opening \o <<t, Directive("else"), t>> \o Closing,
            Opening \o <<t, With("elif", <<Number("1")>>), t>> \o Closing,
            <<Directive("null")>> \o Opening \o <<t>> \o Closing \o <<Directive("null")>>,
            Opening \o <<t>> \o Closing \o <<On("undef", A)>>,
            <<On("ifndef", G), t>> \o Closing,
            <<Inc("z.h")>> \o Opening \o <<t>> \o Closing,
            Opening \o Closing \o <<Inc("z.h")>>,
            Opening \o Closing \o <<On("ifndef", A)>> \o <<t>> \o Closing}
Inner == {<<t>>, <<Inc("x.h")>>, <<On("undef", G)>>,
          <<On("ifndef", A), Object(A, <<>>), t>> \o Closing}
Guards == {main :> q @@ x :> h @@ z :> i :
             q \in UpTo(3, {Inc("x.h"), Inc("z.h"), On("undef", G), Object(G, <<>>)}),
             h \in Headers, i \in Inner}

\* Files of the same name in three places.
Marked(n) == {<<Number(n)>>, <<Number(n), With("include_next", Angled("x.h"))>>}
Choice(f, S) == {<<>>} \cup {f :> q : q \in S}
Places3 == {a @@ b @@ c @@ <<"i1", "y.h">> :> <<Inc("x.h")>> :
              a \in Choice(x, {<<Number("0")>>}),
              b \in Choice(<<"i1", "x.h">>, Marked("1")),
              c \in Choice(<<"i2", "x.h">>, Marked("2"))}
Lookups == {d @@ main :> q : d \in Places3,
             q \in UpTo(3, {Inc("x.h"), Inc("y.h"), With("include", Angled("x.h"))})}

\* Macros, in text, conditions and names of files.
v == Name("x")
w == Name("y")
Bodies == {<<v>>, <<t>>, <<SHARP, v>>, <<v, v>>, <<Name("f"), v>>, <<Name("A")>>}
Definitions == {Function(F, <<v>>, b) : b \in Bodies}
               \cup {Function(F, <<v, w>>, <<v, DSHARP, w>>), Function(F, <<>>, <<t>>)}
Values == {<<Name("f")>>, <<Name("A"), t>>, <<Name("f"), LPAR, Name("A"), RPAR>>, <<Number("0")>>,
           Quoted("x.h"), Angled("x.h"), <<DSHARP>>}
Call(q) == <<Name("f"), LPAR>> \o q \o <<RPAR>>
Uses == {<<Name("A"), LPAR, t, RPAR>>, Call(<<Name("A")>>), Call(<<t, COMMA, Name("A")>>),
         Call(Call(<<Name("f")>>)) \o <<LPAR, t, RPAR>>, <<Name("f"), LPAR, t>>, <<Name("f"), t>>,
         <<With("if", <<Punct("!"), Name("A")>>), t, Directive("endif")>>,
         <<With("if", <<Name("defined"), Name("A")>>), t, Directive("endif")>>,
         <<With("if", Call(<<Name("A")>>)), t, Directive("endif")>>,
         <<With("include", <<Name("A")>>)>>,
         <<[k |-> "directive", d |-> "pragma", t |-> Token("pragma", <<"p">>)], Directive("error")>>}
Macros == {main :> (<<d>> \o e \o u) @@ x :> <<t>> : d \in Definitions, u \in Uses,
             e \in {<<Object(A, b)>> : b \in Values} \cup {<<f>> : f \in Definitions}
                   \cup {<<On("undef", F)>>}}

MCDisks == Groups \cup Halves \cup Guards \cup Lookups \cup Macros

=============================================================================
