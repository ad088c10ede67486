----------------------------- MODULE Tags_proofs -----------------------------
(***************************************************************************)
(* Every reference to a sub or to an array of arguments is counted, for    *)
(* any number of objects, places, kinds of hooks and tags; no list has two *)
(* tags of a name; and, as nothing is freed too early, each call of tag    *)
(* does what TagPromise promises, or nothing.                              *)
(***************************************************************************)
EXTENDS Tags, FiniteSetTheorems, SequenceTheorems, WellFoundedInduction, TLAPS

-----------------------------------------------------------------------------
(* Loops.                                                                  *)

\* Induction over the natural numbers, for a set of them.
LEMMA NatSetInduction ==
  ASSUME NEW S, 0 \in S, \A n \in S \cap Nat : n + 1 \in S
  PROVE  Nat \subseteq S
<1> DEFINE T == Nat \ S
           R == OpToRel(<, Nat)
<1> SUFFICES ASSUME T # {} PROVE FALSE
  OBVIOUS
<1>1. T \subseteq Nat /\ IsWellFoundedOn(R, Nat)
  BY NatLessThanWellFounded
<1> HIDE DEF T, R
<1>2. PICK k \in T : \A y \in T : <<y, k>> \notin R
  BY <1>1, WFMin
<1>3. k \in Nat /\ k # 0 /\ k - 1 \in Nat /\ k = (k - 1) + 1
  BY <1>1, <1>2 DEF T
<1>4. k - 1 \notin T
  <2> SUFFICES ASSUME k - 1 \in T PROVE FALSE
    OBVIOUS
  <2> DEFINE p == <<k - 1, k>>
  <2>1. p \in Nat \X Nat /\ p[1] = k - 1 /\ p[2] = k /\ p[1] < p[2]
    BY <1>3
  <2> HIDE DEF p
  <2>2. p \in R
    BY <2>1, SMT DEF R, OpToRel
  <2> QED BY <1>2, <2>2 DEF p
<1> QED BY <1>2, <1>3, <1>4 DEF T

-----------------------------------------------------------------------------
(* Sizes of sets.                                                          *)

\* Of two sets that have nothing in common,
LEMMA ApartFacts ==
  ASSUME NEW A, NEW B, IsFiniteSet(A), IsFiniteSet(B), A \cap B = {}
  PROVE  /\ IsFiniteSet(A \cup B)
         /\ Cardinality(A) \in Nat /\ Cardinality(B) \in Nat
         /\ Cardinality(A \cup B) = Cardinality(A) + Cardinality(B)
<1>1. Cardinality(A \cap B) = 0
  BY FS_EmptySet
<1>2. Cardinality(A) \in Nat /\ Cardinality(B) \in Nat
  BY FS_CardinalityType
<1>3. /\ IsFiniteSet(A \cup B)
      /\ Cardinality(A \cup B) = Cardinality(A) + Cardinality(B) - Cardinality(A \cap B)
  BY FS_Union
<1> QED BY <1>1, <1>2, <1>3

\* and of a set without one of its subsets.
LEMMA WithoutFacts ==
  ASSUME NEW A, NEW B, IsFiniteSet(A), B \subseteq A
  PROVE  /\ IsFiniteSet(B) /\ IsFiniteSet(A \ B)
         /\ Cardinality(A) \in Nat /\ Cardinality(B) \in Nat
         /\ Cardinality(A \ B) = Cardinality(A) - Cardinality(B)
<1>1. IsFiniteSet(B)
  BY FS_Subset
<1>2. Cardinality(A) \in Nat /\ Cardinality(B) \in Nat
  BY <1>1, FS_CardinalityType
<1>3. A \cap B = B
  OBVIOUS
<1>4. IsFiniteSet(A \ B) /\ Cardinality(A \ B) = Cardinality(A) - Cardinality(A \cap B)
  BY FS_Difference
<1> QED BY <1>1, <1>2, <1>3, <1>4

-----------------------------------------------------------------------------
(* Sums.                                                                   *)

Delta == [Counted -> Int]

\* Adding up changes gives a change.

LEMMA TogetherFacts ==
  ASSUME NEW a \in Delta, NEW b \in Delta
  PROVE  Together(a, b) \in Delta /\ \A y \in Counted : Together(a, b)[y] = a[y] + b[y]
BY DEF Together, Delta

\* Total's sums are defined: there is a function that satisfies their equation.
LEMMA TotalFacts ==
  ASSUME NEW n \in Nat, NEW d \in [1 .. n -> Delta]
  PROVE  \E s \in [0 .. n -> Delta] :
           /\ Total(d) = s[n]
           /\ s[0] = NoChange
           /\ \A k \in 1 .. n : s[k] = Together(s[k - 1], d[k])
<1> DEFINE Eq(s, m) == s = [k \in 0 .. m |-> IF k = 0 THEN NoChange ELSE Together(s[k - 1], d[k])]
           S == {m \in Nat : m <= n => \E s : Eq(s, m)}
<1>1. 0 \in S
  <2> DEFINE s == [k \in 0 .. 0 |-> NoChange]
  <2>1. Eq(s, 0)
    OBVIOUS
  <2> HIDE DEF s
  <2> QED BY <2>1
<1>2. ASSUME NEW m \in S \cap Nat PROVE m + 1 \in S
  <2> SUFFICES ASSUME m + 1 <= n PROVE \E s : Eq(s, m + 1)
    OBVIOUS
  <2>1. PICK s : Eq(s, m)
    BY <1>2
  <2> DEFINE t == [k \in 0 .. m + 1 |-> IF k <= m THEN s[k] ELSE Together(s[m], d[m + 1])]
  <2>2. \A k \in 0 .. m + 1 : t[k] = IF k = 0 THEN NoChange ELSE Together(t[k - 1], d[k])
    <3> SUFFICES ASSUME NEW k \in 0 .. m + 1
                 PROVE  t[k] = IF k = 0 THEN NoChange ELSE Together(t[k - 1], d[k])
      OBVIOUS
    <3>1. CASE k <= m
      BY <2>1, <3>1
    <3>2. CASE k = m + 1
      BY <3>2
    <3> QED BY <3>1, <3>2
  <2>3. t = [k \in 0 .. m + 1 |-> t[k]]
    OBVIOUS
  <2> HIDE DEF t
  <2>4. Eq(t, m + 1)
    BY <2>2, <2>3
  <2> QED BY <2>4
<1>3. \E s : Eq(s, n)
  <2> HIDE DEF S
  <2>1. Nat \subseteq S
    BY <1>1, <1>2, NatSetInduction
  <2> QED BY <2>1 DEF S
<1>4. Len(d) = n
  OBVIOUS
<1> DEFINE sum == CHOOSE s : Eq(s, n)
<1>5. Total(d) = sum[n]
  BY <1>4 DEF Total
<1>6. Eq(sum, n)
  BY <1>3
<1> HIDE DEF sum
<1>7. \A k \in 1 .. n : sum[k] = Together(sum[k - 1], d[k])
  BY <1>6
<1>8. sum[0] = NoChange
  BY <1>6
<1>9. \A k \in 0 .. n : sum[k] \in Delta
  <2> DEFINE S2 == {m \in Nat : m <= n => sum[m] \in Delta}
  <2>1. 0 \in S2
    BY <1>8 DEF NoChange, Delta
  <2>2. ASSUME NEW m \in S2 \cap Nat PROVE m + 1 \in S2
    <3> SUFFICES ASSUME m + 1 <= n PROVE sum[m + 1] \in Delta
      OBVIOUS
    <3>1. m + 1 \in 1 .. n /\ sum[m] \in Delta /\ d[m + 1] \in Delta
      BY <2>2
    <3>2. sum[m + 1] = Together(sum[m], d[m + 1])
      BY <1>7, <3>1
    <3> QED BY <3>1, <3>2, TogetherFacts
  <2> HIDE DEF S2
  <2>3. Nat \subseteq S2
    BY <2>1, <2>2, NatSetInduction
  <2> QED BY <2>3 DEF S2
<1>10. sum \in [0 .. n -> Delta]
  BY <1>6, <1>9
<1> QED BY <1>5, <1>7, <1>8, <1>10

\* What is in the sets P[e] for all e in S.
Whole(P, S) == UNION {P[e] : e \in S}

\* These sets have nothing in common.
Disjoint(P, S) == \A e, f \in S : e # f => P[e] \cap P[f] = {}

\* Of x, the change in each round e is what is in P[e] without what is in M[e].
Counts(d, P, M, S, x) ==
  \A e \in S : /\ IsFiniteSet(P[e]) /\ IsFiniteSet(M[e])
              /\ d[e][x] = Cardinality(P[e]) - Cardinality(M[e])

\* A loop that adds, for each of its rounds, what is in P and takes away what is
\* in M.
LEMMA TotalCounts ==
  ASSUME NEW n \in Nat, NEW d \in [1 .. n -> Delta], NEW x \in Counted,
         NEW P, NEW M,
         Counts(d, P, M, 1 .. n, x), Disjoint(P, 1 .. n), Disjoint(M, 1 .. n)
  PROVE  /\ Total(d) \in Delta
         /\ IsFiniteSet(Whole(P, 1 .. n)) /\ IsFiniteSet(Whole(M, 1 .. n))
         /\ Total(d)[x] = Cardinality(Whole(P, 1 .. n)) - Cardinality(Whole(M, 1 .. n))
<1>1. PICK s \in [0 .. n -> Delta] :
        /\ Total(d) = s[n]
        /\ s[0] = NoChange
        /\ \A k \in 1 .. n : s[k] = Together(s[k - 1], d[k])
  BY TotalFacts
<1> DEFINE UP(k) == Whole(P, 1 .. k)
           UM(k) == Whole(M, 1 .. k)
           Good(k) == /\ IsFiniteSet(UP(k)) /\ IsFiniteSet(UM(k))
                      /\ s[k][x] = Cardinality(UP(k)) - Cardinality(UM(k))
           S == {k \in Nat : k <= n => Good(k)}
<1>2. 0 \in S
  <2>1. UP(0) = {} /\ UM(0) = {}
    BY DEF Whole
  <2>2. s[0][x] = 0
    BY <1>1 DEF NoChange
  <2>3. Cardinality({}) = 0 /\ IsFiniteSet({})
    BY FS_EmptySet
  <2>4. IsFiniteSet(UP(0)) /\ IsFiniteSet(UM(0)) /\ Cardinality(UP(0)) - Cardinality(UM(0)) = 0
    <3> DEFINE A == UP(0)
               B == UM(0)
    <3>1. A = {} /\ B = {}
      BY <2>1
    <3> HIDE DEF A, B
    <3>2. Cardinality(A) = 0 /\ Cardinality(B) = 0 /\ IsFiniteSet(A) /\ IsFiniteSet(B)
      BY <2>3, <3>1, Zenon
    <3>3. IsFiniteSet(A) /\ IsFiniteSet(B) /\ Cardinality(A) - Cardinality(B) = 0
      BY <3>2
    <3> QED BY <3>3 DEF A, B
  <2> HIDE DEF UP, UM
  <2> QED BY <2>2, <2>4
<1>3. ASSUME NEW k \in S \cap Nat PROVE k + 1 \in S
  <2> SUFFICES ASSUME k + 1 <= n PROVE Good(k + 1)
    OBVIOUS
  <2>1. k + 1 \in 1 .. n /\ k \in 0 .. n /\ Good(k)
    BY <1>3
  <2>2. UP(k + 1) = UP(k) \cup P[k + 1] /\ UM(k + 1) = UM(k) \cup M[k + 1]
    <3>1. 1 .. k + 1 = (1 .. k) \cup {k + 1}
      OBVIOUS
    <3> QED BY <3>1 DEF Whole
  <2>3. UP(k) \cap P[k + 1] = {} /\ UM(k) \cap M[k + 1] = {}
    BY <2>1 DEF Whole, Disjoint
  <2>4. s[k + 1][x] = s[k][x] + d[k + 1][x] /\ s[k][x] \in Int /\ d[k + 1][x] \in Int
    <3>1. s[k + 1] = Together(s[k], d[k + 1])
      BY <1>1, <2>1
    <3>2. s[k] \in Delta /\ d[k + 1] \in Delta
      BY <2>1
    <3>3. Together(s[k], d[k + 1])[x] = s[k][x] + d[k + 1][x]
      BY <3>2, TogetherFacts
    <3> QED BY <3>1, <3>2, <3>3 DEF Delta
  <2> DEFINE A == UP(k)
             B == UM(k)
             A2 == UP(k + 1)
             B2 == UM(k + 1)
             p == P[k + 1]
             m == M[k + 1]
  <2> HIDE DEF UP, UM
  <2>5. /\ IsFiniteSet(A) /\ IsFiniteSet(B) /\ IsFiniteSet(p) /\ IsFiniteSet(m)
        /\ s[k][x] = Cardinality(A) - Cardinality(B)
        /\ d[k + 1][x] = Cardinality(p) - Cardinality(m)
        /\ A2 = A \cup p /\ B2 = B \cup m /\ A \cap p = {} /\ B \cap m = {}
    BY <2>1, <2>2, <2>3 DEF Counts
  <2> HIDE DEF A, B, A2, B2, p, m
  <2>6. /\ IsFiniteSet(A2) /\ Cardinality(A2) = Cardinality(A) + Cardinality(p)
        /\ Cardinality(A) \in Nat /\ Cardinality(p) \in Nat
    BY <2>5, ApartFacts
  <2>7. /\ IsFiniteSet(B2) /\ Cardinality(B2) = Cardinality(B) + Cardinality(m)
        /\ Cardinality(B) \in Nat /\ Cardinality(m) \in Nat
    BY <2>5, ApartFacts
  <2>8. s[k + 1][x] = Cardinality(A2) - Cardinality(B2)
    BY <2>4, <2>5, <2>6, <2>7
  <2> QED BY <2>6, <2>7, <2>8 DEF A2, B2
<1>4. Good(n)
  <2> HIDE DEF S
  <2>1. Nat \subseteq S
    BY <1>2, <1>3, NatSetInduction
  <2>2. n \in S /\ n <= n
    BY <2>1
  <2> HIDE DEF Good
  <2> QED BY <2>2 DEF S
<1> QED BY <1>1, <1>4

\* The same for a loop over a set.
LEMMA ForAllCounts ==
  ASSUME NEW S, IsFiniteSet(S), NEW d \in [S -> Delta], NEW x \in Counted,
         NEW P, NEW M, Counts(d, P, M, S, x), Disjoint(P, S), Disjoint(M, S)
  PROVE  /\ ForAll(S, d) \in Delta
         /\ IsFiniteSet(Whole(P, S)) /\ IsFiniteSet(Whole(M, S))
         /\ ForAll(S, d)[x] = Cardinality(Whole(P, S)) - Cardinality(Whole(M, S))
<1> DEFINE n == Cardinality(S)
           seq == SetToSeq(S)
<1>1. n \in Nat /\ ExistsBijection(1 .. n, S)
  BY FS_CardinalityType
<1>2. seq \in [1 .. n -> S] /\ IsInjective(seq)
  BY <1>1 DEF SetToSeq, ExistsBijection, Bijection, Injection
<1> HIDE DEF seq
<1>3. \A e \in S : \E i \in 1 .. n : seq[i] = e
  <2>1. seq \in Injection(1 .. n, S)
    BY <1>2 DEF Injection
  <2>2. Cardinality(1 .. n) = n
    BY <1>1, FS_Interval
  <2>3. seq \in Surjection(1 .. n, S)
    BY <2>1, <2>2, FS_Injection
  <2> QED BY <2>3 DEF Surjection
<1> DEFINE c == [i \in 1 .. n |-> d[seq[i]]]
           PP == [i \in 1 .. n |-> P[seq[i]]]
           MM == [i \in 1 .. n |-> M[seq[i]]]
<1>4. c \in [1 .. n -> Delta]
  BY <1>2
<1>5. Len(seq) = n
  BY <1>1, <1>2
<1>6. ForAll(S, d) = Total(c)
  BY <1>5 DEF ForAll, seq
<1>7. Whole(PP, 1 .. n) = Whole(P, S) /\ Whole(MM, 1 .. n) = Whole(M, S)
  BY <1>2, <1>3 DEF Whole
<1>8. Counts(c, PP, MM, 1 .. n, x)
  BY <1>2 DEF Counts
<1>9. Disjoint(PP, 1 .. n) /\ Disjoint(MM, 1 .. n)
  BY <1>2 DEF Disjoint, IsInjective
<1> HIDE DEF c, PP, MM, n
<1>10. /\ Total(c) \in Delta
       /\ IsFiniteSet(Whole(PP, 1 .. n)) /\ IsFiniteSet(Whole(MM, 1 .. n))
       /\ Total(c)[x] = Cardinality(Whole(PP, 1 .. n)) - Cardinality(Whole(MM, 1 .. n))
  BY <1>1, <1>4, <1>8, <1>9, TotalCounts
<1> QED BY <1>6, <1>7, <1>10

-----------------------------------------------------------------------------
(* Hooks.                                                                  *)

Hook == [sub : Subs \cup {NULL}, arg : Arrays \cup {NULL}]

\* What a hook contributes to the references to x, if its place is e.
Has(hook, x, e) == IF x \in {hook.sub, hook.arg} THEN {e} ELSE {}

LEMMA HasFacts ==
  ASSUME NEW hook, NEW x, NEW e
  PROVE  /\ IsFiniteSet(Has(hook, x, e))
         /\ Cardinality(Has(hook, x, e)) = IF x \in {hook.sub, hook.arg} THEN 1 ELSE 0
<1>1. IsFiniteSet({e}) /\ Cardinality({e}) = 1
  BY FS_Singleton
<1>2. IsFiniteSet({}) /\ Cardinality({}) = 0
  BY FS_EmptySet
<1>3. CASE x \in {hook.sub, hook.arg}
  <2>1. Has(hook, x, e) = {e}
    BY <1>3 DEF Has
  <2> QED BY <1>1, <1>3, <2>1
<1>4. CASE x \notin {hook.sub, hook.arg}
  <2>1. Has(hook, x, e) = {}
    BY <1>4 DEF Has
  <2> QED BY <1>2, <1>4, <2>1
<1> QED BY <1>3, <1>4

\* Of a change by one pointer, what is there for x.
LEMMA ChangeFacts ==
  ASSUME NEW y, NEW by \in Int
  PROVE  /\ Change(y, by) \in Delta
         /\ \A x \in Counted : Change(y, by)[x] = IF x = y THEN by ELSE 0
BY DEF Change, Delta

\* A reference is made for each hook that is copied,
LEMMA RefFacts ==
  ASSUME NEW hook \in Hook
  PROVE  /\ single_hook_ref(hook) \in Delta /\ single_hook_deref(hook) \in Delta
         /\ \A x \in Counted : \A e :
              /\ single_hook_ref(hook)[x] = Cardinality(Has(hook, x, e))
              /\ single_hook_deref(hook)[x] = 0 - Cardinality(Has(hook, x, e))
<1>1. \A by \in {1, -1} : /\ Change(hook.sub, by) \in Delta
                          /\ Change(hook.arg, by) \in Delta
  BY ChangeFacts
<1>2. single_hook_ref(hook) \in Delta /\ single_hook_deref(hook) \in Delta
  BY <1>1, TogetherFacts DEF single_hook_ref, single_hook_deref
<1>3. ASSUME NEW x \in Counted, NEW e
      PROVE  /\ single_hook_ref(hook)[x] = Cardinality(Has(hook, x, e))
             /\ single_hook_deref(hook)[x] = 0 - Cardinality(Has(hook, x, e))
  <2>1. ~(x = hook.sub /\ x = hook.arg)
    BY TagsAssumption DEF Counted, Hook
  <2>2. \A by \in {1, -1} :
          Together(Change(hook.sub, by), Change(hook.arg, by))[x]
            = (IF x = hook.sub THEN by ELSE 0) + (IF x = hook.arg THEN by ELSE 0)
    <3> SUFFICES ASSUME NEW by \in {1, -1}
                 PROVE  Together(Change(hook.sub, by), Change(hook.arg, by))[x]
                          = (IF x = hook.sub THEN by ELSE 0) + (IF x = hook.arg THEN by ELSE 0)
      OBVIOUS
    <3>1. /\ Change(hook.sub, by)[x] = IF x = hook.sub THEN by ELSE 0
          /\ Change(hook.arg, by)[x] = IF x = hook.arg THEN by ELSE 0
      BY ChangeFacts
    <3>2. Together(Change(hook.sub, by), Change(hook.arg, by))[x]
            = Change(hook.sub, by)[x] + Change(hook.arg, by)[x]
      BY <1>1, TogetherFacts
    <3> QED BY <3>1, <3>2
  <2>3. Cardinality(Has(hook, x, e)) = IF x \in {hook.sub, hook.arg} THEN 1 ELSE 0
    BY HasFacts
  <2> QED BY <2>1, <2>2, <2>3 DEF single_hook_ref, single_hook_deref
<1> QED BY <1>2, <1>3

\* and an update of a hook lets go what it replaces.
LEMMA UpdateFacts ==
  ASSUME NEW dst \in Hook, NEW src \in Hook
  PROVE  /\ single_hook_update(dst, src) \in Delta
         /\ \A x \in Counted : \A e :
              single_hook_update(dst, src)[x]
                = Cardinality(Has(src, x, e)) - Cardinality(Has(dst, x, e))
<1> DEFINE One(x, y) == IF x = y THEN 1 ELSE 0
<1>1. ASSUME NEW a, NEW b
      PROVE  /\ Replaced(a, b) \in Delta
             /\ \A x \in Counted : Replaced(a, b)[x] = One(x, b) - One(x, a)
  <2>1. CASE a = b
    BY <2>1 DEF Replaced, NoChange, Delta
  <2>2. CASE a # b
    <3>1. Replaced(a, b) = Together(Change(b, 1), Change(a, -1))
      BY <2>2 DEF Replaced
    <3>2. /\ Change(b, 1) \in Delta /\ Change(a, -1) \in Delta
          /\ \A x \in Counted : /\ Change(b, 1)[x] = IF x = b THEN 1 ELSE 0
                                /\ Change(a, -1)[x] = IF x = a THEN -1 ELSE 0
      BY ChangeFacts
    <3>3. /\ Together(Change(b, 1), Change(a, -1)) \in Delta
          /\ \A x \in Counted : Together(Change(b, 1), Change(a, -1))[x]
                                  = Change(b, 1)[x] + Change(a, -1)[x]
      BY <3>2, TogetherFacts
    <3> QED BY <3>1, <3>2, <3>3
  <2> QED BY <2>1, <2>2
<1> DEFINE subs == Replaced(dst.sub, src.sub)
           args == Replaced(dst.arg, src.arg)
<1>2. /\ subs \in Delta /\ args \in Delta
      /\ \A x \in Counted : /\ subs[x] = One(x, src.sub) - One(x, dst.sub)
                            /\ args[x] = One(x, src.arg) - One(x, dst.arg)
  BY <1>1
<1> HIDE DEF subs, args
<1>3. /\ single_hook_update(dst, src) \in Delta
      /\ \A x \in Counted : single_hook_update(dst, src)[x] = subs[x] + args[x]
  BY <1>2, TogetherFacts DEF single_hook_update, subs, args
<1>4. ASSUME NEW hook \in Hook, NEW x \in Counted, NEW e
      PROVE  Cardinality(Has(hook, x, e)) = One(x, hook.sub) + One(x, hook.arg)
  <2>1. ~(x = hook.sub /\ x = hook.arg)
    BY TagsAssumption DEF Counted, Hook
  <2>2. Cardinality(Has(hook, x, e)) = IF x \in {hook.sub, hook.arg} THEN 1 ELSE 0
    BY HasFacts
  <2> QED BY <2>1, <2>2
<1> SUFFICES ASSUME NEW x \in Counted, NEW e
             PROVE  single_hook_update(dst, src)[x]
                      = Cardinality(Has(src, x, e)) - Cardinality(Has(dst, x, e))
  BY <1>3
<1>5. single_hook_update(dst, src)[x]
        = (One(x, src.sub) - One(x, dst.sub)) + (One(x, src.arg) - One(x, dst.arg))
  BY <1>2, <1>3
<1> QED BY <1>4, <1>5

-----------------------------------------------------------------------------
(* Tags.                                                                   *)

\* What there may be in a tag.
Contents == [HookIds -> Hook] \cup [is : {"hook"}, hook : Hook]
              \cup {c.val : c \in Calls} \cup {Undef, NoDim}
TagOK(tag) == /\ tag.name = "Hooks" => tag.any \in [HookIds -> Hook]
              /\ tag.name = "Dimension" /\ tag.any.is = "hook"
                   => tag.any.hook \in Hook /\ tag.any.hook.sub # NULL
Tag == {tag \in [name : TagNames, any : Contents] : TagOK(tag)}

\* The references that tag, at place p of object o, makes to x.
Uses(o, p, tag, x) == {<<o, p, tag.name, h>> : h \in Users(tag, x)}

\* A loop over all hooks of a Hooks tag.
LEMMA HooksCount ==
  ASSUME NEW d \in [HookIds -> Delta], NEW x \in Counted, NEW o, NEW p,
         NEW any \in [HookIds -> Hook], NEW old \in [HookIds -> Hook],
         \A h \in HookIds : d[h][x] = Cardinality(Has(any[h], x, <<o, p, "Hooks", h>>))
                                        - Cardinality(Has(old[h], x, <<o, p, "Hooks", h>>))
  PROVE  LET new    == Uses(o, p, [name |-> "Hooks", any |-> any], x)
             before == Uses(o, p, [name |-> "Hooks", any |-> old], x)
         IN  /\ ForAll(HookIds, d) \in Delta
             /\ IsFiniteSet(new) /\ IsFiniteSet(before)
             /\ ForAll(HookIds, d)[x] = Cardinality(new) - Cardinality(before)
<1> DEFINE P == [h \in HookIds |-> Has(any[h], x, <<o, p, "Hooks", h>>)]
           M == [h \in HookIds |-> Has(old[h], x, <<o, p, "Hooks", h>>)]
<1>1. IsFiniteSet(HookIds)
  BY TagsAssumption
<1>2. Counts(d, P, M, HookIds, x)
  BY HasFacts DEF Counts
<1>3. Disjoint(P, HookIds) /\ Disjoint(M, HookIds)
  BY DEF Disjoint, Has
<1>4. ASSUME NEW a \in [HookIds -> Hook]
      PROVE  Uses(o, p, [name |-> "Hooks", any |-> a], x)
               = Whole([h \in HookIds |-> Has(a[h], x, <<o, p, "Hooks", h>>)], HookIds)
  <2> DEFINE tag == [name |-> "Hooks", any |-> a]
  <2>1. tag.name = "Hooks" /\ HooksOf(tag) = a
    BY DEF HooksOf
  <2>2. Users(tag, x) = {h \in HookIds : x \in {a[h].sub, a[h].arg}}
    BY <2>1 DEF Users
  <2> HIDE DEF tag
  <2>3. Uses(o, p, tag, x)
          = {<<o, p, "Hooks", h>> : h \in {h \in HookIds : x \in {a[h].sub, a[h].arg}}}
    BY <2>1, <2>2 DEF Uses
  <2>4. Uses(o, p, tag, x) = Whole([h \in HookIds |-> Has(a[h], x, <<o, p, "Hooks", h>>)], HookIds)
    BY <2>3 DEF Whole, Has
  <2> QED BY <2>4 DEF tag
<1> HIDE DEF P, M
<1>5. /\ ForAll(HookIds, d) \in Delta
      /\ IsFiniteSet(Whole(P, HookIds)) /\ IsFiniteSet(Whole(M, HookIds))
      /\ ForAll(HookIds, d)[x] = Cardinality(Whole(P, HookIds)) - Cardinality(Whole(M, HookIds))
  BY <1>1, <1>2, <1>3, ForAllCounts
<1> QED BY <1>4, <1>5 DEF P, M

\* A tag without hooks makes no references, and
LEMMA NoUses ==
  ASSUME NEW tag, HooksOf(tag) = << >>, NEW x, NEW o, NEW p
  PROVE  /\ Uses(o, p, tag, x) = {}
         /\ IsFiniteSet(Uses(o, p, tag, x)) /\ Cardinality(Uses(o, p, tag, x)) = 0
<1>1. Users(tag, x) = {}
  BY DEF Users
<1>2. Uses(o, p, tag, x) = {}
  BY <1>1 DEF Uses
<1> QED BY <1>2, FS_EmptySet

\* a tag with one hook those of the hook.
LEMMA OneUse ==
  ASSUME NEW tag, tag.name = "Dimension", tag.any.is = "hook", NEW x, NEW o, NEW p
  PROVE  Uses(o, p, tag, x) = Has(tag.any.hook, x, <<o, p, "Dimension", "dimension">>)
<1>1. HooksOf(tag) = [dimension |-> tag.any.hook]
  BY DEF HooksOf
<1>2. Users(tag, x) = IF x \in {tag.any.hook.sub, tag.any.hook.arg} THEN {"dimension"} ELSE {}
  BY <1>1 DEF Users
<1> QED BY <1>2 DEF Uses, Has

\* Copying and freeing a tag count the references it makes.
LEMMA TagFacts ==
  ASSUME NEW tag \in Tag, NEW x \in Counted, NEW o, NEW p
  PROVE  /\ Clone_tag(tag) \in Delta /\ Free_tag(tag.name, tag.any) \in Delta
         /\ IsFiniteSet(Uses(o, p, tag, x))
         /\ Clone_tag(tag)[x] = Cardinality(Uses(o, p, tag, x))
         /\ Free_tag(tag.name, tag.any)[x] = 0 - Cardinality(Uses(o, p, tag, x))
<1>1. tag = [name |-> tag.name, any |-> tag.any] /\ TagOK(tag)
  BY DEF Tag
<1>2. CASE tag.name = "Hooks"
  <2> DEFINE c == [h \in HookIds |-> single_hook_ref(tag.any[h])]
             f == [h \in HookIds |-> single_hook_deref(tag.any[h])]
             none == [h \in HookIds |-> NoHook]
             U == Uses(o, p, tag, x)
             N == Uses(o, p, [name |-> "Hooks", any |-> none], x)
  <2>1. tag.any \in [HookIds -> Hook] /\ none \in [HookIds -> Hook]
    BY <1>1, <1>2 DEF TagOK, NoHook, Hook
  <2>2. c \in [HookIds -> Delta] /\ f \in [HookIds -> Delta]
    BY <2>1, RefFacts
  <2>3. \A h \in HookIds : \A e : Has(none[h], x, e) = {} /\ Cardinality(Has(none[h], x, e)) = 0
    <3>1. x # NULL
      BY TagsAssumption DEF Counted
    <3>2. \A h \in HookIds : \A e : Has(none[h], x, e) = {}
      BY <3>1 DEF NoHook, Has
    <3> HIDE DEF none
    <3> QED BY <3>2, FS_EmptySet
  <2>4. \A h \in HookIds : \A e : Cardinality(Has(tag.any[h], x, e)) \in Nat
    BY HasFacts
  <2>5. /\ \A h \in HookIds : \A e : c[h][x] = Cardinality(Has(tag.any[h], x, e))
        /\ \A h \in HookIds : \A e : f[h][x] = 0 - Cardinality(Has(tag.any[h], x, e))
    BY <2>1, RefFacts
  <2> HIDE DEF none
  <2>6. \A h \in HookIds :
          /\ c[h][x] = Cardinality(Has(tag.any[h], x, <<o, p, "Hooks", h>>))
                         - Cardinality(Has(none[h], x, <<o, p, "Hooks", h>>))
          /\ f[h][x] = Cardinality(Has(none[h], x, <<o, p, "Hooks", h>>))
                         - Cardinality(Has(tag.any[h], x, <<o, p, "Hooks", h>>))
    BY <2>3, <2>4, <2>5
  <2>7. U = Uses(o, p, [name |-> "Hooks", any |-> tag.any], x)
    BY <1>1, <1>2
  <2>8. Clone_tag(tag) = ForAll(HookIds, c) /\ Free_tag(tag.name, tag.any) = ForAll(HookIds, f)
    BY <1>2 DEF Clone_tag, Free_tag
  <2>9. Cardinality(N) = 0
    <3>1. Users([name |-> "Hooks", any |-> none], x) = {}
      <4>1. HooksOf([name |-> "Hooks", any |-> none]) = none
        BY DEF HooksOf
      <4>2. \A h \in HookIds : x \notin {none[h].sub, none[h].arg}
        BY TagsAssumption DEF none, NoHook, Counted
      <4> QED BY <2>1, <4>1, <4>2 DEF Users
    <3> QED BY <3>1, FS_EmptySet DEF Uses
  <2> HIDE DEF c, f, U, N
  <2>10. /\ ForAll(HookIds, c) \in Delta
         /\ IsFiniteSet(U)
         /\ ForAll(HookIds, c)[x] = Cardinality(U) - Cardinality(N)
    BY <2>1, <2>2, <2>6, <2>7, HooksCount DEF N
  <2>11. /\ ForAll(HookIds, f) \in Delta
         /\ ForAll(HookIds, f)[x] = Cardinality(N) - Cardinality(U)
    BY <2>1, <2>2, <2>6, <2>7, HooksCount DEF N
  <2>12. Cardinality(U) \in Nat
    BY <2>10, FS_CardinalityType
  <2> QED BY <2>8, <2>9, <2>10, <2>11, <2>12 DEF U
<1>3. CASE tag.name = "Dimension" /\ tag.any.is = "hook"
  <2>1. tag.any.hook \in Hook
    BY <1>1, <1>3 DEF TagOK
  <2>2. /\ Clone_tag(tag) = single_hook_ref(tag.any.hook)
        /\ Free_tag(tag.name, tag.any) = single_hook_deref(tag.any.hook)
    BY <1>3 DEF Clone_tag, Free_tag
  <2> DEFINE hook == tag.any.hook
             e == <<o, p, "Dimension", "dimension">>
  <2>3. Uses(o, p, tag, x) = Has(hook, x, e)
    BY <1>3, OneUse
  <2> HIDE DEF hook, e
  <2>4. IsFiniteSet(Has(hook, x, e))
    BY HasFacts
  <2> QED BY <2>1, <2>2, <2>3, <2>4, RefFacts DEF hook
<1>4. CASE tag.name # "Hooks" /\ ~(tag.name = "Dimension" /\ tag.any.is = "hook")
  <2>1. Clone_tag(tag) = NoChange /\ Free_tag(tag.name, tag.any) = NoChange
    BY <1>4 DEF Clone_tag, Free_tag
  <2>2. HooksOf(tag) = << >>
    BY <1>4 DEF HooksOf
  <2> QED BY <2>1, <2>2, NoUses DEF NoChange, Delta
<1> QED BY <1>2, <1>3, <1>4

-----------------------------------------------------------------------------
(* The methods of a tag.                                                   *)

\* A value makes a hook.
LEMMA FillFacts ==
  ASSUME NEW val, NEW arg \in Arrays \cup {NULL}, Fillable(val),
         val.is \in {"code", "list"} => val.sub \in Subs
  PROVE  single_hook_fill(val, arg) \in Hook
<1>1. CASE val.is = "undef"
  BY <1>1 DEF single_hook_fill, NoHook, Hook
<1>2. CASE val.is = "code"
  BY <1>2 DEF single_hook_fill, Hook
<1>3. CASE val.is = "list"
  BY <1>3 DEF single_hook_fill, Hook
<1> QED BY <1>1, <1>2, <1>3 DEF Fillable

\* What a method leaves in a tag is a tag, and what it does to the counts is the
\* difference; a method that does not update the tag leaves both as they are.
SetRight(set, name, any, o, p, x) ==
  /\ set.rv \in {"update", "delete", "croak"}
  /\ [name |-> name, any |-> set.any] \in Tag
  /\ set.by \in Delta
  /\ set.by[x] = Cardinality(Uses(o, p, [name |-> name, any |-> set.any], x))
                   - Cardinality(Uses(o, p, [name |-> name, any |-> any], x))
  /\ set.rv # "update" => set.any = any

LEMMA LeftAlone ==
  ASSUME NEW name, NEW any, [name |-> name, any |-> any] \in Tag,
         NEW o, NEW p, NEW x \in Counted, NEW rv \in {"update", "delete", "croak"}
  PROVE  SetRight(Ended(rv, any, NoChange), name, any, o, p, x)
<1> DEFINE U == Uses(o, p, [name |-> name, any |-> any], x)
<1>1. IsFiniteSet(U)
  BY TagFacts
<1>2. Cardinality(U) \in Nat
  BY <1>1, FS_CardinalityType
<1>3. Ended(rv, any, NoChange).rv = rv /\ Ended(rv, any, NoChange).any = any
        /\ Ended(rv, any, NoChange).by = NoChange
  BY DEF Ended
<1>4. NoChange \in Delta /\ NoChange[x] = 0
  BY DEF NoChange, Delta
<1>5. 0 = Cardinality(U) - Cardinality(U)
  BY <1>2
<1> QED BY <1>3, <1>4, <1>5 DEF SetRight

LEMMA HooksSetFacts ==
  ASSUME NEW c \in Calls, c.name = "Hooks", NEW any, [name |-> "Hooks", any |-> any] \in Tag,
         script \subseteq Subs, Held(c.val), NEW new \in NewArrays(c.val),
         NEW o, NEW p, NEW x \in Counted
  PROVE  SetRight(Hooks_Set(any, c.val, new), "Hooks", any, o, p, x)
<1> DEFINE set == Hooks_Set(any, c.val, new)
           hooks == c.val.hooks
           found == find_hooks(hooks, any, new)
<1>1. any \in [HookIds -> Hook]
  BY DEF Tag, TagOK
<1>2. c.val = Undef \/ c.val.is \in {"bad", "hash"}
  BY TagsAssumption
<1>3. Undef.is = "undef"
  BY DEF Undef
<1>4. CASE c.val = Undef
  <2>1. set = Ended("delete", any, NoChange)
    BY <1>3, <1>4 DEF Hooks_Set
  <2> QED BY <2>1, LeftAlone
<1>5. CASE c.val.is = "bad"
  <2>1. set = Ended("croak", any, NoChange)
    BY <1>3, <1>5 DEF Hooks_Set
  <2> QED BY <2>1, LeftAlone
<1>6. CASE c.val.is = "hash" /\ ~AllHooks(hooks)
  <2>1. set = Ended("croak", any, NoChange)
    BY <1>3, <1>6 DEF Hooks_Set
  <2> QED BY <2>1, LeftAlone
<1>7. CASE c.val.is = "hash" /\ AllHooks(hooks) /\ \A h \in HookIds : found[h].sub = NULL
  <2>1. set = Ended("delete", any, NoChange)
    BY <1>3, <1>7 DEF Hooks_Set
  <2> QED BY <2>1, LeftAlone
<1>8. CASE c.val.is = "hash" /\ AllHooks(hooks) /\ ~\A h \in HookIds : found[h].sub = NULL
  <2>1. set = Ended("update", found, hook_update(any, found))
    BY <1>3, <1>8 DEF Hooks_Set
  <2>2. \A h \in DOMAIN hooks : /\ h \in HookIds /\ Fillable(hooks[h])
                                /\ hooks[h].is \in {"code", "list"} => hooks[h].sub \in Subs
    BY <1>8 DEF AllHooks, Held
  <2>3. \A h \in DOMAIN new : new[h] \in Arrays
    BY DEF NewArrays
  <2>4. found \in [HookIds -> Hook]
    <3>1. ASSUME NEW h \in HookIds
          PROVE  (IF h \notin DOMAIN hooks THEN any[h]
                  ELSE single_hook_fill(hooks[h], IF h \in DOMAIN new THEN new[h] ELSE NULL)) \in Hook
      <4>1. CASE h \notin DOMAIN hooks
        BY <1>1, <4>1
      <4>2. CASE h \in DOMAIN hooks
        <5> DEFINE arg == IF h \in DOMAIN new THEN new[h] ELSE NULL
        <5>1. arg \in Arrays \cup {NULL}
          BY <2>3
        <5> HIDE DEF arg
        <5>2. single_hook_fill(hooks[h], arg) \in Hook
          BY <2>2, <4>2, <5>1, FillFacts
        <5> QED BY <4>2, <5>2 DEF arg
      <4> QED BY <4>1, <4>2
    <3> QED BY <3>1 DEF find_hooks
  <2> HIDE DEF found
  <2>5. [name |-> "Hooks", any |-> found] \in Tag
    BY <2>4 DEF Tag, TagOK, Contents, TagNames
  <2> DEFINE d == [h \in HookIds |-> single_hook_update(any[h], found[h])]
  <2>6. /\ d \in [HookIds -> Delta]
        /\ \A h \in HookIds : d[h][x] = Cardinality(Has(found[h], x, <<o, p, "Hooks", h>>))
                                          - Cardinality(Has(any[h], x, <<o, p, "Hooks", h>>))
    BY <1>1, <2>4, UpdateFacts
  <2>7. hook_update(any, found) = ForAll(HookIds, d)
    BY DEF hook_update
  <2> HIDE DEF d
  <2>8. /\ ForAll(HookIds, d) \in Delta
        /\ ForAll(HookIds, d)[x]
             = Cardinality(Uses(o, p, [name |-> "Hooks", any |-> found], x))
                 - Cardinality(Uses(o, p, [name |-> "Hooks", any |-> any], x))
    BY <1>1, <2>4, <2>6, HooksCount
  <2>9. set.rv = "update" /\ set.any = found /\ set.by = ForAll(HookIds, d)
    BY <2>1, <2>7 DEF Ended
  <2> QED BY <2>5, <2>8, <2>9 DEF SetRight
<1> QED BY <1>2, <1>4, <1>5, <1>6, <1>7, <1>8

LEMMA DimensionSetFacts ==
  ASSUME NEW c \in Calls, c.name = "Dimension", NEW any,
         [name |-> "Dimension", any |-> any] \in Tag, NEW w,
         script \subseteq Subs, Held(c.val), NEW new \in NewArrays(c.val),
         NEW o, NEW p, NEW x \in Counted
  PROVE  SetRight(Dimension_Set(w, any, c.val, new), "Dimension", any, o, p, x)
<1> DEFINE val == c.val
           set == Dimension_Set(w, any, val, new)
           old == [name |-> "Dimension", any |-> any]
<1>1. Undef.is = "undef"
  BY DEF Undef
<1>2. CASE val = Undef
  <2>1. set = Ended("delete", any, NoChange)
    BY <1>1, <1>2 DEF Dimension_Set
  <2> QED BY <2>1, LeftAlone
<1>3. CASE val # Undef /\ ~IsDimension(w, val)
  <2>1. set = Ended("croak", any, NoChange)
    BY <1>3 DEF Dimension_Set, IsDimension
  <2> QED BY <2>1, LeftAlone
<1>4. /\ Free_tag("Dimension", any) \in Delta
      /\ Free_tag("Dimension", any)[x] = 0 - Cardinality(Uses(o, p, old, x))
      /\ Cardinality(Uses(o, p, old, x)) \in Nat
  <2>1. old.name = "Dimension" /\ old.any = any
    OBVIOUS
  <2> HIDE DEF old
  <2>2. /\ Free_tag(old.name, old.any) \in Delta
        /\ Free_tag(old.name, old.any)[x] = 0 - Cardinality(Uses(o, p, old, x))
        /\ IsFiniteSet(Uses(o, p, old, x))
    BY TagFacts DEF old
  <2> QED BY <2>1, <2>2, FS_CardinalityType
<1>5. CASE val.is \in {"code", "list"}
  <2> DEFINE arg == IF val.is = "list" THEN new["dimension"] ELSE NULL
             hook == single_hook_fill(val, arg)
             tag == [name |-> "Dimension", any |-> [is |-> "hook", hook |-> hook]]
             U == Uses(o, p, tag, x)
  <2>1. arg \in Arrays \cup {NULL}
    BY DEF NewArrays, Lists
  <2>2. val.sub \in Subs
    BY <1>5 DEF Held
  <2> HIDE DEF arg
  <2>3. hook \in Hook
    BY <1>5, <2>1, <2>2, FillFacts DEF Fillable
  <2>4. hook.sub # NULL
    BY <1>5, <2>2, TagsAssumption DEF single_hook_fill
  <2>5. set = Ended("update", [is |-> "hook", hook |-> hook],
                    Together(single_hook_ref(hook), Free_tag("Dimension", any)))
    BY <1>1, <1>5 DEF Dimension_Set, IsDimension, arg
  <2> HIDE DEF hook
  <2>6. tag \in Tag
    BY <2>3, <2>4 DEF Tag, TagOK, Contents, TagNames
  <2>7. U = Has(hook, x, <<o, p, "Dimension", "dimension">>)
    <3>1. tag.name = "Dimension" /\ tag.any.is = "hook" /\ tag.any.hook = hook
      OBVIOUS
    <3> HIDE DEF tag
    <3> QED BY <3>1, OneUse
  <2>8. /\ single_hook_ref(hook) \in Delta
        /\ single_hook_ref(hook)[x] = Cardinality(U)
    BY <2>3, <2>7, RefFacts
  <2>9. Cardinality(U) \in Nat
    BY <2>7, HasFacts
  <2> HIDE DEF U
  <2>10. /\ Together(single_hook_ref(hook), Free_tag("Dimension", any)) \in Delta
        /\ Together(single_hook_ref(hook), Free_tag("Dimension", any))[x]
             = Cardinality(U) - Cardinality(Uses(o, p, old, x))
    BY <1>4, <2>8, <2>9, TogetherFacts
  <2>11. /\ set.rv = "update" /\ set.any = tag.any
         /\ set.by = Together(single_hook_ref(hook), Free_tag("Dimension", any))
    BY <2>5 DEF Ended
  <2> QED BY <2>6, <2>10, <2>11 DEF SetRight, U
<1>6. CASE val.is \in {"flexible", "fixed", "member"} /\ IsDimension(w, val)
  <2> DEFINE tag == [name |-> "Dimension", any |-> val]
             U == Uses(o, p, tag, x)
  <2>1. set = Ended("update", val, Free_tag("Dimension", any))
    BY <1>1, <1>6 DEF Dimension_Set
  <2>2. tag \in Tag
    BY <1>6 DEF Tag, TagOK, Contents, TagNames
  <2>3. HooksOf(tag) = << >>
    BY <1>6 DEF HooksOf
  <2>4. Cardinality(U) = 0
    BY <2>3, NoUses
  <2> HIDE DEF U
  <2>5. set.rv = "update" /\ set.any = val /\ set.by = Free_tag("Dimension", any)
    BY <2>1 DEF Ended
  <2> QED BY <1>4, <2>2, <2>4, <2>5 DEF SetRight, U
<1> QED BY <1>2, <1>3, <1>5, <1>6 DEF IsDimension

LEMMA StringSetFacts ==
  ASSUME NEW c \in Calls, c.name \in {"Format", "ByteOrder"}, NEW any,
         [name |-> c.name, any |-> any] \in Tag,
         NEW o, NEW p, NEW x \in Counted
  PROVE  SetRight(String_Set(c.name, any, c.val), c.name, any, o, p, x)
<1> DEFINE set == String_Set(c.name, any, c.val)
<1>1. CASE c.val = Undef
  <2>1. set = Ended("delete", any, NoChange)
    BY <1>1 DEF String_Set, Undef
  <2> QED BY <2>1, LeftAlone
<1>2. CASE c.val # Undef /\ ~(c.val.is = "string" /\ c.val.string \in Strings[c.name])
  <2>1. set = Ended("croak", any, NoChange)
    BY <1>2 DEF String_Set
  <2> QED BY <2>1, LeftAlone
<1>3. CASE c.val # Undef /\ c.val.is = "string" /\ c.val.string \in Strings[c.name]
  <2>1. set = Ended("update", c.val, NoChange)
    BY <1>3 DEF String_Set, Undef
  <2> DEFINE tag == [name |-> c.name, any |-> c.val]
             old == [name |-> c.name, any |-> any]
  <2>2. tag \in Tag
    BY DEF Tag, TagOK, Contents, TagNames
  <2>3. HooksOf(tag) = << >> /\ HooksOf(old) = << >>
    BY DEF HooksOf
  <2>4. Cardinality(Uses(o, p, tag, x)) = 0 /\ Cardinality(Uses(o, p, old, x)) = 0
    <3> HIDE DEF tag, old
    <3> QED BY <2>3, NoUses
  <2>5. set.rv = "update" /\ set.any = c.val /\ set.by = NoChange
    BY <2>1 DEF Ended
  <2>6. NoChange \in Delta /\ NoChange[x] = 0
    BY DEF NoChange, Delta
  <2>7. 0 - 0 = 0
    OBVIOUS
  <2> QED BY <2>2, <2>4, <2>5, <2>6, <2>7 DEF SetRight
<1> QED BY <1>1, <1>2, <1>3

LEMMA SetFacts ==
  ASSUME NEW c \in Calls, NEW any, [name |-> c.name, any |-> any] \in Tag, NEW w,
         script \subseteq Subs, Held(c.val), NEW new \in NewArrays(c.val),
         NEW o, NEW p, NEW x \in Counted
  PROVE  SetRight(IF Verified(w, c.name) THEN Tag_Set(w, c.name, any, c.val, new)
                  ELSE Ended("croak", any, NoChange), c.name, any, o, p, x)
<1>1. c.name \in TagNames
  BY TagsAssumption
<1>2. CASE ~Verified(w, c.name)
  BY <1>2, LeftAlone
<1>3. CASE Verified(w, c.name) /\ c.name = "Hooks"
  BY <1>3, HooksSetFacts DEF Tag_Set
<1>4. CASE Verified(w, c.name) /\ c.name = "Dimension"
  BY <1>4, DimensionSetFacts DEF Tag_Set
<1>5. CASE Verified(w, c.name) /\ c.name \in {"Format", "ByteOrder"}
  <2>1. Tag_Set(w, c.name, any, c.val, new) = String_Set(c.name, any, c.val)
    BY <1>5 DEF Tag_Set
  <2> QED BY <1>5, <2>1, StringSetFacts
<1> QED BY <1>1, <1>2, <1>3, <1>4, <1>5 DEF TagNames

-----------------------------------------------------------------------------
(* Lists of tags.                                                          *)

\* No two tags of a list have the same name.
List == {list \in Seq(Tag) :
           \A i, j \in 1 .. Len(list) : list[i].name = list[j].name => i = j}

TagsOf(list) == {list[i] : i \in 1 .. Len(list)}
Without(tags, name) == {tag \in tags : tag.name # name}

\* The references that tags make, and those of a list.
UsesAll(o, p, tags, x) == UNION {Uses(o, p, tag, x) : tag \in tags}
UsesOf(o, p, list, x)  == UsesAll(o, p, TagsOf(list), x)

\* Those of them that the tag called name makes, and the others.
Named(uses, name)  == {u \in uses : u[3] = name}
Others(uses, name) == {u \in uses : u[3] # name}

\* A reference names its tag, and so there is no other that makes it.
LEMMA UsesFacts ==
  ASSUME NEW o, NEW p, NEW tag \in Tag, NEW x, NEW u \in Uses(o, p, tag, x)
  PROVE  /\ u[1] = o /\ u[2] = p /\ u[3] = tag.name
         /\ u[4] \in HookIds \cup {"dimension"} /\ u[4] \in Users(tag, x)
         /\ u = <<u[1], u[2], u[3], u[4]>>
<1>1. PICK h \in Users(tag, x) : u = <<o, p, tag.name, h>>
  BY DEF Uses
<1>2. DOMAIN HooksOf(tag) \subseteq HookIds \cup {"dimension"}
  <2>1. CASE tag.name = "Hooks"
    BY <2>1 DEF HooksOf, Tag, TagOK
  <2>2. CASE tag.name = "Dimension" /\ tag.any.is = "hook"
    BY <2>2 DEF HooksOf
  <2>3. CASE tag.name # "Hooks" /\ ~(tag.name = "Dimension" /\ tag.any.is = "hook")
    <3>1. HooksOf(tag) = << >>
      BY <2>3 DEF HooksOf
    <3> QED BY <3>1
  <2> QED BY <2>1, <2>2, <2>3
<1> QED BY <1>1, <1>2 DEF Users

\* Deleting and copying a list count the references that its tags make.
LEMMA ListFacts ==
  ASSUME NEW list \in List, NEW x \in Counted, NEW o, NEW p
  PROVE  LET U == UsesOf(o, p, list, x)
         IN  /\ delete_taglist(list) \in Delta /\ clone_taglist(list) \in Delta
             /\ IsFiniteSet(U)
             /\ delete_taglist(list)[x] = 0 - Cardinality(U)
             /\ clone_taglist(list)[x] = Cardinality(U)
<1> DEFINE n == Len(list)
           U == UsesOf(o, p, list, x)
           f == [i \in 1 .. n |-> Free_tag(list[i].name, list[i].any)]
           c == [i \in 1 .. n |-> Clone_tag(list[i])]
           P == [i \in 1 .. n |-> Uses(o, p, list[i], x)]
           N == [i \in 1 .. n |-> {}]
<1>1. n \in Nat /\ \A i \in 1 .. n : list[i] \in Tag
  BY DEF List
<1>2. f \in [1 .. n -> Delta] /\ c \in [1 .. n -> Delta]
  BY <1>1, TagFacts
<1>3. \A i \in 1 .. n : /\ IsFiniteSet(P[i])
                        /\ c[i][x] = Cardinality(P[i])
                        /\ f[i][x] = 0 - Cardinality(P[i])
                        /\ Cardinality(P[i]) \in Nat
  BY <1>1, TagFacts, FS_CardinalityType
<1>4. \A i \in 1 .. n : N[i] = {} /\ IsFiniteSet(N[i]) /\ Cardinality(N[i]) = 0
  BY FS_EmptySet
<1>5. Disjoint(P, 1 .. n) /\ Disjoint(N, 1 .. n)
  <2>1. ASSUME NEW i \in 1 .. n, NEW j \in 1 .. n, i # j PROVE P[i] \cap P[j] = {}
    <3>1. list[i].name # list[j].name
      BY <2>1 DEF List
    <3>2. \A u \in P[i] : u[3] = list[i].name
      BY <1>1, UsesFacts
    <3>3. \A u \in P[j] : u[3] = list[j].name
      BY <1>1, UsesFacts
    <3> QED BY <3>1, <3>2, <3>3
  <2> QED BY <2>1 DEF Disjoint
<1>6. Whole(P, 1 .. n) = U /\ Whole(N, 1 .. n) = {}
  BY DEF Whole, UsesOf, UsesAll, TagsOf
<1>7. delete_taglist(list) = Total(f) /\ clone_taglist(list) = Total(c)
  BY DEF delete_taglist, clone_taglist
<1> HIDE DEF f, c, P, N, n, U
<1>8. Counts(c, P, N, 1 .. n, x) /\ Counts(f, N, P, 1 .. n, x)
  BY <1>3, <1>4 DEF Counts
<1>9. /\ Total(c) \in Delta /\ IsFiniteSet(Whole(P, 1 .. n))
      /\ Total(c)[x] = Cardinality(Whole(P, 1 .. n)) - Cardinality(Whole(N, 1 .. n))
  BY <1>1, <1>2, <1>5, <1>8, TotalCounts
<1>10. /\ Total(f) \in Delta
       /\ Total(f)[x] = Cardinality(Whole(N, 1 .. n)) - Cardinality(Whole(P, 1 .. n))
  BY <1>1, <1>2, <1>5, <1>8, TotalCounts
<1>11. Cardinality(Whole(N, 1 .. n)) = 0
  BY <1>6, FS_EmptySet
<1>12. IsFiniteSet(U) /\ Cardinality(U) \in Nat /\ Cardinality(Whole(P, 1 .. n)) = Cardinality(U)
  BY <1>6, <1>9, FS_CardinalityType
<1> QED BY <1>7, <1>9, <1>10, <1>11, <1>12 DEF U

\* The references of a list that has all tags of another one, but for those called
\* name, and in addition those in add.
LEMMA ListUses ==
  ASSUME NEW list \in List, NEW left \in List, NEW name, NEW add \in SUBSET Tag,
         TagsOf(left) = Without(TagsOf(list), name) \cup add,
         NEW o, NEW p, NEW x
  PROVE  UsesOf(o, p, left, x)
           = Others(UsesOf(o, p, list, x), name) \cup UsesAll(o, p, add, x)
<1> DEFINE tags == TagsOf(list)
           rest == Without(tags, name)
<1>1. tags \subseteq Tag
  BY DEF List, TagsOf
<1>2. UsesOf(o, p, list, x) = UsesAll(o, p, tags, x)
        /\ UsesOf(o, p, left, x) = UsesAll(o, p, rest \cup add, x)
  BY DEF UsesOf
<1> HIDE DEF tags
<1>3. \A t \in tags : \A u \in Uses(o, p, t, x) : u[3] = t.name
  BY <1>1, UsesFacts
<1>4. UsesAll(o, p, rest, x) = Others(UsesAll(o, p, tags, x), name)
  BY <1>3 DEF UsesAll, Without, Others
<1>5. UsesAll(o, p, rest \cup add, x) = UsesAll(o, p, rest, x) \cup UsesAll(o, p, add, x)
  BY DEF UsesAll
<1> QED BY <1>2, <1>4, <1>5

\* insert_tag replaces the tag of the same name, or puts the first one in.
LEMMA WithTags ==
  ASSUME NEW list \in List, NEW name, NEW any, [name |-> name, any |-> any] \in Tag
  PROVE  LET left == With_tag(list, name, any)
         IN  /\ left \in List
             /\ TagsOf(left) = Without(TagsOf(list), name) \cup {[name |-> name, any |-> any]}
<1> DEFINE left == With_tag(list, name, any)
           tag == [name |-> name, any |-> any]
<1>1. list \in Seq(Tag) /\ Len(list) \in Nat /\ DOMAIN list = 1 .. Len(list)
        /\ \A i \in 1 .. Len(list) : list[i] \in Tag
  BY DEF List
<1>2. left \in List /\ TagsOf(left) = Without(TagsOf(list), name) \cup {tag}
  <2>1. CASE find_tag(list, name) = {}
    <3>1. left = <<tag>> \o list
      BY <2>1 DEF With_tag
    <3> HIDE DEF left, tag
    <3>2. /\ left \in Seq(Tag) /\ Len(left) = Len(list) + 1
          /\ left[1] = tag
          /\ \A i \in 1 .. Len(list) : left[i + 1] = list[i]
      BY <1>1, <3>1 DEF tag
    <3>3. \A i \in 1 .. Len(list) : list[i].name # name
      BY <1>1, <2>1 DEF find_tag
    <3>4. tag.name = name
      BY DEF tag
    <3>5. \A i \in 1 .. Len(left) : i = 1 \/ (i - 1 \in 1 .. Len(list) /\ left[i] = list[i - 1])
      BY <1>1, <3>2
    <3>6. left \in List
      <4>1. ASSUME NEW i \in 1 .. Len(left), NEW j \in 1 .. Len(left), left[i].name = left[j].name
            PROVE  i = j
        <5>1. CASE i = 1 /\ j # 1
          BY <3>2, <3>3, <3>4, <3>5, <4>1, <5>1
        <5>2. CASE j = 1 /\ i # 1
          BY <3>2, <3>3, <3>4, <3>5, <4>1, <5>2
        <5>3. CASE i # 1 /\ j # 1
          <6>1. i - 1 = j - 1
            BY <3>5, <4>1, <5>3, SMTT(60) DEF List
          <6> QED BY <6>1
        <5> QED BY <5>1, <5>2, <5>3
      <4> QED BY <3>2, <4>1 DEF List
    <3>7. 1 \in 1 .. Len(left) /\ \A i \in 1 .. Len(list) : i + 1 \in 1 .. Len(left)
      BY <1>1, <3>2
    <3>8. TagsOf(left) = TagsOf(list) \cup {tag}
      <4>1. ASSUME NEW t \in {left[i] : i \in 1 .. Len(left)}
            PROVE  t \in {list[i] : i \in 1 .. Len(list)} \cup {tag}
        BY <3>2, <3>5
      <4>2. ASSUME NEW i \in 1 .. Len(list) PROVE list[i] \in {left[k] : k \in 1 .. Len(left)}
        BY <3>2, <3>7
      <4>3. tag \in {left[k] : k \in 1 .. Len(left)}
        BY <3>2, <3>7
      <4> QED BY <4>1, <4>2, <4>3 DEF TagsOf
    <3>9. Without(TagsOf(list), name) = TagsOf(list)
      BY <3>3 DEF Without, TagsOf
    <3> QED BY <3>6, <3>8, <3>9
  <2>2. CASE find_tag(list, name) # {}
    <3>1. PICK k \in 1 .. Len(list) : list[k].name = name
      BY <1>1, <2>2 DEF find_tag
    <3>2. \A i \in 1 .. Len(list) : i # k => list[i].name # name
      BY <3>1, SMTT(60) DEF List
    <3>3. left = [i \in 1 .. Len(list) |-> IF list[i].name = name THEN tag ELSE list[i]]
      BY <1>1, <2>2 DEF With_tag
    <3>4. left = [i \in 1 .. Len(list) |-> IF i = k THEN tag ELSE list[i]]
      BY <3>1, <3>2, <3>3
    <3>5. tag.name = name /\ tag \in Tag
      OBVIOUS
    <3> HIDE DEF left, tag
    <3>6. left \in Seq(Tag) /\ Len(left) = Len(list) /\ left[k] = tag
            /\ \A i \in 1 .. Len(list) : i # k => left[i] = list[i]
      BY <1>1, <3>4, <3>5
    <3>7. left \in List
      BY <3>1, <3>2, <3>5, <3>6 DEF List
    <3>8. TagsOf(left) = Without(TagsOf(list), name) \cup {tag}
      BY <3>1, <3>2, <3>5, <3>6 DEF TagsOf, Without
    <3> QED BY <3>7, <3>8
  <2> QED BY <2>1, <2>2
<1> QED BY <1>2

LEMMA WithFacts ==
  ASSUME NEW list \in List, NEW name, NEW any, [name |-> name, any |-> any] \in Tag,
         NEW o, NEW p, NEW x
  PROVE  LET left == With_tag(list, name, any)
         IN  /\ left \in List
             /\ UsesOf(o, p, left, x) = Others(UsesOf(o, p, list, x), name)
                                          \cup Uses(o, p, [name |-> name, any |-> any], x)
<1> DEFINE left == With_tag(list, name, any)
           tag == [name |-> name, any |-> any]
<1>1. left \in List /\ TagsOf(left) = Without(TagsOf(list), name) \cup {tag}
  BY WithTags
<1>2. UsesAll(o, p, {tag}, x) = Uses(o, p, tag, x)
  BY DEF UsesAll
<1>3. {tag} \in SUBSET Tag
  OBVIOUS
<1> HIDE DEF left, tag
<1>4. UsesOf(o, p, left, x)
        = Others(UsesOf(o, p, list, x), name) \cup UsesAll(o, p, {tag}, x)
  BY <1>1, <1>3, ListUses
<1> QED BY <1>1, <1>2, <1>4 DEF left, tag

\* remove_tag takes out the tag of that name, if there is one.
LEMMA RemoveTags ==
  ASSUME NEW list \in List, NEW name
  PROVE  LET left == remove_tag(list, name)
         IN  left \in List /\ TagsOf(left) = Without(TagsOf(list), name)
<1> DEFINE left == remove_tag(list, name)
           n == Len(list)
<1>1. list \in Seq(Tag) /\ n \in Nat /\ DOMAIN list = 1 .. n /\ \A i \in 1 .. n : list[i] \in Tag
  BY DEF List
<1>2. left \in List /\ TagsOf(left) = Without(TagsOf(list), name) \cup {}
  <2>1. CASE find_tag(list, name) = {}
    <3>1. left = list
      BY <2>1 DEF remove_tag
    <3>2. \A i \in 1 .. n : list[i].name # name
      BY <1>1, <2>1 DEF find_tag
    <3> QED BY <3>1, <3>2 DEF TagsOf, Without
  <2>2. CASE find_tag(list, name) # {}
    <3> DEFINE k == CHOOSE i \in find_tag(list, name) : TRUE
    <3>1. k \in 1 .. n /\ list[k].name = name
      BY <1>1, <2>2 DEF find_tag
    <3>2. left = RemoveAt(list, k)
      BY <2>2 DEF remove_tag
    <3> HIDE DEF k, left
    <3>3. \A i \in 1 .. n : i # k => list[i].name # name
      BY <3>1 DEF List
    <3>4. left = SubSeq(list, 1, k - 1) \o SubSeq(list, k + 1, n)
      BY <3>2 DEF RemoveAt
    <3> DEFINE a == SubSeq(list, 1, k - 1)
               b == SubSeq(list, k + 1, n)
    <3>5. left = a \o b
      BY <3>4
    <3>6. /\ a \in Seq(Tag) /\ Len(a) = k - 1
          /\ \A i \in 1 .. k - 1 : a[i] = list[i]
      <4>1. 1 \in Int /\ k - 1 \in Int /\ \A i \in 1 .. k - 1 : list[i] \in Tag
        BY <1>1, <3>1
      <4>2. /\ a \in Seq(Tag) /\ Len(a) = IF 1 <= k - 1 THEN (k - 1) - 1 + 1 ELSE 0
            /\ \A i \in 1 .. (k - 1) - 1 + 1 : a[i] = list[1 + i - 1]
        BY <4>1, SubSeqProperties
      <4> HIDE DEF a
      <4> QED BY <3>1, <4>2
    <3>7. /\ b \in Seq(Tag) /\ Len(b) = n - k
           /\ \A i \in 1 .. n - k : b[i] = list[k + i]
      <4>1. k + 1 \in Int /\ n \in Int /\ \A i \in k + 1 .. n : list[i] \in Tag
        BY <1>1, <3>1
      <4>2. /\ b \in Seq(Tag) /\ Len(b) = IF k + 1 <= n THEN n - (k + 1) + 1 ELSE 0
            /\ \A i \in 1 .. n - (k + 1) + 1 : b[i] = list[(k + 1) + i - 1]
        BY <4>1, SubSeqProperties
      <4> HIDE DEF b
      <4>3. Len(b) = n - k
        <5>1. n \in Nat /\ k \in Nat /\ k <= n
          BY <1>1, <3>1
        <5>2. (k + 1 <= n => n - (k + 1) + 1 = n - k) /\ (~(k + 1 <= n) => 0 = n - k)
          BY <5>1
        <5> QED BY <4>2, <5>2
      <4>4. n - (k + 1) + 1 = n - k /\ \A i \in 1 .. n - k : (k + 1) + i - 1 = k + i
        BY <1>1, <3>1
      <4>5. \A i \in 1 .. n - k : b[i] = list[k + i]
        BY <4>2, <4>4
      <4> QED BY <4>2, <4>3, <4>5
    <3> HIDE DEF a, b
    <3>8. /\ a \o b \in Seq(Tag) /\ Len(a \o b) = Len(a) + Len(b)
           /\ \A i \in 1 .. Len(a) + Len(b) : (a \o b)[i] = IF i <= Len(a) THEN a[i] ELSE b[i - Len(a)]
      BY <3>6, <3>7, ConcatProperties
    <3>9. left \in Seq(Tag) /\ Len(left) = n - 1
      BY <1>1, <3>1, <3>5, <3>6, <3>7, <3>8
    <3>10. \A i \in 1 .. n - 1 : left[i] = IF i < k THEN list[i] ELSE list[i + 1]
      <4> SUFFICES ASSUME NEW i \in 1 .. n - 1
                   PROVE  left[i] = IF i < k THEN list[i] ELSE list[i + 1]
        OBVIOUS
      <4>1. left[i] = IF i <= k - 1 THEN a[i] ELSE b[i - (k - 1)]
        BY <1>1, <3>1, <3>5, <3>6, <3>7, <3>8
      <4>2. CASE i < k
        BY <1>1, <3>1, <3>6, <4>1, <4>2
      <4>3. CASE ~(i < k)
        <5>1. i - (k - 1) \in 1 .. n - k /\ k + (i - (k - 1)) = i + 1 /\ ~(i <= k - 1)
          BY <1>1, <3>1, <4>3
        <5> QED BY <3>7, <4>1, <4>3, <5>1
      <4> QED BY <4>2, <4>3
    <3>11. left \in List
      <4>1. ASSUME NEW i \in 1 .. n - 1, NEW j \in 1 .. n - 1, left[i].name = left[j].name
            PROVE  i = j
        <5> DEFINE fst == IF i < k THEN i ELSE i + 1
                   snd == IF j < k THEN j ELSE j + 1
        <5>1. fst \in 1 .. n /\ snd \in 1 .. n /\ left[i] = list[fst] /\ left[j] = list[snd]
          BY <1>1, <3>1, <3>10
        <5>2. fst = snd
          BY <4>1, <5>1 DEF List
        <5> QED BY <3>1, <5>2
      <4> QED BY <3>9, <4>1 DEF List
    <3>12. TagsOf(left) = Without(TagsOf(list), name)
      <4>1. ASSUME NEW i \in 1 .. n - 1
            PROVE  \E j \in 1 .. n : j # k /\ left[i] = list[j]
        BY <1>1, <3>1, <3>10
      <4>2. ASSUME NEW j \in 1 .. n, j # k
            PROVE  \E i \in 1 .. n - 1 : left[i] = list[j]
        <5>1. CASE j < k
          BY <1>1, <3>1, <3>10, <5>1
        <5>2. CASE j > k
          <6>1. j - 1 \in 1 .. n - 1 /\ ~(j - 1 < k) /\ (j - 1) + 1 = j
            BY <1>1, <3>1, <5>2
          <6>2. left[j - 1] = list[(j - 1) + 1]
            BY <3>10, <6>1
          <6> QED BY <6>1, <6>2
        <5> QED BY <3>1, <4>2, <5>1, <5>2
      <4>3. ASSUME NEW t \in {left[i] : i \in 1 .. n - 1}
            PROVE  t \in {list[i] : i \in 1 .. n} /\ t.name # name
        BY <3>3, <4>1
      <4>4. ASSUME NEW t \in {list[i] : i \in 1 .. n}, t.name # name
            PROVE  t \in {left[i] : i \in 1 .. n - 1}
        BY <3>1, <4>2, <4>4
      <4> QED BY <3>9, <4>3, <4>4 DEF TagsOf, Without
    <3> QED BY <3>11, <3>12
  <2> QED BY <2>1, <2>2
<1> QED BY <1>2

LEMMA RemoveFacts ==
  ASSUME NEW list \in List, NEW name, NEW o, NEW p, NEW x
  PROVE  LET left == remove_tag(list, name)
         IN  /\ left \in List
             /\ UsesOf(o, p, left, x) = Others(UsesOf(o, p, list, x), name)
<1> DEFINE left == remove_tag(list, name)
<1>1. left \in List /\ TagsOf(left) = Without(TagsOf(list), name) \cup {}
  BY RemoveTags
<1>2. UsesAll(o, p, {}, x) = {}
  BY DEF UsesAll
<1> HIDE DEF left
<1>3. UsesOf(o, p, left, x)
        = Others(UsesOf(o, p, list, x), name) \cup UsesAll(o, p, {}, x)
  <2>1. {} \in SUBSET Tag
    OBVIOUS
  <2> QED BY <1>1, <2>1, ListUses
<1> QED BY <1>1, <1>2, <1>3 DEF left

\* The tag that handle_tag sets: one of the list or, if that has none, a new one.
TagToSet(list, name) ==
  [name |-> name,
   any  |-> IF find_tag(list, name) = {} THEN tag_new(name)
            ELSE list[CHOOSE i \in find_tag(list, name) : TRUE].any]

LEMMA FindFacts ==
  ASSUME NEW list \in List, NEW name \in TagNames, NEW o, NEW p, NEW x
  PROVE  /\ TagToSet(list, name) \in Tag
         /\ x \in Counted =>
              /\ Named(UsesOf(o, p, list, x), name) = Uses(o, p, TagToSet(list, name), x)
              /\ find_tag(list, name) = {} => Uses(o, p, TagToSet(list, name), x) = {}
<1> DEFINE old == find_tag(list, name)
           k == CHOOSE i \in old : TRUE
           any == IF old = {} THEN tag_new(name) ELSE list[k].any
           tag == [name |-> name, any |-> any]
           before == Uses(o, p, tag, x)
<1>0. tag = TagToSet(list, name)
  BY DEF TagToSet
<1>1. Len(list) \in Nat /\ DOMAIN list = 1 .. Len(list) /\ \A i \in 1 .. Len(list) : list[i] \in Tag
  BY DEF List
<1>2. \A i \in 1 .. Len(list) : \A u \in Uses(o, p, list[i], x) : u[3] = list[i].name
  BY <1>1, UsesFacts
<1>3. CASE old = {}
  <2>1. any = tag_new(name)
    BY <1>3
  <2> HIDE DEF any
  <2>2. tag \in Tag
    <3>1. NoHooks \in [HookIds -> Hook] /\ NoDim.is # "hook"
      BY DEF NoHooks, NoHook, Hook, NoDim
    <3>2. any \in Contents
      BY <2>1, <3>1 DEF tag_new, TagNames, Contents
    <3>3. name = "Hooks" => any = NoHooks
      BY <2>1 DEF tag_new
    <3>4. name = "Dimension" => any = NoDim
      BY <2>1 DEF tag_new
    <3> QED BY <3>1, <3>2, <3>3, <3>4 DEF Tag, TagOK
  <2>3. x \in Counted => before = {}
    <3> SUFFICES ASSUME x \in Counted PROVE before = {}
      OBVIOUS
    <3>1. CASE name = "Hooks"
      <4>1. HooksOf(tag) = NoHooks
        BY <2>1, <3>1 DEF HooksOf, tag_new
      <4>2. Users(tag, x) = {}
        BY <4>1, TagsAssumption DEF Users, NoHooks, NoHook, Counted
      <4> QED BY <4>2 DEF Uses
    <3>2. CASE name # "Hooks"
      <4>1. HooksOf(tag) = << >>
        BY <2>1, <3>2 DEF HooksOf, tag_new, NoDim
      <4> HIDE DEF tag
      <4> QED BY <4>1, NoUses
    <3> QED BY <3>1, <3>2
  <2>4. Named(UsesOf(o, p, list, x), name) = {}
    <3>1. \A i \in 1 .. Len(list) : list[i].name # name
      BY <1>1, <1>3 DEF find_tag
    <3> QED BY <1>2, <3>1 DEF Named, UsesOf, UsesAll, TagsOf
  <2> HIDE DEF before, tag
  <2> QED BY <1>0, <2>2, <2>3, <2>4 DEF before, any
<1>4. CASE old # {}
  <2>1. k \in 1 .. Len(list) /\ list[k].name = name
    BY <1>1, <1>4 DEF find_tag
  <2> HIDE DEF k
  <2>2. any = list[k].any
    BY <1>4
  <2>3. list[k] \in Tag
    BY <1>1, <2>1
  <2>4. tag = list[k]
    BY <2>1, <2>2, <2>3 DEF Tag
  <2> HIDE DEF any, tag
  <2>5. \A i \in 1 .. Len(list) : list[i].name = name => i = k
    BY <2>1 DEF List
  <2>6. Named(UsesOf(o, p, list, x), name) = Uses(o, p, list[k], x)
    BY <1>2, <2>1, <2>5 DEF Named, UsesOf, UsesAll, TagsOf
  <2> QED BY <1>0, <1>4, <2>3, <2>4, <2>6 DEF any, k
<1> QED BY <1>3, <1>4

-----------------------------------------------------------------------------
(* Objects.                                                                *)

TagLists == [Places -> List]
Object   == [exists : {TRUE}, parsed : BOOLEAN, tags : TagLists]

\* The references that an object makes, by its tags at some places.
UsesAt(o, places, tags, x) == UNION {UsesOf(o, p, tags[p], x) : p \in places}
UsesBy(o, obj, x) == IF obj.exists THEN UsesAt(o, Places, obj.tags, x) ELSE {}

LEMMA UsesOfFacts ==
  ASSUME NEW o, NEW p, NEW list \in List, NEW x, NEW u \in UsesOf(o, p, list, x)
  PROVE  /\ u[1] = o /\ u[2] = p /\ u[3] \in TagNames
         /\ u[4] \in HookIds \cup {"dimension"}
         /\ u = <<u[1], u[2], u[3], u[4]>>
         /\ \E i \in find_tag(list, u[3]) : u[4] \in Users(list[i], x)
<1>1. PICK i \in 1 .. Len(list) : u \in Uses(o, p, list[i], x)
  BY DEF UsesOf, UsesAll, TagsOf
<1>2. list[i] \in Tag /\ i \in DOMAIN list
  BY DEF List
<1>3. /\ u[1] = o /\ u[2] = p /\ u[3] = list[i].name
      /\ u[4] \in HookIds \cup {"dimension"} /\ u[4] \in Users(list[i], x)
      /\ u = <<u[1], u[2], u[3], u[4]>>
  BY <1>1, <1>2, UsesFacts
<1>4. list[i].name \in TagNames
  BY <1>2 DEF Tag
<1>5. i \in find_tag(list, u[3])
  BY <1>2, <1>3 DEF find_tag
<1> QED BY <1>3, <1>4, <1>5

\* Deleting and copying the lists of several places count what their tags make.
LEMMA PlacesFacts ==
  ASSUME NEW places \in SUBSET Places, NEW tags \in TagLists, NEW x \in Counted, NEW o
  PROVE  LET f == ForAll(places, [p \in places |-> delete_taglist(tags[p])])
             c == ForAll(places, [p \in places |-> clone_taglist(tags[p])])
             U == UsesAt(o, places, tags, x)
         IN  /\ f \in Delta /\ c \in Delta
             /\ IsFiniteSet(U)
             /\ f[x] = 0 - Cardinality(U)
             /\ c[x] = Cardinality(U)
<1> DEFINE f == [p \in places |-> delete_taglist(tags[p])]
           c == [p \in places |-> clone_taglist(tags[p])]
           P == [p \in places |-> UsesOf(o, p, tags[p], x)]
           N == [p \in places |-> {}]
           U == UsesAt(o, places, tags, x)
<1>1. IsFiniteSet(places) /\ \A p \in places : tags[p] \in List
  BY TagsAssumption, FS_Subset DEF TagLists
<1>2. f \in [places -> Delta] /\ c \in [places -> Delta]
  BY <1>1, ListFacts
<1>3. \A p \in places : /\ IsFiniteSet(P[p])
                        /\ c[p][x] = Cardinality(P[p])
                        /\ f[p][x] = 0 - Cardinality(P[p])
                        /\ Cardinality(P[p]) \in Nat
  BY <1>1, ListFacts, FS_CardinalityType
<1>4. \A p \in places : N[p] = {} /\ IsFiniteSet(N[p]) /\ Cardinality(N[p]) = 0
  BY FS_EmptySet
<1>5. Disjoint(P, places) /\ Disjoint(N, places)
  <2>1. ASSUME NEW p \in places, NEW q \in places, p # q PROVE P[p] \cap P[q] = {}
    <3>1. \A u \in P[p] : u[2] = p
      BY <1>1, UsesOfFacts
    <3>2. \A u \in P[q] : u[2] = q
      BY <1>1, UsesOfFacts
    <3> QED BY <2>1, <3>1, <3>2
  <2> QED BY <2>1 DEF Disjoint
<1>6. Whole(P, places) = U /\ Whole(N, places) = {}
  BY DEF Whole, UsesAt
<1> HIDE DEF f, c, P, N, U
<1>7. Counts(c, P, N, places, x) /\ Counts(f, N, P, places, x)
  BY <1>3, <1>4 DEF Counts
<1>8. /\ ForAll(places, c) \in Delta /\ IsFiniteSet(Whole(P, places))
      /\ ForAll(places, c)[x] = Cardinality(Whole(P, places)) - Cardinality(Whole(N, places))
  BY <1>1, <1>2, <1>5, <1>7, ForAllCounts
<1>9. /\ ForAll(places, f) \in Delta
      /\ ForAll(places, f)[x] = Cardinality(Whole(N, places)) - Cardinality(Whole(P, places))
  BY <1>1, <1>2, <1>5, <1>7, ForAllCounts
<1>10. Cardinality(Whole(N, places)) = 0
  BY <1>6, FS_EmptySet
<1>11. IsFiniteSet(U) /\ Cardinality(U) \in Nat /\ Cardinality(Whole(P, places)) = Cardinality(U)
  BY <1>6, <1>8, FS_CardinalityType
<1> QED BY <1>8, <1>9, <1>10, <1>11 DEF f, c, U

\* What Referring is made of, for the objects in ob.
LEMMA ReferringFacts ==
  ASSUME NEW ob \in [Objs -> Object \cup {NoObject}], NEW x
  PROVE  {u \in {o \in Objs : ob[o].exists} \X Places \X TagNames \X (HookIds \cup {"dimension"}) :
            LET list == ob[u[1]].tags[u[2]]
            IN  \E i \in find_tag(list, u[3]) : u[4] \in Users(list[i], x)}
           = UNION {UsesBy(o, ob[o], x) : o \in Objs}
<1> DEFINE E == {o \in Objs : ob[o].exists}
           Q == E \X Places \X TagNames \X (HookIds \cup {"dimension"})
           L == {u \in Q : LET list == ob[u[1]].tags[u[2]]
                           IN  \E i \in find_tag(list, u[3]) : u[4] \in Users(list[i], x)}
           R == UNION {UsesBy(o, ob[o], x) : o \in Objs}
<1>1. \A o \in E : ob[o].tags \in TagLists
  <2>1. \A o \in E : ob[o] \in Object
    BY DEF NoObject
  <2> QED BY <2>1 DEF Object
<1>2. ASSUME NEW u \in L PROVE u \in R
  <2>1. /\ u = <<u[1], u[2], u[3], u[4]>>
        /\ u[1] \in E /\ u[2] \in Places /\ u[3] \in TagNames
    OBVIOUS
  <2> DEFINE list == ob[u[1]].tags[u[2]]
  <2>2. list \in List
    BY <1>1, <2>1 DEF TagLists
  <2>3. PICK i \in find_tag(list, u[3]) : u[4] \in Users(list[i], x)
    OBVIOUS
  <2>4. i \in 1 .. Len(list) /\ list[i].name = u[3]
    <3> HIDE DEF list
    <3> QED BY <2>2, <2>3 DEF find_tag, List
  <2>5. u \in Uses(u[1], u[2], list[i], x)
    BY <2>1, <2>3, <2>4, SMTT(60) DEF Uses
  <2>6. u \in UsesOf(u[1], u[2], list, x)
    BY <2>4, <2>5 DEF UsesOf, UsesAll, TagsOf
  <2>7. u \in UsesBy(u[1], ob[u[1]], x)
    BY <2>1, <2>6 DEF UsesBy, UsesAt
  <2> QED BY <2>1, <2>7
<1>3. ASSUME NEW u \in R PROVE u \in L
  <2>1. PICK o \in Objs : u \in UsesBy(o, ob[o], x)
    OBVIOUS
  <2>2. o \in E
    BY <2>1 DEF UsesBy
  <2>3. PICK p \in Places : u \in UsesOf(o, p, ob[o].tags[p], x)
    BY <2>1 DEF UsesBy, UsesAt
  <2> DEFINE list == ob[o].tags[p]
  <2>4. list \in List
    BY <1>1, <2>2 DEF TagLists
  <2>5. /\ u[1] = o /\ u[2] = p /\ u[3] \in TagNames
        /\ u[4] \in HookIds \cup {"dimension"}
        /\ u = <<u[1], u[2], u[3], u[4]>>
        /\ \E i \in find_tag(list, u[3]) : u[4] \in Users(list[i], x)
    BY <2>3, <2>4, UsesOfFacts
  <2>6. u \in Q
    BY <2>2, <2>5
  <2> QED BY <2>5, <2>6
<1> QED BY <1>2, <1>3

-----------------------------------------------------------------------------
(* The invariant.                                                          *)

TypeOK ==
  /\ where \in [Exprs -> Info]
  /\ objs \in [Objs -> Object \cup {NoObject}]
  /\ refs \in Delta
  /\ script \subseteq Subs

\* The references are finitely many, and counted.
Inv == /\ TypeOK
       /\ \A x \in Counted : IsFiniteSet(Referring(x))
       /\ RefsCounted

\* Of the references before, some are lost, and new ones are added.
Exchanged(before, lost, added, after) ==
  /\ lost \subseteq before /\ added \cap (before \ lost) = {}
  /\ after = (before \ lost) \cup added

LEMMA CountStep ==
  ASSUME NEW before, NEW lost, NEW added, NEW after, Exchanged(before, lost, added, after),
         IsFiniteSet(before), IsFiniteSet(added)
  PROVE  /\ IsFiniteSet(after)
         /\ Cardinality(after) = Cardinality(before) - Cardinality(lost) + Cardinality(added)
         /\ Cardinality(after) \in Nat /\ Cardinality(before) \in Nat
         /\ Cardinality(lost) \in Nat /\ Cardinality(added) \in Nat
<1>1. /\ IsFiniteSet(before \ lost) /\ IsFiniteSet(lost)
      /\ Cardinality(before) \in Nat /\ Cardinality(lost) \in Nat
      /\ Cardinality(before \ lost) = Cardinality(before) - Cardinality(lost)
  BY WithoutFacts DEF Exchanged
<1> DEFINE rest == before \ lost
<1>2. rest \cap added = {}
  BY DEF Exchanged
<1>3. IsFiniteSet(rest) /\ after = rest \cup added
  BY <1>1 DEF Exchanged
<1> HIDE DEF rest
<1>4. /\ IsFiniteSet(rest \cup added)
      /\ Cardinality(added) \in Nat
      /\ Cardinality(rest \cup added) = Cardinality(rest) + Cardinality(added)
  BY <1>2, <1>3, ApartFacts
<1>5. IsFiniteSet(after) /\ Cardinality(after) \in Nat
  BY <1>3, <1>4, FS_CardinalityType
<1> QED BY <1>1, <1>3, <1>4, <1>5 DEF rest

\* If the object called o becomes obj, or the list of its place p becomes left, the
\* counts must change by this.
Tally(o, obj, by) ==
  \A x \in Counted : /\ IsFiniteSet(UsesBy(o, obj, x)) /\ IsFiniteSet(UsesBy(o, objs[o], x))
                     /\ by[x] = Cardinality(UsesBy(o, obj, x))
                                  - Cardinality(UsesBy(o, objs[o], x))
ListTally(o, p, left, by) ==
  \A x \in Counted : by[x] = Cardinality(UsesOf(o, p, left, x))
                               - Cardinality(UsesOf(o, p, objs[o].tags[p], x))

\* A step that changes one object, and the counts accordingly.
LEMMA ObjectStep ==
  ASSUME Inv, NEW o \in Objs, NEW obj \in Object \cup {NoObject}, NEW by \in Delta,
         objs' = [objs EXCEPT ![o] = obj], refs' = Together(refs, by), UNCHANGED <<where, script>>,
         Tally(o, obj, by)
  PROVE  Inv'
<1>1. TypeOK'
  BY TogetherFacts DEF Inv, TypeOK
<1>2. ASSUME NEW x \in Counted
      PROVE  /\ IsFiniteSet(Referring(x)')
             /\ refs'[x] = Cardinality(Referring(x)') + (IF x \in script' THEN 1 ELSE 0)
  <2> DEFINE by1(q) == UsesBy(q, objs[q], x)
             by2(q) == UsesBy(q, objs'[q], x)
  <2>1. Referring(x) = UNION {by1(q) : q \in Objs}
    BY ReferringFacts DEF Inv, TypeOK, Referring, Existing
  <2>2. Referring(x)' = UNION {by2(q) : q \in Objs}
    BY <1>1, ReferringFacts DEF TypeOK, Referring, Existing
  <2>3. \A q \in Objs : q # o => by2(q) = by1(q)
    BY DEF Inv, TypeOK
  <2>4. by2(o) = UsesBy(o, obj, x)
    BY DEF Inv, TypeOK
  <2>5. \A q \in Objs : \A u \in by1(q) \cup by2(q) : u[1] = q
    <3> SUFFICES ASSUME NEW q \in Objs, NEW ob \in {objs[q], objs'[q]}, NEW u \in UsesBy(q, ob, x)
                 PROVE  u[1] = q
      OBVIOUS
    <3>1. ob \in Object
      <4>1. ob \in Object \cup {NoObject} /\ ob.exists
        BY <1>1 DEF Inv, TypeOK, UsesBy
      <4> QED BY <4>1 DEF NoObject
    <3>2. PICK p \in Places : u \in UsesOf(q, p, ob.tags[p], x)
      BY DEF UsesBy, UsesAt
    <3>3. ob.tags[p] \in List
      BY <3>1 DEF Object, TagLists
    <3> QED BY <3>2, <3>3, UsesOfFacts
  <2> DEFINE before == Referring(x)
             after == Referring(x)'
             lost == by1(o)
             added == by2(o)
  <2>6. Exchanged(before, lost, added, after)
    <3>1. lost \subseteq before
      BY <2>1
    <3>2. \A u \in before \ lost : u[1] # o /\ u \in after
      BY <2>1, <2>2, <2>3, <2>5
    <3>3. \A u \in after : u \in added \/ (u[1] # o /\ u \in before)
      BY <2>1, <2>2, <2>3, <2>5
    <3>4. \A u \in lost \cup added : u[1] = o
      BY <2>5
    <3>5. added \subseteq after
      BY <2>2
    <3> HIDE DEF before, after, lost, added
    <3> QED BY <3>1, <3>2, <3>3, <3>4, <3>5 DEF Exchanged
  <2>7. IsFiniteSet(before) /\ IsFiniteSet(added)
    BY <2>4 DEF Inv, Tally
  <2>8. by[x] = Cardinality(added) - Cardinality(lost)
    BY <2>4 DEF Tally
  <2>9. refs[x] = Cardinality(before) + (IF x \in script THEN 1 ELSE 0)
    BY DEF Inv, RefsCounted
  <2>10. refs'[x] = refs[x] + by[x]
    BY TogetherFacts DEF Inv, TypeOK
  <2> HIDE DEF before, after, lost, added
  <2>11. /\ IsFiniteSet(after)
         /\ Cardinality(after) = Cardinality(before) - Cardinality(lost) + Cardinality(added)
         /\ Cardinality(after) \in Nat /\ Cardinality(before) \in Nat
         /\ Cardinality(lost) \in Nat /\ Cardinality(added) \in Nat
    BY <2>6, <2>7, CountStep
  <2>12. refs'[x] = Cardinality(after) + (IF x \in script THEN 1 ELSE 0)
    BY <2>8, <2>9, <2>10, <2>11
  <2> QED BY <2>11, <2>12 DEF after
<1> QED BY <1>1, <1>2 DEF Inv, RefsCounted

\* A step that changes the list of one place.
LEMMA ListStep ==
  ASSUME Inv, NEW o \in Existing, NEW p \in Places, NEW left \in List, NEW by \in Delta,
         objs' = [objs EXCEPT ![o].tags[p] = left], refs' = Together(refs, by),
         UNCHANGED <<where, script>>, ListTally(o, p, left, by)
  PROVE  Inv'
<1> DEFINE tags  == objs[o].tags
           new   == [tags EXCEPT ![p] = left]
           obj   == [objs[o] EXCEPT !.tags = new]
<1>1. o \in Objs /\ objs[o] \in Object
  <2>1. o \in Objs /\ objs[o].exists /\ objs[o] \in Object \cup {NoObject}
    BY DEF Existing, Inv, TypeOK
  <2> QED BY <2>1 DEF NoObject
<1>2. tags \in TagLists /\ new \in TagLists
  BY <1>1 DEF Object, TagLists
<1>3. obj \in Object /\ obj.tags = new /\ obj.exists
  BY <1>1, <1>2 DEF Object
<1>4. objs' = [objs EXCEPT ![o] = obj]
  BY <1>1 DEF Object, Inv, TypeOK
<1>5. \A x : UsesBy(o, obj, x) = UsesAt(o, Places, new, x)
  BY <1>3 DEF UsesBy
<1>6. \A x : UsesBy(o, objs[o], x) = UsesAt(o, Places, tags, x)
  BY DEF UsesBy, Existing
<1>7. /\ \A q \in Places : q # p => new[q] = tags[q]
      /\ new[p] = left
  BY <1>2 DEF TagLists
<1> HIDE DEF tags, new, obj
<1>8. ASSUME NEW x \in Counted
      PROVE  /\ IsFiniteSet(UsesBy(o, obj, x)) /\ IsFiniteSet(UsesBy(o, objs[o], x))
             /\ by[x] = Cardinality(UsesBy(o, obj, x)) - Cardinality(UsesBy(o, objs[o], x))
  <2> DEFINE before == UsesAt(o, Places, tags, x)
             after  == UsesAt(o, Places, new, x)
             lost   == UsesOf(o, p, tags[p], x)
             added  == UsesOf(o, p, left, x)
  <2>1. IsFiniteSet(before) /\ IsFiniteSet(after)
    <3>1. Places \in SUBSET Places
      OBVIOUS
    <3> QED BY <1>2, <3>1, PlacesFacts
  <2>2. IsFiniteSet(added)
    BY ListFacts
  <2>3. \A q \in Places : \A u \in UsesOf(o, q, tags[q], x) : u[2] = q
    BY <1>2, UsesOfFacts DEF TagLists
  <2>4. \A u \in added : u[2] = p
    BY UsesOfFacts
  <2>5. Exchanged(before, lost, added, after)
    <3>1. before = UNION {UsesOf(o, q, tags[q], x) : q \in Places}
      BY DEF UsesAt
    <3>2. after = UNION {UsesOf(o, q, new[q], x) : q \in Places}
      BY DEF UsesAt
    <3>3. lost \subseteq before
      BY <3>1
    <3>4. \A u \in before \ lost : u[2] # p /\ u \in after
      BY <1>7, <2>3, <3>1, <3>2
    <3>5. \A u \in after : u \in added \/ (u[2] # p /\ u \in before)
      BY <1>7, <2>3, <3>1, <3>2
    <3>6. added \subseteq after
      BY <1>7, <3>2
    <3>7. \A u \in lost : u[2] = p
      BY <2>3
    <3> HIDE DEF before, after, lost, added
    <3> QED BY <2>4, <3>3, <3>4, <3>5, <3>6, <3>7 DEF Exchanged
  <2>6. by[x] = Cardinality(added) - Cardinality(lost)
    BY DEF tags, ListTally
  <2> HIDE DEF before, after, lost, added
  <2>7. /\ Cardinality(after) = Cardinality(before) - Cardinality(lost) + Cardinality(added)
        /\ Cardinality(after) \in Nat /\ Cardinality(before) \in Nat
        /\ Cardinality(lost) \in Nat /\ Cardinality(added) \in Nat
    BY <2>1, <2>2, <2>5, CountStep
  <2>8. by[x] = Cardinality(after) - Cardinality(before)
    BY <2>6, <2>7
  <2> QED BY <1>5, <1>6, <2>1, <2>8 DEF before, after
<1>9. obj \in Object \cup {NoObject}
  BY <1>3
<1>10. Tally(o, obj, by)
  BY <1>8 DEF Tally
<1> QED BY <1>1, <1>4, <1>9, <1>10, ObjectStep

\* A place that is tagged, and its list.
LEMMA PlaceFacts ==
  ASSUME TypeOK, NEW o \in Existing, NEW e \in Exprs
  PROVE  where[e].place \in Places /\ objs[o].tags[where[e].place] \in List
<1>1. where[e].place \in Places
  BY DEF TypeOK, Info
<1>2. objs[o] \in Object
  <2>1. objs[o].exists /\ objs[o] \in Object \cup {NoObject}
    BY DEF Existing, TypeOK
  <2> QED BY <2>1 DEF NoObject
<1> QED BY <1>1, <1>2 DEF Object, TagLists

LEMMA handle_tag_counts ==
  ASSUME Inv, Counted # {}, NEW o, NEW c \in Calls, NEW new \in NewArrays(c.val),
         handle_tag(o, c.expr, c.name, c.val, new)
  PROVE  Inv'
<1> DEFINE e    == c.expr
           name == c.name
           w    == where[e]
           p    == w.place
           list == objs[o].tags[p]
           old  == find_tag(list, name)
           any  == IF old = {} THEN tag_new(name) ELSE list[CHOOSE i \in old : TRUE].any
           set  == IF Verified(w, name) THEN Tag_Set(w, name, any, c.val, new)
                   ELSE Ended("croak", any, NoChange)
           left == CASE set.rv = "update" -> With_tag(list, name, set.any)
                     [] set.rv = "delete" -> remove_tag(list, name)
                     [] set.rv = "croak"  -> IF old = {} THEN list ELSE With_tag(list, name, set.any)
           gone == set.rv = "delete" \/ (set.rv = "croak" /\ old = {})
           by   == IF gone THEN Together(set.by, Free_tag(name, set.any)) ELSE set.by
<1>1. /\ Found(o, e) /\ Held(c.val)
      /\ objs' = [objs EXCEPT ![o].tags[p] = left]
      /\ refs' = Together(refs, by)
      /\ UNCHANGED <<where, script>>
  BY ZenonT(60) DEF handle_tag
<1>2. o \in Existing /\ e \in Exprs /\ name \in TagNames
  BY <1>1, TagsAssumption, Zenon DEF Found
<1>3. p \in Places /\ list \in List
  BY <1>2, PlaceFacts DEF Inv
<1>4. [name |-> name, any |-> any] \in Tag
  <2>1. [name |-> name, any |-> any] = TagToSet(list, name)
    BY DEF TagToSet
  <2> HIDE DEF list, name, any
  <2> QED BY <1>2, <1>3, <2>1, FindFacts
<1>5. ASSUME NEW x \in Counted
      PROVE  /\ Named(UsesOf(o, p, list, x), name) = Uses(o, p, [name |-> name, any |-> any], x)
             /\ old = {} => Uses(o, p, [name |-> name, any |-> any], x) = {}
  <2>1. [name |-> name, any |-> any] = TagToSet(list, name)
    BY SMTT(60) DEF TagToSet
  <2> HIDE DEF list, name, any
  <2> QED BY <1>2, <1>3, <2>1, FindFacts
<1> HIDE DEF any
<1>6. \A x \in Counted : SetRight(set, name, any, o, p, x)
  BY <1>1, <1>4, SetFacts DEF Inv, TypeOK
<1>7. /\ set.rv \in {"update", "delete", "croak"}
      /\ [name |-> name, any |-> set.any] \in Tag
      /\ set.by \in Delta
      /\ set.rv # "update" => set.any = any
  BY <1>6 DEF SetRight
<1> DEFINE Old(x) == Uses(o, p, [name |-> name, any |-> any], x)
           New(x) == Uses(o, p, [name |-> name, any |-> set.any], x)
<1> HIDE DEF set
<1>8. \A x \in Counted : /\ IsFiniteSet(Old(x)) /\ Cardinality(Old(x)) \in Nat
                         /\ IsFiniteSet(New(x)) /\ Cardinality(New(x)) \in Nat
  BY <1>4, <1>7, TagFacts, FS_CardinalityType
<1>9. /\ Free_tag(name, set.any) \in Delta
      /\ \A x \in Counted : Free_tag(name, set.any)[x] = 0 - Cardinality(New(x))
  <2> DEFINE tag == [name |-> name, any |-> set.any]
  <2>1. tag \in Tag /\ tag.name = name /\ tag.any = set.any
    BY <1>7
  <2> HIDE DEF tag
  <2>2. \A x \in Counted : /\ Free_tag(tag.name, tag.any) \in Delta
                           /\ Free_tag(tag.name, tag.any)[x] = 0 - Cardinality(Uses(o, p, tag, x))
    BY <2>1, TagFacts
  <2> QED BY <2>1, <2>2 DEF tag
<1> HIDE DEF old, list, name, p
\* The references that the tag left makes.
<1> DEFINE Left(x) == IF gone THEN {} ELSE New(x)
<1>10. left \in List /\ \A x \in Counted : UsesOf(o, p, left, x)
                                             = Others(UsesOf(o, p, list, x), name) \cup Left(x)
  <2>1. \A x : /\ With_tag(list, name, set.any) \in List
               /\ UsesOf(o, p, With_tag(list, name, set.any), x)
                    = Others(UsesOf(o, p, list, x), name) \cup New(x)
    BY <1>3, <1>7, WithFacts
  <2>2. \A x : /\ remove_tag(list, name) \in List
               /\ UsesOf(o, p, remove_tag(list, name), x) = Others(UsesOf(o, p, list, x), name)
    BY <1>3, RemoveFacts
  <2>3. CASE set.rv = "update"
    <3>1. left = With_tag(list, name, set.any) /\ ~gone
      BY <2>3
    <3> HIDE DEF left, gone
    <3> QED BY <2>1, <3>1
  <2>4. CASE set.rv = "delete"
    <3>1. left = remove_tag(list, name) /\ gone
      BY <2>4
    <3> HIDE DEF left, gone
    <3> QED BY <2>2, <3>1
  <2>5. CASE set.rv = "croak" /\ old = {}
    <3>1. left = list /\ gone
      BY <2>5
    <3>2. \A x \in Counted : Named(UsesOf(o, p, list, x), name) = {}
      BY <1>5, <2>5
    <3>3. \A x \in Counted : UsesOf(o, p, list, x) = Others(UsesOf(o, p, list, x), name)
      BY <3>2 DEF Named, Others
    <3> HIDE DEF left, gone
    <3> QED BY <1>3, <3>1, <3>3
  <2>6. CASE set.rv = "croak" /\ old # {}
    <3>1. left = With_tag(list, name, set.any) /\ ~gone
      BY <2>6
    <3> HIDE DEF left, gone
    <3> QED BY <2>1, <3>1
  <2> QED BY <1>7, <2>3, <2>4, <2>5, <2>6
<1>11. by \in Delta /\ \A x \in Counted : by[x] = Cardinality(Left(x)) - Cardinality(Old(x))
  <2>1. \A x \in Counted : set.by[x] = Cardinality(New(x)) - Cardinality(Old(x))
    <3> SUFFICES ASSUME NEW x \in Counted
                 PROVE  set.by[x] = Cardinality(New(x)) - Cardinality(Old(x))
      OBVIOUS
    <3> QED BY <1>6 DEF SetRight
  <2>2. CASE gone
    <3>1. by = Together(set.by, Free_tag(name, set.any)) /\ \A x : Left(x) = {}
      BY <2>2
    <3>2. by \in Delta
            /\ \A x \in Counted : by[x] = set.by[x] + Free_tag(name, set.any)[x]
      BY <1>7, <1>9, <3>1, TogetherFacts
    <3> HIDE DEF by, Left, New, Old
    <3>3. \A x \in Counted : by[x] = 0 - Cardinality(Old(x))
      BY <1>8, <1>9, <2>1, <3>2
    <3>4. \A x \in Counted : Cardinality(Left(x)) = 0
      BY <3>1, FS_EmptySet
    <3> QED BY <1>8, <3>2, <3>3, <3>4
  <2>3. CASE ~gone
    <3>1. by = set.by /\ \A x : Left(x) = New(x)
      BY <2>3
    <3> HIDE DEF by, Left, New, Old
    <3> QED BY <1>7, <2>1, <3>1
  <2> QED BY <2>2, <2>3
<1>12. \A x \in Counted : IsFiniteSet(Left(x)) /\ \A u \in Left(x) : u[3] = name
  <2>1. \A x \in Counted : \A u \in New(x) : u[3] = name
    BY DEF Uses
  <2> QED BY <1>8, <2>1, FS_EmptySet
<1> HIDE DEF left, by, gone
<1>13. ListTally(o, p, left, by)
  <2> SUFFICES ASSUME NEW x \in Counted
               PROVE  by[x] = Cardinality(UsesOf(o, p, left, x))
                                - Cardinality(UsesOf(o, p, list, x))
    BY DEF list, ListTally
  <2> DEFINE before == UsesOf(o, p, list, x)
             after  == UsesOf(o, p, left, x)
             lost   == Old(x)
             added  == Left(x)
  <2>1. IsFiniteSet(before)
    BY <1>3, ListFacts
  <2>2. IsFiniteSet(added) /\ \A u \in added : u[3] = name
    BY <1>12
  <2>3. Named(before, name) = lost /\ after = Others(before, name) \cup added
    BY <1>5, <1>10
  <2>4. by[x] = Cardinality(added) - Cardinality(lost)
    BY <1>11
  <2> HIDE DEF before, after, lost, added
  <2>5. Exchanged(before, lost, added, after)
    BY <2>2, <2>3 DEF Exchanged, Named, Others
  <2>6. /\ Cardinality(after) = Cardinality(before) - Cardinality(lost) + Cardinality(added)
        /\ Cardinality(after) \in Nat /\ Cardinality(before) \in Nat
        /\ Cardinality(lost) \in Nat /\ Cardinality(added) \in Nat
    BY <2>1, <2>2, <2>5, CountStep
  <2>7. by[x] = Cardinality(after) - Cardinality(before)
    BY <2>4, <2>6
  <2> QED BY <2>7 DEF before, after
<1> QED BY <1>1, <1>2, <1>3, <1>10, <1>11, <1>13, ListStep

\* Nothing is there for no reference, and an empty list makes none.
LEMMA EmptyFacts ==
  ASSUME NEW o, NEW x
  PROVE  /\ IsFiniteSet({}) /\ Cardinality({}) = 0
         /\ << >> \in List
         /\ \A p : UsesOf(o, p, << >>, x) = {}
         /\ UsesBy(o, NoObject, x) = {}
<1>1. IsFiniteSet({}) /\ Cardinality({}) = 0
  BY FS_EmptySet
<1>2. << >> \in List
  BY DEF List
<1>3. \A p : UsesOf(o, p, << >>, x) = {}
  BY DEF UsesOf, UsesAll, TagsOf
<1>4. UsesBy(o, NoObject, x) = {}
  BY DEF UsesBy, NoObject
<1> QED BY <1>1, <1>2, <1>3, <1>4

LEMMA ExistingFacts ==
  ASSUME TypeOK, NEW o \in Existing
  PROVE  /\ o \in Objs /\ objs[o] \in Object
         /\ objs[o].tags \in TagLists
         /\ \A x : UsesBy(o, objs[o], x) = UsesAt(o, Places, objs[o].tags, x)
<1>1. o \in Objs /\ objs[o].exists
  BY DEF Existing
<1>2. objs[o] \in Object
  <2>1. objs[o] \in Object \cup {NoObject}
    BY <1>1 DEF TypeOK
  <2> QED BY <1>1, <2>1 DEF NoObject
<1> QED BY <1>1, <1>2 DEF Object, UsesBy

\* No object, no references.
LEMMA MissingFacts ==
  ASSUME TypeOK, NEW o \in Objs, o \notin Existing
  PROVE  objs[o] = NoObject /\ \A x : UsesBy(o, objs[o], x) = {}
<1>1. objs[o] \in Object \cup {NoObject} /\ ~objs[o].exists
  BY DEF Existing, TypeOK
<1>2. objs[o] = NoObject
  BY <1>1 DEF Object
<1> QED BY <1>1, <1>2 DEF UsesBy

LEMMA UntagAll_counts ==
  ASSUME Inv, Counted # {}, NEW o, NEW e \in Exprs, UntagAll(o, e)
  PROVE  Inv'
<1> DEFINE p == where[e].place
           list == objs[o].tags[p]
           by == delete_taglist(list)
<1>1. /\ Found(o, e)
      /\ objs' = [objs EXCEPT ![o].tags[p] = << >>]
      /\ refs' = Together(refs, by)
      /\ UNCHANGED <<where, script>>
  BY DEF UntagAll
<1>2. o \in Existing
  BY <1>1 DEF Found
<1>3. p \in Places /\ list \in List
  BY <1>2, PlaceFacts DEF Inv
<1> HIDE DEF p
<1>4. by \in Delta /\ \A x \in Counted : by[x] = 0 - Cardinality(UsesOf(o, p, list, x))
  <2> HIDE DEF list
  <2>1. \A x \in Counted : /\ delete_taglist(list) \in Delta
                           /\ delete_taglist(list)[x] = 0 - Cardinality(UsesOf(o, p, list, x))
    BY <1>3, ListFacts
  <2> QED BY <2>1
<1>5. << >> \in List /\ \A x : UsesOf(o, p, << >>, x) = {} /\ Cardinality({}) = 0
  BY EmptyFacts
<1> HIDE DEF by
<1>6. ListTally(o, p, << >>, by)
  BY <1>4, <1>5 DEF ListTally
<1> QED BY <1>1, <1>2, <1>3, <1>4, <1>5, <1>6, ListStep

LEMMA GetTag_counts ==
  ASSUME Inv, NEW o, NEW e \in Exprs, NEW name \in {"Hooks", "Dimension"}, GetTag(o, e, name)
  PROVE  Inv'
<1> DEFINE list == objs[o].tags[where[e].place]
           some == find_tag(list, name)
           any  == list[CHOOSE i \in some : TRUE].any
           subs == CASE name = "Hooks" -> {any[h].sub : h \in HookIds} \ {NULL}
                     [] name = "Dimension" -> IF any.is = "hook" THEN {any.hook.sub} ELSE {}
<1>1. /\ Found(o, e) /\ some # {}
      /\ script' = script \cup subs
      /\ refs' = [x \in Counted |-> IF x \in subs \ script THEN refs[x] + 1 ELSE refs[x]]
      /\ UNCHANGED <<where, objs>>
  BY ZenonT(60) DEF GetTag
<1>2. list \in List
  BY <1>1, PlaceFacts, Zenon DEF Found, Inv
<1>3. subs \subseteq Subs
  <2> DEFINE k == CHOOSE i \in some : TRUE
  <2>1. any = list[k].any
    OBVIOUS
  <2>2. k \in find_tag(list, name)
    BY <1>1, Zenon
  <2> HIDE DEF k, any, list, some
  <2>3. k \in 1 .. Len(list) /\ list[k].name = name
    BY <1>2, <2>2 DEF find_tag, List
  <2>4. list[k] \in Tag
    BY <1>2, <2>3 DEF List
  <2>5. CASE name = "Hooks"
    <3>1. any \in [HookIds -> Hook]
      BY <2>3, <2>4, <2>1, <2>5 DEF Tag, TagOK
    <3> QED BY <2>5, <3>1 DEF Hook
  <2>6. CASE name = "Dimension"
    <3>1. any.is = "hook" => any.hook \in Hook /\ any.hook.sub # NULL
      BY <2>3, <2>4, <2>1, <2>6 DEF Tag, TagOK
    <3> QED BY <2>6, <3>1 DEF Hook
  <2> QED BY <2>5, <2>6
<1> HIDE DEF subs
<1>4. TypeOK'
  BY <1>1, <1>3 DEF Inv, TypeOK, Delta
<1>5. \A x : Referring(x)' = Referring(x)
  BY <1>1 DEF Referring, Existing
<1>6. ASSUME NEW x \in Counted
      PROVE  refs'[x] = Cardinality(Referring(x)) + (IF x \in script' THEN 1 ELSE 0)
  <2>1. refs[x] = Cardinality(Referring(x)) + (IF x \in script THEN 1 ELSE 0)
    BY DEF Inv, RefsCounted
  <2>2. Cardinality(Referring(x)) \in Nat
    BY FS_CardinalityType DEF Inv
  <2> QED BY <1>1, <2>1, <2>2
<1> QED BY <1>4, <1>5, <1>6 DEF Inv, RefsCounted

LEMMA Release_counts ==
  ASSUME Inv, NEW f \in Subs, Release(f)
  PROVE  Inv'
<1>1. /\ f \in script
      /\ script' = script \ {f}
      /\ refs' = Together(refs, Change(f, -1))
      /\ UNCHANGED <<where, objs>>
  BY DEF Release
<1>2. /\ Change(f, -1) \in Delta
      /\ \A x \in Counted : Change(f, -1)[x] = IF x = f THEN -1 ELSE 0
  BY ChangeFacts
<1>3. refs' \in Delta /\ \A x \in Counted : refs'[x] = refs[x] + Change(f, -1)[x]
  BY <1>1, <1>2, TogetherFacts DEF Inv, TypeOK
<1>4. TypeOK'
  BY <1>1, <1>3 DEF Inv, TypeOK
<1>5. \A x : Referring(x)' = Referring(x)
  BY <1>1 DEF Referring, Existing
<1>6. ASSUME NEW x \in Counted
      PROVE  refs'[x] = Cardinality(Referring(x)) + (IF x \in script' THEN 1 ELSE 0)
  <2>1. refs[x] = Cardinality(Referring(x)) + (IF x \in script THEN 1 ELSE 0)
    BY DEF Inv, RefsCounted
  <2>2. Cardinality(Referring(x)) \in Nat
    BY FS_CardinalityType DEF Inv
  <2>3. refs'[x] = refs[x] + (IF x = f THEN -1 ELSE 0)
    BY <1>2, <1>3
  <2> QED BY <1>1, <2>1, <2>2, <2>3
<1> QED BY <1>4, <1>5, <1>6 DEF Inv, RefsCounted

\* Counts that do not change.
LEMMA NoChangeFacts ==
  ASSUME TypeOK
  PROVE  /\ NoChange \in Delta /\ \A x \in Counted : NoChange[x] = 0
         /\ refs = Together(refs, NoChange)
<1>1. NoChange \in Delta /\ \A x \in Counted : NoChange[x] = 0
  BY DEF NoChange, Delta
<1>2. \A x \in Counted : refs[x] + NoChange[x] = refs[x]
  BY <1>1 DEF TypeOK, Delta
<1> QED BY <1>1, <1>2 DEF Together, TypeOK, Delta

LEMMA Create_counts ==
  ASSUME Inv, NEW o \in Objs, Create(o)
  PROVE  Inv'
<1> DEFINE tags == [p \in Places |-> << >>]
           obj  == [exists |-> TRUE, parsed |-> FALSE, tags |-> tags]
<1>1. /\ o \notin Existing
      /\ objs' = [objs EXCEPT ![o] = obj]
      /\ UNCHANGED <<where, refs, script>>
  BY DEF Create
<1>2. obj \in Object \cup {NoObject}
  BY EmptyFacts DEF Object, TagLists
<1>3. \A x : UsesBy(o, obj, x) = {}
  BY EmptyFacts DEF UsesBy, UsesAt
<1>4. \A x : UsesBy(o, objs[o], x) = {}
  BY <1>1, MissingFacts DEF Inv
<1> HIDE DEF obj
<1>5. NoChange \in Delta /\ refs' = Together(refs, NoChange) /\ \A x \in Counted : NoChange[x] = 0
  BY <1>1, NoChangeFacts DEF Inv
<1>6. IsFiniteSet({}) /\ Cardinality({}) - Cardinality({}) = 0
  BY EmptyFacts
<1>7. ASSUME NEW x \in Counted
      PROVE  /\ IsFiniteSet(UsesBy(o, obj, x)) /\ IsFiniteSet(UsesBy(o, objs[o], x))
             /\ NoChange[x] = Cardinality(UsesBy(o, obj, x)) - Cardinality(UsesBy(o, objs[o], x))
  BY <1>3, <1>4, <1>5, <1>6
<1>8. Tally(o, obj, NoChange)
  BY <1>7 DEF Tally
<1> QED BY <1>1, <1>2, <1>5, <1>8, ObjectStep

LEMMA Parse_counts ==
  ASSUME Inv, NEW o \in Objs, Parse(o)
  PROVE  Inv'
<1> DEFINE obj == [objs[o] EXCEPT !.parsed = TRUE]
<1>1. /\ o \in Existing
      /\ objs' = [objs EXCEPT ![o].parsed = TRUE]
      /\ UNCHANGED <<where, refs, script>>
  BY DEF Parse
<1>2. /\ objs[o] \in Object /\ objs[o].tags \in TagLists
      /\ \A x : UsesBy(o, objs[o], x) = UsesAt(o, Places, objs[o].tags, x)
  BY <1>1, ExistingFacts DEF Inv
<1>3. obj \in Object \cup {NoObject} /\ obj.exists /\ obj.tags = objs[o].tags
  BY <1>2 DEF Object
<1>4. objs' = [objs EXCEPT ![o] = obj]
  BY <1>1
<1>5. \A x : UsesBy(o, obj, x) = UsesBy(o, objs[o], x)
  BY <1>2, <1>3 DEF UsesBy
<1> HIDE DEF obj
<1>6. NoChange \in Delta /\ refs' = Together(refs, NoChange) /\ \A x \in Counted : NoChange[x] = 0
  BY <1>1, NoChangeFacts DEF Inv
<1>7. \A x \in Counted : /\ IsFiniteSet(UsesBy(o, objs[o], x))
                         /\ Cardinality(UsesBy(o, objs[o], x)) \in Nat
  <2>1. Places \in SUBSET Places
    OBVIOUS
  <2> QED BY <1>2, <2>1, PlacesFacts, FS_CardinalityType
<1>8. Tally(o, obj, NoChange)
  BY <1>5, <1>6, <1>7 DEF Tally
<1> QED BY <1>1, <1>3, <1>4, <1>6, <1>8, ObjectStep

LEMMA Clean_counts ==
  ASSUME Inv, Counted # {}, NEW o \in Objs, Clean(o)
  PROVE  Inv'
<1> DEFINE tags == objs[o].tags
           gone == Places \ Basic
           kept == [p \in Places |-> IF p \in Basic THEN tags[p] ELSE << >>]
           obj  == [objs[o] EXCEPT !.parsed = FALSE, !.tags = kept]
           by   == DeleteAll(o, gone)
<1>1. /\ o \in Existing
      /\ objs' = [objs EXCEPT ![o].parsed = FALSE, ![o].tags = kept]
      /\ refs' = Together(refs, by)
      /\ UNCHANGED <<where, script>>
  BY DEF Clean
<1>2. /\ objs[o] \in Object /\ tags \in TagLists
      /\ \A x : UsesBy(o, objs[o], x) = UsesAt(o, Places, tags, x)
  BY <1>1, ExistingFacts DEF Inv
<1>3. kept \in TagLists
  BY <1>2, EmptyFacts DEF TagLists
<1>4. obj \in Object \cup {NoObject} /\ obj.exists /\ obj.tags = kept
  BY <1>2, <1>3 DEF Object
<1>5. objs' = [objs EXCEPT ![o] = obj]
  BY <1>1, <1>2 DEF Inv, TypeOK
<1>6. \A x : UsesBy(o, obj, x) = UsesAt(o, Places, kept, x)
  BY <1>4 DEF UsesBy
<1>7. \A p \in Places : kept[p] = IF p \in gone THEN << >> ELSE tags[p]
  OBVIOUS
<1>8. by = ForAll(gone, [p \in gone |-> delete_taglist(tags[p])])
  BY DEF DeleteAll
<1>9. gone \in SUBSET Places /\ Places \in SUBSET Places
  OBVIOUS
<1> HIDE DEF tags, gone, kept, obj, by
<1>10. ASSUME NEW x \in Counted
       PROVE  /\ IsFiniteSet(UsesBy(o, obj, x)) /\ IsFiniteSet(UsesBy(o, objs[o], x))
              /\ by \in Delta
              /\ by[x] = Cardinality(UsesBy(o, obj, x)) - Cardinality(UsesBy(o, objs[o], x))
  <2> DEFINE before == UsesAt(o, Places, tags, x)
             after  == UsesAt(o, Places, kept, x)
             lost   == UsesAt(o, gone, tags, x)
  <2>1. IsFiniteSet(before) /\ IsFiniteSet(after)
    BY <1>2, <1>3, <1>9, PlacesFacts
  <2>2. by \in Delta /\ by[x] = 0 - Cardinality(lost)
    BY <1>2, <1>8, <1>9, PlacesFacts
  <2>3. \A p \in Places : \A u \in UsesOf(o, p, tags[p], x) : u[2] = p
    BY <1>2, UsesOfFacts DEF TagLists
  <2>4. before = UNION {UsesOf(o, p, tags[p], x) : p \in Places}
    BY DEF UsesAt
  <2>5. after = UNION {UsesOf(o, p, tags[p], x) : p \in Places \ gone}
    <3>1. \A p \in gone : UsesOf(o, p, kept[p], x) = {}
      BY <1>7, <1>9, EmptyFacts
    <3>2. \A p \in Places \ gone : kept[p] = tags[p]
      BY <1>7
    <3>3. after = UNION {UsesOf(o, p, kept[p], x) : p \in Places}
      BY DEF UsesAt
    <3> QED BY <3>1, <3>2, <3>3
  <2>6. lost = UNION {UsesOf(o, p, tags[p], x) : p \in gone}
    BY DEF UsesAt
  <2>7. Exchanged(before, lost, {}, after)
    <3>1. lost \subseteq before
      BY <1>9, <2>4, <2>6
    <3>2. \A u \in after : u \in before /\ u \notin lost
      BY <1>9, <2>3, <2>4, <2>5, <2>6
    <3>3. \A u \in before : u \in lost \/ u \in after
      BY <2>4, <2>5, <2>6
    <3> HIDE DEF before, after, lost
    <3> QED BY <3>1, <3>2, <3>3 DEF Exchanged
  <2>8. IsFiniteSet({}) /\ Cardinality({}) = 0
    BY EmptyFacts
  <2> HIDE DEF before, after, lost
  <2>9. /\ Cardinality(after) = Cardinality(before) - Cardinality(lost) + Cardinality({})
        /\ Cardinality(after) \in Nat /\ Cardinality(before) \in Nat
        /\ Cardinality(lost) \in Nat
    BY <2>1, <2>7, <2>8, CountStep
  <2>10. by[x] = Cardinality(after) - Cardinality(before)
    BY <2>2, <2>8, <2>9
  <2> QED BY <1>2, <1>6, <2>1, <2>2, <2>10 DEF before, after
<1>11. Tally(o, obj, by) /\ by \in Delta
  BY <1>10 DEF Tally
<1> QED BY <1>1, <1>4, <1>5, <1>11, ObjectStep

LEMMA Clone_counts ==
  ASSUME Inv, Counted # {}, NEW o \in Objs, NEW p \in Objs, Clone(o, p)
  PROVE  Inv'
<1> DEFINE tags == objs[o].tags
           by   == CloneAll(o, Places)
<1>1. /\ o \in Existing /\ p \notin Existing
      /\ objs' = [objs EXCEPT ![p] = objs[o]]
      /\ refs' = Together(refs, by)
      /\ UNCHANGED <<where, script>>
  BY DEF Clone
<1>2. objs[o] \in Object /\ objs[o].exists /\ tags \in TagLists
  BY <1>1, ExistingFacts DEF Inv, Existing
<1>3. \A x : UsesBy(p, objs[p], x) = {}
  BY <1>1, MissingFacts DEF Inv
<1>4. \A x : UsesBy(p, objs[o], x) = UsesAt(p, Places, tags, x)
  BY <1>2 DEF UsesBy
<1>5. by = ForAll(Places, [q \in Places |-> clone_taglist(tags[q])])
  BY DEF CloneAll
<1> HIDE DEF tags, by
<1>6. ASSUME NEW x \in Counted
      PROVE  /\ by \in Delta
             /\ IsFiniteSet(UsesBy(p, objs[o], x)) /\ IsFiniteSet(UsesBy(p, objs[p], x))
             /\ by[x] = Cardinality(UsesBy(p, objs[o], x)) - Cardinality(UsesBy(p, objs[p], x))
  <2> DEFINE U == UsesAt(p, Places, tags, x)
  <2>1. Places \in SUBSET Places
    OBVIOUS
  <2>2. by \in Delta /\ IsFiniteSet(U) /\ by[x] = Cardinality(U)
    BY <1>2, <1>5, <2>1, PlacesFacts
  <2>3. UsesBy(p, objs[o], x) = U /\ UsesBy(p, objs[p], x) = {}
    BY <1>3, <1>4
  <2> HIDE DEF U
  <2>4. Cardinality(U) \in Nat /\ IsFiniteSet({}) /\ Cardinality({}) = 0
    BY <2>2, FS_CardinalityType, EmptyFacts
  <2> QED BY <2>2, <2>3, <2>4
<1>8. objs[o] \in Object \cup {NoObject} /\ by \in Delta
  BY <1>2, <1>6
<1>9. Tally(p, objs[o], by)
  BY <1>6 DEF Tally
<1> QED BY <1>1, <1>8, <1>9, ObjectStep

LEMMA Destroy_counts ==
  ASSUME Inv, Counted # {}, NEW o \in Objs, Destroy(o)
  PROVE  Inv'
<1> DEFINE tags == objs[o].tags
           by   == DeleteAll(o, Places)
<1>1. /\ o \in Existing
      /\ objs' = [objs EXCEPT ![o] = NoObject]
      /\ refs' = Together(refs, by)
      /\ UNCHANGED <<where, script>>
  BY DEF Destroy
<1>2. /\ tags \in TagLists
      /\ \A x : UsesBy(o, objs[o], x) = UsesAt(o, Places, tags, x)
  BY <1>1, ExistingFacts DEF Inv
<1>3. by = ForAll(Places, [p \in Places |-> delete_taglist(tags[p])])
  BY DEF DeleteAll
<1> HIDE DEF tags, by
<1>4. ASSUME NEW x \in Counted
      PROVE  /\ by \in Delta
             /\ IsFiniteSet(UsesBy(o, NoObject, x)) /\ IsFiniteSet(UsesBy(o, objs[o], x))
             /\ by[x] = Cardinality(UsesBy(o, NoObject, x)) - Cardinality(UsesBy(o, objs[o], x))
  <2> DEFINE U == UsesAt(o, Places, tags, x)
  <2>1. Places \in SUBSET Places
    OBVIOUS
  <2>2. by \in Delta /\ IsFiniteSet(U) /\ by[x] = 0 - Cardinality(U)
    BY <1>2, <1>3, <2>1, PlacesFacts
  <2>3. UsesBy(o, objs[o], x) = U /\ UsesBy(o, NoObject, x) = {}
    BY <1>2, EmptyFacts
  <2> HIDE DEF U
  <2>4. IsFiniteSet({}) /\ Cardinality({}) = 0
    BY EmptyFacts
  <2> QED BY <2>2, <2>3, <2>4
<1>5. NoObject \in Object \cup {NoObject} /\ by \in Delta
  BY <1>4
<1>6. Tally(o, NoObject, by)
  BY <1>4 DEF Tally
<1> QED BY <1>1, <1>5, <1>6, ObjectStep

-----------------------------------------------------------------------------

LEMMA InitCounts == Init => Inv
<1> SUFFICES ASSUME Init PROVE Inv
  OBVIOUS
<1>1. TypeOK
  BY DEF Init, TypeOK, Delta
<1>2. \A x : Referring(x) = {}
  <2>1. Existing = {}
    BY DEF Init, Existing, NoObject
  <2> QED BY <2>1 DEF Referring
<1>3. ASSUME NEW x \in Counted
      PROVE  refs[x] = Cardinality(Referring(x)) + (IF x \in script THEN 1 ELSE 0)
  <2>1. refs[x] = IF x \in script THEN 1 ELSE 0
    BY DEF Init
  <2>2. Cardinality(Referring(x)) = 0
    BY <1>2, FS_EmptySet
  <2> QED BY <2>1, <2>2
<1> QED BY <1>1, <1>2, <1>3, FS_EmptySet DEF Inv, RefsCounted

LEMMA NextCounts == Counted # {} /\ Inv /\ [Next]_vars => Inv'
<1> SUFFICES ASSUME Counted # {}, Inv, [Next]_vars PROVE Inv'
  OBVIOUS
<1>1. ASSUME NEW o \in Objs, NEW c \in Calls, NEW new \in NewArrays(c.val),
             handle_tag(o, c.expr, c.name, c.val, new)
      PROVE  Inv'
  BY <1>1, handle_tag_counts
<1>2. ASSUME NEW o \in Objs, NEW e \in Exprs, UntagAll(o, e) PROVE Inv'
  BY <1>2, UntagAll_counts
<1>3. ASSUME NEW o \in Objs, NEW e \in Exprs, NEW name \in {"Hooks", "Dimension"}, GetTag(o, e, name)
      PROVE  Inv'
  BY <1>3, GetTag_counts
<1>4. ASSUME NEW o \in Objs, Create(o) PROVE Inv'
  BY <1>4, Create_counts
<1>5. ASSUME NEW o \in Objs, Parse(o) PROVE Inv'
  BY <1>5, Parse_counts
<1>6. ASSUME NEW o \in Objs, Clean(o) PROVE Inv'
  BY <1>6, Clean_counts
<1>7. ASSUME NEW o \in Objs, Destroy(o) PROVE Inv'
  BY <1>7, Destroy_counts
<1>8. ASSUME NEW o \in Objs, NEW p \in Objs, Clone(o, p) PROVE Inv'
  BY <1>8, Clone_counts
<1>9. ASSUME NEW f \in Subs, Release(f) PROVE Inv'
  BY <1>9, Release_counts
<1>10. ASSUME UNCHANGED vars PROVE Inv'
  BY <1>10 DEF Inv, TypeOK, RefsCounted, Referring, Existing, vars
<1> QED BY <1>1, <1>2, <1>3, <1>4, <1>5, <1>6, <1>7, <1>8, <1>9, <1>10 DEF Next

\* RefsCounted, for any number of objects, places and calls: the count of a sub or
\* an array of arguments, kept by hand in tag.c, hook.c and dimension.c, is the
\* number of the references to it.
THEOREM ReferencesAreCounted == Spec => []RefsCounted
<1>1. Counted = {} => RefsCounted
  BY DEF RefsCounted
<1>2. Inv => RefsCounted
  BY DEF Inv
<1>3. CASE Counted = {}
  BY <1>1, <1>3, PTL
<1>4. CASE Counted # {}
  BY <1>2, <1>4, InitCounts, NextCounts, PTL DEF Spec
<1> QED BY <1>3, <1>4
-----------------------------------------------------------------------------
(* The promise.  Nothing that a hook needs is ever freed, and so what an   *)
(* object holds can be read off its lists alone.                           *)

Nothing == [is |-> "none"]

\* What hooks, tags, lists and objects mean, to those who need not know of counts.
HookMeans(hook) == IF hook.sub = NULL THEN Nothing
                   ELSE [is |-> IF hook.arg = NULL THEN "code" ELSE "list", sub |-> hook.sub]

Means(tag) ==
  CASE tag.name = "Hooks" -> [is |-> "hooks", hooks |-> [h \in HookIds |-> HookMeans(tag.any[h])]]
    [] tag.name = "Dimension" /\ tag.any.is = "hook" -> HookMeans(tag.any.hook)
    [] OTHER -> tag.any

Called(tags, name) == {tag \in tags : tag.name = name}

AnyMeans(tags) == IF tags = {} THEN Nothing ELSE Means(CHOOSE tag \in tags : TRUE)

TagsMean(tags) == [n \in TagNames |-> AnyMeans(Called(tags, n))]

ListMeans(list) == TagsMean(TagsOf(list))

ObjectMeans(obj) ==
  IF ~obj.exists THEN NoObject
  ELSE [exists |-> TRUE, parsed |-> obj.parsed, tags |-> [p \in Places |-> ListMeans(obj.tags[p])]]

AllMeans == [o \in Objs |-> ObjectMeans(objs[o])]

\* The set of tags that a list has tells what it means, one name at a time.
LEMMA SetMeans ==
  ASSUME NEW tags, NEW name \in TagNames, NEW tag, tag.name = name
  PROVE  /\ TagsMean(Without(tags, name)) = [TagsMean(tags) EXCEPT ![name] = Nothing]
         /\ TagsMean(Without(tags, name) \cup {tag}) = [TagsMean(tags) EXCEPT ![name] = Means(tag)]
<1>1. /\ Called(Without(tags, name), name) = {}
      /\ Called(Without(tags, name) \cup {tag}, name) = {tag}
  BY DEF Called, Without
<1>2. ASSUME NEW n \in TagNames, n # name
      PROVE  /\ Called(Without(tags, name), n) = Called(tags, n)
             /\ Called(Without(tags, name) \cup {tag}, n) = Called(tags, n)
  BY <1>2 DEF Called, Without
<1>3. AnyMeans({tag}) = Means(tag) /\ AnyMeans({}) = Nothing
  <2>1. (CHOOSE t \in {tag} : TRUE) = tag /\ {tag} # {}
    OBVIOUS
  <2> QED BY <2>1 DEF AnyMeans
<1> DEFINE rest == Without(tags, name)
           both == rest \cup {tag}
<1> HIDE DEF rest, both
<1>4. TagsMean(rest) = [TagsMean(tags) EXCEPT ![name] = Nothing]
  <2>1. Called(rest, name) = {} /\ \A n \in TagNames : n # name => Called(rest, n) = Called(tags, n)
    BY <1>1, <1>2 DEF rest
  <2>2. \A n \in TagNames : n # name => TagsMean(rest)[n] = TagsMean(tags)[n]
    BY <2>1 DEF TagsMean
  <2>3. TagsMean(rest)[name] = Nothing
    BY <1>3, <2>1 DEF TagsMean
  <2> QED BY <2>2, <2>3 DEF TagsMean
<1>5. TagsMean(both) = [TagsMean(tags) EXCEPT ![name] = Means(tag)]
  <2>1. Called(both, name) = {tag} /\ \A n \in TagNames : n # name => Called(both, n) = Called(tags, n)
    BY <1>1, <1>2 DEF both, rest
  <2>2. \A n \in TagNames : n # name => TagsMean(both)[n] = TagsMean(tags)[n]
    BY <2>1 DEF TagsMean
  <2>3. TagsMean(both)[name] = Means(tag)
    BY <1>3, <2>1 DEF TagsMean
  <2> QED BY <2>2, <2>3 DEF TagsMean
<1> QED BY <1>4, <1>5 DEF rest, both

\* handle_tag and untag, for a list.
LEMMA ChangedMeans ==
  ASSUME NEW list \in List, NEW name \in TagNames
  PROVE  /\ ListMeans(remove_tag(list, name)) = [ListMeans(list) EXCEPT ![name] = Nothing]
         /\ \A any : [name |-> name, any |-> any] \in Tag =>
              ListMeans(With_tag(list, name, any))
                = [ListMeans(list) EXCEPT ![name] = Means([name |-> name, any |-> any])]
<1>1. ListMeans(remove_tag(list, name)) = [ListMeans(list) EXCEPT ![name] = Nothing]
  <2>1. PICK tag : tag = [name |-> name, any |-> NULL]
    OBVIOUS
  <2>2. tag.name = name
    BY <2>1
  <2>3. TagsOf(remove_tag(list, name)) = Without(TagsOf(list), name)
    BY RemoveTags
  <2> QED BY <2>2, <2>3, SetMeans DEF ListMeans
<1>2. ASSUME NEW any, [name |-> name, any |-> any] \in Tag
      PROVE  ListMeans(With_tag(list, name, any))
               = [ListMeans(list) EXCEPT ![name] = Means([name |-> name, any |-> any])]
  <2>1. PICK tag : tag = [name |-> name, any |-> any]
    OBVIOUS
  <2>2. tag.name = name
    BY <2>1
  <2>3. TagsOf(With_tag(list, name, any)) = Without(TagsOf(list), name) \cup {tag}
    BY <1>2, <2>1, WithTags
  <2> QED BY <2>1, <2>2, <2>3, SetMeans DEF ListMeans
<1> QED BY <1>1, <1>2

\* What the tag found for a name means, and an empty list.
LEMMA FoundMeans ==
  ASSUME NEW list \in List, NEW name \in TagNames
  PROVE  /\ find_tag(list, name) = {} => ListMeans(list)[name] = Nothing
         /\ find_tag(list, name) # {} =>
              /\ TagToSet(list, name) \in TagsOf(list)
              /\ ListMeans(list)[name] = Means(TagToSet(list, name))
         /\ ListMeans(<< >>) = [n \in TagNames |-> Nothing]
<1> DEFINE old == find_tag(list, name)
           k == CHOOSE i \in old : TRUE
<1>1. Len(list) \in Nat /\ DOMAIN list = 1 .. Len(list) /\ \A i \in 1 .. Len(list) : list[i] \in Tag
  BY DEF List
<1>2. ASSUME old = {} PROVE ListMeans(list)[name] = Nothing
  <2>1. Called(TagsOf(list), name) = {}
    BY <1>1, <1>2 DEF Called, TagsOf, find_tag
  <2> QED BY <2>1 DEF ListMeans, TagsMean, AnyMeans
<1>3. ASSUME old # {}
      PROVE  /\ TagToSet(list, name) \in TagsOf(list)
             /\ ListMeans(list)[name] = Means(TagToSet(list, name))
  <2>1. k \in 1 .. Len(list) /\ list[k].name = name /\ TagToSet(list, name) = [name |-> name, any |-> list[k].any]
    BY <1>1, <1>3 DEF find_tag, TagToSet
  <2> HIDE DEF k
  <2>2. TagToSet(list, name) = list[k]
    <3>1. list[k] \in [name : TagNames, any : Contents]
      BY <1>1, <2>1 DEF Tag
    <3> QED BY <2>1, <3>1
  <2>3. Called(TagsOf(list), name) = {list[k]}
    <3>1. \A i \in 1 .. Len(list) : list[i].name = name => i = k
      BY <2>1 DEF List
    <3> QED BY <2>1, <3>1 DEF Called, TagsOf
  <2>4. AnyMeans({list[k]}) = Means(list[k])
    <3>1. (CHOOSE t \in {list[k]} : TRUE) = list[k] /\ {list[k]} # {}
      OBVIOUS
    <3> QED BY <3>1 DEF AnyMeans
  <2>5. list[k] \in TagsOf(list)
    BY <2>1 DEF TagsOf
  <2> QED BY <2>2, <2>3, <2>4, <2>5 DEF ListMeans, TagsMean
<1>4. ListMeans(<< >>) = [n \in TagNames |-> Nothing]
  <2>1. TagsOf(<< >>) = {}
    BY DEF TagsOf
  <2>2. \A n : Called({}, n) = {}
    BY DEF Called
  <2> QED BY <2>1, <2>2 DEF ListMeans, TagsMean, AnyMeans
<1> QED BY <1>2, <1>3, <1>4

\* What a tag of some object refers to is counted, and has not been freed.
LEMMA AliveFacts ==
  ASSUME Inv, NEW o \in Existing, NEW p \in Places, NEW tag \in TagsOf(objs[o].tags[p]),
         NEW h \in DOMAIN HooksOf(tag), HooksOf(tag)[h] \in Hook
  PROVE  HookHeld(HooksOf(tag)[h]) = HookMeans(HooksOf(tag)[h])
<1> DEFINE list == objs[o].tags[p]
           hook == HooksOf(tag)[h]
<1>1. list \in List
  BY ExistingFacts DEF Inv, TagLists
<1>2. PICK i \in 1 .. Len(list) : tag = list[i]
  BY DEF TagsOf
<1>3. tag \in Tag /\ tag.name \in TagNames /\ DOMAIN list = 1 .. Len(list)
  BY <1>1, <1>2 DEF List, Tag
<1> HIDE DEF list
<1>4. ASSUME NEW x \in Counted, x \in {hook.sub, hook.arg} PROVE refs[x] > 0
  <2> DEFINE u == <<o, p, tag.name, h>>
  <2>1. h \in Users(tag, x)
    BY <1>4 DEF Users
  <2>2. u \in Uses(o, p, tag, x)
    BY <2>1 DEF Uses
  <2>3. u[4] \in HookIds \cup {"dimension"}
    BY <1>3, <2>2, UsesFacts
  <2>4. i \in find_tag(list, tag.name)
    BY <1>2, <1>3 DEF find_tag
  <2>5. u \in Referring(x)
    BY <1>2, <1>3, <2>1, <2>3, <2>4, Zenon DEF Referring, list
  <2>6. Cardinality(Referring(x)) \in Nat /\ Cardinality(Referring(x)) # 0
    BY <2>5, FS_EmptySet, FS_CardinalityType DEF Inv
  <2> QED BY <2>6 DEF Inv, RefsCounted
<1>5. \A x \in {hook.sub, hook.arg} : x = NULL \/ x \in Counted
  BY DEF Hook, Counted
<1>6. ~Freed(hook.sub) /\ ~Freed(hook.arg)
  <2>1. \A x \in {hook.sub, hook.arg} : x = NULL \/ (x \in Counted /\ refs[x] > 0)
    BY <1>4, <1>5
  <2>2. \A x \in Counted : refs[x] \in Int
    BY DEF Inv, TypeOK, Delta
  <2> QED BY <2>1, <2>2 DEF Freed
<1> HIDE DEF hook
<1>7. HookHeld(hook) = HookMeans(hook)
  BY <1>6 DEF HookHeld, HookMeans, Nothing
<1> QED BY <1>7 DEF hook

\* So what a tag of some object holds is what it means.
LEMMA TagHeldMeans ==
  ASSUME Inv, NEW o \in Existing, NEW p \in Places, NEW tag \in TagsOf(objs[o].tags[p])
  PROVE  TagHeld(tag) = Means(tag)
<1>1. tag \in Tag /\ TagOK(tag)
  <2>1. objs[o].tags[p] \in List
    BY ExistingFacts DEF Inv, TagLists
  <2> QED BY <2>1 DEF TagsOf, List, Tag
<1>2. CASE tag.name = "Hooks"
  <2>1. HooksOf(tag) = tag.any /\ tag.any \in [HookIds -> Hook]
    BY <1>1, <1>2 DEF HooksOf, TagOK
  <2>2. \A h \in HookIds : HookHeld(tag.any[h]) = HookMeans(tag.any[h])
    BY <2>1, AliveFacts
  <2> QED BY <1>2, <2>2 DEF TagHeld, Means
<1>3. CASE tag.name = "Dimension" /\ tag.any.is = "hook"
  <2>1. HooksOf(tag) = [dimension |-> tag.any.hook] /\ tag.any.hook \in Hook
    BY <1>1, <1>3 DEF HooksOf, TagOK
  <2>2. "dimension" \in DOMAIN HooksOf(tag) /\ HooksOf(tag)["dimension"] = tag.any.hook
    BY <2>1
  <2>3. HookHeld(tag.any.hook) = HookMeans(tag.any.hook)
    BY <2>1, <2>2, AliveFacts
  <2> QED BY <1>3, <2>3 DEF TagHeld, Means
<1>4. CASE tag.name # "Hooks" /\ ~(tag.name = "Dimension" /\ tag.any.is = "hook")
  BY <1>4 DEF TagHeld, Means
<1> QED BY <1>2, <1>3, <1>4

\* As long as counts are right an object holds what its lists say.
LEMMA HeldMeans == Inv => AllHeld = AllMeans
<1> SUFFICES ASSUME Inv PROVE AllHeld = AllMeans
  OBVIOUS
<1>1. ASSUME NEW o \in Existing, NEW p \in Places
      PROVE  ListHeld(objs[o].tags[p]) = ListMeans(objs[o].tags[p])
  <2> DEFINE list == objs[o].tags[p]
             Index(n) == CHOOSE i \in find_tag(list, n) : \A j \in find_tag(list, n) : i <= j
  <2>1. list \in List
    BY ExistingFacts DEF Inv, TagLists
  <2>2. \A tag \in TagsOf(list) : TagHeld(tag) = Means(tag)
    BY TagHeldMeans
  <2> HIDE DEF list
  <2>3. ASSUME NEW n \in TagNames, find_tag(list, n) # {}
        PROVE  TagHeld(list[Index(n)]) = ListMeans(list)[n]
    <3>1. Len(list) \in Nat /\ DOMAIN list = 1 .. Len(list)
      BY <2>1 DEF List
    <3>2. PICK k \in 1 .. Len(list) : list[k].name = n
      BY <2>3, <3>1 DEF find_tag
    <3>3. find_tag(list, n) = {k}
      BY <2>1, <3>1, <3>2 DEF find_tag, List
    <3>4. Index(n) = k
      BY <3>2, <3>3
    <3>5. (CHOOSE i \in {k} : TRUE) = k
      OBVIOUS
    <3>6. TagToSet(list, n) = [name |-> n, any |-> list[k].any]
      BY <3>3, <3>5 DEF TagToSet
    <3>7. list[k] \in [name : TagNames, any : Contents]
      BY <2>1, <3>1 DEF List, Tag
    <3>8. TagToSet(list, n) = list[k]
      BY <3>2, <3>6, <3>7
    <3>9. list[k] \in TagsOf(list)
      BY DEF TagsOf
    <3> QED BY <2>1, <2>2, <2>3, <3>4, <3>8, <3>9, FoundMeans
  <2>4. \A n \in TagNames : find_tag(list, n) = {} => ListMeans(list)[n] = Nothing
    BY <2>1, FoundMeans
  <2>5. ListMeans(list) = [n \in TagNames |-> ListMeans(list)[n]]
    BY DEF ListMeans, TagsMean
  <2>6. ListHeld(list) = [n \in TagNames |-> IF find_tag(list, n) = {} THEN [is |-> "none"]
                                             ELSE TagHeld(list[Index(n)])]
    BY DEF ListHeld
  <2> HIDE DEF Index
  <2>7. \A n \in TagNames : (IF find_tag(list, n) = {} THEN [is |-> "none"] ELSE TagHeld(list[Index(n)]))
                              = ListMeans(list)[n]
    BY <2>3, <2>4 DEF Nothing
  <2> QED BY <2>5, <2>6, <2>7 DEF list
<1>2. ASSUME NEW o \in Existing
      PROVE  [p \in Places |-> ListHeld(objs[o].tags[p])] = [p \in Places |-> ListMeans(objs[o].tags[p])]
  BY <1>1
<1>3. \A o \in Objs : o \in Existing <=> objs[o].exists
  BY DEF Existing
<1> QED BY <1>2, <1>3 DEF AllHeld, AllMeans, ObjectMeans
-----------------------------------------------------------------------------

\* A step that leaves all objects alone.
LEMMA NothingPromised ==
  ASSUME Inv, Inv', AllMeans' = AllMeans
  PROVE  [Promise!Next]_AllHeld
<1>1. AllHeld = AllMeans
  BY HeldMeans
<1>2. (AllHeld = AllMeans)'
  BY HeldMeans, PTL
<1> QED BY <1>1, <1>2

\* A step that makes obj of one of them.
LEMMA ObjectPromised ==
  ASSUME Inv, Inv', NEW o \in Objs, NEW obj, objs' = [objs EXCEPT ![o] = obj],
         ObjectMeans(obj) \in Promise!Results(AllMeans, o)
  PROVE  [Promise!Next]_AllHeld
<1>1. AllHeld = AllMeans
  BY HeldMeans
<1>2. AllHeld' = AllMeans'
  <2>1. (AllHeld = AllMeans)'
    BY HeldMeans, PTL
  <2> QED BY <2>1
<1>3. objs \in [Objs -> Object \cup {NoObject}]
  BY DEF Inv, TypeOK
<1>4. AllMeans' = [AllMeans EXCEPT ![o] = ObjectMeans(obj)]
  <2>1. \A q \in Objs : objs'[q] = IF q = o THEN obj ELSE objs[q]
    BY <1>3
  <2>2. AllMeans' = [q \in Objs |-> ObjectMeans(objs'[q])]
    BY DEF AllMeans, ObjectMeans
  <2> QED BY <2>1, <2>2 DEF AllMeans
<1>5. [AllMeans EXCEPT ![o] = ObjectMeans(obj)] \in Promise!Outcomes(AllMeans)
  BY DEF Promise!Outcomes
<1>6. AllHeld' \in Promise!Outcomes(AllHeld)
  BY <1>1, <1>2, <1>4, <1>5
<1> QED BY <1>6 DEF Promise!Next

\* What an object that exists means.
LEMMA ExistingMeans ==
  ASSUME Inv, NEW o \in Existing
  PROVE  /\ o \in Objs /\ AllMeans[o] = ObjectMeans(objs[o]) /\ AllMeans[o].exists
         /\ AllMeans[o] = [exists |-> TRUE, parsed |-> objs[o].parsed,
                           tags |-> [p \in Places |-> ListMeans(objs[o].tags[p])]]
BY DEF Existing, AllMeans, ObjectMeans

\* What EXCEPT makes of an object's meaning.
LEMMA TagsReplaced ==
  ASSUME NEW parsed, NEW tags, NEW obj, obj = [exists |-> TRUE, parsed |-> parsed, tags |-> tags],
         NEW x
  PROVE  [obj EXCEPT !.tags = x] = [exists |-> TRUE, parsed |-> parsed, tags |-> x]
<1> DEFINE now == [obj EXCEPT !.tags = x]
           rec == [exists |-> TRUE, parsed |-> parsed, tags |-> x]
           All == [exists : {TRUE}, parsed : {parsed}, tags : {x, tags}]
<1>1. obj \in All /\ rec \in All
  OBVIOUS
<1>2. now \in All /\ now.exists = TRUE /\ now.parsed = parsed /\ now.tags = x
  BY <1>1
<1> QED BY <1>1, <1>2

\* The same for one place of tags,
LEMMA PlaceReplaced ==
  ASSUME NEW parsed, NEW tags, NEW obj, obj = [exists |-> TRUE, parsed |-> parsed, tags |-> tags],
         NEW p, NEW x
  PROVE  [obj EXCEPT !.tags[p] = x]
           = [exists |-> TRUE, parsed |-> parsed, tags |-> [tags EXCEPT ![p] = x]]
<1>1. [obj EXCEPT !.tags[p] = x] = [obj EXCEPT !.tags = [tags EXCEPT ![p] = x]]
  OBVIOUS
<1> QED BY <1>1, TagsReplaced

\* for parsed,
LEMMA ParsedReplaced ==
  ASSUME NEW parsed, NEW tags, NEW obj, obj = [exists |-> TRUE, parsed |-> parsed, tags |-> tags],
         NEW y
  PROVE  [obj EXCEPT !.parsed = y] = [exists |-> TRUE, parsed |-> y, tags |-> tags]
<1> DEFINE now == [obj EXCEPT !.parsed = y]
           rec == [exists |-> TRUE, parsed |-> y, tags |-> tags]
           All == [exists : {TRUE}, parsed : {parsed, y}, tags : {tags}]
<1>1. obj \in All /\ rec \in All
  OBVIOUS
<1>2. now \in All /\ now.exists = TRUE /\ now.parsed = y /\ now.tags = tags
  BY <1>1
<1> QED BY <1>1, <1>2

\* and for parsed and tags.
LEMMA BothReplaced ==
  ASSUME NEW parsed, NEW tags, NEW obj, obj = [exists |-> TRUE, parsed |-> parsed, tags |-> tags],
         NEW y, NEW x
  PROVE  [obj EXCEPT !.parsed = y, !.tags = x] = [exists |-> TRUE, parsed |-> y, tags |-> x]
<1> DEFINE now == [obj EXCEPT !.parsed = y]
<1>1. now = [exists |-> TRUE, parsed |-> y, tags |-> tags]
  BY ParsedReplaced
<1>2. [obj EXCEPT !.parsed = y, !.tags = x] = [now EXCEPT !.tags = x]
  OBVIOUS
<1> HIDE DEF now
<1>3. [now EXCEPT !.tags = x] = [exists |-> TRUE, parsed |-> y, tags |-> x]
  BY <1>1, TagsReplaced
<1> QED BY <1>2, <1>3

\* A list of an object becomes another one.
LEMMA ListPromised ==
  ASSUME Inv, Inv', NEW o \in Existing, NEW p \in Places, NEW left, objs[o].parsed \/ p \in Basic,
         objs' = [objs EXCEPT ![o].tags[p] = left],
         \/ ListMeans(left) = ListMeans(objs[o].tags[p])
         \/ \E n \in TagNames : ListMeans(left) = [ListMeans(objs[o].tags[p]) EXCEPT ![n] = Nothing]
         \/ ListMeans(left) = [n \in TagNames |-> Nothing]
         \/ \E c \in Changes :
              /\ c.place = p
              /\ ListMeans(left)
                   = [ListMeans(objs[o].tags[p]) EXCEPT
                        ![c.name] = IF c.name = "Hooks" THEN Promise!Merged(@, c.to) ELSE c.to]
  PROVE  [Promise!Next]_AllHeld
<1> DEFINE list == objs[o].tags[p]
           was == AllMeans[o]
           now == [was EXCEPT !.tags[p] = ListMeans(left)]
           obj == [objs[o] EXCEPT !.tags[p] = left]
<1>1. /\ o \in Objs /\ objs[o] \in Object /\ objs \in [Objs -> Object \cup {NoObject}]
      /\ objs[o].tags \in [Places -> List]
  BY ExistingFacts DEF Inv, TypeOK, TagLists
<1>2. was = [exists |-> TRUE, parsed |-> objs[o].parsed,
             tags |-> [q \in Places |-> ListMeans(objs[o].tags[q])]]
  BY ExistingMeans
<1>3. objs' = [objs EXCEPT ![o] = obj]
  BY <1>1
<1>4. ObjectMeans(obj) = now
  <2>1. obj.exists /\ obj.parsed = objs[o].parsed /\ obj.tags = [objs[o].tags EXCEPT ![p] = left]
    BY <1>1 DEF Object
  <2> HIDE DEF obj
  <2>2. ObjectMeans(obj) = [exists |-> TRUE, parsed |-> objs[o].parsed,
                            tags |-> [q \in Places |-> IF q = p THEN ListMeans(left)
                                                       ELSE ListMeans(objs[o].tags[q])]]
    BY <1>1, <2>1 DEF ObjectMeans
  <2>3. PICK tags : tags = [q \in Places |-> ListMeans(objs[o].tags[q])]
    OBVIOUS
  <2>4. was = [exists |-> TRUE, parsed |-> objs[o].parsed, tags |-> tags]
    BY <1>2, <2>3
  <2> HIDE DEF was
  <2>5. now = [exists |-> TRUE, parsed |-> objs[o].parsed, tags |-> [tags EXCEPT ![p] = ListMeans(left)]]
    BY <2>4, PlaceReplaced, SMTT(60)
  <2>6. [tags EXCEPT ![p] = ListMeans(left)]
          = [q \in Places |-> IF q = p THEN ListMeans(left) ELSE ListMeans(objs[o].tags[q])]
    BY <2>3
  <2> QED BY <2>2, <2>5, <2>6
<1> HIDE DEF obj, list
<1>5. was.tags[p] = ListMeans(list) /\ was.exists
  BY <1>2 DEF list
<1>6. CASE ListMeans(left) = ListMeans(list)
  <2>1. now = was
    BY <1>2, <1>6 DEF list
  <2>2. AllMeans' = AllMeans
    <3>1. \A q \in Objs : objs'[q] = IF q = o THEN obj ELSE objs[q]
      BY <1>1, <1>3
    <3>2. AllMeans' = [q \in Objs |-> ObjectMeans(objs'[q])]
      BY DEF AllMeans, ObjectMeans
    <3>3. ObjectMeans(obj) = ObjectMeans(objs[o])
      BY <1>4, <2>1, ExistingMeans
    <3> QED BY <3>1, <3>2, <3>3 DEF AllMeans
  <2> QED BY <2>2, NothingPromised
<1>7. p \in Promise!Open(was)
  BY <1>2 DEF Promise!Open
<1>8. CASE \E n \in TagNames : ListMeans(left) = [ListMeans(list) EXCEPT ![n] = Nothing]
  <2>1. PICK n \in TagNames : ListMeans(left) = [ListMeans(list) EXCEPT ![n] = Nothing]
    BY <1>8
  <2>2. now = Promise!Without(was, p, {n})
    <3>1. ListMeans(list) = [m \in TagNames |-> ListMeans(list)[m]]
      BY DEF ListMeans, TagsMean
    <3>2. ListMeans(left) = [m \in TagNames |-> IF m \in {n} THEN Promise!None ELSE was.tags[p][m]]
      BY <1>5, <2>1, <3>1 DEF Promise!None, Nothing
    <3> HIDE DEF was
    <3> QED BY <3>2 DEF Promise!Without
  <2> HIDE DEF now
  <2>3. now \in Promise!Removals(was, p)
    BY <2>1, <2>2 DEF Promise!Removals
  <2>4. now \in Promise!Results(AllMeans, o)
    BY <1>5, <1>7, <2>3 DEF Promise!Results
  <2> QED BY <1>1, <1>3, <1>4, <2>4, ObjectPromised
<1>9. CASE ListMeans(left) = [n \in TagNames |-> Nothing]
  <2>1. now = Promise!Without(was, p, TagNames)
    BY <1>9 DEF Promise!Without, Promise!None, Nothing
  <2> HIDE DEF now
  <2>2. now \in Promise!Removals(was, p)
    BY <2>1 DEF Promise!Removals
  <2>3. now \in Promise!Results(AllMeans, o)
    BY <1>5, <1>7, <2>2 DEF Promise!Results
  <2> QED BY <1>1, <1>3, <1>4, <2>3, ObjectPromised
<1>10. ASSUME NEW c \in Changes, c.place = p,
              ListMeans(left) = [ListMeans(list) EXCEPT
                  ![c.name] = IF c.name = "Hooks" THEN Promise!Merged(@, c.to) ELSE c.to]
       PROVE  [Promise!Next]_AllHeld
  <2>1. now = Promise!Tagged(was, c)
    BY <1>5, <1>10 DEF Promise!Tagged
  <2> HIDE DEF now
  <2>2. now \in {Promise!Tagged(was, x) : x \in {y \in Changes : y.place \in Promise!Open(was)}}
    BY <1>7, <1>10, <2>1
  <2>3. now \in Promise!Results(AllMeans, o)
    BY <1>5, <2>2 DEF Promise!Results
  <2> QED BY <1>1, <1>3, <1>4, <2>3, ObjectPromised
<1> QED BY <1>6, <1>8, <1>9, <1>10 DEF list
-----------------------------------------------------------------------------
(* What calls mean.                                                        *)

\* A value for a hook, the value of a call, and whether C.pm allows the call
\* for what an expression stands for.
HookTo(val) == IF val.is = "undef" THEN Nothing ELSE [is |-> val.is, sub |-> val.sub]
Meant(name, val) ==
  CASE name = "Hooks" -> [h \in DOMAIN val.hooks |-> HookTo(val.hooks[h])]
    [] name = "Dimension" /\ val.is \in {"code", "list"} -> HookTo(val)
    [] OTHER -> val
Allowed(w, name, val) ==
  /\ Verified(w, name)
  /\ CASE name = "Hooks"     -> val.is = "hash" /\ AllHooks(val.hooks)
       [] name = "Dimension" -> IsDimension(w, val)
       [] OTHER              -> val.is = "string" /\ val.string \in Strings[name]

\* Whatever the calls may set is among the Changes that are promised.
Covered ==
  \A c \in Calls :
    Allowed(where[c.expr], c.name, c.val) =>
      [place |-> where[c.expr].place, name |-> c.name, to |-> Meant(c.name, c.val)] \in Changes

\* single_hook_fill makes the hook that the value stands for.
LEMMA FillMeans ==
  ASSUME NEW val, NEW arg, Fillable(val),
         val.is \in {"code", "list"} => val.sub \in Subs, val.is = "list" => arg \in Arrays
  PROVE  HookMeans(single_hook_fill(val, arg)) = HookTo(val)
<1>1. CASE val.is = "undef"
  BY <1>1 DEF single_hook_fill, NoHook, HookMeans, HookTo
<1>2. CASE val.is = "code"
  <2>1. single_hook_fill(val, arg) = [sub |-> val.sub, arg |-> NULL] /\ val.sub # NULL
    BY <1>2, TagsAssumption DEF single_hook_fill
  <2> QED BY <1>2, <2>1 DEF HookMeans, HookTo
<1>3. CASE val.is = "list"
  <2>1. single_hook_fill(val, arg) = [sub |-> val.sub, arg |-> arg] /\ val.sub # NULL /\ arg # NULL
    BY <1>3, TagsAssumption DEF single_hook_fill
  <2> QED BY <1>3, <2>1 DEF HookMeans, HookTo
<1> QED BY <1>1, <1>2, <1>3 DEF Fillable

\* What a method leaves in a tag; `was' is what the tag meant before, if it was
\* in the list.
After(name, was, val) == IF name = "Hooks" THEN Promise!Merged(was, Meant(name, val)) ELSE Meant(name, val)
MethodRight(set, w, name, val, any, was) ==
  /\ set.rv \in {"update", "delete", "croak"}
  /\ [name |-> name, any |-> set.any] \in Tag
  /\ set.rv # "update" => set.any = any
  /\ set.rv = "update" => /\ Allowed(w, name, val)
                          /\ Means([name |-> name, any |-> set.any]) = After(name, was, val)

\* A method that deletes the tag, or croaks, leaves it as it was.
LEMMA NoUpdate ==
  ASSUME NEW w, NEW name, NEW val, NEW any, NEW was, [name |-> name, any |-> any] \in Tag,
         NEW rv \in {"delete", "croak"}
  PROVE  MethodRight(Ended(rv, any, NoChange), w, name, val, any, was)
<1>1. Ended(rv, any, NoChange).rv = rv /\ Ended(rv, any, NoChange).any = any
  BY DEF Ended
<1> QED BY <1>1 DEF MethodRight

\* Hooks_Set sets the hooks of the hash, and keeps those it does not mention.
LEMMA HooksSetMeans ==
  ASSUME NEW c \in Calls, c.name = "Hooks", NEW any, [name |-> "Hooks", any |-> any] \in Tag, NEW w,
         script \subseteq Subs, Held(c.val), NEW new \in NewArrays(c.val), NEW was,
         was = Means([name |-> "Hooks", any |-> any]) \/ (was = Nothing /\ any = NoHooks)
  PROVE  MethodRight(Hooks_Set(any, c.val, new), w, "Hooks", c.val, any, was)
<1> DEFINE set == Hooks_Set(any, c.val, new)
           hooks == c.val.hooks
           found == find_hooks(hooks, any, new)
<1>1. any \in [HookIds -> Hook]
  BY DEF Tag, TagOK
<1>2. c.val = Undef \/ c.val.is \in {"bad", "hash"}
  BY TagsAssumption
<1>3. Undef.is = "undef"
  BY DEF Undef
<1>4. CASE c.val = Undef
  <2>1. set = Ended("delete", any, NoChange)
    BY <1>3, <1>4 DEF Hooks_Set
  <2> QED BY <2>1, NoUpdate
<1>5. CASE c.val.is = "bad"
  <2>1. set = Ended("croak", any, NoChange)
    BY <1>3, <1>5 DEF Hooks_Set
  <2> QED BY <2>1, NoUpdate
<1>6. CASE c.val.is = "hash" /\ ~AllHooks(hooks)
  <2>1. set = Ended("croak", any, NoChange)
    BY <1>3, <1>6 DEF Hooks_Set
  <2> QED BY <2>1, NoUpdate
<1>7. CASE c.val.is = "hash" /\ AllHooks(hooks) /\ \A h \in HookIds : found[h].sub = NULL
  <2>1. set = Ended("delete", any, NoChange)
    BY <1>3, <1>7 DEF Hooks_Set
  <2> QED BY <2>1, NoUpdate
<1>8. CASE c.val.is = "hash" /\ AllHooks(hooks) /\ ~\A h \in HookIds : found[h].sub = NULL
  <2>1. set = Ended("update", found, hook_update(any, found))
    BY <1>3, <1>8 DEF Hooks_Set
  <2>2. \A h \in DOMAIN hooks : /\ h \in HookIds /\ Fillable(hooks[h])
                                /\ hooks[h].is \in {"code", "list"} => hooks[h].sub \in Subs
    BY <1>8 DEF AllHooks, Held
  <2>3. /\ \A h \in DOMAIN new : new[h] \in Arrays
        /\ \A h \in DOMAIN hooks : hooks[h].is = "list" => h \in DOMAIN new
    BY <1>8 DEF NewArrays, Lists
  <2> DEFINE hook(h) == IF h \notin DOMAIN hooks THEN any[h]
                        ELSE single_hook_fill(hooks[h], IF h \in DOMAIN new THEN new[h] ELSE NULL)
             to == Meant("Hooks", c.val)
             now == [h \in HookIds |-> IF h \in DOMAIN to THEN to[h]
                                       ELSE IF was = Nothing THEN Nothing ELSE was.hooks[h]]
  <2>4. found = [h \in HookIds |-> hook(h)]
    BY DEF find_hooks
  <2>5. DOMAIN to = DOMAIN hooks /\ \A h \in DOMAIN hooks : to[h] = HookTo(hooks[h])
    BY DEF Meant
  <2>6. \A h \in HookIds \ DOMAIN hooks : (IF was = Nothing THEN Nothing ELSE was.hooks[h]) = HookMeans(any[h])
    <3>1. CASE was = Means([name |-> "Hooks", any |-> any])
      <4>1. was = [is |-> "hooks", hooks |-> [h \in HookIds |-> HookMeans(any[h])]]
        BY <3>1 DEF Means
      <4>2. was # Nothing
        BY <4>1 DEF Nothing
      <4> QED BY <4>1, <4>2
    <3>2. CASE was = Nothing /\ any = NoHooks
      BY <3>2 DEF NoHooks, NoHook, HookMeans
    <3> QED BY <3>1, <3>2
  <2>7. \A h \in HookIds : hook(h) \in Hook /\ HookMeans(hook(h)) = now[h]
    <3> SUFFICES ASSUME NEW h \in HookIds PROVE hook(h) \in Hook /\ HookMeans(hook(h)) = now[h]
      OBVIOUS
    <3>1. CASE h \notin DOMAIN hooks
      BY <1>1, <2>5, <2>6, <3>1
    <3>2. CASE h \in DOMAIN hooks
      <4> DEFINE arg == IF h \in DOMAIN new THEN new[h] ELSE NULL
      <4>1. arg \in Arrays \cup {NULL} /\ (hooks[h].is = "list" => arg \in Arrays)
        BY <2>3, <3>2
      <4>2. hook(h) = single_hook_fill(hooks[h], arg)
        BY <3>2
      <4> HIDE DEF arg, hook
      <4>3. single_hook_fill(hooks[h], arg) \in Hook
        BY <2>2, <3>2, <4>1, FillFacts
      <4>4. HookMeans(single_hook_fill(hooks[h], arg)) = HookTo(hooks[h])
        BY <2>2, <3>2, <4>1, FillMeans
      <4> QED BY <2>5, <3>2, <4>2, <4>3, <4>4
    <3> QED BY <3>1, <3>2
  <2> HIDE DEF found, hook
  <2>8. found \in [HookIds -> Hook] /\ \A h \in HookIds : HookMeans(found[h]) = now[h]
    BY <2>4, <2>7
  <2>9. [name |-> "Hooks", any |-> found] \in Tag
    BY <2>8 DEF Tag, TagOK, Contents, TagNames
  <2>10. Means([name |-> "Hooks", any |-> found]) = [is |-> "hooks", hooks |-> now]
    BY <2>8 DEF Means
  <2>11. PICK h \in HookIds : now[h] # Nothing
    <3>1. PICK h \in HookIds : found[h].sub # NULL
      BY <1>8
    <3>2. HookMeans(found[h]) # Nothing
      BY <3>1 DEF HookMeans, Nothing
    <3> QED BY <2>8, <3>2
  <2> HIDE DEF now
  <2>12. Promise!Merged(was, to) = [is |-> "hooks", hooks |-> now]
    BY <2>11 DEF Promise!Merged, Promise!None, Nothing, now
  <2>13. set.rv = "update" /\ set.any = found
    BY <2>1 DEF Ended
  <2>14. Allowed(w, "Hooks", c.val)
    BY <1>8 DEF Allowed, Verified
  <2> HIDE DEF to, set
  <2>15. MethodRight(set, w, "Hooks", c.val, any, was)
    BY <2>9, <2>10, <2>12, <2>13, <2>14 DEF MethodRight, After, to
  <2> QED BY <2>15 DEF set
<1> QED BY <1>2, <1>4, <1>5, <1>6, <1>7, <1>8

\* Dimension_Set sets what dimtag_parse accepts,
LEMMA DimensionSetMeans ==
  ASSUME NEW c \in Calls, c.name = "Dimension", NEW any, [name |-> "Dimension", any |-> any] \in Tag,
         NEW w, w.kind = "array",
         script \subseteq Subs, Held(c.val), NEW new \in NewArrays(c.val), NEW was
  PROVE  MethodRight(Dimension_Set(w, any, c.val, new), w, "Dimension", c.val, any, was)
<1> DEFINE val == c.val
           set == Dimension_Set(w, any, val, new)
<1>1. Undef.is = "undef"
  BY DEF Undef
<1>2. CASE val = Undef
  <2>1. set = Ended("delete", any, NoChange)
    BY <1>1, <1>2 DEF Dimension_Set
  <2> QED BY <2>1, NoUpdate
<1>3. CASE val # Undef /\ ~IsDimension(w, val)
  <2>1. set = Ended("croak", any, NoChange)
    BY <1>3 DEF Dimension_Set, IsDimension
  <2> QED BY <2>1, NoUpdate
<1>4. IsDimension(w, val) => Allowed(w, "Dimension", val)
  BY DEF Allowed, Verified
<1>5. CASE val.is \in {"code", "list"}
  <2> DEFINE arg == IF val.is = "list" THEN new["dimension"] ELSE NULL
             hook == single_hook_fill(val, arg)
             tag == [name |-> "Dimension", any |-> [is |-> "hook", hook |-> hook]]
  <2>1. arg \in Arrays \cup {NULL} /\ (val.is = "list" => arg \in Arrays)
    BY DEF NewArrays, Lists
  <2>2. val.sub \in Subs
    BY <1>5 DEF Held
  <2> HIDE DEF arg
  <2>3. hook \in Hook
    BY <1>5, <2>1, <2>2, FillFacts DEF Fillable
  <2>4. hook.sub # NULL
    BY <1>5, <2>2, TagsAssumption DEF single_hook_fill
  <2>5. set = Ended("update", [is |-> "hook", hook |-> hook],
                    Together(single_hook_ref(hook), Free_tag("Dimension", any)))
    BY <1>1, <1>5 DEF Dimension_Set, IsDimension, arg
  <2>6. HookMeans(hook) = HookTo(val)
    BY <1>5, <2>1, <2>2, FillMeans DEF Fillable
  <2> HIDE DEF hook
  <2>7. tag \in Tag
    BY <2>3, <2>4 DEF Tag, TagOK, Contents, TagNames
  <2>8. Means(tag) = HookMeans(hook)
    BY DEF Means
  <2>9. Meant("Dimension", val) = HookTo(val)
    BY <1>5 DEF Meant
  <2>10. set.rv = "update" /\ set.any = tag.any /\ IsDimension(w, val)
    BY <1>5, <2>5 DEF Ended, IsDimension
  <2> HIDE DEF set, val
  <2>11. MethodRight(set, w, "Dimension", val, any, was)
    BY <1>4, <2>6, <2>7, <2>8, <2>9, <2>10 DEF MethodRight, After
  <2> QED BY <2>11 DEF set, val
<1>6. CASE val.is \in {"flexible", "fixed", "member"} /\ IsDimension(w, val)
  <2> DEFINE tag == [name |-> "Dimension", any |-> val]
  <2>1. set = Ended("update", val, Free_tag("Dimension", any))
    BY <1>1, <1>6 DEF Dimension_Set
  <2>2. tag \in Tag
    BY <1>6 DEF Tag, TagOK, Contents, TagNames
  <2>3. Means(tag) = val /\ Meant("Dimension", val) = val
    BY <1>6 DEF Means, Meant
  <2>4. set.rv = "update" /\ set.any = val
    BY <2>1 DEF Ended
  <2> HIDE DEF set, val
  <2>5. MethodRight(set, w, "Dimension", val, any, was)
    BY <1>4, <1>6, <2>2, <2>3, <2>4 DEF MethodRight, After
  <2> QED BY <2>5 DEF set, val
<1> QED BY <1>2, <1>3, <1>5, <1>6 DEF IsDimension

\* Format_Set and ByteOrder_Set one of their strings,
LEMMA StringSetMeans ==
  ASSUME NEW c \in Calls, c.name \in {"Format", "ByteOrder"}, NEW any,
         [name |-> c.name, any |-> any] \in Tag, NEW w, Verified(w, c.name), NEW was
  PROVE  MethodRight(String_Set(c.name, any, c.val), w, c.name, c.val, any, was)
<1> DEFINE set == String_Set(c.name, any, c.val)
<1>1. CASE c.val = Undef
  <2>1. set = Ended("delete", any, NoChange)
    BY <1>1 DEF String_Set, Undef
  <2> QED BY <2>1, NoUpdate
<1>2. CASE c.val # Undef /\ ~(c.val.is = "string" /\ c.val.string \in Strings[c.name])
  <2>1. set = Ended("croak", any, NoChange)
    BY <1>2 DEF String_Set
  <2> QED BY <2>1, NoUpdate
<1>3. CASE c.val # Undef /\ c.val.is = "string" /\ c.val.string \in Strings[c.name]
  <2> DEFINE tag == [name |-> c.name, any |-> c.val]
  <2>1. set = Ended("update", c.val, NoChange)
    BY <1>3 DEF String_Set, Undef
  <2>2. tag \in Tag
    BY DEF Tag, TagOK, Contents, TagNames
  <2>3. Means(tag) = c.val /\ Meant(c.name, c.val) = c.val
    BY DEF Means, Meant
  <2>4. set.rv = "update" /\ set.any = c.val
    BY <2>1 DEF Ended
  <2>5. Allowed(w, c.name, c.val)
    BY <1>3 DEF Allowed
  <2> HIDE DEF set
  <2>6. MethodRight(set, w, c.name, c.val, any, was)
    BY <2>2, <2>3, <2>4, <2>5 DEF MethodRight, After
  <2> QED BY <2>6 DEF set
<1> QED BY <1>1, <1>2, <1>3

\* and so do all of them, on tags that TAG_VERIFY lets pass.
LEMMA MethodMeans ==
  ASSUME NEW c \in Calls, NEW any, [name |-> c.name, any |-> any] \in Tag, NEW w,
         script \subseteq Subs, Held(c.val), NEW new \in NewArrays(c.val), NEW was,
         \/ was = Means([name |-> c.name, any |-> any])
         \/ was = Nothing /\ any = tag_new(c.name)
  PROVE  MethodRight(IF Verified(w, c.name) THEN Tag_Set(w, c.name, any, c.val, new)
                     ELSE Ended("croak", any, NoChange), w, c.name, c.val, any, was)
<1>1. c.name \in TagNames
  BY TagsAssumption
<1>2. CASE ~Verified(w, c.name)
  BY <1>2, NoUpdate
<1>3. CASE Verified(w, c.name) /\ c.name = "Hooks"
  <2>1. tag_new("Hooks") = NoHooks
    BY DEF tag_new
  <2> QED BY <1>3, <2>1, HooksSetMeans DEF Tag_Set
<1>4. CASE Verified(w, c.name) /\ c.name = "Dimension"
  <2>1. w.kind = "array"
    BY <1>4 DEF Verified
  <2> QED BY <1>4, <2>1, DimensionSetMeans DEF Tag_Set
<1>5. CASE Verified(w, c.name) /\ c.name \in {"Format", "ByteOrder"}
  <2>1. Tag_Set(w, c.name, any, c.val, new) = String_Set(c.name, any, c.val)
    BY <1>5, SMTT(60) DEF Tag_Set
  <2> QED BY <1>5, <2>1, StringSetMeans
<1> QED BY <1>1, <1>2, <1>3, <1>4, <1>5 DEF TagNames
-----------------------------------------------------------------------------
(* What actions mean.                                                      *)

\* What handle_tag makes of a list: nothing, or one tag is gone, or set as C.pm
\* has it.
Handled(list, left, w, name, val) ==
  \/ ListMeans(left) = ListMeans(list)
  \/ ListMeans(left) = [ListMeans(list) EXCEPT ![name] = Nothing]
  \/ /\ Allowed(w, name, val)
     /\ ListMeans(left) = [ListMeans(list) EXCEPT ![name] = After(name, ListMeans(list)[name], val)]

\* handle_tag with a call: what it makes of the list of its place.
LEMMA CallMeans ==
  ASSUME TypeOK, NEW o, NEW c \in Calls, NEW new \in NewArrays(c.val),
         handle_tag(o, c.expr, c.name, c.val, new)
  PROVE  /\ Found(o, c.expr) /\ c.expr \in Exprs /\ c.name \in TagNames
         /\ \E left \in List :
              /\ objs' = [objs EXCEPT ![o].tags[where[c.expr].place] = left]
              /\ Handled(objs[o].tags[where[c.expr].place], left, where[c.expr], c.name, c.val)
<1> DEFINE e    == c.expr
           name == c.name
           w    == where[e]
           p    == w.place
           list == objs[o].tags[p]
           old  == find_tag(list, name)
           any  == IF old = {} THEN tag_new(name) ELSE list[CHOOSE i \in old : TRUE].any
           set  == IF Verified(w, name) THEN Tag_Set(w, name, any, c.val, new)
                   ELSE Ended("croak", any, NoChange)
           left == CASE set.rv = "update" -> With_tag(list, name, set.any)
                     [] set.rv = "delete" -> remove_tag(list, name)
                     [] set.rv = "croak"  -> IF old = {} THEN list ELSE With_tag(list, name, set.any)
           was  == ListMeans(list)[name]
<1>1. /\ Found(o, e) /\ Held(c.val)
      /\ objs' = [objs EXCEPT ![o].tags[p] = left]
  BY Zenon DEF handle_tag
<1>2. o \in Existing /\ e \in Exprs /\ name \in TagNames
  BY <1>1, TagsAssumption, Zenon DEF Found
<1>3. p \in Places /\ list \in List
  BY <1>2, PlaceFacts, SMTT(60)
<1>4. TagToSet(list, name) = [name |-> name, any |-> any] /\ (old = {} => any = tag_new(name))
  BY DEF TagToSet
<1> HIDE DEF any, list, name, p
<1>5. [name |-> name, any |-> any] \in Tag
  BY <1>2, <1>3, <1>4, FindFacts
<1>6. /\ old = {} => was = Nothing /\ any = tag_new(name)
      /\ old # {} => was = Means([name |-> name, any |-> any])
  BY <1>2, <1>3, <1>4, FoundMeans
<1> HIDE DEF old, was
<1>7. MethodRight(set, w, name, c.val, any, was)
  <2>1. script \subseteq Subs
    BY DEF TypeOK
  <2> QED BY <1>1, <1>5, <1>6, <2>1, MethodMeans DEF name
<1> HIDE DEF set
<1>8. /\ ListMeans(remove_tag(list, name)) = [ListMeans(list) EXCEPT ![name] = Nothing]
      /\ remove_tag(list, name) \in List
  BY <1>2, <1>3, ChangedMeans, RemoveTags
<1>9. /\ ListMeans(With_tag(list, name, set.any))
           = [ListMeans(list) EXCEPT ![name] = Means([name |-> name, any |-> set.any])]
      /\ With_tag(list, name, set.any) \in List
  BY <1>2, <1>3, <1>7, ChangedMeans, WithTags DEF MethodRight
<1>10. left \in List /\ Handled(list, left, w, name, c.val)
  <2>1. CASE set.rv = "update"
    <3>1. left = With_tag(list, name, set.any)
      BY <2>1
    <3> HIDE DEF left
    <3>2. /\ Allowed(w, name, c.val)
          /\ Means([name |-> name, any |-> set.any]) = After(name, ListMeans(list)[name], c.val)
      BY <1>7, <2>1 DEF MethodRight, was
    <3> QED BY <1>9, <3>1, <3>2 DEF Handled
  <2>2. CASE set.rv = "delete"
    <3>1. left = remove_tag(list, name)
      BY <2>2
    <3> HIDE DEF left
    <3> QED BY <1>8, <3>1 DEF Handled
  <2>3. CASE set.rv = "croak" /\ old = {}
    <3>1. left = list
      BY <2>3
    <3> HIDE DEF left
    <3> QED BY <1>3, <3>1 DEF Handled
  <2>4. CASE set.rv = "croak" /\ old # {}
    <3>1. left = With_tag(list, name, set.any)
      BY <2>4
    <3> HIDE DEF left
    <3>2. set.any = any
      BY <1>7, <2>4 DEF MethodRight
    <3>3. ListMeans(left) = [ListMeans(list) EXCEPT ![name] = ListMeans(list)[name]]
      BY <1>6, <1>9, <2>4, <3>1, <3>2 DEF was
    <3>4. ListMeans(left) = ListMeans(list)
      BY <1>2, <3>3 DEF ListMeans, TagsMean
    <3> QED BY <1>9, <3>1, <3>4 DEF Handled
  <2> HIDE DEF left
  <2> QED BY <1>7, <2>1, <2>2, <2>3, <2>4 DEF MethodRight
<1> HIDE DEF left
<1> QED BY <1>1, <1>2, <1>10 DEF list, p, name

\* handle_tag does what C.pm promises of tag and untag, or nothing.
LEMMA handle_tag_promised ==
  ASSUME Inv, Inv', Covered, NEW o, NEW c \in Calls, NEW new \in NewArrays(c.val),
         handle_tag(o, c.expr, c.name, c.val, new)
  PROVE  [Promise!Next]_AllHeld
<1> DEFINE w    == where[c.expr]
           p    == w.place
           list == objs[o].tags[p]
<1>1. Found(o, c.expr) /\ c.expr \in Exprs /\ c.name \in TagNames
  BY CallMeans DEF Inv
<1>2. PICK left \in List : /\ objs' = [objs EXCEPT ![o].tags[p] = left]
                           /\ Handled(list, left, w, c.name, c.val)
  BY CallMeans DEF Inv
<1>3. o \in Existing /\ (objs[o].parsed \/ p \in Basic)
  BY <1>1 DEF Found
<1>4. p \in Places
  BY <1>1, <1>3, PlaceFacts DEF Inv
<1> HIDE DEF list, p
<1>5. \/ ListMeans(left) = ListMeans(list)
      \/ ListMeans(left) = [ListMeans(list) EXCEPT ![c.name] = Nothing]
      \/ \E d \in Changes :
           /\ d.place = p
           /\ ListMeans(left)
                = [ListMeans(list) EXCEPT
                     ![d.name] = IF d.name = "Hooks" THEN Promise!Merged(@, d.to) ELSE d.to]
  <2> SUFFICES ASSUME Allowed(w, c.name, c.val),
                      ListMeans(left)
                        = [ListMeans(list) EXCEPT ![c.name] = After(c.name, ListMeans(list)[c.name], c.val)]
               PROVE  \E d \in Changes :
                        /\ d.place = p
                        /\ ListMeans(left)
                             = [ListMeans(list) EXCEPT
                                  ![d.name] = IF d.name = "Hooks" THEN Promise!Merged(@, d.to) ELSE d.to]
    BY <1>2 DEF Handled
  <2> DEFINE d == [place |-> p, name |-> c.name, to |-> Meant(c.name, c.val)]
  <2>1. d \in Changes
    BY DEF Covered, p
  <2>2. d.place = p /\ d.name = c.name /\ d.to = Meant(c.name, c.val)
    OBVIOUS
  <2> HIDE DEF d
  <2>3. After(c.name, ListMeans(list)[c.name], c.val)
          = IF d.name = "Hooks" THEN Promise!Merged(ListMeans(list)[d.name], d.to) ELSE d.to
    BY <2>2 DEF After
  <2>4. ListMeans(left)
          = [ListMeans(list) EXCEPT
               ![d.name] = IF d.name = "Hooks" THEN Promise!Merged(@, d.to) ELSE d.to]
    BY <2>2, <2>3
  <2> QED BY <2>1, <2>2, <2>4
<1> QED BY <1>1, <1>2, <1>3, <1>4, <1>5, ListPromised, Zenon DEF list, p

\* untag without names leaves an empty list.
LEMMA UntagAll_promised ==
  ASSUME Inv, Inv', NEW o, NEW e \in Exprs, UntagAll(o, e)
  PROVE  [Promise!Next]_AllHeld
<1> DEFINE p == where[e].place
<1>1. Found(o, e) /\ objs' = [objs EXCEPT ![o].tags[p] = << >>]
  BY DEF UntagAll
<1>2. o \in Existing /\ (objs[o].parsed \/ p \in Basic)
  BY <1>1 DEF Found
<1>3. p \in Places
  BY <1>2, PlaceFacts DEF Inv
<1> HIDE DEF p
<1>4. ListMeans(<< >>) = [n \in TagNames |-> Nothing]
  <2>1. << >> \in List /\ "Hooks" \in TagNames
    BY DEF List, TagNames
  <2> QED BY <2>1, FoundMeans
<1> QED BY <1>1, <1>2, <1>3, <1>4, ListPromised

\* Steps that change no object.
LEMMA Unchanged_promised ==
  ASSUME Inv, Inv', objs' = objs
  PROVE  [Promise!Next]_AllHeld
<1>1. AllMeans' = AllMeans
  BY DEF AllMeans, ObjectMeans
<1> QED BY <1>1, NothingPromised

\* A new object has no tags.
LEMMA Create_promised ==
  ASSUME Inv, Inv', NEW o \in Objs, Create(o)
  PROVE  [Promise!Next]_AllHeld
<1> DEFINE tags == [p \in Places |-> << >>]
           obj  == [exists |-> TRUE, parsed |-> FALSE, tags |-> tags]
<1>1. o \notin Existing /\ objs' = [objs EXCEPT ![o] = obj]
  BY DEF Create
<1>2. AllMeans[o] = NoObject
  BY <1>1 DEF Existing, AllMeans, ObjectMeans
<1>3. ListMeans(<< >>) = [n \in TagNames |-> Nothing]
  <2>1. << >> \in List /\ "Hooks" \in TagNames
    BY DEF List, TagNames
  <2> QED BY <2>1, FoundMeans
<1>4. ObjectMeans(obj) = Promise!New
  BY <1>3 DEF ObjectMeans, Promise!New, Promise!Untagged, Promise!None, Nothing
<1> HIDE DEF obj
<1>5. ObjectMeans(obj) \in Promise!Results(AllMeans, o)
  BY <1>2, <1>4 DEF Promise!Results, NoObject
<1> QED BY <1>1, <1>5, ObjectPromised

\* parse changes no tag,
LEMMA Parse_promised ==
  ASSUME Inv, Inv', NEW o \in Objs, Parse(o)
  PROVE  [Promise!Next]_AllHeld
<1> DEFINE obj == [objs[o] EXCEPT !.parsed = TRUE]
           was == AllMeans[o]
           tags == [p \in Places |-> ListMeans(objs[o].tags[p])]
<1>1. o \in Existing /\ objs' = [objs EXCEPT ![o].parsed = TRUE]
  BY DEF Parse
<1>2. objs[o] \in Object
  BY <1>1, ExistingFacts DEF Inv
<1>3. objs' = [objs EXCEPT ![o] = obj]
  BY <1>1
<1>4. obj.exists /\ obj.parsed = TRUE /\ obj.tags = objs[o].tags
  BY <1>2 DEF Object
<1>5. was = [exists |-> TRUE, parsed |-> objs[o].parsed, tags |-> tags]
  BY <1>1, ExistingMeans
<1> HIDE DEF obj
<1>6. ObjectMeans(obj) = [exists |-> TRUE, parsed |-> TRUE, tags |-> tags]
  BY <1>4 DEF ObjectMeans
<1> HIDE DEF tags, was
<1>7. ObjectMeans(obj) = [was EXCEPT !.parsed = TRUE]
  <2>1. PICK yes : yes = TRUE
    OBVIOUS
  <2>2. [was EXCEPT !.parsed = yes] = [exists |-> TRUE, parsed |-> yes, tags |-> tags]
    BY <1>5, ParsedReplaced
  <2> QED BY <1>6, <2>1, <2>2
<1>8. ObjectMeans(obj) \in Promise!Results(AllMeans, o)
  <2>1. was.exists
    BY <1>5
  <2> QED BY <1>7, <2>1 DEF Promise!Results, was
<1> QED BY <1>3, <1>8, ObjectPromised

\* clean keeps those of basic types,
LEMMA Clean_promised ==
  ASSUME Inv, Inv', NEW o \in Objs, Clean(o)
  PROVE  [Promise!Next]_AllHeld
<1> DEFINE kept == [p \in Places |-> IF p \in Basic THEN objs[o].tags[p] ELSE << >>]
           obj == [objs[o] EXCEPT !.parsed = FALSE, !.tags = kept]
           was == AllMeans[o]
           tags == [p \in Places |-> ListMeans(objs[o].tags[p])]
           left == [p \in Places |-> IF p \in Basic THEN tags[p] ELSE Promise!Untagged]
<1>1. o \in Existing /\ objs' = [objs EXCEPT ![o].parsed = FALSE, ![o].tags = kept]
  BY DEF Clean
<1>2. objs[o] \in Object /\ objs \in [Objs -> Object \cup {NoObject}]
  BY <1>1, ExistingFacts DEF Inv, TypeOK
<1>3. objs' = [objs EXCEPT ![o] = obj]
  BY <1>1, <1>2
<1>4. obj.exists /\ obj.parsed = FALSE /\ obj.tags = kept
  BY <1>2 DEF Object
<1>5. was = [exists |-> TRUE, parsed |-> objs[o].parsed, tags |-> tags]
  BY <1>1, ExistingMeans
<1>6. ListMeans(<< >>) = Promise!Untagged
  <2>1. << >> \in List /\ "Hooks" \in TagNames
    BY DEF List, TagNames
  <2> QED BY <2>1, FoundMeans DEF Promise!Untagged, Promise!None, Nothing
<1>7. [p \in Places |-> ListMeans(kept[p])] = left
  BY <1>6
<1> HIDE DEF obj, kept, left
<1>8. ObjectMeans(obj) = [exists |-> TRUE, parsed |-> FALSE, tags |-> left]
  BY <1>4, <1>7 DEF ObjectMeans
<1> HIDE DEF tags, was
<1>9. Promise!Cleaned(was) = [was EXCEPT !.parsed = FALSE, !.tags = left]
  <2>1. was.tags = tags
    BY <1>5
  <2> QED BY <2>1 DEF Promise!Cleaned, left
<1>10. ObjectMeans(obj) = Promise!Cleaned(was)
  BY <1>5, <1>8, <1>9, BothReplaced
<1>11. ObjectMeans(obj) \in Promise!Results(AllMeans, o)
  <2>1. was.exists
    BY <1>5
  <2> QED BY <1>10, <2>1 DEF Promise!Results, was
<1> QED BY <1>3, <1>11, ObjectPromised

\* clone copies all of them,
LEMMA Clone_promised ==
  ASSUME Inv, Inv', NEW o \in Objs, NEW p \in Objs, Clone(o, p)
  PROVE  [Promise!Next]_AllHeld
<1>1. o \in Existing /\ p \notin Existing /\ objs' = [objs EXCEPT ![p] = objs[o]]
  BY DEF Clone
<1>2. AllMeans[p] = NoObject
  BY <1>1 DEF Existing, AllMeans, ObjectMeans
<1>3. AllMeans[o] = ObjectMeans(objs[o]) /\ AllMeans[o].exists
  BY <1>1, ExistingMeans
<1>4. ObjectMeans(objs[o]) \in Promise!Results(AllMeans, p)
  BY <1>2, <1>3 DEF Promise!Results, NoObject
<1> QED BY <1>1, <1>4, ObjectPromised

\* and the destructor leaves nothing.
LEMMA Destroy_promised ==
  ASSUME Inv, Inv', NEW o \in Objs, Destroy(o)
  PROVE  [Promise!Next]_AllHeld
<1>1. o \in Existing /\ objs' = [objs EXCEPT ![o] = NoObject]
  BY DEF Destroy
<1>2. AllMeans[o].exists
  BY <1>1, ExistingMeans
<1>3. ObjectMeans(NoObject) = Promise!NoObject
  BY DEF ObjectMeans, NoObject, Promise!NoObject
<1>4. ObjectMeans(NoObject) \in Promise!Results(AllMeans, o)
  BY <1>2, <1>3 DEF Promise!Results
<1> QED BY <1>1, <1>4, ObjectPromised
-----------------------------------------------------------------------------
(* The theorem.                                                            *)

\* Without subs and arrays there is nothing to count.
LEMMA TypedStep ==
  ASSUME TypeOK, Counted = {}, refs' \in Delta, UNCHANGED <<where, script>>,
         NEW o, NEW obj \in Object \cup {NoObject}, objs' = [objs EXCEPT ![o] = obj]
  PROVE  TypeOK'
BY DEF TypeOK

\* The same for a step that changes one list.
LEMMA TypedListStep ==
  ASSUME TypeOK, Counted = {}, refs' \in Delta, UNCHANGED <<where, script>>,
         NEW o \in Existing, NEW e \in Exprs, NEW left \in List,
         objs' = [objs EXCEPT ![o].tags[where[e].place] = left]
  PROVE  TypeOK'
<1> DEFINE p == where[e].place
           obj == [objs[o] EXCEPT !.tags[p] = left]
<1>1. objs[o] \in Object /\ o \in Objs /\ p \in Places
  BY ExistingFacts, PlaceFacts
<1>2. obj \in Object /\ objs' = [objs EXCEPT ![o] = obj]
  BY <1>1 DEF Object, TagLists
<1> HIDE DEF obj
<1> QED BY <1>2, TypedStep

\* Every step keeps Inv then, as it does when there is something to count.
LEMMA NothingCounted ==
  ASSUME Inv, Counted = {}, [Next]_vars
  PROVE  Inv'
<1>1. TypeOK
  BY DEF Inv
<1>2. \A a, b : Together(a, b) \in Delta
  BY DEF Together, Delta
<1>3. ASSUME NEW o \in Objs, NEW c \in Calls, NEW new \in NewArrays(c.val),
             handle_tag(o, c.expr, c.name, c.val, new)
      PROVE  TypeOK'
  <2>1. refs' \in Delta /\ UNCHANGED <<where, script>>
    BY <1>2, <1>3, Zenon DEF handle_tag
  <2>2. o \in Existing /\ c.expr \in Exprs
    BY <1>1, <1>3, CallMeans DEF Found
  <2>3. PICK left \in List : objs' = [objs EXCEPT ![o].tags[where[c.expr].place] = left]
    BY <1>1, <1>3, CallMeans
  <2> QED BY <1>1, <2>1, <2>2, <2>3, TypedListStep
<1>4. ASSUME NEW o \in Objs, NEW e \in Exprs, UntagAll(o, e) PROVE TypeOK'
  <2>1. refs' \in Delta /\ UNCHANGED <<where, script>>
    BY <1>2, <1>4 DEF UntagAll
  <2>2. o \in Existing /\ objs' = [objs EXCEPT ![o].tags[where[e].place] = << >>]
    BY <1>4 DEF UntagAll, Found
  <2>3. << >> \in List
    BY DEF List
  <2> QED BY <1>1, <2>1, <2>2, <2>3, TypedListStep
<1>5. ASSUME NEW o \in Objs, NEW e \in Exprs, NEW name \in {"Hooks", "Dimension"}, GetTag(o, e, name)
      PROVE  TypeOK'
  BY <1>5, GetTag_counts DEF Inv
<1>6. ASSUME NEW o \in Objs, Create(o) PROVE TypeOK'
  BY <1>6, Create_counts DEF Inv
<1>7. ASSUME NEW o \in Objs, Parse(o) PROVE TypeOK'
  BY <1>7, Parse_counts DEF Inv
<1>8. ASSUME NEW o \in Objs, Clean(o) PROVE TypeOK'
  <2> DEFINE kept == [p \in Places |-> IF p \in Basic THEN objs[o].tags[p] ELSE << >>]
             obj == [objs[o] EXCEPT !.parsed = FALSE, !.tags = kept]
  <2>1. refs' \in Delta /\ UNCHANGED <<where, script>>
    BY <1>2, <1>8 DEF Clean
  <2>2. o \in Existing /\ objs' = [objs EXCEPT ![o].parsed = FALSE, ![o].tags = kept]
    BY <1>8 DEF Clean
  <2>3. objs[o] \in Object
    BY <1>1, <2>2, ExistingFacts
  <2>4. kept \in TagLists
    <3>1. << >> \in List
      BY DEF List
    <3> QED BY <2>3, <3>1 DEF Object, TagLists
  <2> HIDE DEF kept
  <2>5. obj \in Object /\ objs' = [objs EXCEPT ![o] = obj]
    BY <1>1, <2>2, <2>3, <2>4 DEF Object, TypeOK
  <2> HIDE DEF obj
  <2> QED BY <1>1, <2>1, <2>5, TypedStep
<1>9. ASSUME NEW o \in Objs, Destroy(o) PROVE TypeOK'
  BY <1>1, <1>2, <1>9, TypedStep DEF Destroy
<1>10. ASSUME NEW o \in Objs, NEW p \in Objs, Clone(o, p) PROVE TypeOK'
  <2>1. objs[o] \in Object
    BY <1>1, <1>10, ExistingFacts DEF Clone
  <2> QED BY <1>1, <1>2, <1>10, <2>1, TypedStep DEF Clone
<1>11. ASSUME NEW f \in Subs, Release(f) PROVE TypeOK'
  BY <1>11, Release_counts DEF Inv
<1>12. ASSUME UNCHANGED vars PROVE TypeOK'
  BY <1>1, <1>12 DEF TypeOK, vars
<1>13. TypeOK'
  BY <1>3, <1>4, <1>5, <1>6, <1>7, <1>8, <1>9, <1>10, <1>11, <1>12 DEF Next
<1> QED BY <1>13 DEF Inv, RefsCounted

\* In the beginning, what is held is what is promised,
LEMMA InitPromised == Init => Promise!Init
<1> SUFFICES ASSUME Init PROVE Promise!Init
  OBVIOUS
<1>1. AllHeld = AllMeans
  BY InitCounts, HeldMeans
<1>2. \A o \in Objs : ObjectMeans(objs[o]) = NoObject
  BY DEF Init, ObjectMeans, NoObject
<1> QED BY <1>1, <1>2 DEF AllMeans, Promise!Init, Promise!NoObject, NoObject

\* and every step is one that is promised, or changes nothing that is held.
LEMMA NextPromised == Inv /\ Inv' /\ Covered /\ [Next]_vars => [Promise!Next]_AllHeld
<1> SUFFICES ASSUME Inv, Inv', Covered, [Next]_vars PROVE [Promise!Next]_AllHeld
  OBVIOUS
<1>1. ASSUME NEW o \in Objs, NEW c \in Calls, NEW new \in NewArrays(c.val),
             handle_tag(o, c.expr, c.name, c.val, new)
      PROVE  [Promise!Next]_AllHeld
  BY <1>1, handle_tag_promised, Zenon
<1>2. ASSUME NEW o \in Objs, NEW e \in Exprs, UntagAll(o, e) PROVE [Promise!Next]_AllHeld
  BY <1>2, UntagAll_promised
<1>3. ASSUME NEW o \in Objs, NEW e \in Exprs, NEW name \in {"Hooks", "Dimension"}, GetTag(o, e, name)
      PROVE  [Promise!Next]_AllHeld
  BY <1>3, Unchanged_promised, Zenon DEF GetTag
<1>4. ASSUME NEW o \in Objs, Create(o) PROVE [Promise!Next]_AllHeld
  BY <1>4, Create_promised
<1>5. ASSUME NEW o \in Objs, Parse(o) PROVE [Promise!Next]_AllHeld
  BY <1>5, Parse_promised
<1>6. ASSUME NEW o \in Objs, Clean(o) PROVE [Promise!Next]_AllHeld
  BY <1>6, Clean_promised
<1>7. ASSUME NEW o \in Objs, Destroy(o) PROVE [Promise!Next]_AllHeld
  BY <1>7, Destroy_promised
<1>8. ASSUME NEW o \in Objs, NEW p \in Objs, Clone(o, p) PROVE [Promise!Next]_AllHeld
  BY <1>8, Clone_promised
<1>9. ASSUME NEW f \in Subs, Release(f) PROVE [Promise!Next]_AllHeld
  BY <1>9, Unchanged_promised DEF Release
<1>10. ASSUME UNCHANGED vars PROVE [Promise!Next]_AllHeld
  BY <1>10, Unchanged_promised DEF vars
<1> QED BY <1>1, <1>2, <1>3, <1>4, <1>5, <1>6, <1>7, <1>8, <1>9, <1>10 DEF Next

\* Expressions mean what they do, so that the calls that are allowed stay the same.
LEMMA CoveredStays == Covered /\ [Next]_vars => Covered'
<1> SUFFICES ASSUME Covered, [Next]_vars PROVE Covered'
  OBVIOUS
<1>1. where' = where
  <2>1. ASSUME NEW o, NEW c, NEW new, handle_tag(o, c.expr, c.name, c.val, new) PROVE where' = where
    BY <2>1, Zenon DEF handle_tag
  <2>2. ASSUME NEW o, NEW e, UntagAll(o, e) PROVE where' = where
    BY <2>2 DEF UntagAll
  <2>3. ASSUME NEW o, NEW e, NEW name, GetTag(o, e, name) PROVE where' = where
    BY <2>3, Zenon DEF GetTag
  <2>4. ASSUME NEW o, Create(o) \/ Parse(o) \/ Clean(o) \/ Destroy(o) PROVE where' = where
    BY <2>4 DEF Create, Parse, Clean, Destroy
  <2>5. ASSUME NEW o, NEW p, Clone(o, p) PROVE where' = where
    BY <2>5 DEF Clone
  <2>6. ASSUME NEW f, Release(f) PROVE where' = where
    BY <2>6 DEF Release
  <2>7. UNCHANGED vars => where' = where
    BY DEF vars
  <2> QED BY <2>1, <2>2, <2>3, <2>4, <2>5, <2>6, <2>7 DEF Next
<1> QED BY <1>1 DEF Covered

\* TypeOK, for any number of objects, places and calls: no list has two tags of the
\* same name, which insert_tag (cttags.c) leaves to its callers, and what is in a
\* tag is what its name says.
THEOREM ListsAreRight == Spec => []TypeOK
<1>1. Inv /\ [Next]_vars => Inv'
  BY NextCounts, NothingCounted
<1>2. Inv => TypeOK
  BY DEF Inv
<1> QED BY <1>1, <1>2, InitCounts, PTL DEF Spec

\* KeepsPromise, for any number of objects, places, hooks and subs, if Changes has
\* what the calls do that are allowed: tag and untag (xsubs/tag.xs) set or remove
\* what they name and leave everything else alone, of this object and of its
\* copies, and nothing that a hook needs is freed; a call that is refused, or
\* fails, does nothing.
THEOREM PromiseKept == Covered /\ Spec => KeepsPromise
<1>1. Inv /\ [Next]_vars => Inv'
  BY NextCounts, NothingCounted
<1> QED BY <1>1, InitCounts, InitPromised, NextPromised, CoveredStays, PTL
        DEF Spec, KeepsPromise, Promise!Spec
===============================================================================
