----------------------------- MODULE Pack_proofs -----------------------------
(***************************************************************************)
(* pack and unpack, for any types, data and strings: neither touches       *)
(* memory outside of the string, each call runs with the byte order of its *)
(* place, and each dimension is looked up in the struct it belongs to.     *)
(***************************************************************************)
EXTENDS Pack, SequenceTheorems, WellFoundedInduction, TLAPS

-----------------------------------------------------------------------------
(* Loops.                                                                  *)

\* Induction over the natural numbers, for a set of them.
LEMMA NatSetInduction ==
  ASSUME NEW S, 0 \in S, \A n \in S \cap Nat : n + 1 \in S
  PROVE  Nat \subseteq S
<1> DEFINE T == Nat \ S
           R == OpToRel(<, Nat)
<1> SUFFICES ASSUME T # {} PROVE FALSE
  OBVIOUS
<1>1. T \subseteq Nat /\ IsWellFoundedOn(R, Nat)
  BY NatLessThanWellFounded
<1> HIDE DEF T, R
<1>2. PICK k \in T : \A y \in T : <<y, k>> \notin R
  BY <1>1, WFMin
<1>3. k \in Nat /\ k # 0 /\ k - 1 \in Nat /\ k = (k - 1) + 1
  BY <1>1, <1>2 DEF T
<1>4. k - 1 \notin T
  <2> SUFFICES ASSUME k - 1 \in T PROVE FALSE
    OBVIOUS
  <2> DEFINE p == <<k - 1, k>>
  <2>1. p \in Nat \X Nat /\ p[1] = k - 1 /\ p[2] = k /\ p[1] < p[2]
    BY <1>3
  <2> HIDE DEF p
  <2>2. p \in R
    BY <2>1, SMT DEF R, OpToRel
  <2> QED BY <1>2, <2>2 DEF p
<1> QED BY <1>2, <1>3, <1>4 DEF T

\* A loop that turns one value of S into another has a value after each turn.
LEMMA LoopFacts ==
  ASSUME NEW S, NEW x \in S, NEW n \in Nat, NEW F \in [1 .. n -> [S -> S]]
  PROVE  \E s \in [0 .. n -> S] : s[0] = x /\ \A k \in 1 .. n : s[k] = F[k][s[k - 1]]
<1> DEFINE Loops(s, m) == s \in [0 .. m -> S] /\ s[0] = x /\ \A k \in 1 .. m : s[k] = F[k][s[k - 1]]
           N == {m \in Nat : m <= n => \E s : Loops(s, m)}
<1>1. 0 \in N
  <2> DEFINE s == [k \in 0 .. 0 |-> x]
  <2>1. Loops(s, 0)
    OBVIOUS
  <2> HIDE DEF s
  <2> QED BY <2>1
<1>2. ASSUME NEW m \in N \cap Nat PROVE m + 1 \in N
  <2> HIDE DEF Loops
  <2> SUFFICES ASSUME m + 1 <= n PROVE \E s : Loops(s, m + 1)
    OBVIOUS
  <2> USE DEF Loops
  <2>1. PICK s : Loops(s, m)
    BY <1>2
  <2> DEFINE t == [k \in 0 .. m + 1 |-> IF k <= m THEN s[k] ELSE F[m + 1][s[m]]]
  <2>2. s[m] \in S /\ F[m + 1] \in [S -> S]
    BY <2>1
  <2>3. t \in [0 .. m + 1 -> S] /\ t[0] = x
    BY <2>1, <2>2
  <2>4. ASSUME NEW k \in 1 .. m + 1 PROVE t[k] = F[k][t[k - 1]]
    <3>1. CASE k <= m
      BY <2>1, <3>1
    <3>2. CASE k = m + 1
      BY <2>1, <3>2
    <3> QED BY <3>1, <3>2
  <2> HIDE DEF t
  <2>5. Loops(t, m + 1)
    BY <2>3, <2>4
  <2> QED BY <2>5
<1>3. \E s : Loops(s, n)
  <2> HIDE DEF N
  <2>1. Nat \subseteq N
    BY <1>1, <1>2, NatSetInduction
  <2> QED BY <2>1 DEF N
<1> QED BY <1>3

\* A loop that starts in a set and does not leave it ends in it.
LEMMA LoopStays ==
  ASSUME NEW S, NEW n \in Nat, NEW p, p[0] \in S,
         \A k \in 1 .. n : p[k - 1] \in S => p[k] \in S
  PROVE  \A k \in 0 .. n : p[k] \in S
<1> DEFINE N == {k \in Nat : k <= n => p[k] \in S}
<1>1. 0 \in N
  OBVIOUS
<1>2. ASSUME NEW k \in N \cap Nat PROVE k + 1 \in N
  <2> SUFFICES ASSUME k + 1 <= n PROVE p[k + 1] \in S
    OBVIOUS
  <2>1. k + 1 \in 1 .. n /\ (k + 1) - 1 = k
    OBVIOUS
  <2> QED BY <2>1
<1> HIDE DEF N
<1>3. Nat \subseteq N
  BY <1>1, <1>2, NatSetInduction
<1> QED BY <1>3 DEF N

\* Powers of two are positive.
LEMMA TwoToFacts ==
  ASSUME NEW n \in Nat
  PROVE  TwoTo(n) \in Nat \ {0}
<1> DEFINE P == Nat \ {0}
           F == [k \in 1 .. n |-> [y \in P |-> 2 * y]]
           power == CHOOSE p : p = [i \in 0 .. n |-> IF i = 0 THEN 1 ELSE 2 * p[i - 1]]
<1>1. 1 \in P /\ F \in [1 .. n -> [P -> P]]
  OBVIOUS
<1>2. PICK s \in [0 .. n -> P] : s[0] = 1 /\ \A k \in 1 .. n : s[k] = F[k][s[k - 1]]
  <2> HIDE DEF F, P
  <2> QED BY <1>1, LoopFacts
<1>3. ASSUME NEW k \in 0 .. n PROVE s[k] = IF k = 0 THEN 1 ELSE 2 * s[k - 1]
  <2>1. CASE k = 0
    BY <1>2, <2>1
  <2>2. CASE k # 0
    <3>1. k \in 1 .. n /\ s[k - 1] \in P
      BY <1>2, <2>2
    <3>2. F[k][s[k - 1]] = 2 * s[k - 1]
      BY <3>1
    <3> QED BY <1>2, <2>2, <3>1, <3>2
  <2> QED BY <2>1, <2>2
<1>4. s = [k \in 0 .. n |-> IF k = 0 THEN 1 ELSE 2 * s[k - 1]]
  BY <1>2, <1>3
<1>5. power = [k \in 0 .. n |-> IF k = 0 THEN 1 ELSE 2 * power[k - 1]]
  BY <1>4
<1> HIDE DEF power
<1>6. power[0] \in P
  BY <1>5
<1>7. ASSUME NEW k \in 1 .. n, power[k - 1] \in P PROVE power[k] \in P
  BY <1>5, <1>7, SMTT(60)
<1>8. \A k \in 0 .. n : power[k] \in P
  <2> HIDE DEF P
  <2>1. \A k \in 1 .. n : power[k - 1] \in P => power[k] \in P
    BY <1>7
  <2> QED BY <1>6, <2>1, LoopStays
<1> QED BY <1>8 DEF TwoTo, power

\* The number that a sequence of integers stands for is an integer.
LEMMA NumberFacts ==
  ASSUME NEW o, NEW b \in Seq(Int)
  PROVE  Number(o, b) \in Int
<1> DEFINE n == Len(b)
           low == Lowest(o, b)
           F == [k \in 1 .. n |-> [y \in Int |-> 256 * y + low[n + 1 - k]]]
           sum == CHOOSE p : p = [i \in 0 .. n |-> IF i = 0 THEN 0 ELSE 256 * p[i - 1] + low[n + 1 - i]]
<1>1. n \in Nat /\ \A i \in 1 .. n : b[i] \in Int
  OBVIOUS
<1>2. \A i \in 1 .. n : low[i] \in Int
  BY <1>1 DEF Lowest, Reverse
<1> HIDE DEF n, low
<1>3. \A k \in 1 .. n : low[n + 1 - k] \in Int
  BY <1>1, <1>2
<1>4. F \in [1 .. n -> [Int -> Int]]
  BY <1>3
<1>5. PICK s \in [0 .. n -> Int] : s[0] = 0 /\ \A k \in 1 .. n : s[k] = F[k][s[k - 1]]
  <2> DEFINE Z == Int
  <2>1. 0 \in Z /\ F \in [1 .. n -> [Z -> Z]]
    BY <1>4
  <2> HIDE DEF F, Z
  <2>2. \E s \in [0 .. n -> Z] : s[0] = 0 /\ \A k \in 1 .. n : s[k] = F[k][s[k - 1]]
    BY <1>1, <2>1, LoopFacts, SMTT(60)
  <2> QED BY <2>2 DEF Z
<1>6. ASSUME NEW k \in 0 .. n
      PROVE  s[k] = IF k = 0 THEN 0 ELSE 256 * s[k - 1] + low[n + 1 - k]
  <2>1. CASE k = 0
    BY <1>5, <2>1
  <2>2. CASE k # 0
    <3>1. k \in 1 .. n /\ s[k - 1] \in Int
      BY <1>1, <1>5, <2>2
    <3>2. F[k][s[k - 1]] = 256 * s[k - 1] + low[n + 1 - k]
      BY <3>1
    <3> QED BY <1>5, <2>2, <3>1, <3>2
  <2> QED BY <2>1, <2>2
<1>7. s = [k \in 0 .. n |-> IF k = 0 THEN 0 ELSE 256 * s[k - 1] + low[n + 1 - k]]
  BY <1>5, <1>6
<1>8. sum = [k \in 0 .. n |-> IF k = 0 THEN 0 ELSE 256 * sum[k - 1] + low[n + 1 - k]]
  BY <1>7, ZenonT(60)
<1> HIDE DEF sum
<1>9. sum[0] \in Int
  BY <1>1, <1>8
<1>10. ASSUME NEW k \in 1 .. n, sum[k - 1] \in Int PROVE sum[k] \in Int
  <2>1. sum[k] = 256 * sum[k - 1] + low[n + 1 - k] /\ low[n + 1 - k] \in Int
    BY <1>1, <1>3, <1>8, SMTT(60)
  <2> QED BY <1>10, <2>1
<1>11. \A k \in 0 .. n : sum[k] \in Int
  <2> DEFINE Z == Int
  <2>1. sum[0] \in Z /\ \A k \in 1 .. n : sum[k - 1] \in Z => sum[k] \in Z
    BY <1>9, <1>10
  <2> HIDE DEF Z
  <2>2. \A k \in 0 .. n : sum[k] \in Z
    BY <1>1, <2>1, LoopStays
  <2> QED BY <2>2 DEF Z
<1> QED BY <1>11 DEF Number, sum, n, low

\* The sizes of the parts of an array: each is that of its own parts, as often
\* as there are.
LEMMA ItemSizeFacts ==
  ASSUME NEW d, d.item \in Nat, d.dims \in Seq(Nat)
  PROVE  /\ \A n \in 0 .. Len(d.dims) : ItemSize(d, n) \in Nat
         /\ ItemSize(d, Len(d.dims)) = d.item
         /\ \A n \in 0 .. Len(d.dims) - 1 : ItemSize(d, n) = ItemSize(d, n + 1) * d.dims[n + 1]
<1> DEFINE m == Len(d.dims)
           dim == [k \in 1 .. m |-> d.dims[m + 1 - k]]
           F == [k \in 1 .. m |-> [y \in Nat |-> y * dim[k]]]
           size == CHOOSE p : p = [i \in 0 .. m |-> IF i = 0 THEN d.item ELSE p[i - 1] * d.dims[m + 1 - i]]
<1>1. m \in Nat /\ \A k \in 1 .. m : d.dims[m + 1 - k] \in Nat
  OBVIOUS
<1> HIDE DEF m
<1>2. \A k \in 1 .. m : dim[k] = d.dims[m + 1 - k] /\ dim[k] \in Nat
  BY <1>1
<1> HIDE DEF dim
<1>3. ASSUME NEW y \in Nat, NEW z \in Nat PROVE y * z \in Nat
  OBVIOUS
<1>4. F \in [1 .. m -> [Nat -> Nat]]
  BY <1>2, <1>3
<1>5. PICK s \in [0 .. m -> Nat] : s[0] = d.item /\ \A k \in 1 .. m : s[k] = F[k][s[k - 1]]
  <2> DEFINE N == Nat
             x == d.item
  <2>1. m \in Nat /\ x \in N /\ F \in [1 .. m -> [N -> N]]
    BY <1>1, <1>4
  <2> HIDE DEF F, N, x
  <2>2. \E s \in [0 .. m -> N] : s[0] = x /\ \A k \in 1 .. m : s[k] = F[k][s[k - 1]]
    BY <2>1, LoopFacts, SMTT(60)
  <2> QED BY <2>2 DEF N, x
<1>6. ASSUME NEW k \in 0 .. m
      PROVE  s[k] = IF k = 0 THEN d.item ELSE s[k - 1] * d.dims[m + 1 - k]
  <2>1. CASE k = 0
    BY <1>5, <2>1
  <2>2. CASE k # 0
    <3>1. k \in 1 .. m /\ s[k - 1] \in Nat
      BY <1>1, <1>5, <2>2
    <3>2. F[k][s[k - 1]] = s[k - 1] * dim[k]
      BY <3>1
    <3> QED BY <1>2, <1>5, <2>2, <3>1, <3>2
  <2> QED BY <2>1, <2>2
<1>7. s = [k \in 0 .. m |-> IF k = 0 THEN d.item ELSE s[k - 1] * d.dims[m + 1 - k]]
  BY <1>5, <1>6
<1>8. size = [k \in 0 .. m |-> IF k = 0 THEN d.item ELSE size[k - 1] * d.dims[m + 1 - k]]
  BY <1>7
<1> HIDE DEF size
<1>9. \A n : ItemSize(d, n) = size[m - n]
  BY DEF ItemSize, size, m
<1>10. size[0] \in Nat
  BY <1>1, <1>8
<1>11. ASSUME NEW k \in 1 .. m, size[k - 1] \in Nat PROVE size[k] \in Nat
  <2>1. size[k] = size[k - 1] * d.dims[m + 1 - k]
    BY <1>1, <1>8, SMTT(60)
  <2> QED BY <1>1, <1>3, <1>11, <2>1
<1>12. \A k \in 0 .. m : size[k] \in Nat
  <2> DEFINE N == Nat
  <2>1. size[0] \in N /\ \A k \in 1 .. m : size[k - 1] \in N => size[k] \in N
    BY <1>10, <1>11
  <2> HIDE DEF N
  <2>2. \A k \in 0 .. m : size[k] \in N
    BY <1>1, <2>1, LoopStays
  <2> QED BY <2>2 DEF N
<1>13. ASSUME NEW n \in 0 .. m PROVE ItemSize(d, n) \in Nat
  <2>1. m - n \in 0 .. m
    BY <1>1
  <2> QED BY <1>9, <1>12, <2>1
<1>14. ItemSize(d, m) = d.item
  <2>1. m - m = 0 /\ 0 \in 0 .. m
    BY <1>1
  <2> QED BY <1>8, <1>9, <2>1
<1>15. ASSUME NEW n \in 0 .. m - 1 PROVE ItemSize(d, n) = ItemSize(d, n + 1) * d.dims[n + 1]
  <2>1. m - n \in 0 .. m /\ m - n # 0 /\ (m - n) - 1 = m - (n + 1) /\ m + 1 - (m - n) = n + 1
    BY <1>1
  <2>2. size[m - n] = size[(m - n) - 1] * d.dims[m + 1 - (m - n)]
    BY <1>8, <2>1
  <2> QED BY <1>9, <2>1, <2>2
<1> QED BY <1>13, <1>14, <1>15 DEF m

-----------------------------------------------------------------------------
(* Sequences.                                                              *)

\* A sequence of anything.
IsSeq(s) == s \in Seq({s[i] : i \in DOMAIN s})

\* What has the domain of a sequence is one.
LEMMA SeqFacts ==
  ASSUME NEW n \in Nat, NEW s, s = [i \in 1 .. n |-> s[i]]
  PROVE  IsSeq(s) /\ Len(s) = n /\ DOMAIN s = 1 .. n
<1> DEFINE T == {s[i] : i \in DOMAIN s}
<1>1. DOMAIN s = 1 .. n
  OBVIOUS
<1>2. s \in [1 .. n -> T]
  BY <1>1
<1>3. s \in Seq(T)
  <2> HIDE DEF T
  <2> QED BY <1>2
<1>4. Len(s) = n
  <2> HIDE DEF T
  <2> QED BY <1>1, <1>3
<1> QED BY <1>1, <1>3, <1>4 DEF IsSeq

\* The length and the domain of a sequence,
LEMMA IsSeqFacts ==
  ASSUME NEW s, IsSeq(s)
  PROVE  Len(s) \in Nat /\ DOMAIN s = 1 .. Len(s) /\ s = [i \in 1 .. Len(s) |-> s[i]]
<1> DEFINE T == {s[i] : i \in DOMAIN s}
<1>1. s \in Seq(T)
  BY DEF IsSeq
<1> HIDE DEF T
<1> QED BY <1>1

\* of whatever set its elements are,
LEMMA SeqIsSeq ==
  ASSUME NEW S, NEW s \in Seq(S)
  PROVE  IsSeq(s)
BY SeqFacts

\* and the set that they are all in.
LEMMA SeqInSeq ==
  ASSUME NEW S, NEW s, IsSeq(s), \A i \in 1 .. Len(s) : s[i] \in S
  PROVE  s \in Seq(S)
<1>1. Len(s) \in Nat /\ s = [i \in 1 .. Len(s) |-> s[i]]
  BY IsSeqFacts
<1> HIDE DEF IsSeq
<1>2. s \in [1 .. Len(s) -> S]
  BY <1>1
<1> QED BY <1>1, <1>2

\* One sequence behind another.
LEMMA ConcatFacts ==
  ASSUME NEW s, NEW t, IsSeq(s), IsSeq(t)
  PROVE  /\ IsSeq(s \o t)
         /\ Len(s) \in Nat /\ Len(t) \in Nat /\ Len(s \o t) = Len(s) + Len(t)
         /\ \A i \in 1 .. Len(s) : (s \o t)[i] = s[i]
         /\ \A i \in 1 .. Len(t) : (s \o t)[Len(s) + i] = t[i]
         /\ \A i \in Len(s) + 1 .. Len(s) + Len(t) : (s \o t)[i] = t[i - Len(s)]
<1> DEFINE S == {s[i] : i \in DOMAIN s}
           T == {t[i] : i \in DOMAIN t}
<1>1. s \in Seq(S) /\ t \in Seq(T)
  BY DEF IsSeq
<1> HIDE DEF S, T
<1>2. s \in Seq(S \cup T) /\ t \in Seq(S \cup T)
  BY <1>1
<1>3. /\ s \o t \in Seq(S \cup T)
      /\ Len(s \o t) = Len(s) + Len(t)
      /\ \A i \in 1 .. Len(s) + Len(t) : (s \o t)[i] = IF i <= Len(s) THEN s[i] ELSE t[i - Len(s)]
  BY <1>2, ConcatProperties
<1>4. IsSeq(s \o t)
  BY <1>3, SeqIsSeq
<1>5. Len(s) \in Nat /\ Len(t) \in Nat
  BY <1>1
<1> HIDE DEF IsSeq
<1>6. ASSUME NEW i \in 1 .. Len(s) PROVE (s \o t)[i] = s[i]
  BY <1>3, <1>5
<1>7. ASSUME NEW i \in Len(s) + 1 .. Len(s) + Len(t) PROVE (s \o t)[i] = t[i - Len(s)]
  BY <1>3, <1>5
<1>8. ASSUME NEW i \in 1 .. Len(t) PROVE (s \o t)[Len(s) + i] = t[i]
  <2>1. Len(s) + i \in Len(s) + 1 .. Len(s) + Len(t) /\ (Len(s) + i) - Len(s) = i
    BY <1>5
  <2> QED BY <1>7, <2>1
<1> QED BY <1>3, <1>4, <1>5, <1>6, <1>7, <1>8

\* A sequence without its head,
LEMMA TailFacts ==
  ASSUME NEW s, IsSeq(s), s # << >>
  PROVE  /\ Len(s) \in Nat \ {0} /\ IsSeq(Tail(s)) /\ Len(Tail(s)) = Len(s) - 1
         /\ Head(s) = s[1]
         /\ \A i \in 1 .. Len(s) - 1 : Tail(s)[i] = s[i + 1]
<1> DEFINE S == {s[i] : i \in DOMAIN s}
<1>1. s \in Seq(S)
  BY DEF IsSeq
<1> HIDE DEF S
<1>2. /\ Tail(s) \in Seq(S) /\ Len(Tail(s)) = Len(s) - 1
      /\ \A i \in 1 .. Len(Tail(s)) : Tail(s)[i] = s[i + 1]
  BY <1>1, HeadTailProperties
<1>3. IsSeq(Tail(s))
  BY <1>2, SeqIsSeq
<1>4. Len(s) \in Nat \ {0} /\ Head(s) = s[1]
  BY <1>1
<1> QED BY <1>2, <1>3, <1>4

\* one of a single element,
LEMMA SingleFacts ==
  ASSUME NEW x
  PROVE  IsSeq(<<x>>) /\ Len(<<x>>) = 1 /\ <<x>>[1] = x
<1>1. <<x>> \in Seq({x})
  OBVIOUS
<1> QED BY <1>1, SeqIsSeq

\* one of two,
LEMMA PairFacts ==
  ASSUME NEW x, NEW y
  PROVE  IsSeq(<<x, y>>) /\ Len(<<x, y>>) = 2 /\ <<x, y>>[1] = x /\ <<x, y>>[2] = y
<1>1. <<x, y>> \in Seq({x, y})
  OBVIOUS
<1> QED BY <1>1, SeqIsSeq

\* and the empty one.
LEMMA EmptyFacts == IsSeq(<< >>) /\ Len(<< >>) = 0
<1>1. << >> \in Seq({})
  OBVIOUS
<1> QED BY <1>1, SeqIsSeq

\* Of two numbers,
LEMMA MaxFacts ==
  ASSUME NEW a \in Int, NEW b \in Int
  PROVE  /\ Max({a, b}) \in {a, b} /\ Max({a, b}) >= a /\ Max({a, b}) >= b
         /\ Min({a, b}) \in {a, b} /\ Min({a, b}) <= a /\ Min({a, b}) <= b
<1>1. \E x \in {a, b} : \A y \in {a, b} : x >= y
  OBVIOUS
<1>2. \E x \in {a, b} : \A y \in {a, b} : x =< y
  OBVIOUS
<1> QED BY <1>1, <1>2 DEF Max, Min

\* and of a set.
LEMMA MinFacts ==
  ASSUME NEW S \in SUBSET Nat, S # {}
  PROVE  Min(S) \in S /\ \A y \in S : Min(S) <= y
<1> DEFINE R == OpToRel(<, Nat)
<1>1. S \subseteq Nat /\ IsWellFoundedOn(R, Nat)
  BY NatLessThanWellFounded
<1> HIDE DEF R
<1>2. PICK k \in S : \A y \in S : <<y, k>> \notin R
  BY <1>1, WFMin
<1>3. ASSUME NEW y \in S PROVE k <= y
  <2> SUFFICES ASSUME y < k PROVE FALSE
    BY <1>1, <1>2
  <2> DEFINE p == <<y, k>>
  <2>1. p \in Nat \X Nat /\ p[1] = y /\ p[2] = k /\ p[1] < p[2]
    BY <1>1, <1>2
  <2> HIDE DEF p
  <2>2. p \in R
    BY <2>1, SMT DEF R, OpToRel
  <2> QED BY <1>2, <2>2 DEF p
<1>4. \E x \in S : \A y \in S : x =< y
  BY <1>2, <1>3
<1> QED BY <1>4 DEF Min

\* FlattenSeq puts its sequences behind each other, one after the other.
LEMMA FlattenLoop ==
  ASSUME NEW f, IsSeq(f), NEW n, n = Len(f), \A i \in 1 .. n : IsSeq(f[i])
  PROVE  \E p : /\ p[0] = << >> /\ \A k \in 1 .. n : IsSeq(p[k - 1]) /\ p[k] = p[k - 1] \o f[k]
                /\ FlattenSeq(f) = p[n] /\ IsSeq(p[n])
<1> DEFINE T == UNION {{f[i][j] : j \in DOMAIN f[i]} : i \in 1 .. n}
           U == Seq(T)
           F == [k \in 1 .. n |-> [y \in U |-> y \o f[k]]]
<1>0. n \in Nat /\ DOMAIN f = 1 .. n
  BY IsSeqFacts
<1>1. ASSUME NEW k \in 1 .. n PROVE f[k] \in U
  <2>1. DOMAIN f[k] = 1 .. Len(f[k]) /\ IsSeq(f[k])
    BY IsSeqFacts
  <2>2. \A j \in 1 .. Len(f[k]) : f[k][j] \in T
    BY <2>1
  <2> HIDE DEF T
  <2> QED BY <2>1, <2>2, SeqInSeq
<1>2. << >> \in U
  OBVIOUS
<1>3. ASSUME NEW k \in 1 .. n, NEW y \in U PROVE y \o f[k] \in U
  <2> HIDE DEF T
  <2> QED BY <1>1, ConcatProperties
<1>4. ASSUME NEW y \in U PROVE IsSeq(y)
  <2> HIDE DEF T
  <2> QED BY SeqIsSeq
<1> HIDE DEF U
<1>5. F \in [1 .. n -> [U -> U]]
  BY <1>3
<1>6. PICK p \in [0 .. n -> U] : p[0] = << >> /\ \A k \in 1 .. n : p[k] = F[k][p[k - 1]]
  <2> DEFINE x == << >>
  <2>1. x \in U
    BY <1>2
  <2> HIDE DEF F, x
  <2>2. \E p \in [0 .. n -> U] : p[0] = x /\ \A k \in 1 .. n : p[k] = F[k][p[k - 1]]
    BY <1>0, <1>5, <2>1, LoopFacts, Z3T(30)
  <2> QED BY <2>2 DEF x
<1>7. ASSUME NEW k \in 1 .. n PROVE p[k - 1] \in U /\ p[k] = p[k - 1] \o f[k]
  <2>1. k - 1 \in 0 .. n
    OBVIOUS
  <2>2. p[k - 1] \in U
    BY <1>6, <2>1
  <2> QED BY <1>6, <2>2
<1>8. Len(f) = n /\ DOMAIN f = 1 .. n
  BY <1>0
<1>9. CASE n = 0
  <2>1. f = << >>
    BY <1>8, <1>9, IsSeqFacts
  <2>2. FlattenSeq(f) = f
    BY <1>8, <1>9 DEF FlattenSeq
  <2>3. p[n] = << >> /\ IsSeq(p[n])
    BY <1>6, <1>9, EmptyFacts
  <2> QED BY <1>4, <1>6, <1>7, <2>1, <2>2, <2>3
<1>10. CASE n # 0
  <2> DEFINE Flat(g) == g = [i \in 1 .. n |-> IF i = 1 THEN f[i] ELSE g[i - 1] \o f[i]]
             h == [k \in 1 .. n |-> p[k]]
             flatten == CHOOSE g : Flat(g)
             q == [k \in 0 .. n |-> IF k = 0 THEN << >> ELSE flatten[k]]
  <2>1. ASSUME NEW k \in 1 .. n PROVE h[k] = IF k = 1 THEN f[k] ELSE h[k - 1] \o f[k]
    <3>1. CASE k = 1
      <4>1. p[0] \o f[k] = f[k]
        <5>1. f[k] = << >> \o f[k]
          BY <1>1, <1>3, ConcatEmptySeq DEF U
        <5> QED BY <1>6, <5>1
      <4>2. k - 1 = 0 /\ h[k] = p[k]
        BY <3>1
      <4> HIDE DEF h
      <4> QED BY <1>7, <3>1, <4>1, <4>2
    <3>2. CASE k # 1
      <4>1. k - 1 \in 1 .. n
        BY <3>2
      <4>2. h[k] = p[k] /\ h[k - 1] = p[k - 1]
        BY <4>1
      <4> HIDE DEF h
      <4> QED BY <1>7, <3>2, <4>2
    <3> QED BY <3>1, <3>2
  <2>2. Flat(h)
    BY <2>1
  <2> HIDE DEF h
  <2>3. Flat(flatten)
    BY <2>2, Zenon
  <2>4. FlattenSeq(f) = flatten[n]
    BY <1>8, <1>10 DEF FlattenSeq
  <2> HIDE DEF flatten
  <2>5. q[0] = << >> /\ q[n] = flatten[n]
    BY <1>10
  <2>6. ASSUME NEW k \in 1 .. n PROVE q[k] = q[k - 1] \o f[k]
    <3>1. CASE k = 1
      <4>1. f[k] = << >> \o f[k]
        BY <1>1, <1>3, ConcatEmptySeq DEF U
      <4>2. flatten[k] = f[k]
        BY <2>3, <3>1
      <4>3. q[k] = flatten[k] /\ k - 1 = 0
        BY <1>0, <3>1
      <4> HIDE DEF q
      <4> QED BY <2>5, <4>1, <4>2, <4>3
    <3>2. CASE k # 1
      <4>1. k - 1 \in 1 .. n
        BY <1>0, <3>2
      <4>2. flatten[k] = flatten[k - 1] \o f[k]
        BY <2>3, <3>2
      <4>3. q[k] = flatten[k] /\ q[k - 1] = flatten[k - 1]
        BY <1>0, <4>1
      <4> HIDE DEF q
      <4> QED BY <4>2, <4>3
    <3> QED BY <3>1, <3>2
  <2> HIDE DEF q
  <2>7. \A k \in 0 .. n : q[k] \in U
    <3>1. q[0] \in U /\ \A k \in 1 .. n : q[k - 1] \in U => q[k] \in U
      BY <1>2, <1>3, <2>5, <2>6
    <3> QED BY <1>0, <3>1, LoopStays
  <2>8. \A k \in 1 .. n : IsSeq(q[k - 1])
    BY <1>4, <2>7
  <2>9. IsSeq(q[n])
    BY <1>4, <2>7
  <2> QED BY <2>4, <2>5, <2>6, <2>8, <2>9
<1> QED BY <1>9, <1>10

\* The k-th element of q is one of the sequences of f, behind the one it was
\* behind.
Placed(f, q, k) ==
  \E i \in 1 .. Len(f) : \E j \in 1 .. Len(f[i]) :
    q[k] = f[i][j] /\ (j > 1 => k > 1 /\ q[k - 1] = f[i][j - 1])

\* What it yields are their elements, each behind the one it was behind.
LEMMA FlattenFacts ==
  ASSUME NEW f, IsSeq(f), NEW n, n = Len(f), \A i \in 1 .. n : IsSeq(f[i])
  PROVE  /\ IsSeq(FlattenSeq(f)) /\ Len(FlattenSeq(f)) \in Nat
         /\ \A k \in 1 .. Len(FlattenSeq(f)) : Placed(f, FlattenSeq(f), k)
<1> DEFINE From(q, k, i, j) == q[k] = f[i][j] /\ (j > 1 => k > 1 /\ q[k - 1] = f[i][j - 1])
           Parts(q) == \A k \in 1 .. Len(q) : \E i \in 1 .. n : \E j \in 1 .. Len(f[i]) : From(q, k, i, j)
<1>1. PICK p : /\ p[0] = << >> /\ \A k \in 1 .. n : IsSeq(p[k - 1]) /\ p[k] = p[k - 1] \o f[k]
               /\ FlattenSeq(f) = p[n] /\ IsSeq(p[n])
  BY FlattenLoop
<1>0. n \in Nat
  BY IsSeqFacts
<1>2. ASSUME NEW m \in 1 .. n, Parts(p[m - 1]) PROVE Parts(p[m])
  <2> DEFINE q == p[m - 1]
             r == p[m]
  <2>1. IsSeq(q) /\ IsSeq(f[m]) /\ r = q \o f[m] /\ Parts(q)
    BY <1>1, <1>2
  <2> HIDE DEF q, r
  <2>2. /\ Len(q) \in Nat /\ Len(f[m]) \in Nat /\ Len(r) = Len(q) + Len(f[m])
        /\ \A i \in 1 .. Len(q) : r[i] = q[i]
        /\ \A i \in Len(q) + 1 .. Len(q) + Len(f[m]) : r[i] = f[m][i - Len(q)]
    BY <2>1, ConcatFacts
  <2>3. ASSUME NEW k \in 1 .. Len(r)
        PROVE  \E i \in 1 .. n : \E j \in 1 .. Len(f[i]) : From(r, k, i, j)
    <3>1. CASE k <= Len(q)
      <4>1. k \in 1 .. Len(q)
        BY <2>2, <3>1
      <4>2. PICK i \in 1 .. n : \E j \in 1 .. Len(f[i]) : From(q, k, i, j)
        BY <2>1, <4>1
      <4>3. PICK j \in 1 .. Len(f[i]) : From(q, k, i, j)
        BY <4>2
      <4>4. r[k] = q[k] /\ (k > 1 => r[k - 1] = q[k - 1])
        BY <2>2, <4>1
      <4>5. From(r, k, i, j)
        BY <4>3, <4>4
      <4> QED BY <4>5
    <3>2. CASE k > Len(q)
      <4> DEFINE j == k - Len(q)
      <4>1. j \in 1 .. Len(f[m]) /\ r[k] = f[m][j]
        BY <2>2, <3>2
      <4>2. ASSUME j > 1 PROVE k > 1 /\ r[k - 1] = f[m][j - 1]
        <5>1. k - 1 \in Len(q) + 1 .. Len(q) + Len(f[m]) /\ (k - 1) - Len(q) = j - 1 /\ k > 1
          BY <2>2, <4>1, <4>2
        <5>2. r[k - 1] = f[m][(k - 1) - Len(q)]
          BY <2>2, <5>1
        <5> QED BY <5>1, <5>2
      <4> HIDE DEF j
      <4>3. From(r, k, m, j)
        BY <4>1, <4>2
      <4> QED BY <4>1, <4>3
    <3> QED BY <2>2, <3>1, <3>2
  <2> HIDE DEF From
  <2>4. Parts(r)
    BY <2>3
  <2> QED BY <2>4 DEF r
<1> DEFINE N == {k \in Nat : k <= n => Parts(p[k])}
<1>3. 0 \in N
  <2>1. Parts(p[0])
    BY <1>1, EmptyFacts
  <2> HIDE DEF Parts
  <2> QED BY <2>1
<1>4. ASSUME NEW k \in N \cap Nat PROVE k + 1 \in N
  <2> HIDE DEF Parts
  <2> SUFFICES ASSUME k + 1 <= n PROVE Parts(p[k + 1])
    OBVIOUS
  <2>1. k + 1 \in 1 .. n /\ (k + 1) - 1 = k /\ Parts(p[k])
    OBVIOUS
  <2>2. Parts(p[(k + 1) - 1])
    BY <2>1
  <2> QED BY <1>2, <2>1, <2>2
<1>5. Parts(p[n])
  <2> HIDE DEF N
  <2>1. Nat \subseteq N
    BY <1>3, <1>4, NatSetInduction
  <2> HIDE DEF Parts
  <2> QED BY <2>1 DEF N
<1>6. IsSeq(FlattenSeq(f)) /\ Len(FlattenSeq(f)) \in Nat
  BY <1>1, IsSeqFacts
<1>7. Parts(FlattenSeq(f))
  <2> HIDE DEF Parts
  <2> QED BY <1>1, <1>5
<1>8. ASSUME NEW k \in 1 .. Len(FlattenSeq(f)) PROVE Placed(f, FlattenSeq(f), k)
  <2>1. PICK i \in 1 .. n : \E j \in 1 .. Len(f[i]) : From(FlattenSeq(f), k, i, j)
    BY <1>7
  <2>2. PICK j \in 1 .. Len(f[i]) : From(FlattenSeq(f), k, i, j)
    BY <2>1
  <2> QED BY <2>2 DEF Placed
<1> QED BY <1>6, <1>8

\* Of pairs it yields the first and the second in turn.
LEMMA FlattenPairs ==
  ASSUME NEW f, IsSeq(f), NEW n, n = Len(f),
         \A i \in 1 .. n : IsSeq(f[i]) /\ Len(f[i]) = 2
  PROVE  /\ IsSeq(FlattenSeq(f)) /\ Len(FlattenSeq(f)) = 2 * n
         /\ \A i \in 1 .. n : FlattenSeq(f)[2 * i - 1] = f[i][1] /\ FlattenSeq(f)[2 * i] = f[i][2]
<1> DEFINE Parts(q, m) ==
             /\ Len(q) = 2 * m
             /\ \A i \in 1 .. m : q[2 * i - 1] = f[i][1] /\ q[2 * i] = f[i][2]
<1>1. PICK p : /\ p[0] = << >> /\ \A k \in 1 .. n : IsSeq(p[k - 1]) /\ p[k] = p[k - 1] \o f[k]
               /\ FlattenSeq(f) = p[n] /\ IsSeq(p[n])
  BY FlattenLoop
<1>0. n \in Nat
  BY IsSeqFacts
<1>2. ASSUME NEW m \in 1 .. n, Parts(p[m - 1], m - 1) PROVE Parts(p[m], m)
  <2> DEFINE q == p[m - 1]
             r == p[m]
  <2>1. Parts(q, m - 1)
    BY <1>2
  <2>2. /\ Len(r) = Len(q) + Len(f[m])
        /\ \A i \in 1 .. Len(q) : r[i] = q[i]
        /\ \A i \in 1 .. Len(f[m]) : r[Len(q) + i] = f[m][i]
    <3> HIDE DEF Parts
    <3>1. IsSeq(q) /\ IsSeq(f[m]) /\ r = q \o f[m]
      BY <1>1
    <3> HIDE DEF q, r
    <3> QED BY <3>1, ConcatFacts
  <2> HIDE DEF q, r
  <2>3. Len(r) = 2 * m /\ Len(q) = 2 * m - 2 /\ Len(f[m]) = 2
    <3>1. Len(f[m]) = 2
      OBVIOUS
    <3>2. Len(q) = 2 * (m - 1)
      BY <2>1
    <3> QED BY <2>2, <3>1, <3>2
  <2>4. ASSUME NEW i \in 1 .. m PROVE r[2 * i - 1] = f[i][1] /\ r[2 * i] = f[i][2]
    <3>1. CASE i < m
      <4>1. i \in 1 .. m - 1 /\ 2 * i - 1 \in 1 .. Len(q) /\ 2 * i \in 1 .. Len(q)
        BY <2>3, <3>1
      <4> QED BY <2>1, <2>2, <4>1
    <3>2. CASE i = m
      <4>1. Len(q) + 1 = 2 * i - 1 /\ Len(q) + 2 = 2 * i /\ 1 \in 1 .. Len(f[m]) /\ 2 \in 1 .. Len(f[m])
        BY <2>3, <3>2
      <4>2. r[Len(q) + 1] = f[m][1] /\ r[Len(q) + 2] = f[m][2]
        BY <2>2, <4>1
      <4> QED BY <3>2, <4>1, <4>2
    <3> QED BY <3>1, <3>2
  <2>5. Parts(r, m)
    BY <2>3, <2>4
  <2> QED BY <2>5 DEF r
<1> DEFINE N == {k \in Nat : k <= n => Parts(p[k], k)}
<1>3. 0 \in N
  <2>1. Parts(p[0], 0)
    BY <1>1, EmptyFacts
  <2> HIDE DEF Parts
  <2> QED BY <2>1
<1>4. ASSUME NEW k \in N \cap Nat PROVE k + 1 \in N
  <2> HIDE DEF Parts
  <2> SUFFICES ASSUME k + 1 <= n PROVE Parts(p[k + 1], k + 1)
    OBVIOUS
  <2>1. k + 1 \in 1 .. n /\ (k + 1) - 1 = k /\ Parts(p[k], k)
    OBVIOUS
  <2>2. Parts(p[(k + 1) - 1], (k + 1) - 1)
    BY <2>1
  <2> QED BY <1>2, <2>1, <2>2
<1>5. Parts(p[n], n)
  <2> HIDE DEF N
  <2>1. Nat \subseteq N
    BY <1>3, <1>4, NatSetInduction
  <2> HIDE DEF Parts
  <2> QED BY <2>1 DEF N
<1>6. Parts(FlattenSeq(f), n)
  <2> HIDE DEF Parts
  <2> QED BY <1>1, <1>5
<1> QED BY <1>1, <1>6

-----------------------------------------------------------------------------
(* Integers in a buffer.                                                   *)

\* Bytes are integers.
LEMMA OctetsFacts ==
  ASSUME NEW b \in Seq(Octets)
  PROVE  b \in Seq(Int)
<1>1. Octets \subseteq Int
  BY DEF Octets
<1> QED BY <1>1, SeqMonotonic

\* A quotient is an integer, and a remainder is less than the divisor.
LEMMA DivFacts ==
  ASSUME NEW x \in Int, NEW y \in Nat \ {0}
  PROVE  x \div y \in Int /\ x % y \in 0 .. y - 1
OBVIOUS

\* Neither is a product of numbers negative that are not.
LEMMA ProductFacts ==
  ASSUME NEW x \in Int, NEW y \in Int
  PROVE  x * y \in Int /\ (x >= 0 /\ y >= 0 => x * y >= 0)
OBVIOUS

\* The bits of a number are an integer.
LEMMA FieldFacts ==
  ASSUME NEW v \in Int, NEW bits \in Nat, NEW shift \in Nat
  PROVE  Field(v, bits, shift) \in Int
<1>1. TwoTo(bits) \in Nat \ {0} /\ TwoTo(shift) \in Nat \ {0}
  BY TwoToFacts
<1>2. v \div TwoTo(shift) \in Int
  BY <1>1, DivFacts
<1>3. (v \div TwoTo(shift)) % TwoTo(bits) \in 0 .. TwoTo(bits) - 1
  BY <1>1, <1>2, DivFacts
<1> QED BY <1>1, <1>3 DEF Field

\* What is read from bytes is an integer.
LEMMA FetchFacts ==
  ASSUME NEW b \in Seq(Octets), NEW signed, NEW bits \in Nat, NEW shift \in Nat, NEW o,
         signed => bits > 0 \/ Len(b) > 0
  PROVE  fetch_integer(b, signed, bits, shift, o) \in Int
<1> DEFINE width == IF bits = 0 THEN 8 * Len(b) ELSE bits
           v == IF bits = 0 THEN Number(o, b) ELSE Field(Number(o, b), bits, shift)
<1>1. b \in Seq(Int)
  BY OctetsFacts
<1>2. Number(o, b) \in Int
  BY <1>1, NumberFacts
<1>3. v \in Int
  BY <1>2, FieldFacts
<1>4. width \in Nat /\ (signed => width - 1 \in Nat)
  BY <1>1
<1> HIDE DEF v, width
<1>5. CASE signed
  <2>1. TwoTo(width - 1) \in Nat /\ TwoTo(width) \in Nat
    BY <1>4, <1>5, TwoToFacts
  <2>2. Extended(v, width) \in Int
    BY <1>3, <2>1 DEF Extended
  <2> QED BY <1>5, <2>2 DEF fetch_integer, v, width
<1>6. CASE ~signed
  BY <1>3, <1>6 DEF fetch_integer, v, width
<1> QED BY <1>5, <1>6

\* The bytes of a number are bytes, as many as there are.
LEMMA StoreFacts ==
  ASSUME NEW b \in Seq(Octets), NEW bits \in Nat, NEW shift \in Nat, NEW o, NEW v \in Int
  PROVE  /\ store_integer(b, bits, shift, o, v) \in Seq(Octets)
         /\ Len(store_integer(b, bits, shift, o, v)) = Len(b)
<1> DEFINE w == IF bits = 0 THEN v ELSE Merged(Number(o, b), v, bits, shift)
           n == Len(b)
           s == [i \in 1 .. n |-> (w \div TwoTo(8 * (i - 1))) % 256]
<1>1. b \in Seq(Int) /\ n \in Nat
  BY OctetsFacts
<1>2. Number(o, b) \in Int
  BY <1>1, NumberFacts
<1>3. TwoTo(bits) \in Nat \ {0} /\ TwoTo(shift) \in Nat \ {0}
  BY TwoToFacts
<1>4. v % TwoTo(bits) \in Int /\ Field(Number(o, b), bits, shift) \in Int
  <2>1. v % TwoTo(bits) \in 0 .. TwoTo(bits) - 1
    BY <1>3, DivFacts
  <2> QED BY <1>2, <1>3, <2>1, FieldFacts
<1>5. ((v % TwoTo(bits)) - Field(Number(o, b), bits, shift)) * TwoTo(shift) \in Int
  <2> DEFINE x == (v % TwoTo(bits)) - Field(Number(o, b), bits, shift)
  <2>1. x \in Int
    BY <1>4
  <2> HIDE DEF x
  <2>2. x * TwoTo(shift) \in Int
    BY <1>3, <2>1, ProductFacts
  <2> QED BY <2>2 DEF x
<1>6. w \in Int
  BY <1>2, <1>5 DEF Merged
<1> HIDE DEF w, n
<1>7. ASSUME NEW i \in 1 .. n PROVE (w \div TwoTo(8 * (i - 1))) % 256 \in Octets
  <2>1. 8 * (i - 1) \in Nat
    BY <1>1
  <2>2. TwoTo(8 * (i - 1)) \in Nat \ {0}
    BY <2>1, TwoToFacts
  <2> DEFINE y == w \div TwoTo(8 * (i - 1))
  <2>3. y \in Int
    BY <1>6, <2>2, DivFacts
  <2> HIDE DEF y
  <2>4. y % 256 \in 0 .. 255
    BY <2>3
  <2> QED BY <2>4 DEF Octets, y
<1>8. s \in [1 .. n -> Octets]
  BY <1>7
<1> HIDE DEF s
<1>9. s \in Seq(Octets) /\ Len(s) = n
  BY <1>1, <1>8
<1>10. Lowest(o, s) \in Seq(Octets) /\ Len(Lowest(o, s)) = n
  <2>1. CASE o = "LE"
    BY <1>9, <2>1 DEF Lowest
  <2>2. CASE o # "LE"
    <3> DEFINE r == [i \in 1 .. Len(s) |-> s[(Len(s) - i) + 1]]
    <3>1. r \in [1 .. n -> Octets]
      BY <1>1, <1>8, <1>9
    <3>2. Lowest(o, s) = r
      BY <2>2 DEF Lowest, Reverse
    <3> HIDE DEF r
    <3>3. r \in Seq(Octets) /\ Len(r) = n
      BY <1>1, <3>1
    <3> QED BY <3>2, <3>3
  <2> QED BY <2>1, <2>2
<1>11. store_integer(b, bits, shift, o, v) = Lowest(o, s)
  BY DEF store_integer, Bytes, w, n, s
<1> QED BY <1>10, <1>11 DEF n

\* What is read are bytes,
LEMMA AtFacts ==
  ASSUME NEW s \in Seq(Octets), NEW at \in Nat, NEW n \in Nat
  PROVE  At(s, at, n) \in Seq(Octets) /\ Len(At(s, at, n)) = n
<1>1. ASSUME NEW i \in 1 .. n PROVE (IF at + i <= Len(s) THEN s[at + i] ELSE 0) \in Octets
  <2>1. CASE at + i <= Len(s)
    <3>1. at + i \in 1 .. Len(s)
      BY <2>1
    <3> QED BY <2>1, <3>1
  <2>2. CASE ~(at + i <= Len(s))
    BY <2>2 DEF Octets
  <2> QED BY <2>1, <2>2
<1>2. At(s, at, n) \in [1 .. n -> Octets]
  BY <1>1 DEF At
<1> QED BY <1>2

\* and so are the zeros that fill a string up.
LEMMA ZerosFacts ==
  ASSUME NEW n \in Nat
  PROVE  Zeros(n) \in Seq(Octets) /\ Len(Zeros(n)) = n
<1>1. Zeros(n) \in [1 .. n -> Octets]
  BY DEF Zeros, Octets
<1> QED BY <1>1

\* A string does not get longer when it is cut off at a zero.
LEMMA UpToNulFacts ==
  ASSUME NEW s \in Seq(Octets)
  PROVE  UpToNul(s) \in Seq(Octets) /\ Len(UpToNul(s)) \in 0 .. Len(s)
<1> DEFINE I == {i \in 1 .. Len(s) : s[i] = 0}
           nul == SelectInSeq(s, LAMBDA c : c = 0)
<1>1. nul = IF I # {} THEN Min(I) ELSE 0
  BY DEF SelectInSeq
<1>2. CASE I = {}
  <2>1. nul = 0
    BY <1>1, <1>2
  <2>2. UpToNul(s) = s
    BY <2>1 DEF UpToNul
  <2> QED BY <2>2
<1>3. CASE I # {}
  <2>1. nul \in I
    <3>1. I \in SUBSET Nat
      OBVIOUS
    <3> HIDE DEF I
    <3> QED BY <1>1, <1>3, <3>1, MinFacts
  <2>2. nul \in 1 .. Len(s) /\ nul # 0
    BY <2>1
  <2> HIDE DEF nul
  <2>3. SubSeq(s, 1, nul - 1) \in Seq(Octets) /\ Len(SubSeq(s, 1, nul - 1)) = nul - 1
    BY <2>2
  <2>4. UpToNul(s) = SubSeq(s, 1, nul - 1)
    BY <2>2 DEF UpToNul, nul
  <2> QED BY <2>2, <2>3, <2>4
<1> QED BY <1>2, <1>3

-----------------------------------------------------------------------------
(* The inductive invariant.                                                *)

\* The byte orders O that are set before each call of the stack s, and at its
\* end, from the order o now on: they are what the calls want.
OrdersOf(s, o, O) ==
  /\ O[1] = o
  /\ \A i \in 1 .. Len(s) :
       /\ O[i + 1] = IF s[i].do = "order" THEN s[i].order ELSE O[i]
       /\ s[i].do \in {"type", "struct", "member"} => s[i].want = O[i]

Scoped(s, o) == \E O : OrdersOf(s, o, O)

\* What a call of unpack adds to the results.
Gives(c) == IF c.do = "type" \/ (c.do = "struct" /\ ~c.inlined) THEN 1
            ELSE IF c.do \in {"store", "append"} THEN -1 ELSE 0

\* It may fill a container that is there already, below a value it stores.
Fills(c)   == c.do \in {"member", "store", "append"} \/ (c.do = "struct" /\ c.inlined)
Into(c)    == IF c.do = "append" THEN "array" ELSE "hash"
Base(c, k) == IF c.do \in {"store", "append"} THEN k - 1 ELSE k

\* The numbers K of results before each call of the stack s, when r is there
\* now: the container that a call fills is in r, and stays there until then.
DepthsOf(s, r, K) ==
  /\ K[1] = Len(r) /\ \A i \in 1 .. Len(s) + 1 : K[i] \in Int
  /\ \A i \in 1 .. Len(s) : K[i + 1] = K[i] + Gives(s[i])
  /\ \A j \in 1 .. Len(s) : Fills(s[j]) =>
       /\ Base(s[j], K[j]) >= 1
       /\ \A i \in 1 .. j : Base(s[j], K[j]) <= K[i]
       /\ r[Len(r) + 1 - Base(s[j], K[j])].is = Into(s[j])

Filled(s, r) == \E K : DepthsOf(s, r, K)

\* A call that looks a dimension up has the parent now that its data are in, or is
\* preceded by it.
LooksUp(st, c) ==
  c.do = "type" /\ c.level = 0 /\ c.decl.dim.by = "member" /\ c.decl # st.top.decl
Fits(c, p) == p.is = "hash" /\ c.sv = Under(p, c.decl.id)
Parented(st, s, p) ==
  \A i \in 1 .. Len(s) : LooksUp(st, s[i]) =>
    IF i = 1 THEN Fits(s[i], p) ELSE s[i - 1].do = "parent" /\ Fits(s[i], s[i - 1].parent)

\* What a call is about: a type of the setup st, at a place where it fits in.
IsTypeCall(st, packs, c) ==
  /\ IsDeclared(st, c.type, c.decl) /\ c.level \in 0 .. Len(c.decl.dims)
  /\ IsBits(st, c.type, c.decl, c.bits)
  /\ c.at \in Nat /\ c.sv \in Data
  /\ packs => c.at + Extent(st, c.type, c.decl, c.level, c.bits) <= Memory

IsStructCall(st, packs, c) ==
  /\ c.name \in DOMAIN st.structs /\ c.inlined \in BOOLEAN
  /\ c.at \in Nat /\ c.sv \in Data
  /\ packs => c.at + st.structs[c.name].size <= Memory

IsCall(st, packs, c) ==
  /\ c.do \in {"type", "struct", "order"} \cup IF packs THEN {"parent"} ELSE {"member", "store", "append"}
  /\ c.do = "type"   => IsTypeCall(st, packs, c)
  /\ c.do = "struct" => IsStructCall(st, packs, c)
  /\ c.do = "member" => c.at \in Nat /\ \E size \in Nat : IsMember(st, size, c.m)
  /\ c.do = "order"  => c.order \in Orders
  /\ c.do = "parent" => c.parent \in Data /\ c.parent.is \in {"undef", "hash"}

AreCalls(st, packs, s) == IsSeq(s) /\ \A i \in 1 .. Len(s) : IsCall(st, packs, s[i])

\* An integer is one, and so are those in a hash.
HasInt(r)   == r.is = "int" => r.val \in Int
IsResult(r) == HasInt(r) /\ (r.is = "hash" => \A id \in DOMAIN r.keys : HasInt(r.keys[id]))

StackInv ==
  /\ AreCalls(setup, mode = "pack", todo)
  /\ Scoped(todo, order)
  /\ Parented(setup, todo, parent)

ResultsInv ==
  /\ IsSeq(results) /\ \A i \in 1 .. Len(results) : IsResult(results[i])
  /\ mode = "pack" => results = << >>
  /\ Unpacking => Filled(todo, results)

Buffered ==
  /\ string \in Seq(Octets) /\ Len(string) <= Memory
  /\ len \in 0 .. Len(string) /\ reach \in 0 .. len

BufferInv ==
  /\ Buffered
  /\ mode = "before" => setup.size <= Len(string)

\* The state when Zero has run through the memory: GROW_BUFFER was called for an
\* array that has a negative number of elements.
Overran ==
  /\ mode = "pack overran" /\ order \in Orders /\ parent.is \in {"undef", "hash"}
  /\ string \in Seq(Octets) /\ len \in 0 .. Memory /\ reach = Word
  /\ Running("type") /\ IsArray(Head(todo)) /\ Head(todo).want = order
  /\ Head(todo).decl.dim.by = "member" /\ FromMember(Head(todo).decl.dim.id) < 0

\* No dimension is looked up next.
Quiet == todo # << >> => ~LooksUp(setup, todo[1])

\* When a dimension is looked up while data are unpacked, the parent is the result
\* that the array will be put into.
ParentInv ==
  Unpacking /\ todo # << >> /\ LooksUp(setup, todo[1]) =>
    /\ parent = Head(results) /\ todo[1].decl.id \notin DOMAIN parent.keys
    /\ Head(Tail(todo)) = StoreKey(todo[1].decl.id)

IInv ==
  /\ setup \in Setups /\ order \in Orders
  /\ mode \in {"before", "pack", "after", "done", "pack died", "unpack died"}
  /\ parent.is \in {"undef", "hash"} /\ IsResult(parent)
  /\ mode = "pack" => parent \in Data
  /\ StackInv /\ ResultsInv /\ BufferInv

-----------------------------------------------------------------------------
(* The stack of calls.                                                     *)

\* The calls b take the place of the call at the head of s.
Replaces(s, t, b) ==
  /\ IsSeq(s) /\ IsSeq(b) /\ IsSeq(t) /\ s # << >> /\ s[1] = Head(s)
  /\ Len(s) \in Nat \ {0} /\ Len(b) \in Nat /\ Len(t) = Len(b) + Len(s) - 1
  /\ \A i \in 1 .. Len(b) : t[i] = b[i]
  /\ \A i \in 2 .. Len(s) : t[Len(b) + i - 1] = s[i]

\* They do when they are put before what is behind the head;
LEMMA ReplacesConcat ==
  ASSUME NEW s, NEW b, IsSeq(s), IsSeq(b), s # << >>
  PROVE  Replaces(s, b \o Tail(s), b)
<1>1. /\ Len(s) \in Nat \ {0} /\ IsSeq(Tail(s)) /\ Len(Tail(s)) = Len(s) - 1 /\ Head(s) = s[1]
      /\ \A i \in 1 .. Len(s) - 1 : Tail(s)[i] = s[i + 1]
  BY TailFacts
<1> DEFINE u == Tail(s)
           t == b \o u
<1>2. /\ IsSeq(t)
      /\ Len(b) \in Nat /\ Len(t) = Len(b) + Len(u)
      /\ \A i \in 1 .. Len(b) : t[i] = b[i]
      /\ \A i \in 1 .. Len(u) : t[Len(b) + i] = u[i]
  BY <1>1, ConcatFacts
<1>3. IsSeq(u) /\ Len(u) = Len(s) - 1 /\ \A i \in 1 .. Len(s) - 1 : u[i] = s[i + 1]
  BY <1>1
<1> HIDE DEF t, u
<1>4. ASSUME NEW i \in 2 .. Len(s) PROVE t[Len(b) + i - 1] = s[i]
  <2>1. i - 1 \in 1 .. Len(u) /\ Len(b) + (i - 1) = Len(b) + i - 1 /\ (i - 1) + 1 = i
    BY <1>1, <1>2, <1>3
  <2> QED BY <1>2, <1>3, <2>1
<1>5. Replaces(s, t, b)
  BY <1>1, <1>2, <1>3, <1>4 DEF Replaces
<1> QED BY <1>5 DEF t, u

\* and the head is gone when there are none.
LEMMA ReplacesTail ==
  ASSUME NEW s, IsSeq(s), s # << >>
  PROVE  Replaces(s, Tail(s), << >>)
<1>1. /\ Len(s) \in Nat \ {0} /\ IsSeq(Tail(s)) /\ Len(Tail(s)) = Len(s) - 1 /\ Head(s) = s[1]
      /\ \A i \in 1 .. Len(s) - 1 : Tail(s)[i] = s[i + 1]
  BY TailFacts
<1> DEFINE u == Tail(s)
           b == << >>
<1>2. IsSeq(b) /\ Len(b) = 0
  BY EmptyFacts
<1>3. IsSeq(u) /\ Len(u) = Len(s) - 1 /\ \A i \in 1 .. Len(s) - 1 : u[i] = s[i + 1]
  BY <1>1
<1> HIDE DEF b, u
<1>4. ASSUME NEW i \in 2 .. Len(s) PROVE u[Len(b) + i - 1] = s[i]
  <2>1. i - 1 \in 1 .. Len(s) - 1 /\ Len(b) + i - 1 = i - 1 /\ (i - 1) + 1 = i
    BY <1>1, <1>2
  <2> QED BY <1>2, <1>3, <2>1
<1>5. Replaces(s, u, b)
  BY <1>1, <1>2, <1>3, <1>4 DEF Replaces
<1> QED BY <1>5 DEF b, u

\* A call of the new stack is one of these, or one of the old behind its head.
LEMMA ReplacesEither ==
  ASSUME NEW s, NEW t, NEW b, Replaces(s, t, b)
  PROVE  \A i \in 1 .. Len(t) :
           \/ i \in 1 .. Len(b) /\ t[i] = b[i]
           \/ \E j \in 2 .. Len(s) : i = Len(b) + j - 1 /\ t[i] = s[j]
<1> TAKE i \in 1 .. Len(t)
<1>1. CASE i <= Len(b)
  BY <1>1 DEF Replaces
<1>2. CASE i > Len(b)
  <2> DEFINE j == i - Len(b) + 1
  <2>1. j \in 2 .. Len(s) /\ i = Len(b) + j - 1
    BY <1>2 DEF Replaces
  <2> HIDE DEF j
  <2>2. t[i] = s[j]
    BY <2>1 DEF Replaces
  <2> QED BY <2>1, <2>2
<1> QED BY <1>1, <1>2 DEF Replaces

\* The stack has what it should have when they are.
LEMMA CallsReplace ==
  ASSUME NEW st, NEW packs, NEW s, NEW t, NEW b, Replaces(s, t, b), AreCalls(st, packs, s),
         \A i \in 1 .. Len(b) : IsCall(st, packs, b[i])
  PROVE  AreCalls(st, packs, t)
<1>0. \A i \in 1 .. Len(t) :
        \/ i \in 1 .. Len(b) /\ t[i] = b[i]
        \/ \E j \in 2 .. Len(s) : i = Len(b) + j - 1 /\ t[i] = s[j]
  BY ReplacesEither
<1>1. ASSUME NEW i \in 1 .. Len(t) PROVE IsCall(st, packs, t[i])
  <2>1. \/ i \in 1 .. Len(b) /\ t[i] = b[i]
        \/ \E j \in 2 .. Len(s) : i = Len(b) + j - 1 /\ t[i] = s[j]
    BY <1>0
  <2>2. CASE i \in 1 .. Len(b) /\ t[i] = b[i]
    BY <2>2
  <2>3. CASE \E j \in 2 .. Len(s) : i = Len(b) + j - 1 /\ t[i] = s[j]
    <3>1. PICK j \in 2 .. Len(s) : t[i] = s[j]
      BY <2>3
    <3>2. j \in 1 .. Len(s)
      BY <3>1
    <3> QED BY <3>1, <3>2 DEF AreCalls
  <2> QED BY <2>1, <2>2, <2>3
<1>2. IsSeq(t)
  BY DEF Replaces
<1> QED BY <1>1, <1>2 DEF AreCalls

\* So do the orders, when the calls want theirs and leave that of the rest.
LEMMA ScopeReplace ==
  ASSUME NEW s, NEW t, NEW b, Replaces(s, t, b), NEW o, Scoped(s, o),
         NEW o2, NEW P, OrdersOf(b, o2, P),
         P[Len(b) + 1] = IF Head(s).do = "order" THEN Head(s).order ELSE o
  PROVE  Scoped(t, o2)
<1> DEFINE n == Len(b)
<1>0. n \in Nat /\ Len(s) \in Nat \ {0} /\ Len(t) = n + Len(s) - 1 /\ s[1] = Head(s)
  BY DEF Replaces
<1>1. PICK O : OrdersOf(s, o, O)
  BY DEF Scoped
<1> DEFINE Q == [i \in 1 .. Len(t) + 1 |-> IF i <= n THEN P[i] ELSE O[i - n + 1]]
<1>2. O[2] = P[n + 1]
  BY <1>0, <1>1 DEF OrdersOf
<1>3. \A i \in 1 .. n + 1 : Q[i] = P[i]
  <2> SUFFICES ASSUME NEW i \in 1 .. n + 1 PROVE Q[i] = P[i]
    OBVIOUS
  <2>1. i \in 1 .. Len(t) + 1
    BY <1>0
  <2>2. CASE i <= n
    BY <2>1, <2>2
  <2>3. CASE i = n + 1
    <3>1. i - n + 1 = 2 /\ ~(i <= n)
      BY <1>0, <2>3
    <3> QED BY <1>2, <2>1, <2>3, <3>1
  <2> QED BY <1>0, <2>2, <2>3
<1>4. \A j \in 2 .. Len(s) + 1 : Q[n + j - 1] = O[j]
  <2> SUFFICES ASSUME NEW j \in 2 .. Len(s) + 1 PROVE Q[n + j - 1] = O[j]
    OBVIOUS
  <2>1. n + j - 1 \in 1 .. Len(t) + 1 /\ ~(n + j - 1 <= n) /\ (n + j - 1) - n + 1 = j
    BY <1>0
  <2> QED BY <2>1
<1> HIDE DEF Q, n
<1>5. Q[1] = o2
  BY <1>0, <1>3 DEF OrdersOf
<1>6. ASSUME NEW i \in 1 .. Len(t)
      PROVE  /\ Q[i + 1] = IF t[i].do = "order" THEN t[i].order ELSE Q[i]
             /\ t[i].do \in {"type", "struct", "member"} => t[i].want = Q[i]
  <2>1. \/ i \in 1 .. n /\ t[i] = b[i]
        \/ \E j \in 2 .. Len(s) : i = n + j - 1 /\ t[i] = s[j]
    BY ReplacesEither DEF n
  <2>2. CASE i \in 1 .. n /\ t[i] = b[i]
    <3>1. Q[i] = P[i] /\ Q[i + 1] = P[i + 1]
      BY <1>0, <1>3, <2>2
    <3>2. /\ P[i + 1] = IF b[i].do = "order" THEN b[i].order ELSE P[i]
          /\ b[i].do \in {"type", "struct", "member"} => b[i].want = P[i]
      BY <2>2 DEF OrdersOf, n
    <3> QED BY <2>2, <3>1, <3>2
  <2>3. CASE \E j \in 2 .. Len(s) : i = n + j - 1 /\ t[i] = s[j]
    <3>1. PICK j \in 2 .. Len(s) : i = n + j - 1 /\ t[i] = s[j]
      BY <2>3
    <3>2. Q[i] = O[j] /\ Q[i + 1] = O[j + 1]
      <4>1. j \in 2 .. Len(s) + 1 /\ j + 1 \in 2 .. Len(s) + 1 /\ i + 1 = n + (j + 1) - 1
        BY <1>0, <3>1
      <4> QED BY <1>4, <3>1, <4>1
    <3>3. /\ O[j + 1] = IF s[j].do = "order" THEN s[j].order ELSE O[j]
          /\ s[j].do \in {"type", "struct", "member"} => s[j].want = O[j]
      <4>1. j \in 1 .. Len(s)
        BY <3>1
      <4> QED BY <1>1, <4>1 DEF OrdersOf
    <3> QED BY <3>1, <3>2, <3>3
  <2> QED BY <2>1, <2>2, <2>3
<1>7. OrdersOf(t, o2, Q)
  BY <1>5, <1>6 DEF OrdersOf
<1> QED BY <1>7 DEF Scoped

\* One call behind others.
LEMMA AppendFacts ==
  ASSUME NEW s, NEW c, IsSeq(s)
  PROVE  /\ IsSeq(s \o <<c>>) /\ Len(s) \in Nat /\ Len(s \o <<c>>) = Len(s) + 1
         /\ \A i \in 1 .. Len(s) : (s \o <<c>>)[i] = s[i]
         /\ (s \o <<c>>)[Len(s) + 1] = c
<1> DEFINE e == <<c>>
<1>1. IsSeq(e) /\ Len(e) = 1 /\ e[1] = c
  BY SingleFacts
<1> HIDE DEF e
<1>2. /\ IsSeq(s \o e) /\ Len(s) \in Nat /\ Len(s \o e) = Len(s) + Len(e)
      /\ \A i \in 1 .. Len(s) : (s \o e)[i] = s[i]
      /\ \A i \in 1 .. Len(e) : (s \o e)[Len(s) + i] = e[i]
  <2>1. /\ IsSeq(s \o e)
        /\ Len(s) \in Nat /\ Len(e) \in Nat /\ Len(s \o e) = Len(s) + Len(e)
        /\ \A i \in 1 .. Len(s) : (s \o e)[i] = s[i]
        /\ \A i \in 1 .. Len(e) : (s \o e)[Len(s) + i] = e[i]
        /\ \A i \in Len(s) + 1 .. Len(s) + Len(e) : (s \o e)[i] = e[i - Len(s)]
    BY <1>1, ConcatFacts, Zenon
  <2> QED BY <2>1
<1>3. 1 \in 1 .. Len(e)
  BY <1>1
<1>4. /\ IsSeq(s \o e) /\ Len(s) \in Nat /\ Len(s \o e) = Len(s) + 1
      /\ \A i \in 1 .. Len(s) : (s \o e)[i] = s[i]
      /\ (s \o e)[Len(s) + 1] = c
  BY <1>1, <1>2, <1>3
<1> QED BY <1>4 DEF e

\* The next call wants the order that is set.
LEMMA ScopeHead ==
  ASSUME NEW s, NEW o, IsSeq(s), s # << >>, Scoped(s, o),
         Head(s).do \in {"type", "struct", "member"}
  PROVE  Head(s).want = o
<1>1. PICK O : OrdersOf(s, o, O)
  BY DEF Scoped
<1>2. 1 \in 1 .. Len(s) /\ Head(s) = s[1]
  BY TailFacts
<1>3. s[1].want = O[1] /\ O[1] = o
  BY <1>1, <1>2 DEF OrdersOf
<1> QED BY <1>2, <1>3

\* The order of the rest is set when the head has gone, which may have set it,
LEMMA ScopePop ==
  ASSUME NEW s, NEW o, IsSeq(s), s # << >>, Scoped(s, o)
  PROVE  Scoped(Tail(s), IF Head(s).do = "order" THEN Head(s).order ELSE o)
<1> DEFINE b == << >>
           t == Tail(s)
           o2 == IF Head(s).do = "order" THEN Head(s).order ELSE o
           P == [i \in {1} |-> o2]
<1>1. Replaces(s, t, b)
  BY ReplacesTail
<1>2. Len(b) = 0
  BY EmptyFacts
<1> HIDE DEF b, t
<1>3. OrdersOf(b, o2, P) /\ P[Len(b) + 1] = o2
  BY <1>2 DEF OrdersOf
<1> HIDE DEF P
<1>4. Scoped(t, o2)
  BY <1>1, <1>3, ScopeReplace
<1> QED BY <1>4 DEF t

\* when its calls want it,
LEMMA ScopeSame ==
  ASSUME NEW s, NEW o, NEW b, IsSeq(s), s # << >>, Scoped(s, o), Head(s).do # "order", IsSeq(b),
         \A i \in 1 .. Len(b) : b[i].do # "order"
                                /\ (b[i].do \in {"type", "struct", "member"} => b[i].want = o)
  PROVE  Scoped(b \o Tail(s), o)
<1> DEFINE P == [i \in 1 .. Len(b) + 1 |-> o]
           t == b \o Tail(s)
<1>1. Replaces(s, t, b) /\ Len(b) \in Nat
  BY ReplacesConcat, IsSeqFacts
<1>2. \A i \in 1 .. Len(b) + 1 : P[i] = o
  OBVIOUS
<1>3. OrdersOf(b, o, P) /\ P[Len(b) + 1] = o
  <2> HIDE DEF P
  <2>1. P[1] = o /\ P[Len(b) + 1] = o
    BY <1>1, <1>2
  <2>2. ASSUME NEW i \in 1 .. Len(b) PROVE P[i] = o /\ P[i + 1] = o
    BY <1>1, <1>2
  <2> QED BY <2>1, <2>2 DEF OrdersOf
<1> HIDE DEF P, t
<1>4. Scoped(t, o)
  BY <1>1, <1>3, ScopeReplace
<1> QED BY <1>4 DEF t

\* and when they want another one, and it is restored behind them.
LEMMA ScopeCalls ==
  ASSUME NEW s, NEW o, NEW items, NEW o2, IsSeq(s), s # << >>, Scoped(s, o),
         Head(s).do # "order", IsSeq(items),
         \A i \in 1 .. Len(items) :
           /\ items[i].do # "order"
           /\ items[i].do \in {"type", "struct", "member"} => items[i].want = o2
  PROVE  Scoped(items \o <<SetOrder(o)>> \o Tail(s), o2)
<1> DEFINE c == SetOrder(o)
           e == <<c>>
           b == items \o e
           n == Len(items)
           P == [i \in 1 .. n + 2 |-> IF i <= n + 1 THEN o2 ELSE o]
           t == b \o Tail(s)
<1>1. c.do = "order" /\ c.order = o
  BY DEF SetOrder
<1> HIDE DEF c
<1>3. /\ IsSeq(b) /\ n \in Nat /\ Len(b) = n + 1
      /\ \A i \in 1 .. n : b[i] = items[i]
      /\ b[n + 1] = c
  BY AppendFacts, Zenon
<1> HIDE DEF b
<1>5. Replaces(s, t, b)
  BY <1>3, ReplacesConcat
<1>6. P[n + 2] = o /\ \A i \in 1 .. n + 1 : P[i] = o2
  BY <1>3
<1> HIDE DEF P, n
<1>7. ASSUME NEW i \in 1 .. Len(b)
      PROVE  /\ P[i + 1] = IF b[i].do = "order" THEN b[i].order ELSE P[i]
             /\ b[i].do \in {"type", "struct", "member"} => b[i].want = P[i]
  <2>1. CASE i = n + 1
    <3>1. i + 1 = n + 2 /\ b[i] = c
      BY <1>3, <2>1
    <3> QED BY <1>1, <1>6, <3>1
  <2>2. CASE i \in 1 .. n
    <3>1. b[i] = items[i] /\ P[i] = o2 /\ P[i + 1] = o2
      BY <1>3, <1>6, <2>2
    <3>2. /\ items[i].do # "order"
          /\ items[i].do \in {"type", "struct", "member"} => items[i].want = o2
      BY <2>2 DEF n
    <3> QED BY <3>1, <3>2
  <2> QED BY <1>3, <2>1, <2>2
<1>8. OrdersOf(b, o2, P)
  <2>1. P[1] = o2
    BY <1>3, <1>6
  <2> QED BY <1>7, <2>1 DEF OrdersOf
<1>9. P[Len(b) + 1] = o
  <2>1. Len(b) + 1 = n + 2
    BY <1>3
  <2> QED BY <1>6, <2>1
<1> HIDE DEF t
<1>10. Scoped(t, o2)
  BY <1>5, <1>8, <1>9, ScopeReplace
<1> QED BY <1>10 DEF t, b, e, c

\* A call that looks a dimension up is not put behind the head later on.
LEMMA ParentReplace ==
  ASSUME NEW st, NEW s, NEW t, NEW b, Replaces(s, t, b), NEW p, Parented(st, s, p),
         NEW p2, Parented(st, b, p2),
         Head(s).do = "parent" => b = << >> /\ p2 = Head(s).parent
  PROVE  Parented(st, t, p2)
<1> DEFINE n == Len(b)
<1>0. n \in Nat /\ Len(s) \in Nat \ {0} /\ Len(t) = n + Len(s) - 1 /\ s[1] = Head(s)
      /\ (b = << >> => n = 0)
  <2>1. b = << >> => n = 0
    BY EmptyFacts
  <2> QED BY <2>1 DEF Replaces
<1>1. ASSUME NEW i \in 1 .. Len(t), LooksUp(st, t[i])
      PROVE  IF i = 1 THEN Fits(t[i], p2) ELSE t[i - 1].do = "parent" /\ Fits(t[i], t[i - 1].parent)
  <2>1. \/ i \in 1 .. n /\ t[i] = b[i]
        \/ \E j \in 2 .. Len(s) : i = n + j - 1 /\ t[i] = s[j]
    BY ReplacesEither DEF n
  <2>2. CASE i \in 1 .. n /\ t[i] = b[i]
    <3>1. IF i = 1 THEN Fits(b[i], p2) ELSE b[i - 1].do = "parent" /\ Fits(b[i], b[i - 1].parent)
      BY <1>1, <2>2 DEF Parented, n
    <3>2. i # 1 => i - 1 \in 1 .. n
      BY <1>0, <2>2
    <3>3. i # 1 => t[i - 1] = b[i - 1]
      BY <3>2 DEF Replaces, n
    <3> QED BY <2>2, <3>1, <3>3
  <2>3. CASE \E j \in 2 .. Len(s) : i = n + j - 1 /\ t[i] = s[j]
    <3>1. PICK j \in 2 .. Len(s) : i = n + j - 1 /\ t[i] = s[j]
      BY <2>3
    <3>2. j \in 1 .. Len(s) /\ j # 1 /\ LooksUp(st, s[j])
      BY <1>0, <1>1, <3>1
    <3>3. s[j - 1].do = "parent" /\ Fits(s[j], s[j - 1].parent)
      BY <3>2 DEF Parented
    <3>4. CASE j = 2
      <4>1. j - 1 = 1
        BY <3>4
      <4>2. Head(s).do = "parent" /\ Fits(s[j], Head(s).parent)
        BY <1>0, <3>3, <4>1
      <4>3. i = 1 /\ Fits(t[i], p2)
        BY <1>0, <3>1, <3>4, <4>2
      <4> QED BY <4>3
    <3>5. CASE j # 2
      <4>1. j - 1 \in 2 .. Len(s) /\ i - 1 = n + (j - 1) - 1 /\ i # 1
        BY <1>0, <3>1, <3>5
      <4>2. t[n + (j - 1) - 1] = s[j - 1]
        BY <4>1 DEF Replaces, n
      <4> QED BY <3>1, <3>3, <4>1, <4>2
    <3> QED BY <3>4, <3>5
  <2> QED BY <2>1, <2>2, <2>3
<1> QED BY <1>1 DEF Parented

\* The calls b, with the numbers K of results before each, replace the head of s
\* and turn the results r into r2: the m results that must be there stay.
Changes(s, b, r, r2, K, m) ==
  /\ IsSeq(r) /\ IsSeq(r2)
  /\ DepthsOf(b, r2, K) /\ K[Len(b) + 1] = Len(r) + Gives(Head(s))
  /\ m \in Int /\ \A i \in 1 .. Len(b) + 1 : m <= K[i]
  /\ Gives(Head(s)) >= 0 => m = Len(r)
  /\ Gives(Head(s)) < 0 => m = Len(r) - 1
  /\ \A i \in 1 .. m : r2[Len(r2) + 1 - i].is = r[Len(r) + 1 - i].is

\* A container that is to be filled is not touched until then: r2 has it where
\* it was, counted from the end.
LEMMA DepthsReplace ==
  ASSUME NEW s, NEW t, NEW b, Replaces(s, t, b), NEW r, NEW r2, Filled(s, r),
         NEW Kb, NEW m, Changes(s, b, r, r2, Kb, m)
  PROVE  Filled(t, r2)
<1>H. /\ IsSeq(r) /\ IsSeq(r2)
      /\ DepthsOf(b, r2, Kb) /\ Kb[Len(b) + 1] = Len(r) + Gives(Head(s))
      /\ m \in Int /\ \A i \in 1 .. Len(b) + 1 : m <= Kb[i]
      /\ Gives(Head(s)) >= 0 => m = Len(r)
      /\ Gives(Head(s)) < 0 => m = Len(r) - 1
      /\ \A i \in 1 .. m : r2[Len(r2) + 1 - i].is = r[Len(r) + 1 - i].is
  BY DEF Changes
<1> USE <1>H
<1> DEFINE n == Len(b)
           g == Gives(Head(s))
<1>0. /\ n \in Nat /\ Len(s) \in Nat \ {0} /\ Len(t) = n + Len(s) - 1 /\ s[1] = Head(s)
      /\ Len(r) \in Nat /\ Len(r2) \in Nat
  <2>1. Len(r) \in Nat /\ Len(r2) \in Nat
    BY IsSeqFacts
  <2> QED BY <2>1 DEF Replaces
<1>1. PICK K : DepthsOf(s, r, K)
  BY DEF Filled
<1>2. K[1] = Len(r) /\ (\A i \in 1 .. Len(s) + 1 : K[i] \in Int)
      /\ \A i \in 1 .. Len(s) : K[i + 1] = K[i] + Gives(s[i])
  BY <1>1 DEF DepthsOf
<1> DEFINE L == [i \in 1 .. Len(t) + 1 |-> IF i <= n THEN Kb[i] ELSE K[i - n + 1]]
<1>A. \A i \in 1 .. Len(t) :
        \/ i \in 1 .. Len(b) /\ t[i] = b[i]
        \/ \E j \in 2 .. Len(s) : i = Len(b) + j - 1 /\ t[i] = s[j]
  BY ReplacesEither
<1>3. K[2] = Kb[n + 1] /\ K[2] = Len(r) + g
  <2>1. 1 \in 1 .. Len(s) /\ 1 + 1 = 2
    BY <1>0
  <2>2. K[2] = K[1] + Gives(s[1])
    BY <1>2, <2>1
  <2> QED BY <1>0, <1>2, <2>2
<1>4. \A i \in 1 .. n + 1 : L[i] = Kb[i]
  <2> SUFFICES ASSUME NEW i \in 1 .. n + 1 PROVE L[i] = Kb[i]
    OBVIOUS
  <2>1. i \in 1 .. Len(t) + 1
    BY <1>0
  <2>2. CASE i <= n
    BY <2>1, <2>2
  <2>3. CASE i = n + 1
    <3>1. i - n + 1 = 2 /\ ~(i <= n)
      BY <1>0, <2>3
    <3> QED BY <1>3, <2>1, <2>3, <3>1
  <2> QED BY <1>0, <2>2, <2>3, SMTT(60)
<1>5. \A j \in 2 .. Len(s) + 1 : L[n + j - 1] = K[j]
  <2> SUFFICES ASSUME NEW j \in 2 .. Len(s) + 1 PROVE L[n + j - 1] = K[j]
    OBVIOUS
  <2>1. n + j - 1 \in 1 .. Len(t) + 1 /\ ~(n + j - 1 <= n) /\ (n + j - 1) - n + 1 = j
    BY <1>0
  <2> QED BY <2>1
<1> HIDE DEF L, n, g
<1>6. /\ Kb[1] = Len(r2) /\ \A i \in 1 .. n + 1 : Kb[i] \in Int
      /\ \A i \in 1 .. n : Kb[i + 1] = Kb[i] + Gives(b[i])
  BY DEF DepthsOf, n
<1>7. L[1] = Len(r2)
  BY <1>0, <1>4, <1>6
<1>8. ASSUME NEW i \in 1 .. Len(t) + 1 PROVE L[i] \in Int
  <2>1. CASE i <= n + 1
    <3>1. i \in 1 .. n + 1
      BY <1>0, <2>1
    <3> QED BY <1>4, <1>6, <3>1
  <2>2. CASE i > n + 1
    <3> DEFINE j == i - n + 1
    <3>1. j \in 2 .. Len(s) + 1 /\ i = n + j - 1 /\ j \in 1 .. Len(s) + 1
      BY <1>0, <2>2
    <3> HIDE DEF j
    <3> QED BY <1>2, <1>5, <3>1
  <2> QED BY <1>0, <2>1, <2>2
<1>9. ASSUME NEW i \in 1 .. Len(t) PROVE L[i + 1] = L[i] + Gives(t[i])
  <2>1. \/ i \in 1 .. n /\ t[i] = b[i]
        \/ \E j \in 2 .. Len(s) : i = n + j - 1 /\ t[i] = s[j]
    BY <1>A DEF n
  <2>2. CASE i \in 1 .. n /\ t[i] = b[i]
    <3>1. i \in 1 .. n + 1 /\ i + 1 \in 1 .. n + 1
      BY <1>0, <2>2
    <3> QED BY <1>4, <1>6, <2>2, <3>1
  <2>3. CASE \E j \in 2 .. Len(s) : i = n + j - 1 /\ t[i] = s[j]
    <3>1. PICK j \in 2 .. Len(s) : i = n + j - 1 /\ t[i] = s[j]
      BY <2>3
    <3>2. j \in 2 .. Len(s) + 1 /\ j + 1 \in 2 .. Len(s) + 1 /\ i + 1 = n + (j + 1) - 1 /\ j \in 1 .. Len(s)
      BY <1>0, <3>1
    <3> QED BY <1>2, <1>5, <3>1, <3>2
  <2> QED BY <2>1, <2>2, <2>3
<1>10. ASSUME NEW j \in 1 .. Len(t), Fills(t[j])
       PROVE  /\ Base(t[j], L[j]) >= 1
              /\ \A i \in 1 .. j : Base(t[j], L[j]) <= L[i]
              /\ r2[Len(r2) + 1 - Base(t[j], L[j])].is = Into(t[j])
  <2>1. \/ j \in 1 .. n /\ t[j] = b[j]
        \/ \E k \in 2 .. Len(s) : j = n + k - 1 /\ t[j] = s[k]
    BY <1>A DEF n
  <2>2. CASE j \in 1 .. n /\ t[j] = b[j]
    <3>1. L[j] = Kb[j] /\ \A i \in 1 .. j : L[i] = Kb[i]
      BY <1>0, <1>4, <2>2
    <3>2. /\ Base(b[j], Kb[j]) >= 1
          /\ \A i \in 1 .. j : Base(b[j], Kb[j]) <= Kb[i]
          /\ r2[Len(r2) + 1 - Base(b[j], Kb[j])].is = Into(b[j])
      BY <1>10, <2>2 DEF DepthsOf, n
    <3> QED BY <2>2, <3>1, <3>2
  <2>3. CASE \E k \in 2 .. Len(s) : j = n + k - 1 /\ t[j] = s[k]
    <3>1. PICK k \in 2 .. Len(s) : j = n + k - 1 /\ t[j] = s[k]
      BY <2>3
    <3> DEFINE base == Base(s[k], K[k])
    <3>2. k \in 1 .. Len(s) /\ k \in 2 .. Len(s) + 1 /\ K[k] \in Int
      BY <1>0, <1>2, <3>1
    <3>3. L[j] = K[k]
      BY <1>5, <3>1, <3>2
    <3>4. base >= 1 /\ (\A i \in 1 .. k : base <= K[i]) /\ r[Len(r) + 1 - base].is = Into(s[k])
      BY <1>1, <1>10, <3>1, <3>2 DEF DepthsOf
    <3>5. base \in Int
      BY <3>2 DEF Base
    <3> HIDE DEF base
    <3>6. base <= m
      <4>1. base <= K[1] /\ base <= K[2]
        BY <3>1, <3>4
      <4>2. g \in {-1, 0, 1}
        BY DEF Gives, g
      <4>3. base <= Len(r) /\ base <= Len(r) + g
        BY <1>2, <1>3, <4>1
      <4> QED BY <1>0, <3>5, <4>2, <4>3 DEF g
    <3>7. \A i \in 1 .. n + 1 : m <= Kb[i]
      BY DEF n
    <3>8. ASSUME NEW i \in 1 .. j PROVE base <= L[i]
      <4>1. CASE i <= n + 1
        <5>1. i \in 1 .. n + 1
          BY <1>0, <4>1
        <5>2. L[i] = Kb[i] /\ m <= Kb[i] /\ Kb[i] \in Int
          BY <1>4, <1>6, <3>7, <5>1
        <5> QED BY <3>5, <3>6, <5>2
      <4>2. CASE i > n + 1
        <5> DEFINE l == i - n + 1
        <5>1. l \in 2 .. Len(s) + 1 /\ i = n + l - 1 /\ l \in 1 .. k
          BY <1>0, <3>1, <4>2
        <5> HIDE DEF l
        <5>2. L[i] = K[l] /\ base <= K[l]
          BY <1>5, <3>4, <5>1
        <5> QED BY <5>2
      <4> QED BY <1>0, <4>1, <4>2
    <3>9. r2[Len(r2) + 1 - base].is = r[Len(r) + 1 - base].is
      <4>1. base \in 1 .. m
        BY <3>4, <3>5, <3>6
      <4> QED BY <4>1
    <3>10. base = Base(t[j], L[j])
      BY <3>1, <3>3 DEF base
    <3> QED BY <3>1, <3>4, <3>8, <3>9, <3>10
  <2> QED BY <2>1, <2>2, <2>3
<1>11. DepthsOf(t, r2, L)
  BY <1>7, <1>8, <1>9, <1>10 DEF DepthsOf
<1> QED BY <1>11 DEF Filled

-----------------------------------------------------------------------------
(* Types, data and the buffer.                                             *)

\* What there is of memory.
LEMMA MachineFacts ==
  /\ PtrSize \in Nat \ {0} /\ Memory \in Nat \ {0} /\ Word \in Nat \ {0}
  /\ PtrSize <= Memory /\ 4 * Memory < Word
  /\ Word \div 4 \in Nat \ {0} /\ 4 * (Word \div 4) <= Word
BY MachineAssumption

\* The elements of an array have a size.
LEMMA ItemSizePositive ==
  ASSUME NEW d, d.item \in Nat \ {0}, d.dims \in Seq(Nat),
         \A i \in 2 .. Len(d.dims) : d.dims[i] > 0
  PROVE  \A n \in 1 .. Len(d.dims) : ItemSize(d, n) \in Nat \ {0}
<1> DEFINE m == Len(d.dims)
           S == Nat \ {0}
           p == [k \in 0 .. m |-> ItemSize(d, m - k)]
<1>1. m \in Nat /\ \A i \in 1 .. m : d.dims[i] \in Nat
  OBVIOUS
<1>2. /\ ItemSize(d, m) = d.item
      /\ \A n \in 0 .. m - 1 : ItemSize(d, n) = ItemSize(d, n + 1) * d.dims[n + 1]
  BY ItemSizeFacts
<1>3. \A i \in 2 .. m : d.dims[i] > 0
  OBVIOUS
<1> HIDE DEF m
<1>4. \A k \in 0 .. m : p[k] = ItemSize(d, m - k)
  OBVIOUS
<1> HIDE DEF p
<1>5. CASE m = 0
  BY <1>5 DEF m
<1>6. CASE m # 0
  <2> DEFINE n == m - 1
  <2>1. n \in Nat
    BY <1>1, <1>6
  <2>2. p[0] \in S
    BY <1>1, <1>2, <1>4
  <2>3. ASSUME NEW k \in 1 .. n, p[k - 1] \in S PROVE p[k] \in S
    <3>1. k \in 0 .. m /\ k - 1 \in 0 .. m /\ m - k \in 0 .. m - 1 /\ (m - k) + 1 = m - (k - 1)
          /\ (m - k) + 1 \in 2 .. m
      BY <1>1, <2>1
    <3>2. ItemSize(d, m - k) = ItemSize(d, m - (k - 1)) * d.dims[(m - k) + 1]
      BY <1>2, <3>1
    <3>3. d.dims[(m - k) + 1] \in S
      BY <1>1, <1>3, <3>1
    <3>4. p[k] = p[k - 1] * d.dims[(m - k) + 1]
      BY <1>4, <3>1, <3>2
    <3>5. ASSUME NEW x \in S, NEW y \in S PROVE x * y \in S
      OBVIOUS
    <3> HIDE DEF S
    <3> QED BY <2>3, <3>3, <3>4, <3>5
  <2>4. \A k \in 0 .. n : p[k] \in S
    <3> HIDE DEF S, n
    <3>1. \A k \in 1 .. n : p[k - 1] \in S => p[k] \in S
      BY <2>3
    <3> QED BY <2>1, <2>2, <3>1, LoopStays
  <2>5. ASSUME NEW i \in 1 .. m PROVE ItemSize(d, i) \in S
    <3>1. m - i \in 0 .. n /\ m - i \in 0 .. m /\ m - (m - i) = i
      BY <1>1
    <3> QED BY <1>4, <2>4, <3>1
  <2> QED BY <2>5 DEF m
<1> QED BY <1>5, <1>6

\* What a setup of the model has.
LEMMA SetupFacts ==
  ASSUME NEW st \in Setups
  PROVE  /\ \A n \in DOMAIN st.structs  : IsStruct(st, st.structs[n])
         /\ \A n \in DOMAIN st.typedefs : IsTypedef(st, st.typedefs[n])
         /\ IsDeclared(st, st.top.type, st.top.decl)
         /\ st.top.level \in 0 .. Len(st.top.decl.dims)
         /\ Extent(st, st.top.type, st.top.decl, st.top.level, NoBits) <= Memory
         /\ st.order \in Orders /\ st.size \in 0 .. Memory
         /\ st.data \in Data
         /\ st.given \in Seq(Octets) /\ Len(st.given) <= Memory
BY SetupsAssumption

\* A declarator, and its elements.
LEMMA DeclFacts ==
  ASSUME NEW st, NEW t, NEW d, IsDeclared(st, t, d)
  PROVE  /\ d.item \in 0 .. Memory /\ d.item \in Nat /\ d.dims \in Seq(Nat) /\ Len(d.dims) \in Nat
         /\ \A n \in 0 .. Len(d.dims) : ItemSize(d, n) \in 0 .. Memory
         /\ \A n \in 1 .. Len(d.dims) : ItemSize(d, n) \in Nat \ {0}
         /\ ItemSize(d, Len(d.dims)) = d.item
         /\ \A n \in 0 .. Len(d.dims) - 1 : ItemSize(d, n) = ItemSize(d, n + 1) * d.dims[n + 1]
<1>0. Memory \in Nat
  BY MachineFacts
<1>1. /\ d.item \in 0 .. Memory /\ d.item \in Nat /\ d.dims \in Seq(Nat) /\ Len(d.dims) \in Nat
      /\ d.dims # << >> => IsArrayOf(d)
  BY <1>0 DEF IsDeclared
<1>2. /\ \A n \in 0 .. Len(d.dims) : ItemSize(d, n) \in Nat
      /\ ItemSize(d, Len(d.dims)) = d.item
      /\ \A n \in 0 .. Len(d.dims) - 1 : ItemSize(d, n) = ItemSize(d, n + 1) * d.dims[n + 1]
  BY <1>1, ItemSizeFacts
<1>3. CASE d.dims = << >>
  <2>1. Len(d.dims) = 0
    BY <1>3
  <2> QED BY <1>0, <1>1, <1>2, <2>1
<1>4. CASE d.dims # << >>
  <2>1. /\ d.item > 0 /\ \A i \in 2 .. Len(d.dims) : d.dims[i] > 0
        /\ \A n \in 0 .. Len(d.dims) : ItemSize(d, n) <= Memory
    BY <1>1, <1>4 DEF IsArrayOf
  <2>2. \A n \in 1 .. Len(d.dims) : ItemSize(d, n) \in Nat \ {0}
    <3>1. d.item \in Nat \ {0}
      BY <1>1, <2>1
    <3> QED BY <1>1, <2>1, <3>1, ItemSizePositive
  <2>3. \A n \in 0 .. Len(d.dims) : ItemSize(d, n) \in 0 .. Memory
    BY <1>0, <1>2, <2>1
  <2> QED BY <1>1, <1>2, <2>2, <2>3
<1> QED BY <1>3, <1>4

\* A type has a size.
LEMMA SizeOfFacts ==
  ASSUME NEW st \in Setups, NEW t, NEW d, IsDeclared(st, t, d)
  PROVE  SizeOf(st, t, d) \in Nat
<1>1. IsType(st, t) /\ d.pointer \in BOOLEAN
  BY DEF IsDeclared
<1>2. Memory \in Nat /\ PtrSize \in Nat
  BY MachineFacts
<1>3. CASE d.pointer
  BY <1>2, <1>3 DEF SizeOf
<1>4. CASE ~d.pointer /\ t.is = "leaf"
  <2>1. t.size \in Nat
    BY <1>1, <1>2, <1>4 DEF IsType
  <2> QED BY <1>4, <2>1 DEF SizeOf
<1>5. CASE ~d.pointer /\ t.is = "struct"
  <2>1. t.name \in DOMAIN st.structs
    BY <1>1, <1>5 DEF IsType
  <2>2. IsStruct(st, st.structs[t.name])
    BY <2>1, SetupFacts
  <2>3. st.structs[t.name].size \in Nat
    BY <1>2, <2>2 DEF IsStruct
  <2> QED BY <1>5, <2>3 DEF SizeOf
<1>6. CASE ~d.pointer /\ t.is = "typedef"
  <2>1. t.name \in DOMAIN st.typedefs
    BY <1>1, <1>6 DEF IsType
  <2> DEFINE def == st.typedefs[t.name]
  <2>2. IsDeclared(st, def.type, def.decl)
    BY <2>1, SetupFacts DEF IsTypedef
  <2> HIDE DEF def
  <2>3. ItemSize(def.decl, 0) \in Nat
    <3>1. 0 \in 0 .. Len(def.decl.dims) /\ \A n \in 0 .. Len(def.decl.dims) : ItemSize(def.decl, n) \in 0 .. Memory
      BY <2>2, DeclFacts
    <3> QED BY <1>2, <3>1
  <2> QED BY <1>6, <2>3 DEF SizeOf, DeclSize, def
<1> QED BY <1>1, <1>3, <1>4, <1>5, <1>6 DEF IsType

\* So has what a call is about, and when something is packed it fits into the memory.
LEMMA TypeCallFacts ==
  ASSUME NEW st \in Setups, NEW packs, NEW c, IsTypeCall(st, packs, c)
  PROVE  /\ Extent(st, c.type, c.decl, c.level, c.bits) \in Nat
         /\ c.at \in Nat /\ (packs => c.at \in 0 .. Memory)
         /\ c.level \in Nat /\ c.bits.bits \in Nat
         /\ c.level < Len(c.decl.dims) => c.bits.bits = 0
<1>0. Memory \in Nat
  BY MachineFacts
<1>1. /\ IsDeclared(st, c.type, c.decl) /\ c.level \in 0 .. Len(c.decl.dims)
      /\ IsBits(st, c.type, c.decl, c.bits) /\ c.at \in Nat
      /\ packs => c.at + Extent(st, c.type, c.decl, c.level, c.bits) <= Memory
  BY DEF IsTypeCall
<1>2. /\ Len(c.decl.dims) \in Nat /\ \A n \in 0 .. Len(c.decl.dims) : ItemSize(c.decl, n) \in 0 .. Memory
  BY <1>1, DeclFacts
<1>3. SizeOf(st, c.type, c.decl) \in Nat
  BY <1>1, SizeOfFacts
<1>4. c.bits.bits \in Nat /\ c.bits.size \in Nat /\ (c.bits.bits > 0 => c.decl.dims = << >>)
  BY <1>0, <1>1 DEF IsBits
<1>5. c.level \in Nat
  BY <1>1, <1>2
<1>6. c.level < Len(c.decl.dims) => c.bits.bits = 0
  <2>1. c.decl.dims = << >> => Len(c.decl.dims) = 0
    OBVIOUS
  <2> QED BY <1>4, <1>5, <2>1
<1>7. Extent(st, c.type, c.decl, c.level, c.bits) \in Nat
  <2>1. CASE c.bits.bits > 0
    BY <1>4, <2>1 DEF Extent
  <2>2. CASE c.bits.bits = 0 /\ c.level >= Len(c.decl.dims)
    <3>1. ~(c.level < Len(c.decl.dims)) /\ ~(c.bits.bits > 0)
      BY <1>2, <1>5, <2>2
    <3> QED BY <1>3, <2>2, <3>1 DEF Extent
  <2>3. CASE c.bits.bits = 0 /\ c.level < Len(c.decl.dims)
    <3>1. ItemSize(c.decl, c.level) \in Nat
      BY <1>0, <1>1, <1>2
    <3>2. ~(c.level >= Len(c.decl.dims)) /\ ~(c.bits.bits > 0)
      BY <1>2, <1>5, <2>3
    <3> QED BY <2>3, <3>1, <3>2 DEF Extent
  <2> QED BY <1>2, <1>4, <1>5, <2>1, <2>2, <2>3
<1> QED BY <1>0, <1>1, <1>4, <1>5, <1>6, <1>7

\* What Perl makes of a value that should be a string.
LEMMA CharsFacts ==
  ASSUME NEW v \in Data
  PROVE  Chars(v) \in Seq(Octets) /\ Len(Chars(v)) \in 0 .. Memory
<1>1. /\ v.is \in {"undef", "int", "string", "array", "hash"}
      /\ v.is = "string" => v.chars \in Seq(Octets) /\ Len(v.chars) <= Memory
      /\ v.is \in {"int", "array", "hash"} => Text[v] \in Seq(Octets) /\ Len(Text[v]) <= Memory
  BY DataAssumption
<1>2. Memory \in Nat
  BY MachineFacts
<1>3. CASE v.is = "undef"
  <2>1. Chars(v) = << >>
    BY <1>3 DEF Chars
  <2> QED BY <1>2, <2>1
<1>4. CASE v.is = "string"
  <2>1. Chars(v) = v.chars
    BY <1>4 DEF Chars
  <2> QED BY <1>1, <1>2, <1>4, <2>1
<1>5. CASE v.is \in {"int", "array", "hash"}
  <2>1. Chars(v) = Text[v]
    BY <1>5 DEF Chars
  <2> QED BY <1>1, <1>2, <1>5, <2>1
<1> QED BY <1>1, <1>3, <1>4, <1>5

\* A value that is packed can be a parent, with its integers.
LEMMA DataFacts ==
  ASSUME NEW v \in Data
  PROVE  IsResult(v)
<1>1. /\ v.is = "int" => v.val \in Int
      /\ v.is = "hash" => \A id \in DOMAIN v.keys : v.keys[id] \in Data
  BY DataAssumption
<1>2. HasInt(v)
  BY <1>1 DEF HasInt
<1>3. ASSUME v.is = "hash", NEW id \in DOMAIN v.keys PROVE HasInt(v.keys[id])
  <2>1. v.keys[id] \in Data
    BY <1>1, <1>3
  <2>2. v.keys[id].is = "int" => v.keys[id].val \in Int
    BY <2>1, DataAssumption
  <2> QED BY <2>2 DEF HasInt
<1> QED BY <1>2, <1>3 DEF IsResult

\* A dimension that a tag yields is an integer.
LEMMA DimFacts ==
  ASSUME NEW tag, IsDim(tag), tag # NoDim, NEW avail \in Int, IsResult(parent)
  PROVE  dimtag_eval(tag, avail) \in Int
<1>1. FromMember(tag.id) \in Int
  BY DEF FromMember, IsResult, HasInt
<1>2. CASE tag.by = "flexible"
  BY <1>2 DEF dimtag_eval
<1>3. CASE tag.by = "fixed" /\ tag.n \in Nat
  BY <1>3 DEF dimtag_eval
<1>4. CASE tag.by = "member"
  BY <1>1, <1>4 DEF dimtag_eval
<1> QED BY <1>2, <1>3, <1>4 DEF IsDim

\* What GROW_BUFFER asks for is what it requires and a byte more, or nothing.
LEMMA AskedFacts ==
  ASSUME NEW at \in Int, NEW size \in Int
  PROVE  /\ Required(at, size) \in 0 .. Word - 1
         /\ ~Exhausted(at, size) => ~(Required(at, size) > len) \/ Required(at, size) <= Memory
         /\ Fail(at, size) => OutOfMemory \/ (Overrun /\ Required(at, size) = Word - 1)
<1> DEFINE n == Required(at, size)
           w == Word
<1>0. Memory \in Nat /\ w \in Nat \ {0}
  BY MachineFacts
<1>1. n \in 0 .. w - 1
  <2> DEFINE x == at + size
  <2>1. x \in Int
    OBVIOUS
  <2> HIDE DEF x, w
  <2>2. x % w \in 0 .. w - 1
    BY <1>0, <2>1, DivFacts
  <2> QED BY <2>2 DEF Required, x, w
<1>2. /\ Asked(at, size) = (n + 1) % w
      /\ ~Exhausted(at, size) => ~(n > len) \/ Asked(at, size) \in 1 .. Memory + 1
      /\ Fail(at, size) /\ Asked(at, size) = 0 => Overrun
      /\ Fail(at, size) /\ Asked(at, size) # 0 => OutOfMemory
  BY DEF Asked, Exhausted, Fail
<1> HIDE DEF n, w
<1>3. Asked(at, size) = IF n = w - 1 THEN 0 ELSE n + 1
  <2> DEFINE x == n + 1
  <2>1. CASE n = w - 1
    <3>1. x = w
      BY <1>0, <1>1, <2>1
    <3>2. w % w = 0
      BY <1>0
    <3> QED BY <1>2, <2>1, <3>1, <3>2
  <2>2. CASE n # w - 1
    <3>1. x \in 0 .. w - 1
      BY <1>0, <1>1, <2>2
    <3> HIDE DEF x
    <3>2. x % w = x
      BY <1>0, <3>1
    <3> QED BY <1>2, <2>2, <3>2 DEF x
  <2> QED BY <2>1, <2>2
<1> DEFINE a == Asked(at, size)
<1> HIDE DEF a
<1>4. ~Exhausted(at, size) => ~(n > len) \/ n <= Memory
  <2>1. a \in 1 .. Memory + 1 => n <= Memory
    BY <1>0, <1>1, <1>3 DEF a
  <2> QED BY <1>2, <2>1 DEF a
<1>5. Fail(at, size) => OutOfMemory \/ (Overrun /\ n = w - 1)
  <2>1. n # w - 1 => a # 0
    BY <1>0, <1>1, <1>3 DEF a
  <2> QED BY <1>2, <2>1 DEF a
<1> QED BY <1>1, <1>4, <1>5 DEF n, w

\* What lies in the memory, or not far behind it, only can be too much for it.
LEMMA FailFacts ==
  ASSUME NEW at \in Nat, NEW size \in Nat, at + size + 1 < Word, Fail(at, size)
  PROVE  OutOfMemory
<1> DEFINE x == at + size
           w == Word
<1>1. x \in 0 .. w - 1 /\ x # w - 1 /\ w \in Nat \ {0}
  BY MachineFacts
<1> HIDE DEF x, w
<1>2. x % w = x
  BY <1>1
<1>3. Required(at, size) # w - 1
  BY <1>1, <1>2 DEF Required, x, w
<1>4. at \in Int /\ size \in Int
  OBVIOUS
<1> QED BY <1>3, <1>4, AskedFacts DEF w

\* The buffer when it has grown: long enough for what is required.
LEMMA GrownFacts ==
  ASSUME Buffered, NEW at \in Int, NEW size \in Int
  PROVE  /\ Grown(at, size) \in Seq(Octets) /\ Len(Grown(at, size)) >= len
         /\ Required(at, size) \in 0 .. Word - 1 /\ Len(Grown(at, size)) >= Required(at, size)
         /\ ~Exhausted(at, size) => Len(Grown(at, size)) <= Memory
<1> DEFINE n == Required(at, size)
<1>0. Memory \in Nat /\ Word \in Nat \ {0}
  BY MachineFacts
<1>1. /\ string \in Seq(Octets) /\ Len(string) \in Nat /\ Len(string) <= Memory
      /\ len \in Nat /\ len <= Len(string)
  BY DEF Buffered
<1>2. n \in 0 .. Word - 1
  BY AskedFacts
<1>3. /\ Grown(at, size) = IF n > len THEN SubSeq(string, 1, len) \o Zeros(n - len) ELSE string
      /\ ~Exhausted(at, size) => ~(n > len) \/ n <= Memory
  BY AskedFacts DEF Grown
<1> HIDE DEF n
<1>4. CASE n > len
  <2> DEFINE a == SubSeq(string, 1, len)
             z == Zeros(n - len)
  <2>1. a \in Seq(Octets) /\ Len(a) = len
    BY <1>1
  <2>2. z \in Seq(Octets) /\ Len(z) = n - len
    <3>1. n - len \in Nat
      BY <1>0, <1>1, <1>2, <1>4
    <3> QED BY <3>1, ZerosFacts
  <2> HIDE DEF a, z
  <2>3. a \o z \in Seq(Octets) /\ Len(a \o z) = Len(a) + Len(z)
    BY <2>1, <2>2, ConcatProperties
  <2>4. Len(a \o z) = n
    BY <1>1, <1>2, <2>1, <2>2, <2>3
  <2>5. Grown(at, size) = a \o z
    BY <1>3, <1>4 DEF a, z
  <2>6. Grown(at, size) \in Seq(Octets) /\ Len(Grown(at, size)) = n
    BY <2>3, <2>4, <2>5
  <2>7. n \in Nat /\ n >= len
    BY <1>1, <1>2, <1>4
  <2>8. ~Exhausted(at, size) => n <= Memory
    BY <1>3, <1>4
  <2> QED BY <1>2, <2>6, <2>7, <2>8 DEF n
<1>5. CASE ~(n > len)
  BY <1>0, <1>1, <1>2, <1>3, <1>5 DEF n
<1> QED BY <1>4, <1>5

\* GROW_BUFFER stands before what is written, and makes room for all of it.
LEMMA WriteFacts ==
  ASSUME Buffered, NEW at \in Nat, NEW size \in Int, NEW b \in Seq(Octets),
         ~Exhausted(at, size), Write(at, size, b),
         b # << >> => Len(b) <= size /\ at + size < Word
  PROVE  Buffered'
<1> DEFINE s == Grown(at, size)
           n == Required(at, size)
<1>0. Memory \in Nat /\ Word \in Nat \ {0}
  BY MachineFacts
<1>1. /\ s \in Seq(Octets) /\ Len(s) >= len /\ Len(s) <= Memory
      /\ n \in 0 .. Word - 1 /\ Len(s) >= n
  BY GrownFacts
<1>2. /\ string' = [i \in 1 .. Len(s) |-> IF i - at \in DOMAIN b THEN b[i - at] ELSE s[i]]
      /\ len' = Max({len, n})
      /\ reach' = IF b = << >> THEN reach ELSE Max({reach, at + Len(b)})
  BY DEF Write
<1>3. len \in Nat /\ reach \in Nat /\ reach <= len
  BY DEF Buffered
<1>4. b # << >> => n = at + size
  BY <1>0 DEF Required
<1> HIDE DEF s, n
<1>5. Len(s) \in Nat /\ Len(b) \in Nat /\ DOMAIN b = 1 .. Len(b)
  BY <1>1
<1>6. string' \in Seq(Octets) /\ Len(string') = Len(s)
  <2>1. ASSUME NEW i \in 1 .. Len(s)
        PROVE  (IF i - at \in DOMAIN b THEN b[i - at] ELSE s[i]) \in Octets
    BY <1>1, <1>5
  <2>2. string' \in [1 .. Len(s) -> Octets]
    BY <1>2, <2>1
  <2> QED BY <1>5, <2>2
<1>7. len' \in {len, n} /\ len' >= len /\ len' >= n
  <2>1. n \in Int /\ len \in Int
    BY <1>1, <1>3
  <2>2. Max({len, n}) \in {len, n} /\ Max({len, n}) >= len /\ Max({len, n}) >= n
    BY <2>1, MaxFacts
  <2> QED BY <1>2, <2>2
<1>8. reach' \in 0 .. len'
  <2>1. CASE b = << >>
    BY <1>1, <1>2, <1>3, <1>7, <2>1
  <2>2. CASE b # << >>
    <3> DEFINE e == at + Len(b)
    <3>1. e \in Nat /\ e <= n
      BY <1>4, <1>5, <2>2
    <3>2. reach' = Max({reach, e})
      BY <1>2, <2>2
    <3> HIDE DEF e
    <3>3. Max({reach, e}) \in {reach, e}
      <4>1. reach \in Int /\ e \in Int
        BY <1>3, <3>1
      <4> QED BY <4>1, MaxFacts
    <3> QED BY <1>1, <1>3, <1>7, <3>1, <3>2, <3>3
  <2> QED BY <2>1, <2>2
<1>9. len' \in 0 .. Len(string')
  BY <1>1, <1>3, <1>5, <1>6, <1>7
<1> QED BY <1>1, <1>6, <1>8, <1>9 DEF Buffered

\* Nothing is written when the buffer only grows.
LEMMA GrowFacts ==
  ASSUME Buffered, NEW at \in Nat, NEW size \in Int,
         ~Exhausted(at, size), Write(at, size, << >>)
  PROVE  Buffered'
<1> DEFINE b == << >>
<1>1. b \in Seq(Octets) /\ Write(at, size, b) /\ b = << >>
  OBVIOUS
<1> HIDE DEF b
<1> QED BY <1>1, WriteFacts

\* The bytes that a string takes, in a buffer and as an array of that size.
LEMMA FormatSizeFacts ==
  ASSUME NEW st, NEW t, NEW d, IsDeclared(st, t, d), IsResult(parent)
  PROVE  /\ Flexible(d) => FormatSize(d) \in 1 .. Memory
         /\ FormatSize(d) \in Nat /\ FormatSize(d) + 3 * Memory < Word
<1>0. /\ Memory \in Nat /\ Word \in Nat /\ 4 * Memory < Word
      /\ Word \div 4 \in Nat \ {0} /\ 4 * (Word \div 4) <= Word
  BY MachineFacts
<1>1. /\ Len(d.dims) \in Nat
      /\ \A n \in 0 .. Len(d.dims) : ItemSize(d, n) \in 0 .. Memory
      /\ \A n \in 1 .. Len(d.dims) : ItemSize(d, n) \in Nat \ {0}
  BY DeclFacts
<1>2. d.dims # << >> => Len(d.dims) >= 1
  BY <1>1 DEF IsDeclared
<1>3. CASE Flexible(d)
  <2>1. 1 \in 0 .. Len(d.dims) /\ 1 \in 1 .. Len(d.dims)
    BY <1>1, <1>2, <1>3 DEF Flexible
  <2>2. ItemSize(d, 1) \in 1 .. Memory
    BY <1>1, <2>1
  <2>3. FormatSize(d) = ItemSize(d, 1)
    BY <1>3 DEF FormatSize
  <2> QED BY <1>0, <2>2, <2>3
<1>4. CASE ~Flexible(d) /\ d.dim # NoDim
  <2>1. d.dims # << >> /\ IsDim(d.dim)
    BY <1>4 DEF IsDeclared
  <2>2. 1 \in 1 .. Len(d.dims)
    BY <1>1, <1>2, <2>1
  <2>3. ItemSize(d, 1) \in Int
    BY <1>1, <2>2
  <2>4. dimtag_eval(d.dim, 0) \in Int
    BY <1>4, <2>1, DimFacts
  <2> DEFINE x == ItemSize(d, 1) * dimtag_eval(d.dim, 0)
  <2>5. x \in Int
    BY <2>3, <2>4, ProductFacts
  <2>6. FormatSize(d) = x % (Word \div 4)
    BY <1>4 DEF FormatSize
  <2> HIDE DEF x
  <2> DEFINE w == Word \div 4
  <2>7. w \in Nat \ {0} /\ 4 * w <= Word /\ Memory <= w
    BY <1>0
  <2>8. FormatSize(d) = x % w
    BY <2>6
  <2> HIDE DEF w
  <2>9. x % w \in 0 .. w - 1
    BY <2>5, <2>7, DivFacts
  <2> QED BY <1>0, <1>4, <2>7, <2>8, <2>9
<1>5. CASE ~Flexible(d) /\ d.dim = NoDim
  <2>1. DeclSize(d) \in 0 .. Memory
    <3>1. 0 \in 0 .. Len(d.dims)
      BY <1>1
    <3> QED BY <1>1, <3>1 DEF DeclSize
  <2>2. FormatSize(d) = DeclSize(d)
    BY <1>5 DEF FormatSize
  <2> QED BY <1>0, <1>5, <2>1, <2>2
<1> QED BY <1>3, <1>4, <1>5

\* A number is a multiple of another one, and a bit.
LEMMA RoundFacts ==
  ASSUME NEW x \in Nat, NEW y \in Nat \ {0}
  PROVE  /\ x \div y \in Nat /\ y * (x \div y) \in Nat
         /\ y * (x \div y) <= x /\ x < y * (x \div y) + y
<1>1. x \div y \in Int /\ x % y \in 0 .. y - 1
  BY DivFacts
<1>2. x = y * (x \div y) + (x % y)
  OBVIOUS
<1> DEFINE q == x \div y
           p == y * q
<1>3. p \in Int
  BY <1>1, ProductFacts
<1>4. q \in Nat
  OBVIOUS
<1>5. x = p + (x % y)
  BY <1>2
<1> HIDE DEF p, q
<1>6. p \in Nat /\ p <= x /\ x < p + y
  <2>1. p <= x /\ x < p + y
    BY <1>1, <1>3, <1>5
  <2>2. p >= 0
    <3>1. y \in Int /\ q \in Int /\ y >= 0 /\ q >= 0
      BY <1>4
    <3> QED BY <3>1, ProductFacts DEF p
  <2> QED BY <1>3, <2>1, <2>2
<1> QED BY <1>4, <1>6 DEF p, q

\* A string is written into the room that is made for it, or skipped.
LEMMA PackFormatFacts ==
  ASSUME Buffered, NEW format, NEW size \in Nat, NEW flexible \in BOOLEAN, NEW at \in 0 .. Memory,
         NEW sv \in Data, flexible => size \in 1 .. Memory, ~flexible => at + size + 1 < Word,
         PackFormat(format, size, flexible, at, sv)
  PROVE  \/ OutOfMemory
         \/ todo' = Tail(todo) /\ mode' = mode /\ Buffered'
<1> DEFINE s    == Chars(sv)
           n    == IF flexible /\ format = "String" THEN Len(UpToNul(s)) + 1 ELSE Len(s)
           room == IF flexible THEN size * ((n + size - 1) \div size) ELSE size
           some == Min({n, room})
           b    == IF format = "Binary" THEN SubSeq(s, 1, some)
                   ELSE [i \in 1 .. some |-> IF i <= Len(UpToNul(s)) THEN s[i] ELSE 0]
           c    == IF sv = Undef THEN << >> ELSE b
<1>0. Memory \in Nat \ {0} /\ Word \in Nat \ {0} /\ 4 * Memory < Word /\ at \in Nat
  BY MachineFacts
<1>1. \/ flexible /\ sv = Undef /\ UNCHANGED <<mode, string, len, reach>> /\ todo' = Tail(todo)
      \/ Exhausted(at, room) /\ Fail(at, room)
      \/ ~Exhausted(at, room) /\ Write(at, room, c) /\ todo' = Tail(todo) /\ mode' = mode
  BY DEF PackFormat
<1>2. s \in Seq(Octets) /\ Len(s) \in 0 .. Memory
  BY CharsFacts
<1>3. UpToNul(s) \in Seq(Octets) /\ Len(UpToNul(s)) \in 0 .. Len(s)
  BY <1>2, UpToNulFacts
<1> HIDE DEF s
<1>4. n \in 0 .. Memory + 1 /\ (format = "Binary" => n = Len(s))
  BY <1>0, <1>2, <1>3
<1> HIDE DEF n
<1>5. room \in Nat /\ at + room + 1 < Word
  <2>1. CASE flexible
    <3> DEFINE x == n + size - 1
    <3>1. size \in Nat \ {0} /\ x \in Nat /\ x <= 2 * Memory
      BY <1>0, <1>4, <2>1
    <3> HIDE DEF x
    <3>2. size * (x \div size) \in Nat /\ size * (x \div size) <= x
      BY <3>1, RoundFacts
    <3>3. room = size * (x \div size)
      BY <2>1 DEF x
    <3> HIDE DEF room
    <3> QED BY <1>0, <3>1, <3>2, <3>3
  <2>2. CASE ~flexible
    BY <2>2
  <2> QED BY <2>1, <2>2
<1> HIDE DEF room
<1>6. some \in Nat /\ some <= n /\ some <= room
  <2>1. n \in Int /\ room \in Int /\ n \in Nat
    BY <1>4, <1>5
  <2>2. some \in {n, room} /\ some <= n /\ some <= room
    BY <2>1, MaxFacts
  <2> QED BY <1>5, <2>1, <2>2
<1> HIDE DEF some
<1>7. b \in Seq(Octets) /\ Len(b) = some
  <2>1. CASE format = "Binary"
    <3>1. some <= Len(s)
      BY <1>4, <1>6, <2>1
    <3>2. SubSeq(s, 1, some) \in Seq(Octets) /\ Len(SubSeq(s, 1, some)) = some
      BY <1>2, <1>6, <3>1
    <3> QED BY <2>1, <3>2
  <2>2. CASE format # "Binary"
    <3> DEFINE f == [i \in 1 .. some |-> IF i <= Len(UpToNul(s)) THEN s[i] ELSE 0]
    <3>1. ASSUME NEW i \in 1 .. some
          PROVE  (IF i <= Len(UpToNul(s)) THEN s[i] ELSE 0) \in Octets
      <4>1. 0 \in Octets
        BY DEF Octets
      <4>2. i <= Len(UpToNul(s)) => i \in 1 .. Len(s)
        BY <1>2, <1>3, <1>6
      <4> QED BY <1>2, <4>1, <4>2
    <3>2. f \in [1 .. some -> Octets]
      BY <3>1
    <3> HIDE DEF f
    <3>3. f \in Seq(Octets) /\ Len(f) = some
      BY <1>6, <3>2
    <3>4. b = f
      BY <2>2 DEF f
    <3> QED BY <3>3, <3>4
  <2> QED BY <2>1, <2>2
<1> HIDE DEF b
<1>8. c \in Seq(Octets) /\ (c # << >> => Len(c) <= room)
  <2>1. CASE sv = Undef
    BY <2>1
  <2>2. CASE sv # Undef
    BY <1>6, <1>7, <2>2
  <2> QED BY <2>1, <2>2
<1> HIDE DEF c
<1>9. CASE flexible /\ sv = Undef /\ UNCHANGED <<mode, string, len, reach>> /\ todo' = Tail(todo)
  BY <1>9 DEF Buffered
<1>10. CASE ~Exhausted(at, room) /\ Write(at, room, c) /\ todo' = Tail(todo) /\ mode' = mode
  <2>1. room \in Int
    BY <1>5
  <2>2. Buffered'
    BY <1>0, <1>5, <1>8, <1>10, <2>1, WriteFacts
  <2> QED BY <1>10, <2>2
<1>11. CASE Fail(at, room)
  BY <1>0, <1>5, <1>11, FailFacts
<1> QED BY <1>1, <1>9, <1>10, <1>11

\* A string is read from where it is, or there is none.
LEMMA UnpackFormatFacts ==
  ASSUME Buffered, NEW format, NEW size \in Nat, NEW flexible \in BOOLEAN, NEW at \in Nat,
         flexible => size \in 1 .. Memory,
         UnpackFormat(format, size, flexible, at), UNCHANGED <<string, len>>
  PROVE  Buffered' /\ \E v : v.is = "string" /\ results' = <<v>> \o results
<1> DEFINE left == len - at
           n == IF flexible THEN left - (left % size) ELSE size
           s == At(string, at, n)
           v == Str(IF format = "Binary" THEN s ELSE UpToNul(s))
           none == Str(<< >>)
<1>0. Memory \in Nat \ {0} /\ len \in Nat /\ reach \in 0 .. len
  BY MachineFacts DEF Buffered
<1>1. CASE Short(at, size)
  <2>1. results' = <<none>> \o results /\ reach' = reach
    BY <1>1 DEF UnpackFormat, Push
  <2>2. none.is = "string"
    BY DEF Str
  <2>3. Buffered'
    BY <2>1 DEF Buffered
  <2> HIDE DEF none
  <2> QED BY <2>1, <2>2, <2>3
<1>2. CASE ~Short(at, size)
  <2>1. at + size <= len
    BY <1>0, <1>2 DEF Short
  <2>2. n \in Nat /\ at + n <= len
    <3>1. CASE flexible
      <4>1. size \in Nat \ {0} /\ left \in Nat /\ left \in Int
        BY <1>0, <2>1, <3>1
      <4> HIDE DEF left
      <4>2. left % size \in 0 .. size - 1
        BY <4>1, DivFacts
      <4> DEFINE r == left % size
      <4>3. r \in 0 .. size - 1
        BY <4>2
      <4>4. n = left - r
        BY <3>1
      <4> HIDE DEF r, n
      <4> QED BY <1>0, <2>1, <4>1, <4>3, <4>4 DEF left
    <3>2. CASE ~flexible
      BY <2>1, <3>2
    <3> QED BY <3>1, <3>2
  <2>3. results' = <<v>> \o results /\ reach' = Max({reach, at + n})
    BY <1>2 DEF UnpackFormat, Push, Read
  <2>4. v.is = "string"
    BY DEF Str
  <2> HIDE DEF v, n
  <2>5. reach' \in 0 .. len
    <3> DEFINE e == at + n
    <3>1. e \in Nat /\ e <= len
      BY <2>2
    <3>2. reach' = Max({reach, e})
      BY <2>3
    <3> HIDE DEF e
    <3>3. Max({reach, e}) \in {reach, e}
      <4>1. reach \in Int /\ e \in Int
        BY <1>0, <3>1
      <4> QED BY <4>1, MaxFacts
    <3> QED BY <1>0, <3>1, <3>2, <3>3
  <2>6. Buffered'
    BY <2>5 DEF Buffered
  <2> QED BY <2>3, <2>4, <2>6
<1> QED BY <1>1, <1>2

-----------------------------------------------------------------------------
(* What the steps have in common.                                          *)

\* The call that runs is one.
LEMMA HeadFacts ==
  ASSUME IInv, todo # << >>
  PROVE  /\ IsSeq(todo) /\ Head(todo) = todo[1] /\ 1 \in 1 .. Len(todo)
         /\ IsCall(setup, mode = "pack", Head(todo))
         /\ Head(todo).do \in {"type", "struct", "member"} => Head(todo).want = order
<1>1. AreCalls(setup, mode = "pack", todo) /\ Scoped(todo, order)
  BY DEF IInv, StackInv
<1>2. IsSeq(todo) /\ \A i \in 1 .. Len(todo) : IsCall(setup, mode = "pack", todo[i])
  BY <1>1 DEF AreCalls
<1>3. Head(todo) = todo[1] /\ 1 \in 1 .. Len(todo)
  BY <1>2, TailFacts
<1>4. IsCall(setup, mode = "pack", todo[1])
  BY <1>2, <1>3
<1>5. Head(todo).do \in {"type", "struct", "member"} => Head(todo).want = order
  BY <1>1, <1>2, ScopeHead
<1> QED BY <1>2, <1>3, <1>4, <1>5

\* The stack, when the head has gone,
LEMMA StackPop ==
  ASSUME IInv, todo # << >>, Head(todo).do \notin {"order", "parent"},
         todo' = Tail(todo), UNCHANGED <<setup, mode, order>>
  PROVE  StackInv'
<1> DEFINE s == todo
           t == Tail(todo)
           b == << >>
           packs == mode = "pack"
<1>1. AreCalls(setup, packs, s) /\ Scoped(s, order) /\ Parented(setup, s, parent)
  BY DEF IInv, StackInv
<1>2. IsSeq(s) /\ s # << >>
  BY <1>1 DEF AreCalls
<1>3. Replaces(s, t, b) /\ b = << >>
  BY <1>2, ReplacesTail
<1>4. Scoped(t, order)
  <2> DEFINE o2 == IF Head(s).do = "order" THEN Head(s).order ELSE order
  <2>1. Scoped(t, o2)
    BY <1>1, <1>2, ScopePop
  <2>2. o2 = order
    OBVIOUS
  <2> HIDE DEF o2
  <2> QED BY <2>1, <2>2
<1>5. Len(b) = 0 /\ Head(s).do # "parent"
  BY EmptyFacts
<1>6. todo' = t /\ setup' = setup /\ order' = order /\ (mode' = "pack") = packs
  OBVIOUS
<1> HIDE DEF s, t, b, packs
<1>7. AreCalls(setup, packs, t)
  <2>1. \A i \in 1 .. Len(b) : IsCall(setup, packs, b[i])
    BY <1>5
  <2> QED BY <1>1, <1>3, <2>1, CallsReplace
<1>8. Parented(setup, t, parent')
  <2>1. Parented(setup, b, parent')
    BY <1>5 DEF Parented
  <2> QED BY <1>1, <1>3, <1>5, <2>1, ParentReplace
<1> QED BY <1>4, <1>6, <1>7, <1>8 DEF StackInv

\* where no dimension is looked up behind it,
LEMMA PopQuiet ==
  ASSUME IInv, todo # << >>, Head(todo).do # "parent", todo' = Tail(todo), setup' = setup
  PROVE  Quiet'
<1>1. IsSeq(todo) /\ Parented(setup, todo, parent)
  BY DEF IInv, StackInv, AreCalls
<1>2. /\ Len(todo) \in Nat \ {0} /\ IsSeq(Tail(todo)) /\ Len(Tail(todo)) = Len(todo) - 1
      /\ Head(todo) = todo[1] /\ \A i \in 1 .. Len(todo) - 1 : Tail(todo)[i] = todo[i + 1]
  BY <1>1, TailFacts
<1> SUFFICES ASSUME Tail(todo) # << >>, LooksUp(setup, Tail(todo)[1]) PROVE FALSE
  BY DEF Quiet
<1>3. Len(Tail(todo)) \in Nat \ {0}
  BY <1>2, TailFacts
<1>4. 2 \in 1 .. Len(todo) /\ Tail(todo)[1] = todo[2]
  BY <1>2, <1>3
<1>5. todo[2 - 1].do = "parent"
  BY <1>1, <1>4 DEF Parented
<1> QED BY <1>2, <1>5

\* when calls that want the order that is set are in its place,
LEMMA StackPut ==
  ASSUME IInv, todo # << >>, Head(todo).do \notin {"order", "parent"},
         NEW b, IsSeq(b), todo' = b \o Tail(todo), UNCHANGED <<setup, mode, order>>,
         \A i \in 1 .. Len(b) : IsCall(setup, mode = "pack", b[i]),
         \A i \in 1 .. Len(b) : b[i].do # "order"
                                /\ (b[i].do \in {"type", "struct", "member"} => b[i].want = order),
         Parented(setup, b, parent')
  PROVE  StackInv'
<1> DEFINE s == todo
           t == b \o Tail(todo)
           packs == mode = "pack"
<1>1. AreCalls(setup, packs, s) /\ Scoped(s, order) /\ Parented(setup, s, parent)
  BY DEF IInv, StackInv
<1>2. IsSeq(s) /\ s # << >>
  BY <1>1 DEF AreCalls
<1>3. Replaces(s, t, b)
  BY <1>2, ReplacesConcat
<1>4. Scoped(t, order)
  BY <1>1, <1>2, ScopeSame
<1>5. Head(s).do # "parent"
  OBVIOUS
<1>6. todo' = t /\ setup' = setup /\ order' = order /\ (mode' = "pack") = packs
  OBVIOUS
<1>7. \A i \in 1 .. Len(b) : IsCall(setup, packs, b[i])
  OBVIOUS
<1> HIDE DEF s, t, packs
<1>8. AreCalls(setup, packs, t)
  BY <1>1, <1>3, <1>7, CallsReplace
<1>9. Parented(setup, t, parent')
  BY <1>1, <1>3, <1>5, ParentReplace
<1> QED BY <1>4, <1>6, <1>8, <1>9 DEF StackInv

\* and when those are that the head makes.
LEMMA StackCalls ==
  ASSUME IInv, todo # << >>, Head(todo).do \notin {"order", "parent"},
         NEW items, IsSeq(items), Calls(items), UNCHANGED <<setup, mode>>,
         \A i \in 1 .. Len(items) : IsCall(setup, mode = "pack", items[i]),
         \A i \in 1 .. Len(items) :
           /\ items[i].do # "order"
           /\ items[i].do \in {"type", "struct", "member"} => items[i].want = order',
         \A i \in 1 .. Len(items) : LooksUp(setup, items[i]) =>
           i # 1 /\ items[i - 1].do = "parent" /\ Fits(items[i], items[i - 1].parent)
  PROVE  StackInv' /\ Quiet'
<1> DEFINE s == todo
           c == SetOrder(order)
           b == items \o <<c>>
           t == b \o Tail(todo)
           packs == mode = "pack"
           n == Len(items)
<1>1. AreCalls(setup, packs, s) /\ Scoped(s, order) /\ Parented(setup, s, parent) /\ order \in Orders
  BY DEF IInv, StackInv
<1>2. IsSeq(s) /\ s # << >>
  BY <1>1 DEF AreCalls
<1>3. c.do = "order" /\ c.order = order
  BY DEF SetOrder
<1>4. Scoped(t, order')
  BY <1>1, <1>2, ScopeCalls
<1>5. /\ IsSeq(b) /\ n \in Nat /\ Len(b) = n + 1
      /\ \A i \in 1 .. n : b[i] = items[i]
      /\ b[n + 1] = c
  <2> HIDE DEF c
  <2> QED BY AppendFacts, Z3T(30)
<1>6. todo' = t /\ setup' = setup /\ (mode' = "pack") = packs
  BY DEF Calls
<1>7. \A i \in 1 .. n : IsCall(setup, packs, items[i])
  OBVIOUS
<1>8. Head(s).do # "parent" /\ packs \in BOOLEAN
  OBVIOUS
<1>9. Replaces(s, t, b)
  BY <1>2, <1>5, ReplacesConcat
<1> HIDE DEF s, c, b, t, packs
<1>10. IsCall(setup, packs, c)
  <2>1. c.do = "order" /\ c.order \in Orders
    BY <1>1, <1>3
  <2> QED BY <1>8, <2>1 DEF IsCall
<1>11. \A i \in 1 .. Len(b) : IsCall(setup, packs, b[i])
  <2> SUFFICES ASSUME NEW i \in 1 .. Len(b) PROVE IsCall(setup, packs, b[i])
    OBVIOUS
  <2>1. CASE i = n + 1
    BY <1>5, <1>10, <2>1
  <2>2. CASE i \in 1 .. n
    BY <1>5, <1>7, <2>2
  <2> HIDE DEF n
  <2> QED BY <1>5, <2>1, <2>2
<1>12. AreCalls(setup, packs, t)
  BY <1>1, <1>9, <1>11, CallsReplace
<1>13. Parented(setup, b, parent')
  <2> SUFFICES ASSUME NEW i \in 1 .. Len(b), LooksUp(setup, b[i])
               PROVE  IF i = 1 THEN Fits(b[i], parent')
                      ELSE b[i - 1].do = "parent" /\ Fits(b[i], b[i - 1].parent)
    BY DEF Parented
  <2>1. CASE i = n + 1
    BY <1>3, <1>5, <2>1 DEF LooksUp
  <2>2. CASE i \in 1 .. n
    <3>1. b[i] = items[i]
      BY <1>5, <2>2
    <3>2. i # 1 /\ items[i - 1].do = "parent" /\ Fits(items[i], items[i - 1].parent)
      BY <2>2, <3>1
    <3>3. i - 1 \in 1 .. n
      BY <2>2, <3>2
    <3>4. b[i - 1] = items[i - 1]
      BY <1>5, <3>3
    <3> QED BY <3>1, <3>2, <3>4
  <2> HIDE DEF n
  <2> QED BY <1>5, <2>1, <2>2
<1>14. Parented(setup, t, parent')
  BY <1>1, <1>8, <1>9, <1>13, ParentReplace
<1>15. ~LooksUp(setup, t[1])
  <2>1. 1 \in 1 .. Len(b) /\ t[1] = b[1]
    BY <1>5, <1>9 DEF Replaces
  <2>2. CASE n = 0
    <3>1. b[1] = c
      BY <1>5, <2>2
    <3> QED BY <1>3, <2>1, <3>1 DEF LooksUp
  <2>3. CASE n # 0
    <3>1. 1 \in 1 .. n
      BY <1>5, <2>3
    <3>2. ~LooksUp(setup, items[1])
      BY <3>1
    <3> QED BY <1>5, <2>1, <3>1, <3>2
  <2> QED BY <2>2, <2>3
<1> QED BY <1>4, <1>6, <1>12, <1>14, <1>15 DEF StackInv, Quiet

\* Running out of memory ends it.
LEMMA DiedKeeps ==
  ASSUME IInv, OutOfMemory
  PROVE  IInv'
<1>1. /\ mode' \in {"unpack died", "pack died"}
      /\ todo' = << >> /\ UNCHANGED <<setup, results, string, len, order, parent, reach>>
  BY DEF OutOfMemory
<1>2. StackInv'
  <2>1. IsSeq(todo') /\ Len(todo') = 0
    BY <1>1, EmptyFacts
  <2> DEFINE O == [i \in {1} |-> order']
  <2>2. OrdersOf(todo', order', O)
    BY <2>1 DEF OrdersOf
  <2> HIDE DEF O
  <2>3. Scoped(todo', order')
    BY <2>2 DEF Scoped
  <2>4. AreCalls(setup', mode' = "pack", todo') /\ Parented(setup', todo', parent')
    BY <2>1 DEF AreCalls, Parented
  <2> QED BY <2>3, <2>4 DEF StackInv
<1>3. ResultsInv'
  BY <1>1 DEF IInv, ResultsInv, Unpacking
<1>4. BufferInv'
  BY <1>1 DEF IInv, BufferInv, Buffered
<1> QED BY <1>1, <1>2, <1>3, <1>4 DEF IInv

\* There are no results while data are packed.
LEMMA PackResults ==
  ASSUME IInv, mode = "pack", UNCHANGED <<mode, results>>
  PROVE  ResultsInv'
BY DEF IInv, ResultsInv, Unpacking

\* What stays when a step leaves it alone.
LEMMA BufferStays ==
  ASSUME IInv, UNCHANGED <<setup, mode, string, len, reach>>
  PROVE  BufferInv'
BY DEF IInv, BufferInv, Buffered

-----------------------------------------------------------------------------
(* The results.                                                            *)

\* A result before the others.
Pushed(r, v, q) ==
  /\ IsSeq(q) /\ Len(r) \in Nat /\ Len(q) = Len(r) + 1
  /\ q[1] = v
  /\ \A i \in 2 .. Len(r) + 1 : q[i] = r[i - 1]
  /\ \A i \in 1 .. Len(r) : q[Len(r) + 2 - i] = r[Len(r) + 1 - i]

\* This is what a push yields.
LEMMA PushFacts ==
  ASSUME NEW r, IsSeq(r), NEW v, NEW q, q = <<v>> \o r
  PROVE  Pushed(r, v, q)
<1> DEFINE e == <<v>>
<1>1. IsSeq(e) /\ Len(e) = 1 /\ e[1] = v
  BY SingleFacts
<1>2. q = e \o r
  OBVIOUS
<1> HIDE DEF e
<1>3. /\ IsSeq(q)
      /\ Len(e) \in Nat /\ Len(r) \in Nat /\ Len(q) = Len(e) + Len(r)
      /\ \A i \in 1 .. Len(e) : q[i] = e[i]
      /\ \A i \in 1 .. Len(r) : q[Len(e) + i] = r[i]
      /\ \A i \in Len(e) + 1 .. Len(e) + Len(r) : q[i] = r[i - Len(e)]
  <2>1. /\ IsSeq(e \o r)
        /\ Len(e) \in Nat /\ Len(r) \in Nat /\ Len(e \o r) = Len(e) + Len(r)
        /\ \A i \in 1 .. Len(e) : (e \o r)[i] = e[i]
        /\ \A i \in 1 .. Len(r) : (e \o r)[Len(e) + i] = r[i]
        /\ \A i \in Len(e) + 1 .. Len(e) + Len(r) : (e \o r)[i] = r[i - Len(e)]
    BY <1>1, ConcatFacts, Zenon
  <2> QED BY <1>2, <2>1
<1>4. q[1] = v
  <2>1. 1 \in 1 .. Len(e)
    BY <1>1
  <2> QED BY <1>1, <1>3, <2>1
<1>5. \A i \in 2 .. Len(r) + 1 : q[i] = r[i - 1]
  BY <1>1, <1>3
<1>6. ASSUME NEW i \in 1 .. Len(r) PROVE q[Len(r) + 2 - i] = r[Len(r) + 1 - i]
  <2>1. Len(r) + 2 - i \in 2 .. Len(r) + 1 /\ (Len(r) + 2 - i) - 1 = Len(r) + 1 - i
    BY <1>3
  <2> QED BY <1>5, <2>1
<1>7. IsSeq(q) /\ Len(r) \in Nat /\ Len(q) = Len(r) + 1
  BY <1>1, <1>3
<1> QED BY <1>4, <1>5, <1>6, <1>7 DEF Pushed

\* It takes the place of two.
StoredTop(r, v, q) ==
  /\ IsSeq(q) /\ Len(r) \in Nat /\ Len(q) = Len(r) - 1
  /\ q[1] = v
  /\ \A i \in 2 .. Len(r) - 1 : q[i] = r[i + 1]
  /\ \A i \in 1 .. Len(r) - 2 : q[Len(r) - i] = r[Len(r) + 1 - i]

\* So it does when a value is stored in the container below it.
LEMMA StoreTopFacts ==
  ASSUME NEW r, IsSeq(r), Len(r) >= 2, NEW v, NEW q, q = <<v>> \o Tail(Tail(r))
  PROVE  StoredTop(r, v, q)
<1> DEFINE t == Tail(r)
           u == Tail(t)
<1>1. Len(r) \in Nat /\ r # << >>
  BY IsSeqFacts, EmptyFacts
<1>2. IsSeq(t) /\ Len(t) = Len(r) - 1 /\ \A i \in 1 .. Len(r) - 1 : t[i] = r[i + 1]
  BY <1>1, TailFacts
<1> HIDE DEF t
<1>3. t # << >>
  BY <1>1, <1>2, EmptyFacts
<1>4. IsSeq(u) /\ Len(u) = Len(t) - 1 /\ \A i \in 1 .. Len(t) - 1 : u[i] = t[i + 1]
  BY <1>2, <1>3, TailFacts
<1>5. q = <<v>> \o u
  BY DEF t
<1> HIDE DEF u
<1>6. /\ IsSeq(q) /\ Len(u) \in Nat /\ Len(q) = Len(u) + 1
      /\ q[1] = v
      /\ \A i \in 2 .. Len(u) + 1 : q[i] = u[i - 1]
  <2>1. Pushed(u, v, q)
    BY <1>4, <1>5, PushFacts
  <2> QED BY <2>1 DEF Pushed
<1>7. IsSeq(q) /\ Len(q) = Len(r) - 1 /\ q[1] = v
  BY <1>1, <1>2, <1>4, <1>5, <1>6
<1>8. ASSUME NEW i \in 2 .. Len(r) - 1 PROVE q[i] = r[i + 1]
  <2>1. i \in 2 .. Len(u) + 1 /\ i - 1 \in 1 .. Len(t) - 1 /\ (i - 1) + 1 = i /\ i \in 1 .. Len(r) - 1
    BY <1>1, <1>2, <1>4
  <2>2. q[i] = u[i - 1] /\ u[i - 1] = t[i] /\ t[i] = r[i + 1]
    BY <1>2, <1>4, <1>5, <1>6, <2>1
  <2> QED BY <2>2
<1>9. ASSUME NEW i \in 1 .. Len(r) - 2 PROVE q[Len(r) - i] = r[Len(r) + 1 - i]
  <2>1. Len(r) - i \in 2 .. Len(r) - 1 /\ (Len(r) - i) + 1 = Len(r) + 1 - i
    BY <1>1
  <2> QED BY <1>8, <2>1
<1> QED BY <1>1, <1>7, <1>8, <1>9 DEF StoredTop

\* What the call that runs fills is there.
LEMMA HeadFills ==
  ASSUME NEW s, NEW r, IsSeq(s), s # << >>, Filled(s, r), Fills(Head(s))
  PROVE  /\ Base(Head(s), Len(r)) >= 1
         /\ r[Len(r) + 1 - Base(Head(s), Len(r))].is = Into(Head(s))
<1>1. PICK K : DepthsOf(s, r, K)
  BY DEF Filled
<1>2. 1 \in 1 .. Len(s) /\ Head(s) = s[1]
  BY TailFacts
<1>3. /\ K[1] = Len(r)
      /\ Base(s[1], K[1]) >= 1
      /\ r[Len(r) + 1 - Base(s[1], K[1])].is = Into(s[1])
  BY <1>1, <1>2 DEF DepthsOf
<1> QED BY <1>2, <1>3

\* The head has gone, and left a value,
LEMMA DepthsPush ==
  ASSUME NEW s, NEW r, IsSeq(s), s # << >>, IsSeq(r), Filled(s, r), Gives(Head(s)) = 1, NEW v
  PROVE  Filled(Tail(s), <<v>> \o r)
<1> DEFINE t == Tail(s)
           b == << >>
           r2 == <<v>> \o r
           m == Len(r)
           K == [i \in {1} |-> m + 1]
<1>1. Replaces(s, t, b)
  BY ReplacesTail
<1>2. Len(b) = 0
  BY EmptyFacts
<1>A. r2 = <<v>> \o r
  OBVIOUS
<1> HIDE DEF r2
<1>3. /\ IsSeq(r2) /\ m \in Nat /\ Len(r2) = m + 1
      /\ \A i \in 1 .. m : r2[m + 2 - i] = r[m + 1 - i]
  <2>1. Pushed(r, v, r2)
    BY <1>A, PushFacts
  <2> QED BY <2>1 DEF Pushed, m
<1> HIDE DEF b, t, m
<1>4. K[1] = m + 1
  OBVIOUS
<1> HIDE DEF K
<1>5. DepthsOf(b, r2, K) /\ K[Len(b) + 1] = m + Gives(Head(s)) /\ \A i \in 1 .. Len(b) + 1 : m <= K[i]
  BY <1>2, <1>3, <1>4 DEF DepthsOf
<1>6. \A i \in 1 .. m : r2[Len(r2) + 1 - i].is = r[m + 1 - i].is
  <2> SUFFICES ASSUME NEW i \in 1 .. m PROVE r2[Len(r2) + 1 - i].is = r[m + 1 - i].is
    OBVIOUS
  <2>1. Len(r2) + 1 - i = m + 2 - i
    BY <1>3
  <2> QED BY <1>3, <2>1
<1>7. Filled(t, r2)
  <2>1. /\ m \in Int
        /\ Gives(Head(s)) >= 0 => m = Len(r)
        /\ Gives(Head(s)) < 0 => m = Len(r) - 1
        /\ IsSeq(r2)
        /\ K[Len(b) + 1] = Len(r) + Gives(Head(s))
        /\ \A i \in 1 .. m : r2[Len(r2) + 1 - i].is = r[Len(r) + 1 - i].is
    BY <1>3, <1>5, <1>6 DEF m
  <2>2. Changes(s, b, r, r2, K, m)
    BY <1>5, <2>1 DEF Changes
  <2> QED BY <1>1, <2>2, DepthsReplace
<1> QED BY <1>7 DEF t, r2

\* or none,
LEMMA DepthsSame ==
  ASSUME NEW s, NEW r, IsSeq(s), s # << >>, IsSeq(r), Filled(s, r), Gives(Head(s)) = 0
  PROVE  Filled(Tail(s), r)
<1> DEFINE t == Tail(s)
           b == << >>
           m == Len(r)
           K == [i \in {1} |-> m]
<1>1. Replaces(s, t, b)
  BY ReplacesTail
<1>2. Len(b) = 0 /\ m \in Nat
  BY EmptyFacts, IsSeqFacts
<1>3. K[1] = m
  OBVIOUS
<1> HIDE DEF b, t, K
<1>4. DepthsOf(b, r, K) /\ K[Len(b) + 1] = Len(r) + Gives(Head(s)) /\ \A i \in 1 .. Len(b) + 1 : m <= K[i]
  BY <1>2, <1>3 DEF DepthsOf
<1>5. /\ m \in Int
      /\ Gives(Head(s)) >= 0 => m = Len(r)
      /\ Gives(Head(s)) < 0 => m = Len(r) - 1
      /\ \A i \in 1 .. m : r[Len(r) + 1 - i].is = r[Len(r) + 1 - i].is
  BY <1>2
<1> HIDE DEF m
<1>6. Filled(t, r)
  <2>1. Changes(s, b, r, r, K, m)
    BY <1>4, <1>5 DEF Changes
  <2> QED BY <1>1, <2>1, DepthsReplace
<1> QED BY <1>6 DEF t

\* or stored one in the container below it.
LEMMA DepthsStore ==
  ASSUME NEW s, NEW r, IsSeq(s), s # << >>, IsSeq(r), Filled(s, r), Head(s).do \in {"store", "append"},
         NEW v, v.is = Into(Head(s))
  PROVE  Len(r) >= 2 /\ r[2].is = Into(Head(s)) /\ Filled(Tail(s), <<v>> \o Tail(Tail(r)))
<1> DEFINE t == Tail(s)
           b == << >>
           m == Len(r) - 1
           q == <<v>> \o Tail(Tail(r))
           K == [i \in {1} |-> m]
<1>1. Replaces(s, t, b)
  BY ReplacesTail
<1>2. Len(b) = 0 /\ Len(r) \in Nat
  BY EmptyFacts, IsSeqFacts
<1>3. K[1] = m
  OBVIOUS
<1>4. Gives(Head(s)) = -1 /\ Fills(Head(s)) /\ Base(Head(s), Len(r)) = m
  BY DEF Gives, Fills, Base
<1>5. m >= 1 /\ r[Len(r) + 1 - m].is = Into(Head(s))
  <2> HIDE DEF m
  <2> QED BY <1>4, HeadFills
<1>6. Len(r) >= 2 /\ Len(r) + 1 - m = 2
  BY <1>2, <1>5
<1>A. q = <<v>> \o Tail(Tail(r))
  OBVIOUS
<1> HIDE DEF q
<1>7. /\ IsSeq(q) /\ Len(q) = m /\ q[1] = v
      /\ \A i \in 1 .. Len(r) - 2 : q[Len(r) - i] = r[Len(r) + 1 - i]
  <2>1. StoredTop(r, v, q)
    BY <1>6, <1>A, StoreTopFacts
  <2> QED BY <2>1 DEF StoredTop
<1>8. ASSUME NEW i \in 1 .. m PROVE q[Len(q) + 1 - i].is = r[Len(r) + 1 - i].is
  <2>1. CASE i = m
    <3>1. Len(q) + 1 - i = 1
      BY <1>2, <1>7, <2>1
    <3> HIDE DEF q, m
    <3> QED BY <1>5, <1>7, <2>1, <3>1
  <2>2. CASE i # m
    <3>1. i \in 1 .. Len(r) - 2 /\ Len(q) + 1 - i = Len(r) - i
      BY <1>2, <1>7, <2>2
    <3> QED BY <1>7, <3>1
  <2> QED BY <2>1, <2>2
<1> HIDE DEF b, t, K, q
<1>9. DepthsOf(b, q, K) /\ K[Len(b) + 1] = Len(r) + Gives(Head(s)) /\ \A i \in 1 .. Len(b) + 1 : m <= K[i]
  <2>1. K[1] = Len(q) /\ m \in Int
    BY <1>2, <1>3, <1>7
  <2> HIDE DEF m
  <2>2. DepthsOf(b, q, K) /\ \A i \in 1 .. Len(b) + 1 : m <= K[i]
    BY <1>2, <1>3, <2>1 DEF DepthsOf
  <2> QED BY <1>2, <1>3, <1>4, <2>2 DEF m
<1>10. /\ m \in Int
       /\ Gives(Head(s)) >= 0 => m = Len(r)
       /\ Gives(Head(s)) < 0 => m = Len(r) - 1
  BY <1>2, <1>4
<1> HIDE DEF m
<1>11. Filled(t, q)
  <2>1. Changes(s, b, r, q, K, m)
    BY <1>7, <1>8, <1>9, <1>10 DEF Changes
  <2> QED BY <1>1, <2>1, DepthsReplace
<1>12. r[2].is = Into(Head(s))
  BY <1>5, <1>6
<1> QED BY <1>6, <1>11, <1>12 DEF t, q

\* The calls that the head makes do what it should do to the results.
LEMMA DepthsCalls ==
  ASSUME NEW s, NEW o, NEW items, NEW t, t = items \o <<SetOrder(o)>> \o Tail(s),
         IsSeq(s), s # << >>, IsSeq(items),
         NEW r, NEW r2, Filled(s, r), NEW K, NEW m, Changes(s, items, r, r2, K, m)
  PROVE  Filled(t, r2)
<1> DEFINE c == SetOrder(o)
           b == items \o <<c>>
           n == Len(items)
           L == [i \in 1 .. n + 2 |-> IF i <= n + 1 THEN K[i] ELSE K[n + 1]]
<1>1. c.do = "order"
  BY DEF SetOrder
<1>2. Gives(c) = 0 /\ ~Fills(c)
  BY <1>1 DEF Gives, Fills
<1>3. Replaces(s, t, b)
  <2>1. IsSeq(b)
    <3> HIDE DEF c
    <3> QED BY AppendFacts
  <2> QED BY <2>1, ReplacesConcat
<1> HIDE DEF c
<1>4. /\ IsSeq(b) /\ n \in Nat /\ Len(b) = n + 1
      /\ \A i \in 1 .. n : b[i] = items[i]
      /\ b[n + 1] = c
  BY AppendFacts, Zenon
<1>5. L[n + 2] = K[n + 1] /\ \A i \in 1 .. n + 1 : L[i] = K[i]
  BY <1>4
<1> HIDE DEF b, L
<1>H. /\ IsSeq(r) /\ IsSeq(r2)
      /\ DepthsOf(items, r2, K) /\ K[n + 1] = Len(r) + Gives(Head(s))
      /\ m \in Int /\ \A i \in 1 .. n + 1 : m <= K[i]
      /\ Gives(Head(s)) >= 0 => m = Len(r)
      /\ Gives(Head(s)) < 0 => m = Len(r) - 1
      /\ \A i \in 1 .. m : r2[Len(r2) + 1 - i].is = r[Len(r) + 1 - i].is
  BY DEF Changes
<1>6. /\ K[1] = Len(r2) /\ \A i \in 1 .. n + 1 : K[i] \in Int
      /\ \A i \in 1 .. n : K[i + 1] = K[i] + Gives(items[i])
  BY <1>H DEF DepthsOf
<1>7. /\ \A i \in 1 .. n + 1 : m <= K[i]
      /\ K[n + 1] = Len(r) + Gives(Head(s))
      /\ \A j \in 1 .. n : Fills(items[j]) =>
           /\ Base(items[j], K[j]) >= 1
           /\ \A i \in 1 .. j : Base(items[j], K[j]) <= K[i]
           /\ r2[Len(r2) + 1 - Base(items[j], K[j])].is = Into(items[j])
  BY <1>H DEF DepthsOf
<1> HIDE DEF n
<1>8. ASSUME NEW i \in 1 .. Len(b) + 1 PROVE L[i] \in Int /\ m <= L[i]
  <2>1. CASE i = n + 2
    <3>1. n + 1 \in 1 .. n + 1
      BY <1>4
    <3> QED BY <1>5, <1>6, <1>7, <2>1, <3>1
  <2>2. CASE i \in 1 .. n + 1
    BY <1>5, <1>6, <1>7, <2>2
  <2> QED BY <1>4, <2>1, <2>2
<1>9. ASSUME NEW i \in 1 .. Len(b) PROVE L[i + 1] = L[i] + Gives(b[i])
  <2>1. CASE i = n + 1
    <3>1. i + 1 = n + 2 /\ i \in 1 .. n + 1 /\ K[n + 1] \in Int
      BY <1>4, <1>6, <2>1
    <3> QED BY <1>2, <1>4, <1>5, <2>1, <3>1
  <2>2. CASE i \in 1 .. n
    <3>1. i + 1 \in 1 .. n + 1 /\ i \in 1 .. n + 1
      BY <1>4, <2>2
    <3> QED BY <1>4, <1>5, <1>6, <2>2, <3>1
  <2> QED BY <1>4, <2>1, <2>2
<1>10. ASSUME NEW j \in 1 .. Len(b), Fills(b[j])
       PROVE  /\ Base(b[j], L[j]) >= 1
              /\ \A i \in 1 .. j : Base(b[j], L[j]) <= L[i]
              /\ r2[Len(r2) + 1 - Base(b[j], L[j])].is = Into(b[j])
  <2>1. CASE j = n + 1
    BY <1>2, <1>4, <1>10, <2>1
  <2>2. CASE j \in 1 .. n
    <3>1. b[j] = items[j] /\ L[j] = K[j] /\ \A i \in 1 .. j : L[i] = K[i]
      BY <1>4, <1>5, <2>2
    <3> QED BY <1>7, <1>10, <2>2, <3>1
  <2> QED BY <1>4, <2>1, <2>2
<1>11. L[1] = Len(r2) /\ L[Len(b) + 1] = Len(r) + Gives(Head(s))
  <2>1. Len(b) + 1 = n + 2 /\ 1 \in 1 .. n + 1
    BY <1>4
  <2> QED BY <1>5, <1>6, <1>7, <2>1
<1>12. DepthsOf(b, r2, L)
  BY <1>8, <1>9, <1>10, <1>11 DEF DepthsOf
<1>13. Changes(s, b, r, r2, L, m)
  BY <1>8, <1>H, <1>11, <1>12 DEF Changes
<1> QED BY <1>3, <1>13, DepthsReplace

\* A step that returns a value keeps the results.
LEMMA ValueKeeps ==
  ASSUME IInv, Unpacking, todo # << >>, Gives(Head(todo)) = 1, todo' = Tail(todo),
         NEW v, IsResult(v), results' = <<v>> \o results, mode' = mode
  PROVE  ResultsInv'
<1>1. /\ IsSeq(results) /\ (\A i \in 1 .. Len(results) : IsResult(results[i]))
      /\ Filled(todo, results) /\ IsSeq(todo)
  BY DEF IInv, ResultsInv, StackInv, AreCalls
<1>2. Pushed(results, v, results')
  BY <1>1, PushFacts
<1>3. /\ IsSeq(results') /\ Len(results) \in Nat /\ Len(results') = Len(results) + 1
      /\ results'[1] = v
      /\ \A i \in 2 .. Len(results) + 1 : results'[i] = results[i - 1]
  BY <1>2 DEF Pushed
<1>4. ASSUME NEW i \in 1 .. Len(results') PROVE IsResult(results'[i])
  <2>1. CASE i = 1
    BY <1>3, <2>1
  <2>2. CASE i # 1
    <3>1. i \in 2 .. Len(results) + 1 /\ i - 1 \in 1 .. Len(results)
      BY <1>3, <2>2
    <3> QED BY <1>1, <1>3, <3>1
  <2> QED BY <2>1, <2>2
<1>5. Filled(todo', results')
  <2>1. Filled(Tail(todo), <<v>> \o results)
    BY <1>1, DepthsPush
  <2> QED BY <2>1
<1>6. mode' # "pack"
  BY DEF Unpacking
<1> QED BY <1>3, <1>4, <1>5, <1>6 DEF ResultsInv

\* Some results are integers, and some are not.
LEMMA ResultFacts ==
  /\ IsResult(Undef)
  /\ \A v \in Int : IsResult(IV(v))
  /\ \A v : v.is = "string" => IsResult(v)
  /\ IsResult(Array(<< >>)) /\ Array(<< >>).is = "array"
  /\ IsResult(Hash(<< >>)) /\ Hash(<< >>).is = "hash"
<1>1. Undef.is = "undef"
  BY DEF Undef
<1>2. IsResult(Undef)
  BY <1>1 DEF IsResult, HasInt
<1>3. ASSUME NEW v \in Int PROVE IsResult(IV(v))
  <2>1. IV(v).is = "int" /\ IV(v).val = v
    BY DEF IV
  <2> QED BY <2>1 DEF IsResult, HasInt
<1>4. ASSUME NEW v, v.is = "string" PROVE IsResult(v)
  BY <1>4 DEF IsResult, HasInt
<1>5. IsResult(Array(<< >>)) /\ Array(<< >>).is = "array"
  <2>1. Array(<< >>).is = "array"
    BY DEF Array
  <2> QED BY <2>1 DEF IsResult, HasInt
<1>6. IsResult(Hash(<< >>)) /\ Hash(<< >>).is = "hash"
  <2>1. Hash(<< >>).is = "hash" /\ Hash(<< >>).keys = << >>
    BY DEF Hash
  <2>2. DOMAIN << >> = {}
    OBVIOUS
  <2> QED BY <2>1, <2>2 DEF IsResult, HasInt
<1> QED BY <1>2, <1>3, <1>4, <1>5, <1>6

-----------------------------------------------------------------------------
(* The steps of both directions.                                           *)

\* The order in a declarator and in a struct is one.
LEMMA OrderFacts ==
  ASSUME NEW st, NEW t, NEW o \in Orders, IsDeclared(st, t.type, t.decl)
  PROVE  InDecl(t, o) \in Orders
BY DEF IsDeclared, IsTags, InDecl, Tagged

\* A struct of the setup.
LEMMA StructFacts ==
  ASSUME NEW st \in Setups, NEW n \in DOMAIN st.structs
  PROVE  /\ IsStruct(st, st.structs[n]) /\ st.structs[n].size \in Nat
         /\ IsSeq(st.structs[n].members)
         /\ \A i \in 1 .. Len(st.structs[n].members) :
              IsMember(st, st.structs[n].size, st.structs[n].members[i])
<1> DEFINE def == st.structs[n]
<1>1. IsStruct(st, def)
  BY SetupFacts
<1>2. Memory \in Nat
  BY MachineFacts
<1> HIDE DEF def
<1>3. /\ def.size \in 0 .. Memory
      /\ def.members \in Seq({def.members[i] : i \in DOMAIN def.members})
      /\ \A i \in DOMAIN def.members : IsMember(st, def.size, def.members[i])
  BY <1>1 DEF IsStruct
<1>4. IsSeq(def.members)
  BY <1>3 DEF IsSeq
<1>5. DOMAIN def.members = 1 .. Len(def.members)
  BY <1>4, IsSeqFacts, SMTT(60)
<1> QED BY <1>1, <1>2, <1>3, <1>4, <1>5 DEF def

\* What a typedef stands for is in its place.
LEMMA TypedefCall ==
  ASSUME NEW st \in Setups, NEW packs, NEW t, IsTypeCall(st, packs, t),
         ~t.decl.pointer, t.type.is = "typedef", t.level >= Len(t.decl.dims),
         NEW def, def = st.typedefs[t.type.name],
         NEW c, c.type = def.type, c.decl = def.decl, c.level = 0, c.bits = t.bits,
         c.at = t.at, c.sv = t.sv
  PROVE  IsTypeCall(st, packs, c) /\ c.decl.dim.by # "member"
<1>0. Memory \in Nat
  BY MachineFacts
<1>1. /\ IsDeclared(st, t.type, t.decl) /\ IsBits(st, t.type, t.decl, t.bits)
      /\ t.at \in Nat /\ t.sv \in Data
      /\ packs => t.at + Extent(st, t.type, t.decl, t.level, t.bits) <= Memory
  BY DEF IsTypeCall
<1>2. t.type.name \in DOMAIN st.typedefs
  BY <1>1 DEF IsDeclared, IsType
<1>3. IsTypedef(st, def)
  BY <1>2, SetupFacts, SMTT(60)
<1>4. /\ IsDeclared(st, def.type, def.decl) /\ def.decl.dim.by # "member"
      /\ def.decl.item = SizeOf(st, def.type, def.decl)
  BY <1>3 DEF IsTypedef
<1>5. /\ t.bits.bits \in Nat /\ t.bits.pos \in Nat /\ t.bits.size \in 0 .. Memory
      /\ t.bits.bits > 0 => t.type.name \in Integral(st)
  BY <1>1 DEF IsBits
<1>6. IsBits(st, def.type, def.decl, t.bits)
  <2>1. CASE t.bits.bits > 0
    <3>1. t.type.name \in Integral(st)
      BY <1>5, <2>1
    <3> DEFINE Leads(N) ==
                 \A n \in N : LET d == st.typedefs[n] IN
                   /\ d.decl.dims = << >> /\ ~d.decl.pointer /\ d.decl.format = None
                   /\ \/ d.type.is = "leaf"
                      \/ d.type.is = "typedef" /\ d.type.name \in N
    <3>2. Integral(st) = UNION {N \in SUBSET DOMAIN st.typedefs : Leads(N)}
      BY DEF Integral
    <3>3. PICK N \in SUBSET DOMAIN st.typedefs : Leads(N) /\ t.type.name \in N
      <4> HIDE DEF Leads
      <4> QED BY <3>1, <3>2
    <3>4. /\ def.decl.dims = << >> /\ ~def.decl.pointer /\ def.decl.format = None
          /\ def.type.is = "leaf" \/ (def.type.is = "typedef" /\ def.type.name \in N)
      BY <3>3
    <3>5. \A n \in N : n \in Integral(st)
      <4> HIDE DEF Leads
      <4> QED BY <3>2, <3>3
    <3> HIDE DEF Leads
    <3> QED BY <1>5, <3>4, <3>5 DEF IsBits
  <2>2. CASE ~(t.bits.bits > 0)
    BY <1>5, <2>2, SMTT(60) DEF IsBits
  <2> QED BY <2>1, <2>2
<1>7. Len(def.decl.dims) \in Nat /\ ItemSize(def.decl, Len(def.decl.dims)) = def.decl.item
      /\ t.level \in Nat /\ Len(t.decl.dims) \in Nat
  BY <1>1, <1>4, DeclFacts, TypeCallFacts, SMTT(60)
<1>8. Extent(st, def.type, def.decl, 0, t.bits) = Extent(st, t.type, t.decl, t.level, t.bits)
  <2>1. CASE t.bits.bits > 0
    BY <2>1 DEF Extent
  <2>2. CASE t.bits.bits = 0
    <3>0. ~(t.bits.bits > 0) /\ ~(t.level < Len(t.decl.dims))
      BY <1>7, <2>2
    <3>1. SizeOf(st, t.type, t.decl) = ItemSize(def.decl, 0)
      BY DEF SizeOf, DeclSize
    <3>2. Extent(st, t.type, t.decl, t.level, t.bits) = ItemSize(def.decl, 0)
      BY <2>2, <3>0, <3>1, SMTT(60) DEF Extent
    <3>3. CASE Len(def.decl.dims) = 0
      <4>1. Extent(st, def.type, def.decl, 0, t.bits) = SizeOf(st, def.type, def.decl)
        <5>1. 0 >= Len(def.decl.dims) /\ ~(0 < Len(def.decl.dims))
          BY <3>3
        <5> QED BY <2>2, <3>0, <5>1 DEF Extent
      <4> QED BY <1>4, <1>7, <3>2, <3>3, <4>1
    <3>4. CASE Len(def.decl.dims) # 0
      <4>1. ~(0 >= Len(def.decl.dims)) /\ 0 < Len(def.decl.dims)
        BY <1>7, <3>4
      <4>2. Extent(st, def.type, def.decl, 0, t.bits) = ItemSize(def.decl, 0)
        BY <2>2, <3>0, <4>1 DEF Extent
      <4> QED BY <3>2, <4>2
    <3> QED BY <3>3, <3>4
  <2> QED BY <1>5, <2>1, <2>2
<1>9. 0 \in 0 .. Len(def.decl.dims)
  BY <1>7
<1> QED BY <1>1, <1>4, <1>6, <1>8, <1>9 DEF IsTypeCall

\* pack_type and unpack_type go on with what a typedef stands for, or a struct.
LEMMA FollowKeeps ==
  ASSUME IInv, Follow
  PROVE  IInv' /\ Quiet'
<1> DEFINE t == Head(todo)
           packs == mode = "pack"
           def == setup.typedefs[t.type.name]
           w == InDecl(t, t.want)
           c == IF t.type.is = "typedef" THEN Type(def.type, def.decl, 0, t.bits, t.at, t.sv, w)
                ELSE Struct(t.type.name, FALSE, t.at, t.sv, w)
           items == <<c>>
<1>1. /\ todo # << >> /\ t.do = "type" /\ IsScalar(t) /\ ~IsLeaf(t)
      /\ order' = InDecl(t, order) /\ Calls(items)
      /\ UNCHANGED <<setup, mode, results, string, len, parent, reach>>
  BY DEF Follow, Running
<1>2. setup \in Setups /\ order \in Orders
  BY DEF IInv
<1>3. IsTypeCall(setup, packs, t) /\ t.want = order
  BY <1>1, HeadFacts DEF IsCall
<1>4. w = order'
  BY <1>1, <1>3
<1>5. t.level >= Len(t.decl.dims) /\ ~t.decl.pointer /\ t.type.is # "leaf"
  <2>1. t.level \in Nat /\ Len(t.decl.dims) \in Nat
    <3>1. IsDeclared(setup, t.type, t.decl)
      BY <1>3 DEF IsTypeCall
    <3> QED BY <1>2, <1>3, <3>1, TypeCallFacts, DeclFacts
  <2>2. ~(t.level < Len(t.decl.dims)) /\ ~t.decl.pointer /\ t.type.is # "leaf"
    BY <1>1 DEF IsScalar, IsArray, IsLeaf
  <2> QED BY <2>1, <2>2
<1>6. /\ IsDeclared(setup, t.type, t.decl) /\ IsType(setup, t.type)
      /\ t.at \in Nat /\ t.sv \in Data /\ IsBits(setup, t.type, t.decl, t.bits)
      /\ packs => t.at + Extent(setup, t.type, t.decl, t.level, t.bits) <= Memory
  BY <1>3 DEF IsTypeCall, IsDeclared
<1> HIDE DEF t, packs, def, w
<1>7. order' \in Orders
  BY <1>1, <1>2, <1>6, OrderFacts
<1>8. /\ IsCall(setup, packs, c) /\ c.do # "order" /\ c.want = order'
      /\ ~LooksUp(setup, c) /\ Gives(c) = 1 /\ ~Fills(c)
  <2>1. CASE t.type.is = "typedef"
    <3>1. /\ c.do = "type" /\ c.type = def.type /\ c.decl = def.decl /\ c.level = 0 /\ c.bits = t.bits
          /\ c.at = t.at /\ c.sv = t.sv /\ c.want = w
      BY <2>1 DEF Type
    <3> HIDE DEF c
    <3>2. IsTypeCall(setup, packs, c) /\ c.decl.dim.by # "member"
      BY <1>2, <1>3, <1>5, <2>1, <3>1, TypedefCall DEF def
    <3> QED BY <1>4, <3>1, <3>2 DEF IsCall, LooksUp, Gives, Fills
  <2>2. CASE t.type.is = "struct"
    <3>1. /\ c.do = "struct" /\ c.name = t.type.name /\ c.inlined = FALSE
          /\ c.at = t.at /\ c.sv = t.sv /\ c.want = w
      BY <2>2 DEF Struct
    <3> HIDE DEF c
    <3>2. c.name \in DOMAIN setup.structs
      BY <1>6, <2>2, <3>1 DEF IsType
    <3>3. Extent(setup, t.type, t.decl, t.level, t.bits) = setup.structs[c.name].size
      <4>1. t.bits.bits \in Nat /\ ~(t.bits.bits > 0)
        BY <1>6, <2>2 DEF IsBits
      <4>2. t.bits.bits = 0
        BY <4>1
      <4>3. t.level \in Nat /\ Len(t.decl.dims) \in Nat
        BY <1>2, <1>3, <1>6, TypeCallFacts, DeclFacts
      <4>4. Extent(setup, t.type, t.decl, t.level, t.bits) = SizeOf(setup, t.type, t.decl)
        <5>1. ~(t.level < Len(t.decl.dims))
          BY <1>5, <4>3
        <5> QED BY <1>5, <4>1, <4>2, <5>1 DEF Extent
      <4> QED BY <1>5, <2>2, <3>1, <4>4 DEF SizeOf
    <3>4. IsStructCall(setup, packs, c)
      BY <1>6, <3>1, <3>2, <3>3 DEF IsStructCall
    <3> QED BY <1>4, <3>1, <3>4 DEF IsCall, LooksUp, Gives, Fills
  <2> QED BY <1>5, <1>6, <2>1, <2>2 DEF IsType
<1> HIDE DEF c
<1>9. IsSeq(items) /\ Len(items) = 1 /\ items[1] = c
  BY SingleFacts
<1> HIDE DEF items
<1>10. \A i \in 1 .. Len(items) : i = 1 /\ items[i] = c
  BY <1>9
<1>11. StackInv' /\ Quiet'
  <2>1. /\ Head(todo).do \notin {"order", "parent"}
        /\ \A i \in 1 .. Len(items) : IsCall(setup, mode = "pack", items[i])
        /\ \A i \in 1 .. Len(items) :
             /\ items[i].do # "order"
             /\ items[i].do \in {"type", "struct", "member"} => items[i].want = order'
        /\ \A i \in 1 .. Len(items) : LooksUp(setup, items[i]) =>
             i # 1 /\ items[i - 1].do = "parent" /\ Fits(items[i], items[i - 1].parent)
    BY <1>1, <1>8, <1>10 DEF t, packs
  <2> QED BY <1>1, <1>9, <2>1, StackCalls
<1>12. ResultsInv'
  <2>1. CASE mode = "pack"
    BY <1>1, <2>1, PackResults
  <2>2. CASE mode # "pack"
    <3>1. CASE Unpacking
      <4>1. IsSeq(results) /\ Filled(todo, results) /\ IsSeq(todo)
        BY <3>1 DEF IInv, ResultsInv, StackInv, AreCalls
      <4> DEFINE m == Len(results)
                 K == [i \in 1 .. 2 |-> IF i = 1 THEN m ELSE m + 1]
      <4>2. m \in Nat
        BY <4>1, IsSeqFacts
      <4>3. K[1] = m /\ K[2] = m + 1
        OBVIOUS
      <4> HIDE DEF K
      <4>4. Gives(t) = 1
        BY <1>1 DEF Gives
      <4>5. Changes(todo, items, results, results, K, m)
        <5>1. DepthsOf(items, results, K)
          <6>1. \A i \in 1 .. Len(items) + 1 : K[i] \in Int
            BY <1>9, <4>2, <4>3
          <6>2. \A i \in 1 .. Len(items) : K[i + 1] = K[i] + Gives(items[i]) /\ ~Fills(items[i])
            BY <1>8, <1>10, <4>3
          <6> QED BY <4>3, <6>1, <6>2 DEF DepthsOf
        <5>2. /\ K[Len(items) + 1] = Len(results) + Gives(Head(todo))
              /\ \A i \in 1 .. Len(items) + 1 : m <= K[i]
          BY <1>9, <4>2, <4>3, <4>4 DEF t
        <5>3. Gives(Head(todo)) >= 0 /\ ~(Gives(Head(todo)) < 0)
          BY <4>4 DEF t
        <5> QED BY <4>1, <4>2, <5>1, <5>2, <5>3 DEF Changes
      <4>6. todo' = items \o <<SetOrder(order)>> \o Tail(todo)
        BY <1>1 DEF Calls
      <4> HIDE DEF m
      <4>7. Filled(todo', results)
        BY <1>1, <1>9, <4>1, <4>5, <4>6, DepthsCalls
      <4> QED BY <1>1, <3>1, <4>7 DEF IInv, ResultsInv, Unpacking
    <3>2. CASE ~Unpacking
      BY <1>1, <2>2, <3>2 DEF IInv, ResultsInv, Unpacking
    <3> QED BY <3>1, <3>2
  <2> QED BY <2>1, <2>2
<1>13. BufferInv'
  BY <1>1, BufferStays
<1> QED BY <1>1, <1>7, <1>11, <1>12, <1>13 DEF IInv

\* They skip a struct that is not defined.
LEMMA SkipUndefinedKeeps ==
  ASSUME IInv, SkipUndefined
  PROVE  IInv'
<1>1. /\ todo # << >> /\ Head(todo).do = "type" /\ todo' = Tail(todo)
      /\ IF Unpacking THEN results' = <<Undef>> \o results ELSE results' = results
      /\ UNCHANGED <<setup, mode, string, len, order, parent, reach>>
  BY DEF SkipUndefined, Running, Push
<1>2. StackInv'
  BY <1>1, StackPop
<1>3. ResultsInv'
  <2>1. CASE Unpacking
    <3>1. Gives(Head(todo)) = 1
      BY <1>1 DEF Gives
    <3>2. results' = <<Undef>> \o results
      BY <1>1, <2>1
    <3> QED BY <1>1, <2>1, <3>1, <3>2, ResultFacts, ValueKeeps
  <2>2. CASE ~Unpacking
    BY <1>1, <2>2 DEF IInv, ResultsInv, Unpacking
  <2> QED BY <2>1, <2>2
<1>4. BufferInv'
  BY <1>1, BufferStays
<1> QED BY <1>1, <1>2, <1>3, <1>4 DEF IInv

\* The byte order is set, or restored.
LEMMA RestoreOrderKeeps ==
  ASSUME IInv, RestoreOrder
  PROVE  IInv'
<1> DEFINE s == todo
           t == Tail(todo)
           b == << >>
           packs == mode = "pack"
<1>1. /\ s # << >> /\ Head(s).do = "order" /\ todo' = t /\ order' = Head(s).order
      /\ UNCHANGED <<setup, mode, results, string, len, parent, reach>>
  BY DEF RestoreOrder, Running
<1>2. /\ AreCalls(setup, packs, s) /\ Scoped(s, order) /\ Parented(setup, s, parent)
      /\ IsSeq(s) /\ IsCall(setup, packs, Head(s))
  BY <1>1, HeadFacts DEF IInv, StackInv
<1>3. Replaces(s, t, b) /\ b = << >> /\ Len(b) = 0
  BY <1>1, <1>2, ReplacesTail, EmptyFacts
<1>4. order' \in Orders
  BY <1>1, <1>2 DEF IsCall
<1>5. Scoped(t, order')
  <2> DEFINE o2 == IF Head(s).do = "order" THEN Head(s).order ELSE order
  <2>1. Scoped(t, o2)
    BY <1>1, <1>2, ScopePop
  <2>2. o2 = order'
    BY <1>1
  <2> HIDE DEF o2
  <2> QED BY <2>1, <2>2
<1>6. (mode' = "pack") = packs
  BY <1>1
<1>7. ResultsInv'
  <2>1. Unpacking => Filled(t, results)
    <3>1. Gives(Head(s)) = 0
      BY <1>1 DEF Gives
    <3> QED BY <1>1, <1>2, <3>1, DepthsSame DEF IInv, ResultsInv
  <2> QED BY <1>1, <2>1 DEF IInv, ResultsInv, Unpacking
<1> HIDE DEF s, t, b, packs
<1>8. AreCalls(setup, packs, t)
  <2>1. \A i \in 1 .. Len(b) : IsCall(setup, packs, b[i])
    BY <1>3
  <2> QED BY <1>2, <1>3, <2>1, CallsReplace
<1>9. Parented(setup, t, parent)
  <2>1. Parented(setup, b, parent) /\ Head(s).do # "parent"
    BY <1>1, <1>3 DEF Parented
  <2> QED BY <1>2, <1>3, <2>1, ParentReplace
<1>10. BufferInv'
  BY <1>1, BufferStays
<1>11. StackInv'
  BY <1>1, <1>5, <1>6, <1>8, <1>9 DEF StackInv
<1> QED BY <1>1, <1>4, <1>7, <1>10, <1>11 DEF IInv

-----------------------------------------------------------------------------
(* pack.                                                                   *)

\* What a step of pack keeps that only writes.
LEMMA WrittenKeeps ==
  ASSUME IInv, mode = "pack", todo # << >>, Head(todo).do \notin {"order", "parent"},
         UNCHANGED <<setup, results, order, parent>>,
         \/ OutOfMemory
         \/ todo' = Tail(todo) /\ mode' = mode /\ Buffered'
  PROVE  IInv'
<1>1. CASE OutOfMemory
  BY <1>1, DiedKeeps
<1>2. CASE todo' = Tail(todo) /\ mode' = mode /\ Buffered'
  <2>1. StackInv'
    BY <1>2, StackPop
  <2>2. ResultsInv'
    BY <1>2, PackResults
  <2>3. BufferInv'
    BY <1>2 DEF BufferInv
  <2> QED BY <1>2, <2>1, <2>2, <2>3 DEF IInv
<1> QED BY <1>1, <1>2

\* A leaf, and the bytes it takes.
LEMMA LeafFacts ==
  ASSUME NEW st \in Setups, NEW packs, NEW t, IsTypeCall(st, packs, t), IsLeaf(t)
  PROVE  /\ LeafSize(t) \in Nat
         /\ packs => t.at + LeafSize(t) <= Memory
         /\ t.bits.bits \in Nat /\ t.bits.pos \in Nat
         /\ t.bits.bits = 0 /\ ~t.decl.pointer => LeafSize(t) > 0
<1>0. Memory \in Nat /\ PtrSize \in Nat
  BY MachineFacts
<1>1. /\ IsDeclared(st, t.type, t.decl) /\ IsBits(st, t.type, t.decl, t.bits)
      /\ packs => t.at + Extent(st, t.type, t.decl, t.level, t.bits) <= Memory
  BY DEF IsTypeCall
<1>2. /\ t.bits.bits \in Nat /\ t.bits.pos \in Nat /\ t.bits.size \in Nat
      /\ IsType(st, t.type) /\ t.decl.pointer \in BOOLEAN
  BY <1>0, <1>1 DEF IsBits, IsDeclared
<1>3. t.level \in Nat /\ Len(t.decl.dims) \in Nat
  BY <1>1, TypeCallFacts, DeclFacts
<1>4. t.level >= Len(t.decl.dims) /\ (t.decl.pointer \/ t.type.is = "leaf")
  BY <1>3 DEF IsLeaf, IsScalar, IsArray
<1>5. t.type.is = "leaf" => t.type.size \in 1 .. Memory
  BY <1>2 DEF IsType
<1>6. CASE t.bits.bits > 0
  <2>1. LeafSize(t) = t.bits.size /\ Extent(st, t.type, t.decl, t.level, t.bits) = t.bits.size
    BY <1>6 DEF LeafSize, Extent
  <2> QED BY <1>1, <1>2, <1>6, <2>1
<1>7. CASE t.bits.bits = 0
  <2>1. ~(t.bits.bits > 0) /\ ~(t.level < Len(t.decl.dims))
    BY <1>3, <1>4, <1>7
  <2>2. Extent(st, t.type, t.decl, t.level, t.bits) = SizeOf(st, t.type, t.decl)
    BY <1>4, <1>7, <2>1 DEF Extent
  <2>3. CASE t.decl.pointer
    <3>1. LeafSize(t) = PtrSize /\ SizeOf(st, t.type, t.decl) = PtrSize
      BY <1>7, <2>1, <2>3 DEF LeafSize, SizeOf
    <3> QED BY <1>0, <1>1, <1>2, <2>2, <2>3, <3>1
  <2>4. CASE ~t.decl.pointer
    <3>1. LeafSize(t) = t.type.size /\ SizeOf(st, t.type, t.decl) = t.type.size
      BY <1>4, <1>7, <2>1, <2>4 DEF LeafSize, SizeOf
    <3> QED BY <1>0, <1>1, <1>2, <1>4, <1>5, <2>2, <2>4, <3>1
  <2> QED BY <2>3, <2>4
<1> QED BY <1>2, <1>6, <1>7

\* pack_format: an array of bytes, an enum or a basic type is a string.
LEMMA PackFormatTagKeeps ==
  ASSUME IInv, PackFormatTag
  PROVE  IInv'
<1> DEFINE t == Head(todo)
           packs == mode = "pack"
           f == t.decl.format
           g == LeafFormat(t)
           n == FormatSize(t.decl)
           x == Flexible(t.decl)
           m == LeafSize(t)
<1>1. /\ mode = "pack" /\ todo # << >> /\ t.do = "type"
      /\ \/ IsFormat(t) /\ PackFormat(f, n, x, t.at, t.sv)
         \/ IsLeaf(t) /\ PackFormat(g, m, FALSE, t.at, t.sv)
      /\ UNCHANGED <<setup, results, order, parent>>
  BY DEF PackFormatTag, Packs, Running
<1>2. setup \in Setups /\ IsResult(parent) /\ Buffered
  BY DEF IInv, BufferInv
<1>0. Memory \in Nat \ {0} /\ Word \in Nat /\ 4 * Memory < Word
  BY MachineFacts
<1>3. IsTypeCall(setup, packs, t) /\ packs
  BY <1>1, HeadFacts DEF IsCall
<1>4. IsDeclared(setup, t.type, t.decl) /\ t.sv \in Data
  BY <1>3 DEF IsTypeCall
<1>5. t.at \in 0 .. Memory
  BY <1>2, <1>3, TypeCallFacts
<1>6. \/ OutOfMemory
      \/ todo' = Tail(todo) /\ mode' = mode /\ Buffered'
  <2>1. CASE IsFormat(t) /\ PackFormat(f, n, x, t.at, t.sv)
    <3>1. (x => n \in 1 .. Memory) /\ n \in Nat /\ n + 3 * Memory < Word
      BY <1>2, <1>4, FormatSizeFacts
    <3>2. x \in BOOLEAN
      BY DEF Flexible
    <3>3. t.at + n + 1 < Word
      BY <1>0, <1>5, <3>1
    <3> HIDE DEF t, f, n, x
    <3> QED BY <1>2, <1>4, <1>5, <2>1, <3>1, <3>2, <3>3, PackFormatFacts
  <2>2. CASE IsLeaf(t) /\ PackFormat(g, m, FALSE, t.at, t.sv)
    <3>1. m \in Nat /\ t.at + m <= Memory
      BY <1>2, <1>3, <2>2, LeafFacts
    <3>2. PICK no \in BOOLEAN : no = FALSE
      OBVIOUS
    <3>3. t.at + m + 1 < Word
      BY <1>0, <1>5, <3>1
    <3>4. PackFormat(g, m, no, t.at, t.sv)
      <4> HIDE DEF t, g, m
      <4> QED BY <2>2, <3>2, Zenon
    <3> HIDE DEF t, g, m
    <3> QED BY <1>2, <1>4, <1>5, <3>1, <3>2, <3>3, <3>4, PackFormatFacts
  <2> QED BY <1>1, <2>1, <2>2
<1> QED BY <1>1, <1>6, WrittenKeeps

\* pack_basic, pack_enum and pack_pointer.
LEMMA PackLeafKeeps ==
  ASSUME IInv, PackLeaf
  PROVE  IInv'
<1> DEFINE t == Head(todo)
           packs == mode = "pack"
           size == LeafSize(t)
           was == At(Grown(t.at, size), t.at, size)
           v == SvIV(t.sv)
           b == IF t.sv.is \notin {"int", "string"} THEN << >>
                ELSE store_integer(was, t.bits.bits, t.bits.pos, LeafOrder(t), v)
<1>1. /\ mode = "pack" /\ todo # << >> /\ t.do = "type" /\ IsLeaf(t)
      /\ \/ Exhausted(t.at, size) /\ Fail(t.at, size)
         \/ ~Exhausted(t.at, size) /\ Write(t.at, size, b) /\ todo' = Tail(todo) /\ mode' = mode
      /\ UNCHANGED <<setup, results, order, parent>>
  BY DEF PackLeaf, Packs, Running
<1>2. setup \in Setups /\ Buffered
  BY DEF IInv, BufferInv
<1>0. Memory \in Nat \ {0} /\ Word \in Nat /\ 4 * Memory < Word
  BY MachineFacts
<1>3. IsTypeCall(setup, packs, t) /\ packs
  BY <1>1, HeadFacts DEF IsCall
<1>4. t.at \in Nat /\ t.sv \in Data
  BY <1>3 DEF IsTypeCall
<1>5. size \in Nat /\ t.at + size <= Memory /\ t.bits.bits \in Nat /\ t.bits.pos \in Nat
  BY <1>1, <1>2, <1>3, LeafFacts
<1>6. v \in Int
  BY <1>4, DataAssumption DEF SvIV
<1> HIDE DEF size, v
<1>7. Grown(t.at, size) \in Seq(Octets)
  <2>1. t.at \in Int /\ size \in Int
    BY <1>4, <1>5
  <2> HIDE DEF t
  <2> QED BY <1>2, <2>1, GrownFacts
<1>8. was \in Seq(Octets) /\ Len(was) = size
  BY <1>4, <1>5, <1>7, AtFacts
<1> HIDE DEF was
<1>9. b \in Seq(Octets) /\ (b # << >> => Len(b) <= size)
  <2>1. CASE t.sv.is \in {"int", "string"}
    <3>1. /\ store_integer(was, t.bits.bits, t.bits.pos, LeafOrder(t), v) \in Seq(Octets)
          /\ Len(store_integer(was, t.bits.bits, t.bits.pos, LeafOrder(t), v)) = Len(was)
      BY <1>5, <1>6, <1>8, StoreFacts
    <3> QED BY <1>5, <1>8, <2>1, <3>1
  <2>2. CASE t.sv.is \notin {"int", "string"}
    BY <2>2
  <2> QED BY <2>1, <2>2
<1> HIDE DEF b
<1>10. \/ OutOfMemory
       \/ todo' = Tail(todo) /\ mode' = mode /\ Buffered'
  <2>1. CASE ~Exhausted(t.at, size) /\ Write(t.at, size, b) /\ todo' = Tail(todo) /\ mode' = mode
    <3>1. size \in Int /\ t.at + size < Word
      BY <1>0, <1>4, <1>5
    <3> HIDE DEF t
    <3> QED BY <1>2, <1>4, <1>9, <2>1, <3>1, WriteFacts
  <2>2. CASE Fail(t.at, size)
    <3>1. t.at + size + 1 < Word
      <4> HIDE DEF t
      <4> QED BY <1>0, <1>4, <1>5
    <3> HIDE DEF t
    <3> QED BY <1>4, <1>5, <2>2, <3>1, FailFacts
  <2> QED BY <1>1, <2>1, <2>2
<1> QED BY <1>1, <1>10, WrittenKeeps

\* pack_type, when there are no data for an array.
LEMMA PackNoArrayKeeps ==
  ASSUME IInv, PackNoArray
  PROVE  IInv'
<1> DEFINE t == Head(todo)
           packs == mode = "pack"
           size == ItemSize(t.decl, t.level)
<1>1. /\ mode = "pack" /\ todo # << >> /\ t.do = "type" /\ IsArray(t)
      /\ \/ Exhausted(t.at, size) /\ Fail(t.at, size)
         \/ ~Exhausted(t.at, size) /\ Write(t.at, size, << >>) /\ todo' = Tail(todo) /\ mode' = mode
      /\ UNCHANGED <<setup, results, order, parent>>
  BY DEF PackNoArray, Packs, Running
<1>2. setup \in Setups /\ Buffered
  BY DEF IInv, BufferInv
<1>0. Memory \in Nat \ {0} /\ Word \in Nat /\ 4 * Memory < Word
  BY MachineFacts
<1>3. IsTypeCall(setup, packs, t) /\ packs
  BY <1>1, HeadFacts DEF IsCall
<1>4. t.at \in Nat /\ IsDeclared(setup, t.type, t.decl) /\ t.level \in 0 .. Len(t.decl.dims)
  BY <1>3 DEF IsTypeCall
<1>5. size \in Int /\ size \in 0 .. Memory
  BY <1>4, DeclFacts
<1>A. t.at + size + 1 < Word
  <2>1. t.at <= Memory
    <3>1. t.at \in 0 .. Memory
      <4> HIDE DEF t
      <4> QED BY <1>2, <1>3, TypeCallFacts
    <3> QED BY <1>0, <3>1
  <2> HIDE DEF t, size
  <2> QED BY <1>0, <1>4, <1>5, <2>1
<1> HIDE DEF size
<1>6. \/ OutOfMemory
      \/ todo' = Tail(todo) /\ mode' = mode /\ Buffered'
  <2>1. CASE ~Exhausted(t.at, size) /\ Write(t.at, size, << >>) /\ todo' = Tail(todo) /\ mode' = mode
    <3> HIDE DEF t
    <3> QED BY <1>2, <1>4, <1>5, <2>1, GrowFacts
  <2>2. CASE Fail(t.at, size)
    <3>1. size \in Nat
      BY <1>0, <1>5
    <3> HIDE DEF t
    <3> QED BY <1>4, <1>A, <2>2, <3>1, FailFacts
  <2> QED BY <1>1, <2>1, <2>2
<1> QED BY <1>1, <1>6, WrittenKeeps

\* The parent is set, or cleared.
LEMMA PackParentKeeps ==
  ASSUME IInv, PackParent
  PROVE  IInv'
<1> DEFINE s == todo
           t == Tail(todo)
           b == << >>
           packs == mode = "pack"
<1>1. /\ mode = "pack" /\ s # << >> /\ Head(s).do = "parent" /\ todo' = t /\ parent' = Head(s).parent
      /\ UNCHANGED <<setup, mode, results, string, len, order, reach>>
  BY DEF PackParent, Packs, Running
<1>2. /\ AreCalls(setup, packs, s) /\ Scoped(s, order) /\ Parented(setup, s, parent)
      /\ IsSeq(s) /\ IsCall(setup, packs, Head(s))
  BY <1>1, HeadFacts DEF IInv, StackInv
<1>3. Replaces(s, t, b) /\ b = << >> /\ Len(b) = 0
  BY <1>1, <1>2, ReplacesTail, EmptyFacts
<1>4. parent' \in Data /\ parent'.is \in {"undef", "hash"} /\ IsResult(parent')
  <2>1. parent' \in Data /\ parent'.is \in {"undef", "hash"}
    BY <1>1, <1>2 DEF IsCall
  <2> QED BY <2>1, DataFacts
<1>5. Scoped(t, order)
  <2> DEFINE o2 == IF Head(s).do = "order" THEN Head(s).order ELSE order
  <2>1. Scoped(t, o2)
    BY <1>1, <1>2, ScopePop
  <2>2. o2 = order
    BY <1>1
  <2> HIDE DEF o2
  <2> QED BY <2>1, <2>2
<1>6. (mode' = "pack") = packs
  BY <1>1
<1>7. ResultsInv'
  BY <1>1, PackResults
<1> HIDE DEF s, t, b, packs
<1>8. AreCalls(setup, packs, t)
  <2>1. \A i \in 1 .. Len(b) : IsCall(setup, packs, b[i])
    BY <1>3
  <2> QED BY <1>2, <1>3, <2>1, CallsReplace
<1>9. Parented(setup, t, parent')
  <2>1. Parented(setup, b, parent')
    BY <1>3 DEF Parented
  <2> QED BY <1>1, <1>2, <1>3, <2>1, ParentReplace
<1>10. BufferInv'
  BY <1>1, BufferStays
<1>11. StackInv'
  BY <1>1, <1>5, <1>6, <1>8, <1>9 DEF StackInv
<1> QED BY <1>1, <1>4, <1>7, <1>10, <1>11 DEF IInv

\* What is put together for the numbers up to n is a sequence, if there are any.
LEMMA UptoFacts ==
  ASSUME NEW n \in Int, NEW f, f = [i \in 1 .. n |-> f[i]]
  PROVE  IsSeq(f) /\ Len(f) \in Nat /\ \A i \in 1 .. Len(f) : i \in 1 .. n
<1>1. CASE n >= 0
  <2>1. n \in Nat
    BY <1>1
  <2>2. IsSeq(f) /\ Len(f) = n
    BY <2>1, SeqFacts
  <2> QED BY <2>1, <2>2
<1>2. CASE n < 0
  <2> DEFINE z == 0
  <2>1. 1 .. n = 1 .. z /\ z \in Nat
    BY <1>2
  <2> HIDE DEF z
  <2>2. f = [i \in 1 .. z |-> f[i]]
    BY <2>1
  <2>3. IsSeq(f) /\ Len(f) = z
    BY <2>1, <2>2, SeqFacts
  <2> QED BY <2>1, <2>3
<1>3. n >= 0 \/ n < 0
  OBVIOUS
<1> QED BY <1>1, <1>2, <1>3, Zenon

\* A part of a product.
LEMMA PartFacts ==
  ASSUME NEW n \in Int, NEW i \in 1 .. n, NEW size \in Nat
  PROVE  /\ (i - 1) * size \in Nat /\ n * size \in Nat
         /\ (i - 1) * size + size <= n * size
<1> DEFINE x == (i - 1) * size
           y == (n - i) * size
           z == n * size
<1>1. x \in Int /\ x >= 0
  <2>1. i - 1 \in Int /\ i - 1 >= 0 /\ size \in Int /\ size >= 0
    OBVIOUS
  <2> QED BY <2>1, ProductFacts
<1>2. y \in Int /\ y >= 0
  <2>1. n - i \in Int /\ n - i >= 0 /\ size \in Int /\ size >= 0
    OBVIOUS
  <2> QED BY <2>1, ProductFacts
<1>3. z = x + size + y
  OBVIOUS
<1> HIDE DEF x, y, z
<1>4. x \in Nat /\ z \in Nat /\ x + size <= z
  BY <1>1, <1>2, <1>3
<1> QED BY <1>4 DEF x, z

\* An array has elements, and each has a size.
LEMMA ElementsFacts ==
  ASSUME NEW st \in Setups, NEW packs, NEW t, IsTypeCall(st, packs, t), IsArray(t),
         NEW avail \in Int, IsResult(parent)
  PROVE  /\ t.level \in Nat /\ t.level + 1 \in 1 .. Len(t.decl.dims) /\ t.decl.dims # << >>
         /\ ItemSize(t.decl, t.level + 1) \in Nat \ {0}
         /\ Elements(t, avail) \in Int
<1>1. IsDeclared(st, t.type, t.decl)
  BY DEF IsTypeCall
<1>2. t.level \in Nat /\ Len(t.decl.dims) \in Nat /\ t.decl.dims \in Seq(Nat)
  BY <1>1, TypeCallFacts, DeclFacts
<1>3. t.level + 1 \in 1 .. Len(t.decl.dims) /\ t.decl.dims # << >>
  BY <1>2 DEF IsArray
<1>4. ItemSize(t.decl, t.level + 1) \in Nat \ {0}
  BY <1>1, <1>3, DeclFacts
<1>5. Elements(t, avail) \in Int
  <2>1. CASE ~Counts(t)
    <3>1. t.decl.dims[t.level + 1] \in Nat
      BY <1>2, <1>3, SMTT(60)
    <3> QED BY <2>1, <3>1 DEF Elements
  <2>2. CASE Counts(t) /\ t.decl.dim # NoDim
    <3>1. IsDim(t.decl.dim)
      BY <1>1 DEF IsDeclared
    <3>2. dimtag_eval(t.decl.dim, avail) \in Int
      BY <2>2, <3>1, DimFacts
    <3> QED BY <2>2, <3>2 DEF Elements
  <2>3. CASE Counts(t) /\ t.decl.dim = NoDim
    BY <2>3 DEF Elements
  <2> QED BY <2>1, <2>2, <2>3
<1> QED BY <1>2, <1>3, <1>4, <1>5

\* An element of an array is a call that is in its place.
LEMMA ElementCall ==
  ASSUME NEW st \in Setups, NEW packs, NEW t, IsTypeCall(st, packs, t), IsArray(t),
         NEW c, c.type = t.type, c.decl = t.decl, c.level = t.level + 1, c.bits = NoBits,
         c.at \in Nat, c.sv \in Data,
         packs => c.at + ItemSize(t.decl, t.level + 1) <= Memory
  PROVE  IsTypeCall(st, packs, c)
<1>1. IsDeclared(st, t.type, t.decl)
  BY DEF IsTypeCall
<1>2. t.level \in Nat /\ Len(t.decl.dims) \in Nat /\ ItemSize(t.decl, Len(t.decl.dims)) = t.decl.item
  BY <1>1, TypeCallFacts, DeclFacts
<1>3. t.level + 1 \in 0 .. Len(t.decl.dims) /\ t.decl.dims # << >>
  BY <1>2 DEF IsArray
<1>4. NoBits.bits = 0 /\ NoBits.pos = 0 /\ NoBits.size = 0 /\ Memory \in Nat
  BY MachineFacts DEF NoBits
<1>5. IsBits(st, t.type, t.decl, NoBits)
  BY <1>4 DEF IsBits
<1>6. Extent(st, t.type, t.decl, t.level + 1, NoBits) = ItemSize(t.decl, t.level + 1)
  <2>1. CASE t.level + 1 = Len(t.decl.dims)
    <3>1. t.decl.item = SizeOf(st, t.type, t.decl)
      BY <1>1, <1>3 DEF IsDeclared
    <3>2. t.level + 1 >= Len(t.decl.dims) /\ ~(t.level + 1 < Len(t.decl.dims))
      BY <1>2, <2>1
    <3>3. Extent(st, t.type, t.decl, t.level + 1, NoBits) = SizeOf(st, t.type, t.decl)
      BY <1>4, <3>2 DEF Extent
    <3> QED BY <1>2, <2>1, <3>1, <3>3
  <2>2. CASE t.level + 1 # Len(t.decl.dims)
    <3>1. ~(t.level + 1 >= Len(t.decl.dims)) /\ t.level + 1 < Len(t.decl.dims)
      BY <1>2, <1>3, <2>2
    <3> QED BY <1>4, <3>1 DEF Extent
  <2> QED BY <2>1, <2>2
<1> QED BY <1>1, <1>3, <1>5, <1>6 DEF IsTypeCall

\* The elements that a tag counts take no more than GROW_BUFFER can add up.
LEMMA CountedFacts ==
  ASSUME NEW st, NEW t, IsDeclared(st, t.type, t.decl), t.decl.dims # << >>, Counts(t),
         NEW avail \in 0 .. Memory, parent \in Data
  PROVE  Elements(t, avail) * ItemSize(t.decl, 1) + Memory + 1 < Word
<1> DEFINE d == t.decl
           size == ItemSize(d, 1)
           big == Memory * size
<1>0. Memory \in Nat /\ Word \in Nat /\ Memory + 1 < Word
  BY MachineFacts
<1>1. /\ Len(d.dims) \in Nat /\ d.dims \in Seq(Nat)
      /\ \A n \in 0 .. Len(d.dims) : ItemSize(d, n) \in 0 .. Memory
  BY DeclFacts
<1>2. size \in Nat
  <2>1. 1 \in 0 .. Len(d.dims)
    BY <1>1
  <2> QED BY <1>0, <1>1, <2>1
<1>3. /\ big + Memory + 1 < Word
      /\ d.dim.by = "fixed" => d.dim.n * size + Memory + 1 < Word
      /\ d.dim.by = "member" =>
           \A v \in Data : v.is = "int" => v.val * size + Memory + 1 < Word
  BY DEF IsDeclared, IsArrayOf
<1>A. IsDim(d.dim)
  BY DEF IsDeclared
<1> HIDE DEF size, big
<1>4. avail * size + Memory + 1 < Word
  <2>1. avail * size <= big
    <3> DEFINE x == avail * size
               y == (Memory - avail) * size
    <3>1. x \in Int /\ big \in Int
      BY <1>0, <1>2, ProductFacts DEF big
    <3>2. y \in Int /\ y >= 0
      <4>1. Memory - avail \in Int /\ Memory - avail >= 0 /\ size \in Int /\ size >= 0
        BY <1>0, <1>2
      <4> QED BY <4>1, ProductFacts
    <3>3. big = x + y
      BY <1>0, <1>2 DEF big
    <3> HIDE DEF x, y
    <3>4. x <= big
      BY <3>1, <3>2, <3>3
    <3> QED BY <3>4 DEF x
  <2> DEFINE x == avail * size
  <2>2. x \in Int /\ big \in Int
    BY <1>0, <1>2, ProductFacts DEF big
  <2>3. x <= big
    BY <2>1
  <2> HIDE DEF x
  <2>4. x + Memory + 1 < Word
    BY <1>0, <1>3, <2>2, <2>3
  <2> QED BY <2>4 DEF x
<1>5. 0 * size + Memory + 1 < Word
  BY <1>0, <1>2
<1> HIDE DEF d
<1>6. CASE d.dim = NoDim
  <2>1. Elements(t, avail) = avail
    BY <1>6 DEF Elements, d
  <2> QED BY <1>4, <2>1 DEF size, d
<1>7. CASE d.dim # NoDim
  <2>1. Elements(t, avail) = dimtag_eval(d.dim, avail)
    BY <1>7 DEF Elements, d
  <2>2. CASE d.dim.by = "flexible"
    <3>1. dimtag_eval(d.dim, avail) = avail
      BY <2>2 DEF dimtag_eval
    <3> QED BY <1>4, <2>1, <3>1 DEF size, d
  <2>3. CASE d.dim.by = "fixed"
    <3>1. dimtag_eval(d.dim, avail) = d.dim.n
      BY <2>3 DEF dimtag_eval
    <3> QED BY <1>3, <2>1, <2>3, <3>1 DEF size, d
  <2>4. CASE d.dim.by = "member"
    <3>1. dimtag_eval(d.dim, avail) = FromMember(d.dim.id)
      BY <2>4 DEF dimtag_eval
    <3>2. \/ FromMember(d.dim.id) = 0
          \/ \E v \in Data : v.is = "int" /\ FromMember(d.dim.id) = v.val
      <4>1. CASE parent.is = "hash" /\ d.dim.id \in DOMAIN parent.keys /\ parent.keys[d.dim.id].is = "int"
        <5>1. parent.keys[d.dim.id] \in Data
          BY <4>1, DataAssumption
        <5>2. FromMember(d.dim.id) = parent.keys[d.dim.id].val
          BY <4>1 DEF FromMember
        <5> QED BY <4>1, <5>1, <5>2
      <4>2. CASE ~(parent.is = "hash" /\ d.dim.id \in DOMAIN parent.keys /\ parent.keys[d.dim.id].is = "int")
        <5>1. FromMember(d.dim.id) = 0
          BY <4>2, Zenon DEF FromMember
        <5> QED BY <5>1
      <4> QED BY <4>1, <4>2
    <3>3. FromMember(d.dim.id) * size + Memory + 1 < Word
      <4>1. CASE FromMember(d.dim.id) = 0
        BY <1>5, <4>1
      <4>2. CASE \E v \in Data : v.is = "int" /\ FromMember(d.dim.id) = v.val
        <5>1. PICK v \in Data : v.is = "int" /\ FromMember(d.dim.id) = v.val
          BY <4>2
        <5>2. v.val * size + Memory + 1 < Word
          BY <1>3, <2>4, <5>1
        <5> QED BY <5>1, <5>2
      <4> QED BY <3>2, <4>1, <4>2
    <3> QED BY <2>1, <3>1, <3>3 DEF size, d
  <2> QED BY <1>7, <1>A, <2>2, <2>3, <2>4 DEF IsDim
<1> QED BY <1>6, <1>7

\* The elements of an array that is packed lie in the memory.
LEMMA ArrayFits ==
  ASSUME NEW st \in Setups, NEW t, NEW packs, packs, IsTypeCall(st, packs, t), IsArray(t),
         NEW avail \in 0 .. Memory, parent \in Data, Buffered,
         NEW n \in Nat, n = Elements(t, avail),
         NEW size \in Nat, size = ItemSize(t.decl, t.level + 1),
         Counts(t) => ~Exhausted(t.at, n * size)
  PROVE  t.at + n * size <= Memory
<1> DEFINE room == n * size
<1>0. Memory \in Nat /\ Word \in Nat \ {0}
  BY MachineFacts
<1>1. /\ IsDeclared(st, t.type, t.decl) /\ t.at \in Nat
      /\ t.at + Extent(st, t.type, t.decl, t.level, t.bits) <= Memory
  BY DEF IsTypeCall
<1>2. /\ t.level \in Nat /\ Len(t.decl.dims) \in Nat /\ t.level < Len(t.decl.dims)
      /\ t.decl.dims # << >> /\ t.bits.bits = 0 /\ t.at <= Memory
  <2>1. t.level \in Nat /\ Len(t.decl.dims) \in Nat /\ t.level < Len(t.decl.dims)
    BY <1>1, TypeCallFacts, DeclFacts DEF IsArray
  <2>2. t.decl.dims = << >> => Len(t.decl.dims) = 0
    OBVIOUS
  <2>3. t.bits.bits = 0 /\ t.at \in 0 .. Memory
    BY <2>1, TypeCallFacts
  <2> QED BY <1>0, <2>1, <2>2, <2>3
<1>3. room \in Nat
  BY ProductFacts
<1>4. CASE ~Counts(t)
  <2>1. n = t.decl.dims[t.level + 1]
    BY <1>4 DEF Elements
  <2>2. t.level \in 0 .. Len(t.decl.dims) - 1
    BY <1>2
  <2>3. ItemSize(t.decl, t.level) = size * n
    BY <1>1, <2>1, <2>2, DeclFacts
  <2>4. room = ItemSize(t.decl, t.level)
    BY <2>3
  <2>5. Extent(st, t.type, t.decl, t.level, t.bits) = ItemSize(t.decl, t.level)
    <3>1. ~(t.bits.bits > 0) /\ ~(t.level >= Len(t.decl.dims))
      BY <1>2
    <3> QED BY <1>2, <3>1 DEF Extent
  <2> QED BY <1>1, <2>4, <2>5
<1>5. CASE Counts(t)
  <2>1. size = ItemSize(t.decl, 1)
    <3>1. t.level = 0 /\ t.level + 1 = 1
      BY <1>5 DEF Counts
    <3> QED BY <3>1
  <2>2. room + Memory + 1 < Word
    BY <1>1, <1>2, <1>5, <2>1, CountedFacts
  <2>3. Required(t.at, room) > len => Required(t.at, room) <= Memory
    <3>1. ~Exhausted(t.at, room)
      BY <1>5
    <3>2. t.at \in Int /\ room \in Int
      BY <1>1, <1>3
    <3> HIDE DEF room
    <3>3. ~(Required(t.at, room) > len) \/ Required(t.at, room) <= Memory
      BY <3>1, <3>2, AskedFacts
    <3> QED BY <3>3
  <2> HIDE DEF room
  <2>4. Required(t.at, room) = t.at + room
    <3> DEFINE x == t.at + room
    <3>1. x \in 0 .. Word - 1
      BY <1>0, <1>1, <1>2, <1>3, <2>2, SMTT(60)
    <3> HIDE DEF x
    <3>2. x % Word = x
      BY <1>0, <3>1
    <3> QED BY <3>2 DEF Required, x
  <2>5. len \in Nat /\ len <= Memory
    BY <1>0 DEF Buffered
  <2>6. t.at + room <= Memory
    BY <1>0, <1>1, <1>3, <2>3, <2>4, <2>5
  <2> QED BY <2>6 DEF room
<1> QED BY <1>4, <1>5

\* There is a negative number of elements only if a member says so.
LEMMA NegativeFacts ==
  ASSUME NEW t, IsDim(t.decl.dim), Counts(t), NEW avail \in Nat, Elements(t, avail) < 0
  PROVE  t.decl.dim.by = "member" /\ FromMember(t.decl.dim.id) < 0
<1> DEFINE dim == t.decl.dim
<1>1. ~(avail < 0)
  OBVIOUS
<1>2. dim # NoDim /\ dimtag_eval(dim, avail) < 0
  BY <1>1 DEF Elements
<1>3. CASE dim.by = "flexible"
  BY <1>1, <1>2, <1>3 DEF dimtag_eval
<1>4. CASE dim.by = "fixed" /\ dim.n \in Nat
  <2>1. dimtag_eval(dim, avail) = dim.n
    BY <1>4 DEF dimtag_eval
  <2> HIDE DEF dim
  <2> QED BY <1>2, <1>4, <2>1
<1>5. CASE dim.by = "member"
  <2>1. dimtag_eval(dim, avail) = FromMember(dim.id)
    BY <1>5 DEF dimtag_eval
  <2> QED BY <1>2, <1>5, <2>1
<1> QED BY <1>2, <1>3, <1>4, <1>5 DEF IsDim

\* GROW_BUFFER is asked for nothing only for such an array.
LEMMA OverrunFacts ==
  ASSUME IInv, todo # << >>, Head(todo).do = "type", IsArray(Head(todo)), mode = "pack",
         NEW t, t = Head(todo), Counts(t), NEW avail \in 0 .. Memory, Elements(t, avail) \in Int,
         NEW size \in Nat, size = ItemSize(t.decl, t.level + 1),
         Overrun, Required(t.at, Elements(t, avail) * size) = Word - 1
  PROVE  Overran'
<1> DEFINE n == Elements(t, avail)
           room == n * size
           w == Word
<1>0. Memory \in Nat \ {0} /\ w \in Nat \ {0} /\ 4 * Memory < w
  BY MachineFacts
<1>1. setup \in Setups /\ order \in Orders /\ Buffered /\ parent \in Data
      /\ parent.is \in {"undef", "hash"}
  BY DEF IInv, BufferInv
<1>2. IsTypeCall(setup, mode = "pack", t) /\ t.want = order
  BY HeadFacts DEF IsCall
<1>3. IsDeclared(setup, t.type, t.decl) /\ t.at \in Nat /\ t.at \in 0 .. Memory
  BY <1>1, <1>2, TypeCallFacts DEF IsTypeCall
<1>4. t.decl.dims # << >> /\ IsDim(t.decl.dim)
  <2>1. Len(t.decl.dims) \in Nat /\ t.level \in Nat
    BY <1>2, <1>3, DeclFacts DEF IsTypeCall
  <2>2. t.decl.dims = << >> => Len(t.decl.dims) = 0
    OBVIOUS
  <2>3. t.level < Len(t.decl.dims)
    BY DEF IsArray
  <2> QED BY <1>3, <2>1, <2>2, <2>3 DEF IsDeclared
<1>5. size = ItemSize(t.decl, 1)
  <2>1. t.level = 0 /\ t.level + 1 = 1
    BY DEF Counts
  <2> QED BY <2>1
<1>6. room + Memory + 1 < w
  BY <1>1, <1>3, <1>4, <1>5, CountedFacts
<1>7. Required(t.at, room) = w - 1
  OBVIOUS
<1>8. n < 0
  <2> SUFFICES ASSUME ~(n < 0) PROVE FALSE
    OBVIOUS
  <2>1. n \in Nat
    <3> HIDE DEF n
    <3>1. n \in Int
      BY DEF n
    <3> QED BY <3>1
  <2> HIDE DEF n
  <2>2. room \in Nat
    BY <2>1, ProductFacts
  <2> DEFINE x == t.at + room
  <2> HIDE DEF room, w
  <2>3. x \in 0 .. w - 1 /\ x # w - 1
    BY <1>0, <1>3, <1>6, <2>2
  <2>4. Required(t.at, room) = x % w
    BY DEF Required, w
  <2> HIDE DEF x
  <2>5. x % w = x
    BY <1>0, <2>3
  <2> QED BY <1>7, <2>3, <2>4, <2>5
<1>9. t.decl.dim.by = "member" /\ FromMember(t.decl.dim.id) < 0
  <2>1. avail \in Nat
    BY <1>0
  <2> QED BY <1>4, <1>8, <2>1, NegativeFacts
<1>10. /\ mode' = "pack overran" /\ reach' = Word
       /\ UNCHANGED <<setup, todo, results, before, packed, string, len, order, parent>>
  BY DEF Overrun
<1>11. string \in Seq(Octets) /\ len \in 0 .. Memory
  BY <1>0, <1>1 DEF Buffered
<1>12. FromMember(t.decl.dim.id)' = FromMember(t.decl.dim.id)
  BY <1>10 DEF FromMember
<1> HIDE DEF n, room, w
<1> QED BY <1>1, <1>2, <1>9, <1>10, <1>11, <1>12
        DEF Overran, Running, IsArray, IsFormat, FromMember

\* pack_type with an array.
LEMMA PackArrayKeeps ==
  ASSUME IInv, PackArray
  PROVE  IInv' \/ Overran'
<1> DEFINE t == Head(todo)
           packs == mode = "pack"
           size == ItemSize(t.decl, t.level + 1)
           avail == Len(t.sv.elems)
           n == Elements(t, avail)
           k == Min({n, avail})
           c(i) == Type(t.type, t.decl, t.level + 1, NoBits, t.at + (i - 1) * size,
                        t.sv.elems[i], InDecl(t, t.want))
           items == [i \in 1 .. k |-> c(i)]
<1>1. /\ mode = "pack" /\ todo # << >> /\ t.do = "type" /\ IsArray(t) /\ t.sv.is = "array"
      /\ \/ Counts(t) /\ Fail(t.at, n * size)
         \/ /\ Counts(t) => ~Exhausted(t.at, n * size)
            /\ IF Counts(t) THEN Write(t.at, n * size, << >>) ELSE UNCHANGED <<string, len, reach>>
            /\ Calls(items) /\ order' = InDecl(t, order) /\ mode' = mode
      /\ UNCHANGED <<setup, results, parent>>
  BY DEF PackArray, Packs, Running
<1>2. setup \in Setups /\ IsResult(parent) /\ Buffered /\ parent \in Data /\ order \in Orders
  BY <1>1 DEF IInv, BufferInv
<1>3. IsTypeCall(setup, packs, t) /\ packs /\ t.want = order
  BY <1>1, HeadFacts DEF IsCall
<1>4. t.at \in Nat /\ t.sv \in Data /\ IsDeclared(setup, t.type, t.decl)
  BY <1>3 DEF IsTypeCall
<1>5. Memory \in Nat /\ t.sv.elems \in Seq(Data) /\ avail \in 0 .. Memory
  <2>1. t.sv.elems \in Seq(Data) /\ Len(t.sv.elems) <= Memory
    BY <1>1, <1>4, DataAssumption
  <2> QED BY <2>1, MachineFacts
<1>6. /\ t.level \in Nat /\ size \in Nat /\ n \in Int
  <2>1. avail \in Int
    BY <1>5
  <2> HIDE DEF t, avail
  <2> QED BY <1>1, <1>2, <1>3, <2>1, ElementsFacts
<1>7. k \in Int /\ k <= n /\ k <= avail
  <2>1. avail \in Int
    BY <1>5
  <2> HIDE DEF n, avail
  <2> QED BY <1>6, <2>1, MaxFacts
<1> HIDE DEF k
<1>8. CASE Counts(t) /\ Fail(t.at, n * size)
  <2> DEFINE room == n * size
  <2>1. t.at \in Int /\ room \in Int /\ Fail(t.at, room)
    <3>1. room \in Int
      <4> HIDE DEF n, size
      <4> QED BY <1>6, ProductFacts
    <3> QED BY <1>4, <1>8, <3>1
  <2>2. OutOfMemory \/ (Overrun /\ Required(t.at, room) = Word - 1)
    <3> HIDE DEF t, room
    <3> QED BY <2>1, AskedFacts
  <2>3. CASE OutOfMemory
    BY <2>3, DiedKeeps
  <2>4. CASE Overrun /\ Required(t.at, room) = Word - 1
    <3>1. IsArray(Head(todo)) /\ Head(todo).do = "type" /\ Counts(t) /\ t = Head(todo)
      BY <1>1, <1>8
    <3> HIDE DEF t, size, avail
    <3>2. Overran'
      BY <1>1, <1>5, <1>6, <2>4, <3>1, OverrunFacts DEF size
    <3> QED BY <3>2
  <2> QED BY <2>2, <2>3, <2>4
<1>9. CASE ~(Counts(t) /\ Fail(t.at, n * size))
  <2>1. /\ Counts(t) => ~Exhausted(t.at, n * size)
        /\ IF Counts(t) THEN Write(t.at, n * size, << >>) ELSE UNCHANGED <<string, len, reach>>
        /\ Calls(items) /\ order' = InDecl(t, order) /\ mode' = mode
    BY <1>1, <1>9
  <2>2. order' \in Orders
    BY <1>2, <1>4, <2>1, OrderFacts
  <2>3. ASSUME NEW i \in 1 .. k
        PROVE  /\ IsCall(setup, packs, c(i)) /\ c(i).do # "order" /\ c(i).want = order'
               /\ ~LooksUp(setup, c(i))
    <3> DEFINE e == c(i)
               off == (i - 1) * size
               room == n * size
    <3>1. /\ e.do = "type" /\ e.type = t.type /\ e.decl = t.decl /\ e.level = t.level + 1
          /\ e.bits = NoBits /\ e.at = t.at + off /\ e.sv = t.sv.elems[i] /\ e.want = order'
      BY <1>3, <2>1 DEF Type
    <3>2. n \in Nat /\ i \in 1 .. n /\ i \in 1 .. avail
      <4> HIDE DEF n, avail
      <4> QED BY <1>5, <1>6, <1>7
    <3>3. t.at + room <= Memory
      <4> HIDE DEF t, avail, n, size
      <4> QED BY <1>1, <1>2, <1>3, <1>5, <1>6, <2>1, <3>2, ArrayFits DEF avail, n, size
    <3>4. off \in Nat /\ room \in Nat /\ off + size <= room
      <4> HIDE DEF n, size
      <4> QED BY <1>6, <3>2, PartFacts
    <3>5. t.sv.elems[i] \in Data
      BY <1>5, <3>2
    <3> HIDE DEF e, off, room
    <3>6. e.at \in Nat /\ e.at + size <= Memory
      <4> HIDE DEF t, size
      <4> QED BY <1>4, <1>5, <1>6, <3>1, <3>3, <3>4, SMTT(60)
    <3>7. IsTypeCall(setup, packs, e)
      <4> HIDE DEF t, packs
      <4> QED BY <1>1, <1>2, <1>3, <3>1, <3>5, <3>6, ElementCall DEF size
    <3>8. ~LooksUp(setup, e)
      <4>1. e.level # 0
        <5> HIDE DEF t
        <5> QED BY <1>6, <3>1
      <4> QED BY <4>1 DEF LooksUp
    <3> QED BY <3>1, <3>7, <3>8 DEF IsCall, e
  <2> HIDE DEF c
  <2>4. IsSeq(items) /\ (\A i \in 1 .. Len(items) : i \in 1 .. k) /\ \A i \in 1 .. k : items[i] = c(i)
    <3>1. \A i \in 1 .. k : items[i] = c(i)
      OBVIOUS
    <3>2. items = [i \in 1 .. k |-> items[i]]
      OBVIOUS
    <3> HIDE DEF items
    <3> QED BY <1>7, <3>1, <3>2, UptoFacts
  <2> HIDE DEF items
  <2>5. StackInv'
    <3>1. /\ Head(todo).do \notin {"order", "parent"}
          /\ UNCHANGED <<setup, mode>>
          /\ \A i \in 1 .. Len(items) : IsCall(setup, mode = "pack", items[i])
          /\ \A i \in 1 .. Len(items) :
               /\ items[i].do # "order"
               /\ items[i].do \in {"type", "struct", "member"} => items[i].want = order'
          /\ \A i \in 1 .. Len(items) : LooksUp(setup, items[i]) =>
               i # 1 /\ items[i - 1].do = "parent" /\ Fits(items[i], items[i - 1].parent)
      BY <1>1, <2>1, <2>3, <2>4 DEF t, packs
    <3> QED BY <1>1, <2>1, <2>4, <3>1, StackCalls
  <2>6. ResultsInv'
    BY <1>1, <2>1, PackResults
  <2>7. Buffered'
    <3>1. CASE Counts(t)
      <4> DEFINE room == n * size
      <4>1. room \in Int
        <5> HIDE DEF n, size
        <5> QED BY <1>6, ProductFacts
      <4>2. ~Exhausted(t.at, room) /\ Write(t.at, room, << >>)
        BY <2>1, <3>1
      <4> HIDE DEF t, room
      <4> QED BY <1>2, <1>4, <4>1, <4>2, GrowFacts
    <3>2. CASE ~Counts(t)
      BY <1>2, <2>1, <3>2 DEF Buffered
    <3> QED BY <3>1, <3>2
  <2>8. BufferInv'
    BY <1>1, <2>1, <2>7 DEF BufferInv
  <2> QED BY <1>1, <1>2, <2>1, <2>2, <2>5, <2>6, <2>8 DEF IInv
<1> QED BY <1>8, <1>9

\* Three calls.
LEMMA TripleFacts ==
  ASSUME NEW x, NEW y, NEW z, NEW s, s = <<x, y, z>>
  PROVE  IsSeq(s) /\ Len(s) = 3 /\ s[1] = x /\ s[2] = y /\ s[3] = z
<1>1. s \in Seq({x, y, z}) /\ Len(s) = 3 /\ s[1] = x /\ s[2] = y /\ s[3] = z
  OBVIOUS
<1> QED BY <1>1, SeqIsSeq

\* The member of a struct is a call that is in its place, as is an inlined one.
LEMMA MemberCall ==
  ASSUME NEW st \in Setups, NEW packs, NEW at \in Nat, NEW size \in Nat,
         packs => at + size <= Memory, NEW m, IsMember(st, size, m), ~m.inlined,
         NEW c, c.do = "type", c.type = m.type, c.decl = m.decl, c.level = 0, c.bits = m.decl.bits,
         c.at = at + m.decl.offset, c.sv \in Data
  PROVE  IsCall(st, packs, c)
<1>0. Memory \in Nat
  BY MachineFacts
<1>1. /\ m.decl.offset \in Nat
      /\ IsDeclared(st, m.type, m.decl) /\ IsBits(st, m.type, m.decl, m.decl.bits)
      /\ m.decl.offset + Extent(st, m.type, m.decl, 0, m.decl.bits) <= size
  BY DEF IsMember
<1>2. Len(m.decl.dims) \in Nat
  BY <1>1, DeclFacts
<1>3. 0 \in 0 .. Len(c.decl.dims) /\ c.at \in Nat
  BY <1>1, <1>2
<1> DEFINE e == Extent(st, m.type, m.decl, 0, m.decl.bits)
<1>4. e \in Nat
  <2> DEFINE z == 0
  <2>1. z \in 0 .. Len(m.decl.dims) /\ ~FALSE
    BY <1>2
  <2>2. m.decl.bits.bits > 0 => m.decl.bits.size \in Nat
    BY <1>0, <1>1 DEF IsBits
  <2>3. SizeOf(st, m.type, m.decl) \in Nat
    BY <1>1, SizeOfFacts
  <2>4. ItemSize(m.decl, 0) \in Nat
    <3>1. \A n \in 0 .. Len(m.decl.dims) : ItemSize(m.decl, n) \in 0 .. Memory
      BY <1>1, DeclFacts
    <3> QED BY <1>0, <1>2, <3>1
  <2>5. m.decl.bits.bits \in Nat
    BY <1>1 DEF IsBits
  <2>6. CASE m.decl.bits.bits > 0
    BY <2>2, <2>6 DEF Extent
  <2>7. CASE m.decl.bits.bits = 0 /\ 0 >= Len(m.decl.dims)
    <3>1. ~(m.decl.bits.bits > 0) /\ ~(0 < Len(m.decl.dims))
      BY <1>2, <2>7
    <3> QED BY <2>3, <2>7, <3>1 DEF Extent
  <2>8. CASE m.decl.bits.bits = 0 /\ 0 < Len(m.decl.dims)
    <3>1. ~(m.decl.bits.bits > 0) /\ ~(0 >= Len(m.decl.dims))
      BY <1>2, <2>8
    <3> QED BY <2>4, <2>8, <3>1 DEF Extent
  <2> QED BY <1>2, <2>5, <2>6, <2>7, <2>8
<1> HIDE DEF e
<1>5. packs => c.at + e <= Memory
  <2>1. m.decl.offset + e <= size
    BY <1>1 DEF e
  <2> QED BY <1>0, <1>1, <1>4, <2>1
<1>6. IsTypeCall(st, packs, c)
  BY <1>1, <1>3, <1>5 DEF IsTypeCall, e
<1>7. c.do \in {"type", "struct", "order"} \cup IF packs THEN {"parent"} ELSE {"member", "store", "append"}
  OBVIOUS
<1> QED BY <1>6, <1>7 DEF IsCall

\* So is an unnamed struct in it.
LEMMA InlinedCall ==
  ASSUME NEW st \in Setups, NEW packs, NEW at \in Nat, NEW size \in Nat,
         packs => at + size <= Memory, NEW m, IsMember(st, size, m), m.inlined,
         NEW c, c.do = "struct", c.name = m.type.name, c.inlined \in BOOLEAN,
         c.at = at + m.decl.offset, c.sv \in Data
  PROVE  IsCall(st, packs, c)
<1>0. Memory \in Nat
  BY MachineFacts
<1>1. /\ m.decl.offset \in Nat /\ m.type.name \in DOMAIN st.structs
      /\ m.decl.offset + st.structs[m.type.name].size <= size
  BY DEF IsMember
<1>2. st.structs[m.type.name].size \in Nat
  BY <1>1, StructFacts
<1>3. IsStructCall(st, packs, c)
  BY <1>0, <1>1, <1>2 DEF IsStructCall
<1>4. c.do \in {"type", "struct", "order"} \cup IF packs THEN {"parent"} ELSE {"member", "store", "append"}
  OBVIOUS
<1> QED BY <1>3, <1>4 DEF IsCall

\* What pack_struct calls for a member: with it, its parent is set, when it may need one.
MakesCalls(st, packs, w, s) ==
  /\ IsSeq(s)
  /\ \A j \in 1 .. Len(s) :
       /\ IsCall(st, packs, s[j])
       /\ s[j].do # "order" /\ (s[j].do \in {"type", "struct", "member"} => s[j].want = w)
       /\ LooksUp(st, s[j]) => j > 1 /\ s[j - 1].do = "parent" /\ Fits(s[j], s[j - 1].parent)

\* The calls of pack_struct are such.
LEMMA MemberCallsFacts ==
  ASSUME NEW st \in Setups, NEW packs, packs, NEW c, c.at \in Nat, c.sv \in Data, c.sv.is = "hash",
         NEW size \in Nat, c.at + size <= Memory, NEW m, IsMember(st, size, m), NEW w
  PROVE  MakesCalls(st, packs, w, MemberCalls(c, m, w))
<1> DEFINE d == m.decl
           s == MemberCalls(c, m, w)
<1>0. m.inlined \in BOOLEAN
  BY DEF IsMember
<1>1. CASE m.inlined
  <2> DEFINE e == Struct(m.type.name, TRUE, c.at + d.offset, c.sv, w)
  <2>1. s = <<e>>
    BY <1>1 DEF MemberCalls
  <2>2. /\ e.do = "struct" /\ e.name = m.type.name /\ e.inlined \in BOOLEAN
        /\ e.at = c.at + m.decl.offset /\ e.sv = c.sv /\ e.want = w
    BY DEF Struct
  <2> HIDE DEF e, s
  <2>3. IsCall(st, packs, e)
    BY <1>1, <2>2, InlinedCall
  <2>4. IsSeq(s) /\ Len(s) = 1 /\ s[1] = e
    BY <2>1, SingleFacts
  <2>5. \A j \in 1 .. Len(s) : s[j] = e
    BY <2>4
  <2>6. MakesCalls(st, packs, w, s)
    BY <2>2, <2>3, <2>4, <2>5 DEF MakesCalls, LooksUp
  <2> QED BY <2>6 DEF s
<1>2. CASE ~m.inlined /\ d.id \in DOMAIN c.sv.keys
  <2> DEFINE x == SetParent(c.sv)
             y == Type(m.type, d, 0, d.bits, c.at + d.offset, c.sv.keys[d.id], w)
             z == SetParent(Undef)
  <2>1. s = <<x, y, z>>
    BY <1>2 DEF MemberCalls
  <2>2. /\ x.do = "parent" /\ x.parent = c.sv /\ z.do = "parent" /\ z.parent = Undef
        /\ y.do = "type" /\ y.type = m.type /\ y.decl = m.decl /\ y.level = 0 /\ y.bits = m.decl.bits
        /\ y.at = c.at + m.decl.offset /\ y.sv = c.sv.keys[d.id] /\ y.want = w
    BY DEF SetParent, Type
  <2> HIDE DEF x, y, z, s
  <2>3. IsCall(st, packs, x) /\ IsCall(st, packs, z)
    <3>1. Undef \in Data /\ Undef.is = "undef"
      BY DataAssumption DEF Undef
    <3> QED BY <2>2, <3>1 DEF IsCall
  <2>4. IsCall(st, packs, y)
    <3>1. y.sv \in Data
      BY <1>2, <2>2, DataAssumption
    <3> QED BY <1>2, <2>2, <3>1, MemberCall
  <2>5. IsSeq(s) /\ Len(s) = 3 /\ s[1] = x /\ s[2] = y /\ s[3] = z
    BY <2>1, TripleFacts
  <2>6. ASSUME NEW j \in 1 .. Len(s)
        PROVE  /\ IsCall(st, packs, s[j])
               /\ s[j].do # "order" /\ (s[j].do \in {"type", "struct", "member"} => s[j].want = w)
               /\ LooksUp(st, s[j]) => j > 1 /\ s[j - 1].do = "parent" /\ Fits(s[j], s[j - 1].parent)
    <3>1. j = 1 \/ j = 2 \/ j = 3
      BY <2>5
    <3>2. CASE j = 1
      BY <2>2, <2>3, <2>5, <3>2 DEF LooksUp
    <3>3. CASE j = 2
      <4>1. s[j - 1] = x /\ s[j] = y /\ j > 1
        BY <2>5, <3>3
      <4>2. s[j].want = w /\ s[j].do # "order" /\ IsCall(st, packs, s[j])
        BY <2>2, <2>4, <4>1
      <4>3. s[j - 1].do = "parent" /\ Fits(s[j], s[j - 1].parent)
        BY <1>2, <2>2, <4>1 DEF Fits, Under
      <4> QED BY <4>1, <4>2, <4>3
    <3>4. CASE j = 3
      BY <2>2, <2>3, <2>5, <3>4 DEF LooksUp
    <3> QED BY <3>1, <3>2, <3>3, <3>4
  <2>7. MakesCalls(st, packs, w, s)
    BY <2>5, <2>6 DEF MakesCalls
  <2> QED BY <2>7 DEF s
<1>3. CASE ~m.inlined /\ d.id \notin DOMAIN c.sv.keys
  <2>1. s = << >>
    BY <1>3 DEF MemberCalls
  <2> HIDE DEF s
  <2>2. IsSeq(s) /\ Len(s) = 0
    BY <2>1, EmptyFacts
  <2>3. MakesCalls(st, packs, w, s)
    BY <2>2 DEF MakesCalls
  <2> QED BY <2>3 DEF s
<1> QED BY <1>0, <1>1, <1>2, <1>3

\* Sequences of such calls, one behind the other, are such.
LEMMA FlattenCalls ==
  ASSUME NEW st, NEW packs, NEW w, NEW f, IsSeq(f),
         \A i \in 1 .. Len(f) : MakesCalls(st, packs, w, f[i])
  PROVE  MakesCalls(st, packs, w, FlattenSeq(f))
<1> DEFINE q == FlattenSeq(f)
           n == Len(f)
<1>1. \A i \in 1 .. n : IsSeq(f[i])
  BY DEF MakesCalls
<1>2. IsSeq(q) /\ Len(q) \in Nat
  BY <1>1, FlattenFacts
<1>3. \A k \in 1 .. Len(q) : Placed(f, q, k)
  BY <1>1, FlattenFacts
<1> HIDE DEF q
<1>4. ASSUME NEW k \in 1 .. Len(q)
      PROVE  /\ IsCall(st, packs, q[k])
             /\ q[k].do # "order" /\ (q[k].do \in {"type", "struct", "member"} => q[k].want = w)
             /\ LooksUp(st, q[k]) => k > 1 /\ q[k - 1].do = "parent" /\ Fits(q[k], q[k - 1].parent)
  <2>1. PICK i \in 1 .. n : \E j \in 1 .. Len(f[i]) :
               /\ q[k] = f[i][j]
               /\ j > 1 => k > 1 /\ q[k - 1] = f[i][j - 1]
    BY <1>3 DEF Placed
  <2>2. PICK j \in 1 .. Len(f[i]) :
               /\ q[k] = f[i][j]
               /\ j > 1 => k > 1 /\ q[k - 1] = f[i][j - 1]
    BY <2>1
  <2>3. /\ IsCall(st, packs, f[i][j])
        /\ f[i][j].do # "order" /\ (f[i][j].do \in {"type", "struct", "member"} => f[i][j].want = w)
        /\ LooksUp(st, f[i][j]) => j > 1 /\ f[i][j - 1].do = "parent" /\ Fits(f[i][j], f[i][j - 1].parent)
    BY DEF MakesCalls
  <2> QED BY <2>2, <2>3
<1>5. MakesCalls(st, packs, w, q)
  BY <1>2, <1>4 DEF MakesCalls
<1> QED BY <1>5 DEF q

\* The order in a struct is one.
LEMMA StructOrderFacts ==
  ASSUME setup \in Setups, NEW c, c.name \in DOMAIN setup.structs, NEW o \in Orders
  PROVE  InStruct(c, o) \in Orders
<1>1. IsTags(setup.structs[c.name])
  BY StructFacts DEF IsStruct
<1> QED BY <1>1 DEF IsTags, InStruct, Tagged

\* pack_struct: a string, or the members that there are data for.
LEMMA PackStructKeeps ==
  ASSUME IInv, PackStruct
  PROVE  IInv'
<1> DEFINE c == Head(todo)
           packs == mode = "pack"
           def == setup.structs[c.name]
           w == InStruct(c, c.want)
           f == [i \in DOMAIN def.members |-> MemberCalls(c, def.members[i], w)]
           items == IF c.sv.is # "hash" THEN << >> ELSE FlattenSeq(f)
           size == def.size
           format == def.format
<1>1. /\ mode = "pack" /\ todo # << >> /\ c.do = "struct"
      /\ \/ PackFormat(format, size, FALSE, c.at, c.sv) /\ order' = order
         \/ order' = InStruct(c, order) /\ Calls(items) /\ UNCHANGED <<mode, string, len, reach>>
      /\ UNCHANGED <<setup, results, parent>>
  BY DEF PackStruct, Packs, Running
<1>2. setup \in Setups /\ Buffered /\ order \in Orders
  BY DEF IInv, BufferInv
<1>0. Memory \in Nat \ {0} /\ Word \in Nat /\ 4 * Memory < Word
  BY MachineFacts
<1>3. IsStructCall(setup, packs, c) /\ packs /\ c.want = order
  BY <1>1, HeadFacts DEF IsCall
<1>4. c.name \in DOMAIN setup.structs /\ c.at \in Nat /\ c.sv \in Data /\ c.at + size <= Memory
  BY <1>3 DEF IsStructCall
<1>5. /\ size \in Nat /\ IsSeq(def.members)
      /\ \A i \in 1 .. Len(def.members) : IsMember(setup, size, def.members[i])
  BY <1>2, <1>4, StructFacts, SMTT(60)
<1>6. CASE PackFormat(format, size, FALSE, c.at, c.sv) /\ order' = order
  <2>1. PICK no \in BOOLEAN : no = FALSE
    OBVIOUS
  <2>2. c.at \in 0 .. Memory /\ c.at + size + 1 < Word
    BY <1>0, <1>4, <1>5
  <2>3. PackFormat(format, size, no, c.at, c.sv)
    <3> HIDE DEF c, format, size
    <3> QED BY <1>6, <2>1, Zenon
  <2>4. \/ OutOfMemory
        \/ todo' = Tail(todo) /\ mode' = mode /\ Buffered'
    <3> HIDE DEF c, format, size
    <3> QED BY <1>2, <1>4, <1>5, <2>1, <2>2, <2>3, PackFormatFacts
  <2> QED BY <1>1, <1>6, <2>4, WrittenKeeps
<1>7. CASE order' = InStruct(c, order) /\ Calls(items) /\ UNCHANGED <<mode, string, len, reach>>
  <2>1. w = order' /\ order' \in Orders
    BY <1>2, <1>3, <1>4, <1>7, StructOrderFacts
  <2>2. MakesCalls(setup, packs, w, items)
    <3>1. CASE c.sv.is # "hash"
      <4>1. items = << >>
        BY <3>1
      <4> HIDE DEF items
      <4>2. IsSeq(items) /\ Len(items) = 0
        BY <4>1, EmptyFacts
      <4> QED BY <4>2 DEF MakesCalls
    <3>2. CASE c.sv.is = "hash"
      <4> DEFINE n == Len(def.members)
      <4>1. DOMAIN def.members = 1 .. n /\ n \in Nat
        BY <1>5, IsSeqFacts
      <4>2. ASSUME NEW i \in 1 .. n PROVE MakesCalls(setup, packs, w, f[i])
        <5>1. f[i] = MemberCalls(c, def.members[i], w) /\ IsMember(setup, size, def.members[i])
          BY <1>5, <4>1
        <5> HIDE DEF c, def, w, packs, size, f
        <5>2. MakesCalls(setup, packs, w, MemberCalls(c, def.members[i], w))
          BY <1>2, <1>3, <1>4, <1>5, <3>2, <5>1, MemberCallsFacts
        <5> QED BY <5>1, <5>2, SMTT(60)
      <4>3. f = [i \in 1 .. n |-> f[i]]
        BY <4>1
      <4>4. items = FlattenSeq(f)
        BY <3>2
      <4> HIDE DEF f, n, items, packs, w
      <4>5. IsSeq(f) /\ Len(f) = n
        BY <4>1, <4>3, SeqFacts
      <4>6. \A i \in 1 .. Len(f) : MakesCalls(setup, packs, w, f[i])
        BY <4>2, <4>5
      <4>7. MakesCalls(setup, packs, w, FlattenSeq(f))
        BY <4>5, <4>6, FlattenCalls
      <4> QED BY <4>4, <4>7
    <3> QED BY <3>1, <3>2
  <2>3. Calls(items)
    BY <1>7
  <2> HIDE DEF items
  <2>4. /\ IsSeq(items)
        /\ \A i \in 1 .. Len(items) : IsCall(setup, packs, items[i])
        /\ \A i \in 1 .. Len(items) :
             /\ items[i].do # "order"
             /\ items[i].do \in {"type", "struct", "member"} => items[i].want = order'
        /\ \A i \in 1 .. Len(items) : LooksUp(setup, items[i]) =>
             i # 1 /\ items[i - 1].do = "parent" /\ Fits(items[i], items[i - 1].parent)
    <3> HIDE DEF w, packs
    <3> QED BY <2>1, <2>2 DEF MakesCalls
  <2>5. StackInv'
    <3>1. Head(todo).do \notin {"order", "parent"}
      BY <1>1
    <3> QED BY <1>1, <1>7, <2>3, <2>4, <3>1, StackCalls
  <2>6. ResultsInv'
    BY <1>1, <1>7, PackResults
  <2>7. BufferInv'
    BY <1>1, <1>7, BufferStays
  <2> QED BY <1>1, <1>7, <2>1, <2>5, <2>6, <2>7 DEF IInv
<1> QED BY <1>1, <1>6, <1>7

-----------------------------------------------------------------------------
(* unpack.                                                                 *)

\* unpack_format.
LEMMA UnpackFormatTagKeeps ==
  ASSUME IInv, UnpackFormatTag
  PROVE  IInv'
<1> DEFINE t == Head(todo)
           packs == mode = "pack"
           f == t.decl.format
           g == LeafFormat(t)
           n == FormatSize(t.decl)
           x == Flexible(t.decl)
           m == LeafSize(t)
<1>1. /\ Unpacking /\ todo # << >> /\ t.do = "type" /\ todo' = Tail(todo)
      /\ \/ IsFormat(t) /\ UnpackFormat(f, n, x, t.at)
         \/ IsLeaf(t) /\ UnpackFormat(g, m, FALSE, t.at)
      /\ UNCHANGED <<setup, mode, string, len, order, parent>>
  BY DEF UnpackFormatTag, Unpacks, Running
<1>2. setup \in Setups /\ IsResult(parent) /\ Buffered
  BY DEF IInv, BufferInv
<1>3. IsTypeCall(setup, packs, t)
  BY <1>1, HeadFacts DEF IsCall
<1>4. IsDeclared(setup, t.type, t.decl) /\ t.at \in Nat
  BY <1>3 DEF IsTypeCall
<1>5. Buffered' /\ \E v : v.is = "string" /\ results' = <<v>> \o results
  <2>0. UNCHANGED <<string, len>>
    BY <1>1
  <2>1. CASE IsFormat(t) /\ UnpackFormat(f, n, x, t.at)
    <3>1. (x => n \in 1 .. Memory) /\ n \in Nat
      BY <1>2, <1>4, FormatSizeFacts
    <3>2. x \in BOOLEAN
      BY DEF Flexible
    <3> HIDE DEF t, f, n, x
    <3> QED BY <1>2, <1>4, <2>0, <2>1, <3>1, <3>2, UnpackFormatFacts
  <2>2. CASE IsLeaf(t) /\ UnpackFormat(g, m, FALSE, t.at)
    <3>1. m \in Nat
      BY <1>2, <1>3, <2>2, LeafFacts
    <3>2. PICK no \in BOOLEAN : no = FALSE
      OBVIOUS
    <3>3. UnpackFormat(g, m, no, t.at)
      <4> HIDE DEF t, g, m
      <4> QED BY <2>2, <3>2, Zenon
    <3> HIDE DEF t, g, m
    <3> QED BY <1>2, <1>4, <2>0, <3>1, <3>2, <3>3, UnpackFormatFacts
  <2> QED BY <1>1, <2>1, <2>2
<1>6. PICK v : v.is = "string" /\ results' = <<v>> \o results
  BY <1>5
<1>7. StackInv'
  BY <1>1, StackPop
<1>8. ResultsInv'
  <2>1. Gives(Head(todo)) = 1 /\ IsResult(v)
    BY <1>1, <1>6, ResultFacts DEF Gives
  <2> QED BY <1>1, <1>6, <2>1, ValueKeeps
<1>9. BufferInv'
  BY <1>1, <1>5 DEF IInv, BufferInv
<1> QED BY <1>1, <1>7, <1>8, <1>9 DEF IInv, Unpacking

\* unpack_basic, unpack_enum and unpack_pointer.
LEMMA UnpackLeafKeeps ==
  ASSUME IInv, UnpackLeaf
  PROVE  IInv'
<1> DEFINE t == Head(todo)
           packs == mode = "pack"
           size == LeafSize(t)
           end == t.at + size
           signed == ~t.decl.pointer /\ t.type.signed
           x == fetch_integer(At(string, t.at, size), signed, t.bits.bits, t.bits.pos, LeafOrder(t))
           short == Short(t.at, size)
           y == IV(x)
<1>1. /\ Unpacking /\ todo # << >> /\ t.do = "type" /\ todo' = Tail(todo) /\ IsLeaf(t)
      /\ \/ short /\ results' = <<Undef>> \o results /\ reach' = reach
         \/ ~short /\ results' = <<y>> \o results /\ reach' = Max({reach, end})
      /\ UNCHANGED <<setup, mode, string, len, order, parent>>
  BY DEF UnpackLeaf, Unpacks, Running, Push, Read
<1>2. setup \in Setups /\ Buffered
  BY DEF IInv, BufferInv
<1>3. IsTypeCall(setup, packs, t)
  BY <1>1, HeadFacts DEF IsCall
<1>4. t.at \in Nat
  BY <1>3 DEF IsTypeCall
<1>5. /\ size \in Nat /\ t.bits.bits \in Nat /\ t.bits.pos \in Nat
      /\ t.bits.bits = 0 /\ ~t.decl.pointer => size > 0
  BY <1>1, <1>2, <1>3, LeafFacts
<1> HIDE DEF size
<1>6. x \in Int
  <2> DEFINE b == At(string, t.at, size)
  <2>1. b \in Seq(Octets) /\ Len(b) = size
    BY <1>2, <1>4, <1>5, AtFacts DEF Buffered
  <2>2. signed => t.bits.bits > 0 \/ Len(b) > 0
    BY <1>5, <2>1
  <2> HIDE DEF b, signed
  <2>3. fetch_integer(b, signed, t.bits.bits, t.bits.pos, LeafOrder(t)) \in Int
    BY <1>5, <2>1, <2>2, FetchFacts
  <2> QED BY <2>3 DEF b
<1>7. IsResult(y) /\ IsResult(Undef)
  <2> HIDE DEF x
  <2> QED BY <1>6, ResultFacts
<1> HIDE DEF y
<1>8. ResultsInv'
  <2>1. Gives(Head(todo)) = 1
    BY <1>1 DEF Gives
  <2>2. PICK v : IsResult(v) /\ results' = <<v>> \o results
    BY <1>1, <1>7
  <2> QED BY <1>1, <2>1, <2>2, ValueKeeps
<1>9. BufferInv'
  <2>1. reach \in 0 .. len /\ len \in Nat
    BY <1>2 DEF Buffered
  <2>2. reach' \in 0 .. len
    <3>1. CASE short /\ reach' = reach
      BY <2>1, <3>1
    <3>2. CASE ~short /\ reach' = Max({reach, end})
      <4>1. end \in Nat /\ end <= len
        <5>1. end \in Nat
          BY <1>4, <1>5
        <5>2. ~(end > len)
          BY <3>2 DEF Short
        <5> HIDE DEF end
        <5> QED BY <2>1, <5>1, <5>2
      <4> HIDE DEF end
      <4>2. reach \in Int /\ end \in Int
        BY <2>1, <4>1
      <4>3. Max({reach, end}) \in {reach, end}
        BY <4>2, MaxFacts
      <4> QED BY <2>1, <3>2, <4>1, <4>3
    <3> QED BY <1>1, <3>1, <3>2
  <2>3. Buffered'
    BY <1>1, <1>2, <2>2 DEF Buffered
  <2> QED BY <1>1, <2>3 DEF IInv, BufferInv
<1>10. StackInv'
  BY <1>1, StackPop
<1> QED BY <1>1, <1>8, <1>9, <1>10 DEF IInv, Unpacking

\* The calls that the head makes keep the results, when they do what it should do.
LEMMA CallsKeep ==
  ASSUME IInv, Unpacking, todo # << >>, mode' = mode, NEW items, IsSeq(items), Calls(items),
         NEW K, NEW m, Changes(todo, items, results, results', K, m),
         \A i \in 1 .. Len(results') : IsResult(results'[i])
  PROVE  ResultsInv'
<1>1. IsSeq(todo) /\ Filled(todo, results)
  BY DEF IInv, ResultsInv, StackInv, AreCalls
<1>2. todo' = items \o <<SetOrder(order)>> \o Tail(todo)
  BY DEF Calls
<1>3. Filled(todo', results')
  BY <1>1, <1>2, DepthsCalls
<1>4. IsSeq(results') /\ mode' # "pack"
  BY DEF Changes, Unpacking
<1> QED BY <1>3, <1>4 DEF ResultsInv

\* Results with a new one are results.
LEMMA PushedResults ==
  ASSUME NEW r, IsSeq(r), \A i \in 1 .. Len(r) : IsResult(r[i]), NEW v, IsResult(v),
         NEW q, Pushed(r, v, q)
  PROVE  \A i \in 1 .. Len(q) : IsResult(q[i])
<1> SUFFICES ASSUME NEW i \in 1 .. Len(q) PROVE IsResult(q[i])
  OBVIOUS
<1>1. CASE i = 1
  BY <1>1 DEF Pushed
<1>2. CASE i # 1
  <2>1. i \in 2 .. Len(r) + 1 /\ i - 1 \in 1 .. Len(r)
    BY <1>2 DEF Pushed
  <2> QED BY <2>1 DEF Pushed
<1> QED BY <1>1, <1>2

\* The calls of unpack_type for n elements: each yields a value, and stores it.
ElementCalls(st, packs, w, n, s) ==
  /\ IsSeq(s) /\ Len(s) = 2 * n
  /\ \A i \in 1 .. n :
       /\ IsCall(st, packs, s[2 * i - 1]) /\ s[2 * i - 1].do = "type" /\ s[2 * i - 1].want = w
       /\ ~LooksUp(st, s[2 * i - 1])
       /\ s[2 * i].do = "append"

\* A number up to 2n is odd or even.
LEMMA ParityFacts ==
  ASSUME NEW n \in Nat, NEW j \in 1 .. 2 * n
  PROVE  \E i \in 1 .. n : j = 2 * i - 1 \/ j = 2 * i
<1> DEFINE i == (j + 1) \div 2
<1>1. i \in 1 .. n /\ (j = 2 * i - 1 \/ j = 2 * i)
  OBVIOUS
<1> QED BY <1>1

\* The array that is filled stays below the values.
LEMMA ElementDepths ==
  ASSUME NEW st, NEW packs, NEW w, NEW n \in Nat, NEW items, ElementCalls(st, packs, w, n, items),
         NEW s, Gives(Head(s)) = 1, NEW r, IsSeq(r), NEW v, v.is = "array", NEW q, Pushed(r, v, q)
  PROVE  \E K : Changes(s, items, r, q, K, Len(r))
<1> DEFINE m == Len(r)
           K == [j \in 1 .. 2 * n + 1 |-> IF j <= 2 * n /\ items[j].do = "append" THEN m + 2 ELSE m + 1]
<1>1. IsSeq(q) /\ m \in Nat /\ Len(q) = m + 1 /\ q[1] = v
      /\ \A i \in 1 .. m : q[m + 2 - i] = r[m + 1 - i]
  BY DEF Pushed
<1>2. /\ IsSeq(items) /\ Len(items) = 2 * n
      /\ \A i \in 1 .. n : items[2 * i - 1].do = "type" /\ items[2 * i].do = "append"
  BY DEF ElementCalls
<1>3. \A j \in 1 .. 2 * n + 1 :
        K[j] = IF j <= 2 * n /\ items[j].do = "append" THEN m + 2 ELSE m + 1
  OBVIOUS
<1> HIDE DEF K, m
<1>4. ASSUME NEW i \in 1 .. n PROVE K[2 * i - 1] = m + 1 /\ K[2 * i] = m + 2 /\ K[2 * i + 1] = m + 1
  <2>1. K[2 * i - 1] = m + 1
    <3>1. 2 * i - 1 \in 1 .. 2 * n + 1 /\ items[2 * i - 1].do # "append"
      BY <1>2
    <3> QED BY <1>3, <3>1
  <2>2. K[2 * i] = m + 2
    <3>1. 2 * i \in 1 .. 2 * n + 1 /\ 2 * i <= 2 * n /\ items[2 * i].do = "append"
      BY <1>2
    <3> QED BY <1>3, <3>1
  <2>3. K[2 * i + 1] = m + 1
    <3>1. CASE i = n
      <4>1. 2 * i + 1 \in 1 .. 2 * n + 1 /\ ~(2 * i + 1 <= 2 * n)
        BY <3>1
      <4> QED BY <1>3, <4>1
    <3>2. CASE i # n
      <4>1. i + 1 \in 1 .. n /\ 2 * (i + 1) - 1 = 2 * i + 1 /\ 2 * i + 1 \in 1 .. 2 * n + 1
        BY <3>2
      <4>2. items[2 * i + 1].do = "type"
        BY <1>2, <4>1
      <4> QED BY <1>3, <4>1, <4>2
    <3> QED BY <3>1, <3>2
  <2> QED BY <2>1, <2>2, <2>3
<1>5. \A j \in 1 .. 2 * n + 1 : K[j] \in Int /\ m + 1 <= K[j] /\ m <= K[j]
  BY <1>1, <1>3
<1>6. K[1] = m + 1 /\ K[2 * n + 1] = m + 1
  <2>1. K[2 * n + 1] = m + 1
    <3>1. 2 * n + 1 \in 1 .. 2 * n + 1 /\ ~(2 * n + 1 <= 2 * n)
      OBVIOUS
    <3> QED BY <1>3, <3>1
  <2>2. CASE n = 0
    BY <2>1, <2>2
  <2>3. CASE n # 0
    <3>1. 1 \in 1 .. n /\ 2 * 1 - 1 = 1
      BY <2>3
    <3> QED BY <1>4, <2>1, <3>1
  <2> QED BY <2>2, <2>3
<1>7. ASSUME NEW j \in 1 .. 2 * n PROVE K[j + 1] = K[j] + Gives(items[j])
  <2>1. PICK i \in 1 .. n : j = 2 * i - 1 \/ j = 2 * i
    BY ParityFacts
  <2>2. CASE j = 2 * i - 1
    <3>1. Gives(items[j]) = 1
      BY <1>2, <2>2 DEF Gives
    <3> QED BY <1>1, <1>4, <2>2, <3>1
  <2>3. CASE j = 2 * i
    <3>1. Gives(items[j]) = -1
      BY <1>2, <2>3 DEF Gives
    <3> QED BY <1>1, <1>4, <2>3, <3>1
  <2> QED BY <2>1, <2>2, <2>3
<1>8. ASSUME NEW j \in 1 .. 2 * n, Fills(items[j])
      PROVE  /\ Base(items[j], K[j]) = m + 1 /\ Into(items[j]) = "array"
  <2>1. PICK i \in 1 .. n : j = 2 * i - 1 \/ j = 2 * i
    BY ParityFacts
  <2>2. CASE j = 2 * i - 1
    <3>1. ~Fills(items[j])
      BY <1>2, <2>2 DEF Fills
    <3> QED BY <1>8, <3>1
  <2>3. CASE j = 2 * i
    <3>1. items[j].do = "append" /\ K[j] = m + 2
      BY <1>2, <1>4, <2>3
    <3>2. (m + 2) - 1 = m + 1
      BY <1>1
    <3> QED BY <3>1, <3>2 DEF Base, Into
  <2> QED BY <2>1, <2>2, <2>3
<1>9. DepthsOf(items, q, K)
  <2>1. K[1] = Len(q)
    BY <1>1, <1>6
  <2>2. ASSUME NEW j \in 1 .. Len(items), Fills(items[j])
        PROVE  /\ Base(items[j], K[j]) >= 1
               /\ \A i \in 1 .. j : Base(items[j], K[j]) <= K[i]
               /\ q[Len(q) + 1 - Base(items[j], K[j])].is = Into(items[j])
    <3>1. Base(items[j], K[j]) = m + 1 /\ Into(items[j]) = "array"
      BY <1>2, <1>8, <2>2
    <3>2. \A i \in 1 .. j : m + 1 <= K[i]
      BY <1>2, <1>5
    <3>3. Len(q) + 1 - (m + 1) = 1
      BY <1>1
    <3>4. q[1].is = "array"
      BY <1>1
    <3> QED BY <1>1, <3>1, <3>2, <3>3, <3>4
  <2> QED BY <1>2, <1>5, <1>7, <2>1, <2>2 DEF DepthsOf
<1>10. \A i \in 1 .. m : q[Len(q) + 1 - i].is = r[m + 1 - i].is
  <2> SUFFICES ASSUME NEW i \in 1 .. m PROVE q[Len(q) + 1 - i].is = r[m + 1 - i].is
    OBVIOUS
  <2>1. Len(q) + 1 - i = m + 2 - i
    BY <1>1
  <2> QED BY <1>1, <2>1
<1>11. Changes(s, items, r, q, K, m)
  <2>1. m = Len(r)
    BY DEF m
  <2> QED BY <1>1, <1>2, <1>5, <1>6, <1>9, <1>10, <2>1 DEF Changes
<1> QED BY <1>11 DEF m

\* unpack_type with an array makes such calls.
LEMMA ElementCallsFacts ==
  ASSUME NEW st \in Setups, NEW packs \in BOOLEAN, ~packs, NEW t, IsTypeCall(st, packs, t), IsArray(t),
         NEW n \in Nat, NEW size \in Nat, NEW w, NEW q,
         q = FlattenSeq([i \in 1 .. n |->
               <<Type(t.type, t.decl, t.level + 1, NoBits, t.at + (i - 1) * size, Undef, w), StoreElem>>])
  PROVE  ElementCalls(st, packs, w, n, q)
<1> DEFINE c(i) == Type(t.type, t.decl, t.level + 1, NoBits, t.at + (i - 1) * size, Undef, w)
           f == [i \in 1 .. n |-> <<c(i), StoreElem>>]
<1>1. StoreElem.do = "append"
  BY DEF StoreElem
<1> HIDE DEF StoreElem
<1>2. t.at \in Nat /\ t.level \in Nat
  BY TypeCallFacts
<1>3. ASSUME NEW i \in 1 .. n
      PROVE  IsCall(st, packs, c(i)) /\ c(i).do = "type" /\ c(i).want = w /\ ~LooksUp(st, c(i))
  <2> DEFINE e == c(i)
             off == (i - 1) * size
  <2>1. off \in Nat
    BY PartFacts
  <2>2. /\ e.do = "type" /\ e.type = t.type /\ e.decl = t.decl /\ e.level = t.level + 1
        /\ e.bits = NoBits /\ e.at = t.at + off /\ e.sv = Undef /\ e.want = w
    BY DEF Type
  <2> HIDE DEF e, off
  <2>3. e.at \in Nat /\ Undef \in Data
    BY <1>2, <2>1, <2>2, DataAssumption, SMTT(60)
  <2>4. IsTypeCall(st, packs, e)
    BY <2>2, <2>3, ElementCall
  <2>5. ~LooksUp(st, e)
    BY <1>2, <2>2 DEF LooksUp
  <2> QED BY <2>2, <2>4, <2>5 DEF IsCall, e
<1> HIDE DEF c
<1>4. ASSUME NEW i \in 1 .. n PROVE IsSeq(f[i]) /\ Len(f[i]) = 2 /\ f[i][1] = c(i) /\ f[i][2] = StoreElem
  <2>1. f[i] = <<c(i), StoreElem>>
    OBVIOUS
  <2> HIDE DEF f
  <2> QED BY <2>1, PairFacts
<1>5. f = [i \in 1 .. n |-> f[i]] /\ q = FlattenSeq(f)
  BY DEF c
<1> HIDE DEF f
<1>6. IsSeq(f) /\ Len(f) = n
  BY <1>5, SeqFacts
<1>7. /\ IsSeq(q) /\ Len(q) = 2 * n
      /\ \A i \in 1 .. n : q[2 * i - 1] = f[i][1] /\ q[2 * i] = f[i][2]
  <2>1. \A i \in 1 .. n : IsSeq(f[i]) /\ Len(f[i]) = 2
    BY <1>4
  <2>2. /\ IsSeq(FlattenSeq(f)) /\ Len(FlattenSeq(f)) = 2 * n
        /\ \A i \in 1 .. n : FlattenSeq(f)[2 * i - 1] = f[i][1] /\ FlattenSeq(f)[2 * i] = f[i][2]
    BY <1>6, <2>1, FlattenPairs
  <2>3. q = FlattenSeq(f)
    BY <1>5
  <2> QED BY <2>2, <2>3
<1>8. ASSUME NEW i \in 1 .. n
      PROVE  /\ IsCall(st, packs, q[2 * i - 1]) /\ q[2 * i - 1].do = "type" /\ q[2 * i - 1].want = w
             /\ ~LooksUp(st, q[2 * i - 1])
             /\ q[2 * i].do = "append"
  <2>1. q[2 * i - 1] = c(i) /\ q[2 * i] = StoreElem
    BY <1>4, <1>7
  <2> QED BY <1>1, <1>3, <2>1
<1> QED BY <1>7, <1>8 DEF ElementCalls

\* unpack_type with an array.
LEMMA UnpackArrayKeeps ==
  ASSUME IInv, UnpackArray
  PROVE  IInv' /\ Quiet'
<1> DEFINE t == Head(todo)
           packs == mode = "pack"
           size == ItemSize(t.decl, t.level + 1)
           left == len - t.at + size - 1
           avail == AsLong((left % Word) \div size)
           n == Max({0, Elements(t, avail)})
           w == InDecl(t, t.want)
           items == FlattenSeq([i \in 1 .. n |->
               <<Type(t.type, t.decl, t.level + 1, NoBits, t.at + (i - 1) * size, Undef, w), StoreElem>>])
           v == Array(<< >>)
<1>1. /\ Unpacking /\ todo # << >> /\ t.do = "type" /\ IsArray(t)
      /\ \/ OutOfMemory
         \/ /\ ~(n > Memory) /\ results' = <<v>> \o results /\ Calls(items)
            /\ order' = InDecl(t, order) /\ mode' = mode
      /\ UNCHANGED <<setup, string, len, parent, reach>>
  BY DEF UnpackArray, Unpacks, Running, Push
<1>2. setup \in Setups /\ IsResult(parent) /\ Buffered /\ order \in Orders
  BY DEF IInv, BufferInv
<1>3. IsTypeCall(setup, packs, t) /\ ~packs /\ t.want = order
  BY <1>1, HeadFacts DEF IsCall, Unpacking
<1>4. IsDeclared(setup, t.type, t.decl) /\ t.at \in Nat
  BY <1>3 DEF IsTypeCall
<1>0. Memory \in Nat /\ Word \in Nat \ {0} /\ len \in Nat
  BY <1>2, MachineFacts DEF Buffered
<1>5. size \in Nat \ {0}
  <2> DEFINE zero == 0
  <2>1. zero \in Int
    OBVIOUS
  <2> HIDE DEF t, zero
  <2> QED BY <1>1, <1>2, <1>3, <2>1, ElementsFacts
<1> HIDE DEF size
<1>6. avail \in Int
  <2>1. left \in Int
    BY <1>0, <1>4, <1>5
  <2> HIDE DEF left
  <2> DEFINE x == left % Word
  <2>2. x \in Int
    <3>1. left % Word \in 0 .. Word - 1
      BY <1>0, <2>1, DivFacts
    <3> QED BY <3>1
  <2> HIDE DEF x
  <2>3. x \div size \in Int
    BY <1>5, <2>2, DivFacts
  <2> DEFINE y == x \div size
  <2>4. y \in Int
    BY <2>3
  <2>5. avail = AsLong(y)
    BY DEF x
  <2> HIDE DEF y, avail
  <2> QED BY <1>0, <2>4, <2>5 DEF AsLong
<1> HIDE DEF avail, left
<1>7. Elements(t, avail) \in Int
  <2> HIDE DEF t
  <2> QED BY <1>1, <1>2, <1>3, <1>6, ElementsFacts
<1>8. n \in Nat
  <2> DEFINE e == Elements(t, avail)
             z == 0
  <2>1. e \in Int /\ z \in Int
    BY <1>7
  <2> HIDE DEF e
  <2>2. Max({z, e}) \in {z, e} /\ Max({z, e}) >= z
    <3> HIDE DEF z
    <3> QED BY <2>1, MaxFacts
  <2>3. n = Max({z, e})
    BY DEF e
  <2> HIDE DEF n
  <2> QED BY <2>1, <2>2, <2>3
<1> HIDE DEF n
<1>9. CASE OutOfMemory
  BY <1>9, DiedKeeps DEF OutOfMemory, Quiet
<1>10. CASE ~OutOfMemory
  <2>1. /\ results' = <<v>> \o results /\ Calls(items) /\ order' = InDecl(t, order) /\ mode' = mode
    BY <1>1, <1>10
  <2>2. order' \in Orders /\ w = order'
    BY <1>2, <1>3, <1>4, <2>1, OrderFacts
  <2>3. ElementCalls(setup, packs, w, n, items)
    <3>1. packs \in BOOLEAN /\ size \in Nat
      BY <1>5
    <3>2. items = FlattenSeq([i \in 1 .. n |->
               <<Type(t.type, t.decl, t.level + 1, NoBits, t.at + (i - 1) * size, Undef, w), StoreElem>>])
      OBVIOUS
    <3> HIDE DEF t, w, packs, items
    <3> QED BY <1>1, <1>2, <1>3, <1>8, <3>1, <3>2, ElementCallsFacts
  <2>4. Calls(items)
    BY <2>1
  <2> HIDE DEF items
  <2>5. IsSeq(results) /\ \A i \in 1 .. Len(results) : IsResult(results[i])
    BY DEF IInv, ResultsInv
  <2>6. IsResult(v) /\ v.is = "array"
    BY ResultFacts
  <2> HIDE DEF v
  <2>7. Pushed(results, v, results')
    BY <2>1, <2>5, PushFacts
  <2>8. /\ IsSeq(items)
        /\ \A i \in 1 .. Len(items) : IsCall(setup, packs, items[i])
        /\ \A i \in 1 .. Len(items) :
             /\ items[i].do # "order"
             /\ items[i].do \in {"type", "struct", "member"} => items[i].want = order'
        /\ \A i \in 1 .. Len(items) : ~LooksUp(setup, items[i])
    <3>1. IsSeq(items) /\ Len(items) = 2 * n
      BY <2>3 DEF ElementCalls
    <3>2. ASSUME NEW j \in 1 .. Len(items)
          PROVE  /\ IsCall(setup, packs, items[j]) /\ ~LooksUp(setup, items[j])
                 /\ items[j].do # "order"
                 /\ items[j].do \in {"type", "struct", "member"} => items[j].want = order'
      <4>1. PICK i \in 1 .. n : j = 2 * i - 1 \/ j = 2 * i
        <5>1. j \in 1 .. 2 * n
          BY <3>1
        <5> QED BY <1>8, <5>1, ParityFacts
      <4>2. CASE j = 2 * i - 1
        <5>1. /\ IsCall(setup, packs, items[j]) /\ items[j].do = "type" /\ items[j].want = w
              /\ ~LooksUp(setup, items[j])
          BY <2>3, <4>2 DEF ElementCalls
        <5> HIDE DEF w
        <5> QED BY <2>2, <5>1
      <4>3. CASE j = 2 * i
        <5>1. items[j].do = "append"
          BY <2>3, <4>3 DEF ElementCalls
        <5> QED BY <1>3, <5>1 DEF IsCall, LooksUp
      <4> QED BY <4>1, <4>2, <4>3
    <3> QED BY <3>1, <3>2
  <2>9. StackInv' /\ Quiet'
    <3>1. Head(todo).do \notin {"order", "parent"} /\ UNCHANGED <<setup, mode>>
      BY <1>1, <2>1
    <3> QED BY <1>1, <2>4, <2>8, <3>1, StackCalls
  <2>10. ResultsInv'
    <3>1. Gives(Head(todo)) = 1
      BY <1>1 DEF Gives
    <3>2. PICK K : Changes(todo, items, results, results', K, Len(results))
      <4> HIDE DEF w, packs
      <4> QED BY <1>8, <2>3, <2>5, <2>6, <2>7, <3>1, ElementDepths
    <3>3. \A i \in 1 .. Len(results') : IsResult(results'[i])
      BY <2>5, <2>6, <2>7, PushedResults
    <3> QED BY <1>1, <2>1, <2>4, <2>8, <3>2, <3>3, CallsKeep
  <2>11. BufferInv'
    BY <1>1, <2>1, BufferStays
  <2> QED BY <1>1, <2>1, <2>2, <2>9, <2>10, <2>11 DEF IInv, Unpacking
<1> QED BY <1>9, <1>10

\* A value that is stored in the container below it keeps the results.
LEMMA StoredKeeps ==
  ASSUME IInv, Unpacking, todo # << >>, Head(todo).do \in {"store", "append"}, todo' = Tail(todo),
         NEW v, v.is = Into(Head(todo)),
         Len(results) >= 2 /\ results[2].is = Into(Head(todo)) => IsResult(v),
         results' = <<v>> \o Tail(Tail(results)), mode' = mode
  PROVE  ResultsInv'
<1> DEFINE r == results
           q == results'
<1>1. /\ IsSeq(r) /\ (\A i \in 1 .. Len(r) : IsResult(r[i]))
      /\ Filled(todo, r) /\ IsSeq(todo)
  BY DEF IInv, ResultsInv, StackInv, AreCalls
<1>2. Len(r) >= 2 /\ r[2].is = Into(Head(todo)) /\ Filled(Tail(todo), <<v>> \o Tail(Tail(r)))
  BY <1>1, DepthsStore
<1>3. q = <<v>> \o Tail(Tail(r)) /\ IsResult(v)
  BY <1>2
<1>4. StoredTop(r, v, q)
  <2> HIDE DEF r, q
  <2> QED BY <1>1, <1>2, <1>3, StoreTopFacts
<1>5. Filled(todo', q)
  BY <1>2
<1> HIDE DEF r, q
<1>6. /\ IsSeq(q) /\ Len(r) \in Nat /\ Len(q) = Len(r) - 1 /\ q[1] = v
      /\ \A i \in 2 .. Len(r) - 1 : q[i] = r[i + 1]
  BY <1>4 DEF StoredTop
<1>7. ASSUME NEW i \in 1 .. Len(q) PROVE IsResult(q[i])
  <2>1. CASE i = 1
    BY <1>3, <1>6, <2>1
  <2>2. CASE i # 1
    <3>1. i \in 2 .. Len(r) - 1 /\ i + 1 \in 1 .. Len(r)
      BY <1>6, <2>2
    <3> QED BY <1>1, <1>6, <3>1
  <2> QED BY <2>1, <2>2
<1>8. mode' # "pack"
  BY DEF Unpacking
<1> QED BY <1>5, <1>6, <1>7, <1>8 DEF ResultsInv, q

\* av_store.
LEMMA UnpackAppendKeeps ==
  ASSUME IInv, UnpackAppend
  PROVE  IInv'
<1> DEFINE v == Array(Append(results[2].elems, results[1]))
<1>1. /\ Unpacking /\ todo # << >> /\ Head(todo).do = "append" /\ todo' = Tail(todo)
      /\ results' = <<v>> \o Tail(Tail(results))
      /\ UNCHANGED <<setup, mode, string, len, order, parent, reach>>
  BY DEF UnpackAppend, Unpacks, Running
<1>2. v.is = "array"
  BY DEF Array
<1> HIDE DEF v
<1>3. v.is = Into(Head(todo)) /\ IsResult(v)
  BY <1>1, <1>2 DEF Into, IsResult, HasInt
<1>4. ResultsInv'
  BY <1>1, <1>3, StoredKeeps
<1>5. StackInv'
  BY <1>1, StackPop
<1>6. BufferInv'
  BY <1>1, BufferStays
<1> QED BY <1>1, <1>4, <1>5, <1>6 DEF IInv, Unpacking

\* hv_store.
LEMMA UnpackStoreKeeps ==
  ASSUME IInv, UnpackStore
  PROVE  IInv'
<1> DEFINE h == results[2]
           x == results[1]
           id == Head(todo).id
           f == Stored(h, id, x)
           v == Hash(f)
<1>1. /\ Unpacking /\ todo # << >> /\ Head(todo).do = "store" /\ todo' = Tail(todo)
      /\ results' = <<v>> \o Tail(Tail(results)) /\ parent' = Undef
      /\ UNCHANGED <<setup, mode, string, len, order, reach>>
  BY DEF UnpackStore, Unpacks, Running
<1>2. v.is = "hash" /\ v.keys = f
  BY DEF Hash
<1>3. v.is = Into(Head(todo)) /\ Into(Head(todo)) = "hash"
  <2>1. Head(todo).do # "append"
    BY <1>1
  <2> QED BY <1>2, <2>1 DEF Into
<1>4. ASSUME Len(results) >= 2, h.is = Into(Head(todo)) PROVE IsResult(v)
  <2>1. IsResult(h) /\ IsResult(x)
    <3>1. IsSeq(results) /\ \A i \in 1 .. Len(results) : IsResult(results[i])
      BY DEF IInv, ResultsInv
    <3>2. 1 \in 1 .. Len(results) /\ 2 \in 1 .. Len(results)
      <4>1. Len(results) \in Nat
        BY <3>1, IsSeqFacts
      <4> QED BY <1>4, <4>1
    <3> QED BY <3>1, <3>2
  <2>2. HasInt(x) /\ \A k \in DOMAIN h.keys : HasInt(h.keys[k])
    BY <1>3, <1>4, <2>1 DEF IsResult
  <2> HIDE DEF x, h, id
  <2>3. ASSUME NEW k \in DOMAIN f PROVE HasInt(f[k])
    <3>1. k \in DOMAIN h.keys \cup {id} /\ f[k] = IF k = id THEN x ELSE h.keys[k]
      BY DEF Stored
    <3> QED BY <2>2, <3>1
  <2> HIDE DEF f, v
  <2>4. HasInt(v)
    BY <1>2 DEF HasInt
  <2> QED BY <1>2, <2>3, <2>4 DEF IsResult
<1> HIDE DEF v
<1>5. ResultsInv'
  <2>1. Len(results) >= 2 /\ results[2].is = Into(Head(todo)) => IsResult(v)
    BY <1>4
  <2> QED BY <1>1, <1>3, <2>1, StoredKeeps
<1>6. StackInv'
  BY <1>1, StackPop
<1>7. BufferInv'
  BY <1>1, BufferStays
<1>8. IsResult(parent') /\ parent'.is = "undef"
  BY <1>1, ResultFacts, SMTT(60) DEF Undef
<1> QED BY <1>1, <1>5, <1>6, <1>7, <1>8 DEF IInv, Unpacking

\* unpack_struct: a string, or a hash for the members.
LEMMA UnpackStructKeeps ==
  ASSUME IInv, UnpackStruct
  PROVE  IInv' /\ Quiet'
<1> DEFINE c == Head(todo)
           packs == mode = "pack"
           def == setup.structs[c.name]
           w == InStruct(c, c.want)
           size == def.size
           format == def.format
           e(i) == Member(def.members[i], c.at, w)
           items == [i \in DOMAIN def.members |-> e(i)]
           v == Hash(<< >>)
<1>1. /\ Unpacking /\ todo # << >> /\ c.do = "struct"
      /\ \/ /\ ~c.inlined /\ UnpackFormat(format, size, FALSE, c.at)
            /\ todo' = Tail(todo) /\ order' = order
         \/ /\ IF c.inlined THEN results' = results ELSE results' = <<v>> \o results
            /\ order' = InStruct(c, order) /\ Calls(items) /\ reach' = reach
      /\ UNCHANGED <<setup, mode, string, len, parent>>
  BY DEF UnpackStruct, Unpacks, Running, Push
<1>2. setup \in Setups /\ Buffered /\ order \in Orders
  BY DEF IInv, BufferInv
<1>3. IsStructCall(setup, packs, c) /\ ~packs /\ c.want = order
  BY <1>1, HeadFacts DEF IsCall, Unpacking
<1>4. c.name \in DOMAIN setup.structs /\ c.at \in Nat /\ c.inlined \in BOOLEAN
  BY <1>3 DEF IsStructCall
<1>5. /\ size \in Nat /\ IsSeq(def.members)
      /\ \A i \in 1 .. Len(def.members) : IsMember(setup, size, def.members[i])
  BY <1>2, <1>4, StructFacts, SMTT(60)
<1>6. CASE /\ ~c.inlined /\ UnpackFormat(format, size, FALSE, c.at)
           /\ todo' = Tail(todo) /\ order' = order
  <2>1. PICK no \in BOOLEAN : no = FALSE
    OBVIOUS
  <2>2. UnpackFormat(format, size, no, c.at)
    <3> HIDE DEF c, format, size
    <3> QED BY <1>6, <2>1, Zenon
  <2>3. UNCHANGED <<string, len>>
    BY <1>1
  <2>4. Buffered' /\ \E x : x.is = "string" /\ results' = <<x>> \o results
    <3> HIDE DEF c, format, size
    <3> QED BY <1>2, <1>4, <1>5, <2>1, <2>2, <2>3, UnpackFormatFacts
  <2>5. PICK x : x.is = "string" /\ results' = <<x>> \o results
    BY <2>4
  <2>6. /\ Unpacking /\ todo # << >> /\ Head(todo).do = "struct" /\ ~Head(todo).inlined
        /\ todo' = Tail(todo) /\ order' = order /\ UNCHANGED <<setup, mode, string, len, parent>>
    BY <1>1, <1>6
  <2> HIDE DEF c, packs, def, w, size, format, e, items, v
  <2>7. ResultsInv'
    <3>1. Gives(Head(todo)) = 1 /\ IsResult(x)
      BY <2>5, <2>6, ResultFacts DEF Gives
    <3> QED BY <2>5, <2>6, <3>1, ValueKeeps
  <2>8. StackInv' /\ Quiet'
    BY <2>6, StackPop, PopQuiet
  <2>9. BufferInv'
    BY <2>4, <2>6 DEF IInv, BufferInv
  <2> QED BY <2>6, <2>7, <2>8, <2>9 DEF IInv, Unpacking
<1>7. CASE /\ IF c.inlined THEN results' = results ELSE results' = <<v>> \o results
           /\ order' = InStruct(c, order) /\ Calls(items) /\ reach' = reach
  <2>1. w = order' /\ order' \in Orders
    BY <1>2, <1>3, <1>4, <1>7, StructOrderFacts
  <2> DEFINE n == Len(def.members)
  <2>2. DOMAIN def.members = 1 .. n /\ n \in Nat
    BY <1>5, IsSeqFacts
  <2>3. ASSUME NEW i \in 1 .. n
        PROVE  IsCall(setup, packs, e(i)) /\ e(i).do = "member" /\ e(i).want = order'
    <3> DEFINE x == e(i)
    <3>1. x.do = "member" /\ x.m = def.members[i] /\ x.at = c.at /\ x.want = order'
      BY <2>1 DEF Member
    <3> HIDE DEF x
    <3>2. \E k \in Nat : IsMember(setup, k, x.m)
      BY <1>5, <3>1, SMTT(60)
    <3> QED BY <1>3, <1>4, <3>1, <3>2, Zenon DEF IsCall, x
  <2>0. items = [i \in 1 .. n |-> e(i)]
    BY <2>2
  <2>5. Calls(items)
    BY <1>7
  <2> HIDE DEF items, e, n
  <2>4. (\A i \in 1 .. n : items[i] = e(i)) /\ items = [i \in 1 .. n |-> items[i]]
    BY <2>0
  <2>6. IsSeq(items) /\ Len(items) = n
    BY <2>2, <2>4, SeqFacts
  <2>7. \A i \in 1 .. Len(items) :
          IsCall(setup, packs, items[i]) /\ items[i].do = "member" /\ items[i].want = order'
    <3> HIDE DEF packs
    <3> QED BY <2>3, <2>4, <2>6
  <2>8. StackInv' /\ Quiet'
    <3>1. /\ Head(todo).do \notin {"order", "parent"} /\ UNCHANGED <<setup, mode>>
          /\ \A i \in 1 .. Len(items) : IsCall(setup, mode = "pack", items[i])
          /\ \A i \in 1 .. Len(items) :
               /\ items[i].do # "order"
               /\ items[i].do \in {"type", "struct", "member"} => items[i].want = order'
          /\ \A i \in 1 .. Len(items) : LooksUp(setup, items[i]) =>
               i # 1 /\ items[i - 1].do = "parent" /\ Fits(items[i], items[i - 1].parent)
      BY <1>1, <2>7 DEF LooksUp
    <3> QED BY <1>1, <2>5, <2>6, <3>1, StackCalls
  <2>9. IsSeq(results) /\ (\A i \in 1 .. Len(results) : IsResult(results[i])) /\ Filled(todo, results)
        /\ IsSeq(todo)
    BY <1>1 DEF IInv, ResultsInv, StackInv, AreCalls
  <2>10. /\ IsSeq(results') /\ (\A i \in 1 .. Len(results') : IsResult(results'[i]))
         /\ Len(results) \in Nat /\ Len(results') = Len(results) + Gives(Head(todo))
         /\ Gives(Head(todo)) \in {0, 1} /\ Len(results') >= 1 /\ results'[1].is = "hash"
         /\ \A i \in 1 .. Len(results) :
              results'[Len(results') + 1 - i].is = results[Len(results) + 1 - i].is
    <3>0. Len(results) \in Nat
      BY <2>9, IsSeqFacts
    <3>1. CASE c.inlined
      <4>1. results' = results
        BY <1>7, <3>1
      <4>2. Gives(Head(todo)) = 0 /\ Fills(Head(todo)) /\ Into(Head(todo)) = "hash"
            /\ Base(Head(todo), Len(results)) = Len(results)
        BY <1>1, <3>1 DEF Gives, Fills, Into, Base
      <4>3. Len(results) >= 1 /\ results[Len(results) + 1 - Len(results)].is = "hash"
        BY <1>1, <2>9, <4>2, HeadFills
      <4>4. Len(results) + 1 - Len(results) = 1
        BY <3>0
      <4>5. Len(results) >= 1 /\ results[1].is = "hash"
        BY <4>3, <4>4
      <4> HIDE DEF c
      <4> QED BY <2>9, <3>0, <4>1, <4>2, <4>5
    <3>2. CASE ~c.inlined
      <4>1. results' = <<v>> \o results
        BY <1>7, <3>2
      <4>2. Gives(Head(todo)) = 1
        BY <1>1, <3>2 DEF Gives
      <4>3. IsResult(v) /\ v.is = "hash"
        BY ResultFacts
      <4> HIDE DEF c, v
      <4>4. Pushed(results, v, results')
        BY <2>9, <4>1, PushFacts
      <4>5. \A i \in 1 .. Len(results') : IsResult(results'[i])
        BY <2>9, <4>3, <4>4, PushedResults
      <4>6. /\ IsSeq(results') /\ Len(results') = Len(results) + 1 /\ results'[1] = v
            /\ \A i \in 1 .. Len(results) : results'[Len(results) + 2 - i] = results[Len(results) + 1 - i]
        BY <4>4 DEF Pushed
      <4>7. \A i \in 1 .. Len(results) : Len(results') + 1 - i = Len(results) + 2 - i
        BY <3>0, <4>6
      <4> QED BY <3>0, <4>2, <4>3, <4>5, <4>6, <4>7
    <3> QED BY <3>1, <3>2
  <2>11. ResultsInv'
    <3> DEFINE k == Len(results')
               K == [i \in 1 .. n + 1 |-> k]
               m == Len(results)
    <3>1. k \in Nat /\ \A i \in 1 .. Len(items) + 1 : K[i] = k
      BY <2>6, <2>10, IsSeqFacts
    <3>2. m \in Int /\ m <= k
      BY <2>10
    <3>3. \A i \in 1 .. Len(items) : Fills(items[i]) /\ Gives(items[i]) = 0 /\ Into(items[i]) = "hash"
                                     /\ Base(items[i], k) = k
      BY <2>7 DEF Fills, Gives, Into, Base
    <3>4. 1 \in 1 .. Len(items) + 1 /\ Len(items) + 1 \in 1 .. Len(items) + 1 /\ Len(items) \in Nat
      BY <2>2, <2>6
    <3> HIDE DEF K
    <3>5. DepthsOf(items, results', K)
      <4>1. K[1] = Len(results') /\ \A i \in 1 .. Len(items) + 1 : K[i] \in Int
        BY <3>1, <3>4
      <4>2. ASSUME NEW i \in 1 .. Len(items) PROVE K[i + 1] = K[i] + Gives(items[i])
        <5>1. i \in 1 .. Len(items) + 1 /\ i + 1 \in 1 .. Len(items) + 1
          BY <3>4
        <5> QED BY <3>1, <3>3, <5>1
      <4>3. ASSUME NEW j \in 1 .. Len(items)
            PROVE  /\ Base(items[j], K[j]) >= 1
                   /\ \A i \in 1 .. j : Base(items[j], K[j]) <= K[i]
                   /\ results'[Len(results') + 1 - Base(items[j], K[j])].is = Into(items[j])
        <5>1. \A i \in 1 .. j : K[i] = k
          BY <3>1, <3>4
        <5>2. K[j] = k /\ Base(items[j], K[j]) = k /\ Len(results') + 1 - k = 1
          BY <3>1, <3>3, <3>4
        <5> HIDE DEF k
        <5> QED BY <2>10, <3>1, <3>3, <5>1, <5>2 DEF k
      <4> QED BY <4>1, <4>2, <4>3 DEF DepthsOf
    <3>6. Changes(todo, items, results, results', K, m)
      <4>1. K[Len(items) + 1] = Len(results) + Gives(Head(todo)) /\ \A i \in 1 .. Len(items) + 1 : m <= K[i]
        BY <2>10, <3>1, <3>2, <3>4
      <4>2. Gives(Head(todo)) >= 0 /\ ~(Gives(Head(todo)) < 0)
        BY <2>10
      <4> QED BY <2>9, <2>10, <3>2, <3>5, <4>1, <4>2 DEF Changes
    <3> HIDE DEF m
    <3> QED BY <1>1, <2>5, <2>6, <2>10, <3>6, CallsKeep
  <2>12. BufferInv'
    BY <1>1, <1>7, BufferStays, SMTT(60)
  <2> QED BY <1>1, <1>7, <2>1, <2>8, <2>11, <2>12 DEF IInv, Unpacking
<1> QED BY <1>1, <1>6, <1>7

\* One turn of the loop of unpack_struct: the hash is the parent of the member.
LEMMA UnpackMemberKeeps ==
  ASSUME IInv, UnpackMember
  PROVE  IInv'
<1> DEFINE c == Head(todo)
           packs == mode = "pack"
           d == c.m.decl
           h == Head(results)
           r == results
           x == Struct(c.m.type.name, TRUE, c.at + d.offset, Undef, c.want)
           y == Type(c.m.type, d, 0, d.bits, c.at + d.offset, Undef, c.want)
           z == StoreKey(d.id)
<1>1. /\ Unpacking /\ todo # << >> /\ c.do = "member"
      /\ \/ c.m.inlined /\ todo' = <<x>> \o Tail(todo) /\ parent' = parent
         \/ ~c.m.inlined /\ todo' = Tail(todo) /\ parent' = parent
         \/ ~c.m.inlined /\ d.id \notin DOMAIN h.keys /\ parent' = h /\ todo' = <<y, z>> \o Tail(todo)
      /\ UNCHANGED <<setup, mode, results, string, len, order, reach>>
  BY DEF UnpackMember, Unpacks, Running
<1>2. setup \in Setups /\ order \in Orders /\ IsResult(parent) /\ parent.is \in {"undef", "hash"}
  BY DEF IInv
<1>3. /\ c.at \in Nat /\ ~packs /\ c.want = order
      /\ \E size \in Nat : IsMember(setup, size, c.m)
  BY <1>1, HeadFacts DEF IsCall, Unpacking
<1>4. PICK size \in Nat : IsMember(setup, size, c.m)
  BY <1>3
<1>5. Undef \in Data
  BY DataAssumption, SMTT(60)
<1>6. /\ IsSeq(r) /\ (\A i \in 1 .. Len(r) : IsResult(r[i]))
      /\ Filled(todo, r) /\ IsSeq(todo)
  BY <1>1 DEF IInv, ResultsInv, StackInv, AreCalls
<1>7. Gives(c) = 0 /\ Len(r) \in Nat /\ Len(r) >= 1 /\ r[1].is = "hash" /\ h = r[1] /\ IsResult(h)
  <2>1. Gives(c) = 0 /\ Fills(c) /\ Into(c) = "hash" /\ Base(c, Len(r)) = Len(r)
    BY <1>1 DEF Gives, Fills, Into, Base
  <2>2. Len(r) >= 1 /\ r[Len(r) + 1 - Len(r)].is = "hash"
    BY <1>1, <1>6, <2>1, HeadFills
  <2>3. Len(r) \in Nat /\ r # << >>
    BY <1>6, <2>2, IsSeqFacts, EmptyFacts
  <2>4. Len(r) + 1 - Len(r) = 1
    BY <2>3
  <2>5. h = r[1]
    BY <1>6, <2>3, TailFacts
  <2>6. IsResult(r[1])
    <3>1. 1 \in 1 .. Len(r)
      BY <2>2, <2>3
    <3> QED BY <1>6, <3>1
  <2> QED BY <2>1, <2>2, <2>3, <2>4, <2>5, <2>6
<1>8. BufferInv'
  BY <1>1, BufferStays
<1>9. Head(todo).do \notin {"order", "parent"} /\ UNCHANGED <<setup, mode, order>>
  BY <1>1
\* The stack and the results, when the calls b are in the place of this one.
<1>10. ASSUME NEW b, IsSeq(b), todo' = b \o Tail(todo),
              \A i \in 1 .. Len(b) : IsCall(setup, packs, b[i]) /\ b[i].do # "order"
                                     /\ (b[i].do \in {"type", "struct", "member"} => b[i].want = order),
              Parented(setup, b, parent'),
              NEW K, DepthsOf(b, r, K), K[Len(b) + 1] = Len(r),
              \A i \in 1 .. Len(b) + 1 : Len(r) <= K[i]
       PROVE  StackInv' /\ ResultsInv'
  <2>1. StackInv'
    BY <1>1, <1>9, <1>10, StackPut
  <2>2. Replaces(todo, todo', b)
    BY <1>1, <1>6, <1>10, ReplacesConcat
  <2> DEFINE k == Len(r)
  <2>3. Changes(todo, b, r, r, K, k)
    <3>1. Gives(Head(todo)) = 0 /\ k \in Nat
      BY <1>7
    <3>2. K[Len(b) + 1] = k + Gives(Head(todo)) /\ Gives(Head(todo)) >= 0 /\ ~(Gives(Head(todo)) < 0)
      BY <1>10, <3>1
    <3> QED BY <1>6, <1>10, <3>1, <3>2 DEF Changes
  <2> HIDE DEF k
  <2>4. Filled(todo', r)
    BY <1>6, <2>2, <2>3, DepthsReplace
  <2> QED BY <1>1, <2>1, <2>4 DEF IInv, ResultsInv, Unpacking
<1> HIDE DEF packs
<1>11. CASE c.m.inlined /\ todo' = <<x>> \o Tail(todo) /\ parent' = parent
  <2> DEFINE b == <<x>>
             k == Len(r)
             K == [i \in 1 .. 2 |-> k]
  <2>1. /\ x.do = "struct" /\ x.name = c.m.type.name /\ x.inlined = TRUE
        /\ x.at = c.at + c.m.decl.offset /\ x.sv = Undef /\ x.want = order
    BY <1>3 DEF Struct
  <2>2. IsSeq(b) /\ Len(b) = 1 /\ b[1] = x
    BY SingleFacts
  <2>3. todo' = b \o Tail(todo)
    BY <1>11
  <2>4. K[1] = k /\ K[2] = k
    OBVIOUS
  <2> HIDE DEF x, b, K
  <2>5. IsCall(setup, packs, x)
    <3>1. c.at \in Nat /\ x.inlined \in BOOLEAN /\ x.sv \in Data
      BY <1>3, <1>5, <2>1
    <3>2. c.m.inlined
      BY <1>11
    <3> HIDE DEF c
    <3> QED BY <1>2, <1>3, <1>4, <2>1, <3>1, <3>2, InlinedCall
  <2>6. \A i \in 1 .. Len(b) : b[i] = x
    BY <2>2
  <2>7. Parented(setup, b, parent')
    BY <2>1, <2>6 DEF Parented, LooksUp
  <2>8. DepthsOf(b, r, K)
    <3>1. Gives(x) = 0 /\ Into(x) = "hash" /\ Base(x, k) = k
      BY <2>1 DEF Gives, Into, Base
    <3>2. k \in Nat /\ k >= 1 /\ Len(r) + 1 - k = 1
      BY <1>7
    <3>3. r[Len(r) + 1 - k].is = "hash"
      BY <1>7, <3>2
    <3> HIDE DEF r
    <3>4. \A i \in 1 .. Len(b) + 1 : K[i] = k
      BY <2>2, <2>4
    <3>5. \A i \in 1 .. Len(b) : b[i] = x /\ K[i] = k /\ K[i + 1] = k /\ i = 1
      BY <2>2, <2>4
    <3> HIDE DEF k
    <3>6. K[1] = k /\ \A i \in 1 .. Len(b) + 1 : K[i] \in Int
      BY <2>4, <3>2, <3>4
    <3>7. \A i \in 1 .. Len(b) : K[i + 1] = K[i] + Gives(b[i])
      BY <3>1, <3>2, <3>5
    <3>8. ASSUME NEW j \in 1 .. Len(b)
          PROVE  /\ Base(b[j], K[j]) >= 1
                 /\ \A i \in 1 .. j : Base(b[j], K[j]) <= K[i]
                 /\ r[Len(r) + 1 - Base(b[j], K[j])].is = Into(b[j])
      <4>1. b[j] = x /\ K[j] = k /\ j = 1
        BY <3>5
      <4>2. Base(b[j], K[j]) = k
        BY <3>1, <4>1
      <4>3. \A i \in 1 .. j : K[i] = k
        BY <2>4, <4>1
      <4> QED BY <3>1, <3>2, <3>3, <4>1, <4>2, <4>3
    <3> QED BY <3>6, <3>7, <3>8 DEF DepthsOf, k
  <2>9. K[Len(b) + 1] = Len(r) /\ \A i \in 1 .. Len(b) + 1 : Len(r) <= K[i]
    BY <1>7, <2>2, <2>4
  <2>10. \A i \in 1 .. Len(b) : IsCall(setup, packs, b[i]) /\ b[i].do # "order"
                                /\ (b[i].do \in {"type", "struct", "member"} => b[i].want = order)
    BY <2>1, <2>5, <2>6
  <2>11. StackInv' /\ ResultsInv'
    BY <1>10, <2>2, <2>3, <2>7, <2>8, <2>9, <2>10
  <2> QED BY <1>1, <1>2, <1>8, <1>11, <2>11 DEF IInv, Unpacking
<1>12. CASE todo' = Tail(todo) /\ parent' = parent
  <2>1. StackInv'
    BY <1>1, <1>9, <1>12, StackPop
  <2>2. Filled(todo', r)
    BY <1>1, <1>6, <1>7, <1>12, DepthsSame
  <2>3. ResultsInv'
    BY <1>1, <2>2 DEF IInv, ResultsInv, Unpacking
  <2> QED BY <1>1, <1>2, <1>8, <1>12, <2>1, <2>3 DEF IInv, Unpacking
<1>13. CASE /\ ~c.m.inlined /\ d.id \notin DOMAIN h.keys
            /\ parent' = h /\ todo' = <<y, z>> \o Tail(todo)
  <2> DEFINE b == <<y, z>>
             k == Len(r)
             K == [i \in 1 .. 3 |-> IF i = 2 THEN k + 1 ELSE k]
  <2>1. /\ y.do = "type" /\ y.type = c.m.type /\ y.decl = c.m.decl /\ y.level = 0
        /\ y.bits = c.m.decl.bits /\ y.at = c.at + c.m.decl.offset /\ y.sv = Undef /\ y.want = order
        /\ z.do = "store"
    BY <1>3 DEF Type, StoreKey
  <2>2. IsSeq(b) /\ Len(b) = 2 /\ b[1] = y /\ b[2] = z
    BY PairFacts
  <2>3. todo' = b \o Tail(todo)
    BY <1>13
  <2>4. K[1] = k /\ K[2] = k + 1 /\ K[3] = k
    OBVIOUS
  <2> HIDE DEF y, z, b, K
  <2>5. IsCall(setup, packs, y) /\ IsCall(setup, packs, z)
    <3>1. c.at \in Nat /\ y.sv \in Data /\ ~c.m.inlined
      BY <1>3, <1>5, <1>13, <2>1
    <3>2. IsCall(setup, packs, z)
      BY <1>3, <2>1 DEF IsCall
    <3> HIDE DEF c
    <3>3. IsCall(setup, packs, y)
      BY <1>2, <1>3, <1>4, <2>1, <3>1, MemberCall
    <3> QED BY <3>2, <3>3
  <2>6. \A i \in 1 .. Len(b) : (i = 1 /\ b[i] = y) \/ (i = 2 /\ b[i] = z)
    BY <2>2
  <2>7. Parented(setup, b, parent')
    <3>1. Fits(y, parent')
      BY <1>7, <1>13, <2>1 DEF Fits, Under
    <3> QED BY <2>1, <2>6, <3>1 DEF Parented, LooksUp
  <2>8. DepthsOf(b, r, K)
    <3>1. /\ Gives(y) = 1 /\ ~Fills(y) /\ Gives(z) = -1 /\ Into(z) = "hash"
          /\ Base(z, k + 1) = (k + 1) - 1
      BY <2>1 DEF Gives, Fills, Into, Base
    <3>2. k \in Nat /\ k >= 1 /\ Len(r) + 1 - k = 1 /\ (k + 1) - 1 = k
      BY <1>7
    <3>3. r[Len(r) + 1 - k].is = "hash"
      BY <1>7, <3>2
    <3>4. \A i \in 1 .. Len(b) + 1 : i = 1 \/ i = 2 \/ i = 3
      BY <2>2
    <3> HIDE DEF k, r
    <3>5. K[1] = k /\ \A i \in 1 .. Len(b) + 1 : K[i] \in Int
      BY <2>4, <3>2, <3>4
    <3>6. ASSUME NEW i \in 1 .. Len(b) PROVE K[i + 1] = K[i] + Gives(b[i])
      <4>1. CASE i = 1 /\ b[i] = y
        <5>1. i + 1 = 2
          BY <4>1
        <5> QED BY <2>4, <3>1, <3>2, <4>1, <5>1
      <4>2. CASE i = 2 /\ b[i] = z
        <5>1. i + 1 = 3
          BY <4>2
        <5> QED BY <2>4, <3>1, <3>2, <4>2, <5>1
      <4> QED BY <2>6, <4>1, <4>2
    <3>7. ASSUME NEW j \in 1 .. Len(b), Fills(b[j])
          PROVE  /\ Base(b[j], K[j]) >= 1
                 /\ \A i \in 1 .. j : Base(b[j], K[j]) <= K[i]
                 /\ r[Len(r) + 1 - Base(b[j], K[j])].is = Into(b[j])
      <4>1. j = 2 /\ b[j] = z
        BY <2>6, <3>1, <3>7
      <4>2. K[j] = k + 1 /\ Base(b[j], K[j]) = k
        BY <2>4, <3>1, <3>2, <4>1
      <4>3. \A i \in 1 .. j : k <= K[i]
        <5>1. \A i \in 1 .. j : i = 1 \/ i = 2
          BY <4>1
        <5> QED BY <2>4, <3>2, <5>1
      <4> QED BY <3>1, <3>2, <3>3, <4>1, <4>2, <4>3
    <3> QED BY <3>5, <3>6, <3>7 DEF DepthsOf, k
  <2>9. K[Len(b) + 1] = Len(r) /\ \A i \in 1 .. Len(b) + 1 : Len(r) <= K[i]
    <3>1. \A i \in 1 .. Len(b) + 1 : i = 1 \/ i = 2 \/ i = 3
      BY <2>2
    <3> QED BY <1>7, <2>2, <2>4, <3>1
  <2>10. \A i \in 1 .. Len(b) : IsCall(setup, packs, b[i]) /\ b[i].do # "order"
                                /\ (b[i].do \in {"type", "struct", "member"} => b[i].want = order)
    BY <2>1, <2>5, <2>6
  <2>11. StackInv' /\ ResultsInv'
    BY <1>10, <2>2, <2>3, <2>7, <2>8, <2>9, <2>10
  <2>12. IsResult(parent') /\ parent'.is = "hash"
    BY <1>7, <1>13
  <2> QED BY <1>1, <1>2, <1>8, <2>11, <2>12 DEF IInv, Unpacking
<1> QED BY <1>1, <1>11, <1>12, <1>13

-----------------------------------------------------------------------------
(* The methods.                                                            *)

\* The call for the type of the method.
LEMMA TopFacts ==
  ASSUME setup \in Setups, NEW packs, NEW at \in Nat, packs => at = 0, NEW sv \in Data,
         NEW c, c = Top(at, sv)
  PROVE  IsCall(setup, packs, c) /\ c.do = "type" /\ c.want = setup.order /\ ~LooksUp(setup, c)
<1>0. Memory \in Nat
  BY MachineFacts
<1>1. /\ c.do = "type" /\ c.type = setup.top.type /\ c.decl = setup.top.decl
      /\ c.level = setup.top.level /\ c.bits = NoBits /\ c.at = at /\ c.sv = sv
      /\ c.want = setup.order
  BY DEF Top, Type
<1>2. /\ IsDeclared(setup, c.type, c.decl) /\ c.level \in 0 .. Len(c.decl.dims)
      /\ Extent(setup, c.type, c.decl, c.level, c.bits) <= Memory
  BY <1>1, SetupFacts
<1>3. IsBits(setup, c.type, c.decl, c.bits)
  <2>1. c.bits.bits = 0 /\ c.bits.pos = 0 /\ c.bits.size = 0
    BY <1>1 DEF NoBits
  <2> QED BY <1>0, <2>1 DEF IsBits
<1> DEFINE e == Extent(setup, c.type, c.decl, c.level, c.bits)
<1>4. e \in Nat
  <2> DEFINE no == FALSE
  <2>1. IsTypeCall(setup, no, c)
    BY <1>1, <1>2, <1>3 DEF IsTypeCall
  <2> HIDE DEF no
  <2> QED BY <2>1, TypeCallFacts
<1>5. packs => c.at + e <= Memory
  <2>1. e <= Memory
    BY <1>2
  <2> HIDE DEF e
  <2> QED BY <1>0, <1>1, <1>4, <2>1
<1>6. IsTypeCall(setup, packs, c)
  BY <1>1, <1>2, <1>3, <1>5 DEF IsTypeCall
<1>7. IsCall(setup, packs, c) /\ ~LooksUp(setup, c)
  BY <1>1, <1>6 DEF IsCall, LooksUp
<1> QED BY <1>1, <1>7

\* A stack of one call that is for the type of the method.
LEMMA OneCall ==
  ASSUME NEW st, NEW packs, NEW c, IsCall(st, packs, c), c.do = "type", ~LooksUp(st, c),
         NEW s, s = <<c>>, NEW r, r = << >>, NEW p
  PROVE  AreCalls(st, packs, s) /\ Scoped(s, c.want) /\ Parented(st, s, p) /\ Filled(s, r)
<1>1. IsSeq(s) /\ Len(s) = 1 /\ s[1] = c
  BY SingleFacts
<1>2. \A i \in 1 .. Len(s) : i = 1 /\ s[i] = c
  BY <1>1
<1>3. AreCalls(st, packs, s) /\ Parented(st, s, p)
  BY <1>1, <1>2 DEF AreCalls, Parented
<1>4. Scoped(s, c.want)
  <2> DEFINE w == c.want
             O == [i \in 1 .. 2 |-> w]
  <2>1. O[1] = w /\ O[2] = w
    OBVIOUS
  <2> HIDE DEF O, w
  <2>2. ASSUME NEW i \in 1 .. Len(s)
        PROVE  /\ O[i + 1] = IF s[i].do = "order" THEN s[i].order ELSE O[i]
               /\ s[i].do \in {"type", "struct", "member"} => s[i].want = O[i]
    <3>1. i = 1 /\ s[i] = c /\ i + 1 = 2
      BY <1>2
    <3> QED BY <2>1, <3>1 DEF w
  <2>3. OrdersOf(s, w, O)
    BY <2>1, <2>2 DEF OrdersOf
  <2> QED BY <2>3 DEF Scoped, w
<1>5. Filled(s, r)
  <2> DEFINE K == [i \in 1 .. 2 |-> i - 1]
  <2>1. K[1] = 0 /\ K[2] = 1
    OBVIOUS
  <2> HIDE DEF K
  <2>2. Len(r) = 0 /\ Gives(c) = 1 /\ ~Fills(c)
    BY EmptyFacts DEF Gives, Fills
  <2>3. \A i \in 1 .. Len(s) + 1 : K[i] \in Int
    BY <1>1, <2>1
  <2>4. ASSUME NEW i \in 1 .. Len(s) PROVE K[i + 1] = K[i] + Gives(s[i]) /\ ~Fills(s[i])
    <3>1. i = 1 /\ s[i] = c /\ i + 1 = 2
      BY <1>2
    <3> QED BY <2>1, <2>2, <3>1
  <2>5. DepthsOf(s, r, K)
    BY <2>1, <2>2, <2>3, <2>4 DEF DepthsOf
  <2> QED BY <2>5 DEF Filled
<1> QED BY <1>3, <1>4, <1>5

\* The string that is given is long enough for the type.
LEMMA GivenFacts ==
  ASSUME setup \in Setups
  PROVE  Given \in Seq(Octets) /\ Len(Given) <= Memory /\ setup.size <= Len(Given)
<1> DEFINE g == setup.given
           size == setup.size
           n == Max({0, size - Len(g)})
           z == Zeros(n)
<1>0. Memory \in Nat
  BY MachineFacts
<1>1. g \in Seq(Octets) /\ Len(g) <= Memory /\ size \in 0 .. Memory
  BY SetupFacts
<1>2. Given = g \o z
  BY DEF Given
<1> HIDE DEF g, size
<1>3. Len(g) \in Nat
  BY <1>1
<1>4. n \in {0, size - Len(g)} /\ n >= 0 /\ n >= size - Len(g)
  <2> DEFINE a == 0
             b == size - Len(g)
  <2>1. a \in Int /\ b \in Int
    BY <1>1, <1>3
  <2>2. n = Max({a, b})
    OBVIOUS
  <2> HIDE DEF n, a, b
  <2>3. n \in {a, b} /\ n >= a /\ n >= b
    BY <2>1, <2>2, MaxFacts
  <2> QED BY <2>3 DEF a, b
<1>5. n \in Nat
  BY <1>1, <1>3, <1>4
<1>6. z \in Seq(Octets) /\ Len(z) = n
  <2> HIDE DEF n
  <2> QED BY <1>5, ZerosFacts
<1> HIDE DEF n, z
<1>7. g \o z \in Seq(Octets) /\ Len(g \o z) = Len(g) + Len(z)
  BY <1>1, <1>6, ConcatProperties
<1> QED BY <1>0, <1>1, <1>2, <1>3, <1>4, <1>5, <1>6, <1>7 DEF size

\* The first call of unpack is such a state,
LEMMA InitHolds ==
  ASSUME Init
  PROVE  IInv
<1> DEFINE c == Top(0, Undef)
           packs == mode = "pack"
<1>1. /\ setup \in Setups /\ mode = "before" /\ string = Given /\ len = Len(Given)
      /\ todo = <<c>> /\ order = setup.order /\ results = << >> /\ parent = Undef /\ reach = 0
  BY DEF Init
<1>2. Undef \in Data /\ Undef.is = "undef" /\ setup.order \in Orders
  BY <1>1, DataAssumption, SetupFacts DEF Undef
<1>3. IsCall(setup, packs, c) /\ c.do = "type" /\ c.want = setup.order /\ ~LooksUp(setup, c)
  <2> DEFINE z == 0
  <2>1. z \in Nat /\ ~packs /\ c = Top(z, Undef)
    BY <1>1
  <2> HIDE DEF z, c, packs
  <2> QED BY <1>1, <1>2, <2>1, TopFacts
<1> HIDE DEF c
<1>4. StackInv
  BY <1>1, <1>3, OneCall DEF StackInv
<1>5. ResultsInv
  <2>1. Filled(todo, results)
    BY <1>1, <1>3, OneCall
  <2>2. IsSeq(results) /\ Len(results) = 0
    BY <1>1, EmptyFacts
  <2> QED BY <1>1, <2>1, <2>2 DEF ResultsInv
<1>6. BufferInv
  <2>1. string \in Seq(Octets) /\ Len(string) <= Memory /\ setup.size <= Len(string) /\ len = Len(string)
    BY <1>1, GivenFacts
  <2>2. Len(string) \in Nat
    BY <2>1
  <2> QED BY <1>1, <2>1, <2>2 DEF BufferInv, Buffered
<1>7. IsResult(parent)
  BY <1>1, ResultFacts
<1> QED BY <1>1, <1>2, <1>4, <1>5, <1>6, <1>7 DEF IInv

\* No dimension of the type of the call is looked up.
LEMMA InitParent ==
  ASSUME Init
  PROVE  ParentInv
<1>1. IInv
  BY InitHolds
<1>2. parent.is # "hash"
  BY DEF Init, Undef
<1>3. todo # << >> => 1 \in 1 .. Len(todo)
  BY <1>1, HeadFacts
<1>4. Parented(setup, todo, parent)
  BY <1>1 DEF IInv, StackInv
<1> QED BY <1>2, <1>3, <1>4 DEF ParentInv, Parented, Fits

\* and that of pack.
LEMMA BeginPackKeeps ==
  ASSUME IInv, BeginPack
  PROVE  IInv'
<1> DEFINE c == Top(0, setup.data)
           packs == mode' = "pack"
<1>1. /\ mode = "before" /\ mode' = "pack" /\ results' = << >> /\ len' = setup.size /\ reach' = 0
      /\ todo' = <<c>> /\ order' = setup.order /\ parent' = Undef
      /\ UNCHANGED <<setup, string>>
  BY DEF BeginPack
<1>2. setup \in Setups
  BY DEF IInv
<1>3. /\ Undef \in Data /\ Undef.is = "undef" /\ setup.order \in Orders /\ setup.data \in Data
      /\ setup.size \in Nat
  <2>1. Memory \in Nat
    BY MachineFacts
  <2> QED BY <1>2, <2>1, DataAssumption, SetupFacts DEF Undef
<1>4. IsCall(setup, packs, c) /\ c.do = "type" /\ c.want = setup.order /\ ~LooksUp(setup, c)
  <2> DEFINE z == 0
             v == setup.data
  <2>1. z \in Nat /\ v \in Data /\ (packs => z = 0) /\ c = Top(z, v)
    BY <1>3
  <2> HIDE DEF z, v, c, packs
  <2> QED BY <1>2, <2>1, TopFacts
<1> HIDE DEF c
<1>5. StackInv'
  <2>1. AreCalls(setup, packs, todo') /\ Scoped(todo', c.want) /\ Parented(setup, todo', parent')
    BY <1>1, <1>4, OneCall
  <2> QED BY <1>1, <1>4, <2>1 DEF StackInv
<1>6. ResultsInv'
  <2>1. IsSeq(results') /\ Len(results') = 0
    BY <1>1, EmptyFacts
  <2>2. \A i \in 1 .. Len(results') : IsResult(results'[i])
    BY <2>1
  <2> QED BY <1>1, <2>1, <2>2 DEF ResultsInv, Unpacking
<1>7. BufferInv'
  <2>1. Buffered /\ setup.size <= Len(string)
    BY <1>1 DEF IInv, BufferInv
  <2> QED BY <1>1, <1>3, <2>1 DEF BufferInv, Buffered
<1>8. IsResult(parent')
  BY <1>1, ResultFacts
<1> QED BY <1>1, <1>2, <1>3, <1>5, <1>6, <1>7, <1>8 DEF IInv

\* The calls of unpack in list context, each with the order that is set for it.
LEMMA ListCalls ==
  ASSUME setup \in Setups, NEW packs, ~packs, NEW n \in Nat, NEW size \in Nat, NEW s,
         s = FlattenSeq([i \in 1 .. n |-> <<SetOrder(setup.order), Top((i - 1) * size, Undef)>>]),
         NEW o, NEW p, NEW r, r = << >>
  PROVE  AreCalls(setup, packs, s) /\ Scoped(s, o) /\ Parented(setup, s, p) /\ Filled(s, r)
<1> DEFINE w == setup.order
           x == SetOrder(w)
           c(i) == Top((i - 1) * size, Undef)
           f == [i \in 1 .. n |-> <<x, c(i)>>]
<1>1. x.do = "order" /\ x.order = w /\ w \in Orders
  BY SetupFacts DEF SetOrder
<1>2. Undef \in Data
  BY DataAssumption
<1>3. ASSUME NEW i \in 1 .. n
      PROVE  IsCall(setup, packs, c(i)) /\ c(i).do = "type" /\ c(i).want = w /\ ~LooksUp(setup, c(i))
  <2> DEFINE e == c(i)
             at == (i - 1) * size
  <2>1. at \in Nat
    BY PartFacts
  <2>2. e = Top(at, Undef)
    OBVIOUS
  <2> HIDE DEF e, at
  <2>3. IsCall(setup, packs, e) /\ e.do = "type" /\ e.want = setup.order /\ ~LooksUp(setup, e)
    BY <1>2, <2>1, <2>2, TopFacts
  <2> QED BY <2>3 DEF e
<1> HIDE DEF c, x
<1>4. ASSUME NEW i \in 1 .. n PROVE IsSeq(f[i]) /\ Len(f[i]) = 2 /\ f[i][1] = x /\ f[i][2] = c(i)
  <2>1. f[i] = <<x, c(i)>>
    OBVIOUS
  <2> HIDE DEF f
  <2> QED BY <2>1, PairFacts
<1>5. f = [i \in 1 .. n |-> f[i]] /\ s = FlattenSeq(f)
  BY DEF c, x
<1> HIDE DEF f
<1>6. IsSeq(f) /\ Len(f) = n
  BY <1>5, SeqFacts
<1>7. /\ IsSeq(s) /\ Len(s) = 2 * n
      /\ \A i \in 1 .. n : s[2 * i - 1] = f[i][1] /\ s[2 * i] = f[i][2]
  <2>1. \A i \in 1 .. n : IsSeq(f[i]) /\ Len(f[i]) = 2
    BY <1>4
  <2>2. /\ IsSeq(FlattenSeq(f)) /\ Len(FlattenSeq(f)) = 2 * n
        /\ \A i \in 1 .. n : FlattenSeq(f)[2 * i - 1] = f[i][1] /\ FlattenSeq(f)[2 * i] = f[i][2]
    BY <1>6, <2>1, FlattenPairs
  <2>3. s = FlattenSeq(f)
    BY <1>5
  <2> QED BY <2>2, <2>3
<1>8. ASSUME NEW j \in 1 .. 2 * n
      PROVE  \E i \in 1 .. n : \/ j = 2 * i - 1 /\ s[j] = x
                               \/ j = 2 * i /\ s[j] = c(i)
  <2>1. PICK i \in 1 .. n : j = 2 * i - 1 \/ j = 2 * i
    BY ParityFacts
  <2>2. s[2 * i - 1] = x /\ s[2 * i] = c(i)
    BY <1>4, <1>7
  <2> QED BY <2>1, <2>2
<1>9. AreCalls(setup, packs, s) /\ Parented(setup, s, p)
  <2>1. IsCall(setup, packs, x) /\ ~LooksUp(setup, x)
    BY <1>1 DEF IsCall, LooksUp
  <2>2. ASSUME NEW j \in 1 .. Len(s) PROVE IsCall(setup, packs, s[j]) /\ ~LooksUp(setup, s[j])
    <3>1. j \in 1 .. 2 * n
      BY <1>7
    <3>2. s[j] = x \/ \E i \in 1 .. n : s[j] = c(i)
      BY <1>8, <3>1
    <3> QED BY <1>3, <2>1, <3>2
  <2> QED BY <1>7, <2>2 DEF AreCalls, Parented
<1>10. Scoped(s, o)
  <2> DEFINE O == [j \in 1 .. 2 * n + 1 |-> IF j = 1 THEN o ELSE w]
  <2>1. O[1] = o /\ \A j \in 1 .. 2 * n + 1 : j # 1 => O[j] = w
    OBVIOUS
  <2> HIDE DEF O, w
  <2>2. ASSUME NEW j \in 1 .. Len(s)
        PROVE  /\ O[j + 1] = IF s[j].do = "order" THEN s[j].order ELSE O[j]
               /\ s[j].do \in {"type", "struct", "member"} => s[j].want = O[j]
    <3>1. j \in 1 .. 2 * n /\ j + 1 \in 1 .. 2 * n + 1 /\ j + 1 # 1
      BY <1>7
    <3>2. PICK i \in 1 .. n : \/ j = 2 * i - 1 /\ s[j] = x
                              \/ j = 2 * i /\ s[j] = c(i)
      BY <1>8, <3>1
    <3>3. O[j + 1] = w
      BY <2>1, <3>1
    <3>4. CASE j = 2 * i - 1 /\ s[j] = x
      BY <1>1, <3>3, <3>4
    <3>5. CASE j = 2 * i /\ s[j] = c(i)
      <4>1. j # 1 /\ j \in 1 .. 2 * n + 1
        BY <3>5
      <4>2. O[j] = w /\ s[j].do = "type" /\ s[j].want = w
        BY <1>3, <2>1, <3>5, <4>1
      <4> QED BY <3>3, <4>2
    <3> QED BY <3>2, <3>4, <3>5
  <2>3. OrdersOf(s, o, O)
    BY <2>1, <2>2 DEF OrdersOf
  <2> QED BY <2>3 DEF Scoped
<1>11. Filled(s, r)
  <2> DEFINE K == [j \in 1 .. 2 * n + 1 |-> (j - 1) \div 2]
  <2>1. \A j \in 1 .. 2 * n + 1 : K[j] = (j - 1) \div 2
    OBVIOUS
  <2> HIDE DEF K
  <2>2. ASSUME NEW i \in 1 .. n PROVE K[2 * i - 1] = i - 1 /\ K[2 * i] = i - 1 /\ K[2 * i + 1] = i
    <3>1. /\ 2 * i - 1 \in 1 .. 2 * n + 1 /\ 2 * i \in 1 .. 2 * n + 1 /\ 2 * i + 1 \in 1 .. 2 * n + 1
          /\ ((2 * i - 1) - 1) \div 2 = i - 1 /\ (2 * i - 1) \div 2 = i - 1 /\ ((2 * i + 1) - 1) \div 2 = i
      OBVIOUS
    <3> QED BY <2>1, <3>1
  <2>3. K[1] = 0
    <3>1. 1 \in 1 .. 2 * n + 1 /\ (1 - 1) \div 2 = 0
      OBVIOUS
    <3> QED BY <2>1, <3>1
  <2>4. Len(r) = 0 /\ Gives(x) = 0 /\ ~Fills(x)
    BY <1>1, EmptyFacts DEF Gives, Fills
  <2>5. \A i \in 1 .. n : Gives(c(i)) = 1 /\ ~Fills(c(i))
    BY <1>3 DEF Gives, Fills
  <2>6. \A j \in 1 .. Len(s) + 1 : K[j] \in Int
    <3>1. ASSUME NEW j \in 1 .. 2 * n + 1 PROVE K[j] \in Int
      BY <2>1
    <3> QED BY <1>7, <3>1
  <2>7. ASSUME NEW j \in 1 .. Len(s) PROVE K[j + 1] = K[j] + Gives(s[j]) /\ ~Fills(s[j])
    <3>1. j \in 1 .. 2 * n
      BY <1>7
    <3>2. PICK i \in 1 .. n : \/ j = 2 * i - 1 /\ s[j] = x
                              \/ j = 2 * i /\ s[j] = c(i)
      BY <1>8, <3>1
    <3>3. K[2 * i - 1] = i - 1 /\ K[2 * i] = i - 1 /\ K[2 * i + 1] = i
      BY <2>2
    <3>4. CASE j = 2 * i - 1 /\ s[j] = x
      <4>1. j + 1 = 2 * i
        BY <3>4
      <4> QED BY <2>4, <3>3, <3>4, <4>1
    <3>5. CASE j = 2 * i /\ s[j] = c(i)
      <4>1. j + 1 = 2 * i + 1 /\ Gives(s[j]) = 1 /\ ~Fills(s[j])
        BY <2>5, <3>5
      <4> QED BY <3>3, <3>5, <4>1
    <3> QED BY <3>2, <3>4, <3>5
  <2>8. DepthsOf(s, r, K)
    BY <2>3, <2>4, <2>6, <2>7 DEF DepthsOf
  <2> QED BY <2>8 DEF Filled
<1> QED BY <1>9, <1>10, <1>11

\* The first calls of the last unpack are such a state too.
LEMMA BeginUnpackKeeps ==
  ASSUME IInv, NEW k \in 0 .. Len(string), NEW scalar \in BOOLEAN, BeginUnpack(k, scalar)
  PROVE  IInv'
<1> DEFINE n     == IF scalar \/ setup.size = 0 THEN 1 ELSE k \div setup.size
           packs == mode' = "pack"
<1>1. /\ mode = "pack" /\ mode' = "after" /\ string' = SubSeq(string, 1, k) /\ len' = k
      /\ reach' = 0 /\ parent' = Undef /\ UNCHANGED <<setup, results, order>>
  BY DEF BeginUnpack
<1>2. todo' = FlattenSeq([i \in 1 .. n |->
                <<SetOrder(setup.order), Top((i - 1) * setup.size, Undef)>>])
  BY DEF BeginUnpack
<1>3. setup \in Setups /\ order \in Orders /\ Memory \in Nat
  BY MachineFacts DEF IInv
<1>4. setup.size \in Nat
  BY <1>3, SetupFacts
<1>5. Buffered /\ k \in Nat /\ k <= Len(string) /\ string \in Seq(Octets) /\ Len(string) <= Memory
  <2>1. Buffered
    BY DEF IInv, BufferInv
  <2>2. string \in Seq(Octets) /\ Len(string) <= Memory
    BY <2>1 DEF Buffered
  <2>3. Len(string) \in Nat
    BY <2>2
  <2> QED BY <2>1, <2>2, <2>3
<1>6. n \in Nat
  <2>1. CASE scalar \/ setup.size = 0
    BY <2>1
  <2>2. CASE ~(scalar \/ setup.size = 0)
    <3> DEFINE size == setup.size
    <3>1. size \in Nat \ {0}
      BY <1>4, <2>2
    <3>2. n = k \div size
      BY <2>2
    <3> HIDE DEF size, n
    <3> QED BY <1>5, <3>1, <3>2, RoundFacts
  <2> QED BY <2>1, <2>2
<1>7. results = << >> /\ ~packs
  BY <1>1 DEF IInv, ResultsInv
<1> HIDE DEF n, packs
<1>8. AreCalls(setup, packs, todo') /\ Scoped(todo', order) /\ Parented(setup, todo', parent')
      /\ Filled(todo', results)
  <2> DEFINE size == setup.size
             s == todo'
  <2>1. size \in Nat
        /\ s = FlattenSeq([i \in 1 .. n |-> <<SetOrder(setup.order), Top((i - 1) * size, Undef)>>])
    BY <1>2, <1>4
  <2> HIDE DEF size, s
  <2>2. AreCalls(setup, packs, s) /\ Scoped(s, order) /\ Parented(setup, s, parent')
        /\ Filled(s, results)
    BY <1>3, <1>6, <1>7, <2>1, ListCalls
  <2> QED BY <2>2 DEF s
<1>9. StackInv'
  BY <1>1, <1>8 DEF StackInv, packs
<1>10. ResultsInv'
  <2>1. IsSeq(results') /\ Len(results') = 0
    BY <1>1, <1>7, EmptyFacts
  <2> QED BY <1>1, <1>8, <2>1 DEF ResultsInv
<1>11. BufferInv'
  <2>1. SubSeq(string, 1, k) \in Seq(Octets) /\ Len(SubSeq(string, 1, k)) = k
    BY <1>5
  <2>2. k <= Memory
    BY <1>3, <1>5
  <2> QED BY <1>1, <1>5, <2>1, <2>2 DEF BufferInv, Buffered
<1>12. IsResult(parent') /\ parent'.is = "undef"
  BY <1>1, ResultFacts DEF Undef
<1> QED BY <1>1, <1>3, <1>9, <1>10, <1>11, <1>12 DEF IInv

\* Where the last unpack ends there are no calls.
LEMMA EndUnpackKeeps ==
  ASSUME IInv, EndUnpack
  PROVE  IInv'
<1>1. /\ mode = "after" /\ mode' = "done"
      /\ UNCHANGED <<setup, todo, results, string, len, order, parent, reach>>
  BY DEF EndUnpack
<1>2. (mode = "pack") = (mode' = "pack")
  BY <1>1
<1>3. StackInv'
  BY <1>1, <1>2 DEF IInv, StackInv
<1>4. ResultsInv'
  BY <1>1 DEF IInv, ResultsInv, Unpacking
<1>5. BufferInv'
  BY <1>1 DEF IInv, BufferInv, Buffered
<1> QED BY <1>1, <1>3, <1>4, <1>5 DEF IInv

\* So does a step that changes nothing.
LEMMA StutterKeeps ==
  ASSUME IInv, UNCHANGED vars
  PROVE  IInv'
<1>1. UNCHANGED <<setup, mode, todo, results, string, len, order, parent, reach>>
  BY DEF vars
<1> QED BY <1>1 DEF IInv, StackInv, ResultsInv, BufferInv, Buffered, Unpacking

-----------------------------------------------------------------------------
(* The theorems.                                                           *)

\* The invariant is inductive, up to where the process does not survive: one lemma
\* for each action.
LEMMA NextKeeps ==
  ASSUME IInv, [Next]_vars
  PROVE  IInv' \/ Overran'
<1>1. CASE Follow
  BY <1>1, FollowKeeps
<1>2. CASE SkipUndefined
  BY <1>2, SkipUndefinedKeeps
<1>3. CASE RestoreOrder
  BY <1>3, RestoreOrderKeeps
<1>4. CASE PackFormatTag
  BY <1>4, PackFormatTagKeeps
<1>5. CASE PackLeaf
  BY <1>5, PackLeafKeeps
<1>6. CASE PackArray
  BY <1>6, PackArrayKeeps
<1>7. CASE PackNoArray
  BY <1>7, PackNoArrayKeeps
<1>8. CASE PackStruct
  BY <1>8, PackStructKeeps
<1>9. CASE PackParent
  BY <1>9, PackParentKeeps
<1>10. CASE UnpackFormatTag
  BY <1>10, UnpackFormatTagKeeps
<1>11. CASE UnpackLeaf
  BY <1>11, UnpackLeafKeeps
<1>12. CASE UnpackArray
  BY <1>12, UnpackArrayKeeps
<1>13. CASE UnpackAppend
  BY <1>13, UnpackAppendKeeps
<1>14. CASE UnpackStruct
  BY <1>14, UnpackStructKeeps
<1>15. CASE UnpackMember
  BY <1>15, UnpackMemberKeeps
<1>16. CASE UnpackStore
  BY <1>16, UnpackStoreKeeps
<1>17. CASE BeginPack
  BY <1>17, BeginPackKeeps
<1>18. CASE \E k \in 0 .. Len(string), scalar \in BOOLEAN : BeginUnpack(k, scalar)
  BY <1>18, BeginUnpackKeeps
<1>19. CASE EndUnpack
  BY <1>19, EndUnpackKeeps
<1>20. CASE UNCHANGED vars
  BY <1>20, StutterKeeps
<1> QED BY <1>1, <1>2, <1>3, <1>4, <1>5, <1>6, <1>7, <1>8, <1>9, <1>10, <1>11, <1>12, <1>13, <1>14,
           <1>15, <1>16, <1>17, <1>18, <1>19, <1>20 DEF Next

\* Nothing follows then: the call that runs is one for an array.
LEMMA OverranStays ==
  ASSUME Overran, [Next]_vars
  PROVE  Overran'
<1>1. /\ mode = "pack overran" /\ Running("type") /\ IsArray(Head(todo))
      /\ Head(todo).do = "type"
  BY DEF Overran, Running
<1>2. ~Unpacking /\ mode \notin {"before", "pack", "after"}
  BY <1>1 DEF Unpacking
<1>3. ~Follow /\ ~SkipUndefined /\ ~RestoreOrder
  BY <1>1 DEF Follow, SkipUndefined, RestoreOrder, Running, IsScalar
<1>4. ~PackFormatTag /\ ~PackLeaf /\ ~PackArray /\ ~PackNoArray /\ ~PackStruct /\ ~PackParent
  BY <1>2 DEF PackFormatTag, PackLeaf, PackArray, PackNoArray, PackStruct, PackParent, Packs
<1>5. /\ ~UnpackFormatTag /\ ~UnpackLeaf /\ ~UnpackArray /\ ~UnpackAppend
      /\ ~UnpackStruct /\ ~UnpackMember /\ ~UnpackStore
  BY <1>2 DEF UnpackFormatTag, UnpackLeaf, UnpackArray, UnpackAppend, UnpackStruct,
              UnpackMember, UnpackStore, Unpacks
<1>6. ~BeginPack /\ ~EndUnpack /\ \A k, scalar : ~BeginUnpack(k, scalar)
  BY <1>2 DEF BeginPack, EndUnpack, BeginUnpack
<1>7. UNCHANGED vars
  BY <1>3, <1>4, <1>5, <1>6 DEF Next
<1> QED BY <1>7 DEF vars, Overran, Running, IsArray, IsFormat, FromMember

\* pack goes over to unpack only where it is called.
LEMMA ModeFacts ==
  ASSUME mode = "pack", [Next]_vars, mode' \in {"before", "after"}
  PROVE  mode' = "after" /\ \E k \in 0 .. Len(string), scalar \in BOOLEAN : BeginUnpack(k, scalar)
<1>0. ~Unpacking
  BY DEF Unpacking
<1>2. OutOfMemory => mode' = "pack died"
  BY <1>0 DEF OutOfMemory
<1>3. ASSUME NEW at, NEW size, Fail(at, size) PROVE mode' \in {"pack died", "pack overran"}
  BY <1>2, <1>3 DEF Fail, Overrun
<1>4. ASSUME NEW format, NEW size, NEW flexible, NEW at, NEW sv,
             PackFormat(format, size, flexible, at, sv)
      PROVE  mode' \in {"pack", "pack died", "pack overran"}
  BY <1>3, <1>4 DEF PackFormat
<1>5. ~Follow /\ ~SkipUndefined /\ ~RestoreOrder /\ ~PackParent
  BY DEF Follow, SkipUndefined, RestoreOrder, PackParent
<1>6. ~PackFormatTag
  BY <1>4 DEF PackFormatTag
<1>7. ~PackLeaf
  BY <1>3 DEF PackLeaf
<1>8. ~PackArray
  BY <1>3 DEF PackArray
<1>9. ~PackNoArray
  BY <1>3 DEF PackNoArray
<1>10. ~PackStruct
  BY <1>4 DEF PackStruct
<1>11. /\ ~UnpackFormatTag /\ ~UnpackLeaf /\ ~UnpackArray /\ ~UnpackAppend
       /\ ~UnpackStruct /\ ~UnpackMember /\ ~UnpackStore
  BY <1>0 DEF UnpackFormatTag, UnpackLeaf, UnpackArray, UnpackAppend, UnpackStruct,
              UnpackMember, UnpackStore, Unpacks
<1>12. ~BeginPack /\ ~EndUnpack /\ ~UNCHANGED vars
  BY DEF BeginPack, EndUnpack, vars
<1>13. \E k \in 0 .. Len(string), scalar \in BOOLEAN : BeginUnpack(k, scalar)
  BY <1>5, <1>6, <1>7, <1>8, <1>9, <1>10, <1>11, <1>12 DEF Next
<1> QED BY <1>13 DEF BeginUnpack

\* Where pack does not run, its functions do not.
LEMMA NotPackFacts ==
  ASSUME mode # "pack", [Next]_vars, mode' \in {"before", "after"}
  PROVE  \/ Follow \/ SkipUndefined \/ RestoreOrder
         \/ UnpackFormatTag \/ UnpackLeaf \/ UnpackArray \/ UnpackAppend
         \/ UnpackStruct \/ UnpackMember \/ UnpackStore \/ UNCHANGED vars
<1>1. ~PackFormatTag /\ ~PackLeaf /\ ~PackArray /\ ~PackNoArray /\ ~PackStruct /\ ~PackParent
  BY DEF PackFormatTag, PackLeaf, PackArray, PackNoArray, PackStruct, PackParent, Packs
<1>2. ~BeginPack /\ ~EndUnpack /\ \A k, scalar : ~BeginUnpack(k, scalar)
  BY DEF BeginPack, EndUnpack, BeginUnpack
<1> QED BY <1>1, <1>2 DEF Next

\* A turn of the loop of unpack_struct makes the hash under way the parent.
LEMMA MemberParent ==
  ASSUME IInv, UnpackMember
  PROVE  ParentInv' \/ (todo # << >> /\ todo' = Tail(todo) /\ setup' = setup)
<1> DEFINE c == Head(todo)
           d == c.m.decl
           h == Head(results)
           x == Struct(c.m.type.name, TRUE, c.at + d.offset, Undef, c.want)
           y == Type(c.m.type, d, 0, d.bits, c.at + d.offset, Undef, c.want)
           z == StoreKey(d.id)
           t == Tail(todo)
<1>1. /\ todo # << >> /\ setup' = setup /\ results' = results
      /\ \/ todo' = <<x>> \o t
         \/ todo' = t
         \/ d.id \notin DOMAIN h.keys /\ parent' = h /\ todo' = <<y, z>> \o t
  BY DEF UnpackMember, Unpacks, Running
<1>2. IsSeq(t)
  <2>1. IsSeq(todo)
    BY <1>1, HeadFacts
  <2> QED BY <1>1, <2>1, TailFacts
<1>3. x.do = "struct" /\ y.decl.id = d.id /\ z = StoreKey(d.id)
  BY DEF Struct, Type
<1> HIDE DEF x, y, z, t
<1>4. CASE todo' = <<x>> \o t
  <2> DEFINE b == <<x>>
  <2>1. IsSeq(b) /\ Len(b) = 1 /\ b[1] = x
    BY SingleFacts
  <2>2. todo' = b \o t
    BY <1>4
  <2> DEFINE s == b \o t
  <2> HIDE DEF b
  <2>3. s[1] = x
    <3>1. \A i \in 1 .. Len(b) : s[i] = b[i]
      BY <1>2, <2>1, ConcatFacts
    <3> HIDE DEF s
    <3> QED BY <2>1, <3>1
  <2>4. todo'[1] = x
    BY <2>2, <2>3
  <2> QED BY <1>3, <2>4 DEF ParentInv, LooksUp
<1>5. CASE d.id \notin DOMAIN h.keys /\ parent' = h /\ todo' = <<y, z>> \o t
  <2> DEFINE b == <<y, z>>
  <2>1. IsSeq(b) /\ Len(b) = 2 /\ b[1] = y /\ b[2] = z
    BY PairFacts
  <2>2. todo' = b \o t
    BY <1>5
  <2> DEFINE s == b \o t
  <2> HIDE DEF b
  <2>3. /\ IsSeq(s) /\ Len(t) \in Nat /\ Len(s) = Len(b) + Len(t)
        /\ \A i \in 1 .. Len(b) : s[i] = b[i]
    BY <1>2, <2>1, ConcatFacts
  <2>4. todo' = s
    BY <2>2
  <2> HIDE DEF s
  <2>5. Len(s) \in Nat /\ Len(s) >= 2 /\ s[1] = y /\ s[2] = z
    BY <2>1, <2>3
  <2>6. s # << >>
    BY <2>5, EmptyFacts
  <2>7. /\ IsSeq(Tail(s)) /\ Len(Tail(s)) = Len(s) - 1
        /\ \A i \in 1 .. Len(s) - 1 : Tail(s)[i] = s[i + 1]
    BY <2>3, <2>6, TailFacts
  <2>9. Tail(s)[1] = z
    <3>1. 1 \in 1 .. Len(s) - 1 /\ 1 + 1 = 2
      BY <2>5
    <3> QED BY <2>5, <2>7, <3>1
  <2>10. Tail(s) # << >>
    <3>1. Len(Tail(s)) # 0
      BY <2>5, <2>7
    <3> QED BY <3>1, EmptyFacts
  <2>11. Head(Tail(s)) = z
    BY <2>7, <2>9, <2>10, TailFacts
  <2>8. parent' = Head(results') /\ d.id \notin DOMAIN parent'.keys
    BY <1>1, <1>5
  <2>12. /\ parent' = Head(results') /\ todo'[1].decl.id \notin DOMAIN parent'.keys
         /\ Head(Tail(todo')) = StoreKey(todo'[1].decl.id)
    <3> HIDE DEF d, h
    <3> QED BY <1>3, <2>4, <2>5, <2>8, <2>11
  <2>13. ParentInv'
    BY <2>12 DEF ParentInv, Unpacking, LooksUp
  <2> QED BY <2>13
<1> QED BY <1>1, <1>4, <1>5 DEF t

\* The first of the results that are unpacked is the parent's hash: only the turn of
\* the loop of unpack_struct makes a call that looks into it.
LEMMA ParentKeeps ==
  ASSUME IInv, ParentInv, [Next]_vars
  PROVE  ParentInv'
<1> SUFFICES ASSUME Unpacking' PROVE ParentInv'
  BY DEF ParentInv
<1>0. mode' \in {"before", "after"}
  BY DEF Unpacking
<1>1. Quiet' => ParentInv'
  BY DEF Quiet, ParentInv
\* A call that is not one of pack leaves the stack without its head.
<1>2. ASSUME todo # << >>, mode # "pack", todo' = Tail(todo), setup' = setup
      PROVE  ParentInv'
  <2>1. IsCall(setup, mode = "pack", Head(todo))
    BY <1>2, HeadFacts
  <2>2. Head(todo).do # "parent"
    BY <1>2, <2>1 DEF IsCall
  <2> QED BY <1>1, <1>2, <2>2, PopQuiet
<1>3. CASE mode = "pack"
  <2>1. mode' = "after"
    BY <1>0, <1>3, ModeFacts
  <2>2. PICK k \in 0 .. Len(string), scalar \in BOOLEAN : BeginUnpack(k, scalar)
    BY <1>3, <2>1, ModeFacts
  <2>3. parent' = Undef /\ IInv'
    BY <2>2, BeginUnpackKeeps DEF BeginUnpack
  <2>4. Parented(setup', todo', parent')
    BY <2>3 DEF IInv, StackInv
  <2>5. IsSeq(todo')
    BY <2>3 DEF IInv, StackInv, AreCalls
  <2>6. parent'.is # "hash"
    BY <2>3 DEF Undef
  <2>7. todo' # << >> => 1 \in 1 .. Len(todo')
    BY <2>5, TailFacts
  <2>8. Quiet'
    BY <2>4, <2>6, <2>7 DEF Quiet, Parented, Fits
  <2> QED BY <1>1, <2>8
<1>4. CASE mode # "pack"
  <2>1. CASE Follow
    BY <1>1, <2>1, FollowKeeps
  <2>2. CASE SkipUndefined
    BY <1>2, <1>4, <2>2 DEF SkipUndefined, Running
  <2>3. CASE RestoreOrder
    BY <1>2, <1>4, <2>3 DEF RestoreOrder, Running
  <2>4. CASE UnpackFormatTag
    BY <1>2, <1>4, <2>4 DEF UnpackFormatTag, Unpacks, Running
  <2>5. CASE UnpackLeaf
    BY <1>2, <1>4, <2>5 DEF UnpackLeaf, Unpacks, Running
  <2>6. CASE UnpackArray
    BY <1>1, <2>6, UnpackArrayKeeps
  <2>7. CASE UnpackAppend
    BY <1>2, <1>4, <2>7 DEF UnpackAppend, Unpacks, Running
  <2>8. CASE UnpackStruct
    BY <1>1, <2>8, UnpackStructKeeps
  <2>9. CASE UnpackMember
    BY <1>1, <1>2, <1>4, <2>9, MemberParent
  <2>10. CASE UnpackStore
    BY <1>2, <1>4, <2>10 DEF UnpackStore, Unpacks, Running
  <2>11. CASE UNCHANGED vars
    BY <2>11 DEF vars, ParentInv, Unpacking
  <2>12. \/ Follow \/ SkipUndefined \/ RestoreOrder
         \/ UnpackFormatTag \/ UnpackLeaf \/ UnpackArray \/ UnpackAppend
         \/ UnpackStruct \/ UnpackMember \/ UnpackStore \/ UNCHANGED vars
    BY <1>0, <1>4, NotPackFacts
  <2> QED BY <2>1, <2>2, <2>3, <2>4, <2>5, <2>6, <2>7, <2>8, <2>9, <2>10, <2>11, <2>12
<1> QED BY <1>3, <1>4

\* It says of the buffer that nothing behind its end is touched,
LEMMA BufferHolds ==
  ASSUME IInv \/ Overran
  PROVE  InBuffer
<1>0. Memory \in Nat /\ Word \in Nat
  BY MachineFacts
<1>1. CASE IInv
  <2>0. mode # "pack overran"
    BY <1>1 DEF IInv
  <2>1. /\ string \in Seq(Octets) /\ Len(string) <= Memory
        /\ len \in 0 .. Len(string) /\ reach \in 0 .. len
    BY <1>1 DEF IInv, BufferInv, Buffered
  <2>2. Len(string) \in Nat /\ \A i \in DOMAIN string : string[i] \in Octets
    BY <2>1
  <2>3. len \in 0 .. Memory /\ reach \in 0 .. Memory /\ reach <= len /\ len <= Len(string)
    BY <1>0, <2>1, <2>2
  <2>4. TypeOK
    BY <1>1, <2>0, <2>2, <2>3 DEF IInv, TypeOK
  <2> QED BY <2>0, <2>3, <2>4 DEF InBuffer
<1>2. CASE Overran
  <2>0. string \in Seq(Octets) /\ reach = Word
    BY <1>2 DEF Overran
  <2>1. reach \in 0 .. Word /\ \A i \in DOMAIN string : string[i] \in Octets
    BY <1>0, <2>0
  <2>2. TypeOK
    BY <1>2, <2>1 DEF Overran, TypeOK
  <2> QED BY <1>2, <2>2 DEF InBuffer, Overran
<1> QED BY <1>1, <1>2

\* of the byte order that it is the one of the place,
LEMMA OrderHolds ==
  ASSUME IInv \/ Overran
  PROVE  InScope
<1>1. CASE IInv
  BY <1>1, HeadFacts DEF InScope
<1>2. CASE Overran
  BY <1>2 DEF InScope, Overran
<1> QED BY <1>1, <1>2

\* and of the parent that it is the right one when it is looked into.
LEMMA ParentHolds ==
  ASSUME (IInv /\ ParentInv) \/ Overran
  PROVE  ParentInPlace
<1> SUFFICES ASSUME Running("type"), TakesDimension(Head(todo))
             PROVE  LET id == Head(todo).decl.id IN
                    /\ parent.is = "hash"
                    /\ mode = "pack" => Head(todo).sv = Under(parent, id)
                    /\ Unpacking     => parent = Head(results) /\ id \notin DOMAIN parent.keys
                                        /\ Head(Tail(todo)) = StoreKey(id)
  BY DEF ParentInPlace
<1>1. todo # << >> /\ Head(todo).do = "type" /\ LooksUp(setup, Head(todo))
  BY DEF Running, TakesDimension, LooksUp
<1>2. CASE IInv /\ ParentInv
  <2>1. Head(todo) = todo[1] /\ 1 \in 1 .. Len(todo)
    BY <1>1, <1>2, HeadFacts
  <2>2. Parented(setup, todo, parent)
    BY <1>2 DEF IInv, StackInv
  <2>3. parent.is = "hash" /\ Head(todo).sv = Under(parent, Head(todo).decl.id)
    BY <1>1, <2>1, <2>2 DEF Parented, Fits
  <2>4. Unpacking => /\ parent = Head(results) /\ Head(todo).decl.id \notin DOMAIN parent.keys
                     /\ Head(Tail(todo)) = StoreKey(Head(todo).decl.id)
    BY <1>1, <1>2, <2>1 DEF ParentInv
  <2> QED BY <2>3, <2>4
<1>3. CASE Overran
  <2>1. mode = "pack overran" /\ FromMember(Head(todo).decl.dim.id) < 0
    BY <1>3 DEF Overran
  <2>2. parent.is = "hash"
    <3> SUFFICES ASSUME parent.is # "hash" PROVE FALSE
      OBVIOUS
    <3>1. FromMember(Head(todo).decl.dim.id) = 0
      BY DEF FromMember
    <3>2. ~(0 < 0)
      OBVIOUS
    <3> QED BY <2>1, <3>1, <3>2
  <2> QED BY <2>1, <2>2 DEF Unpacking
<1> QED BY <1>2, <1>3

\* The state of pack.c between two calls, in every execution.
Inv == (IInv /\ ParentInv) \/ Overran

THEOREM Inductive == Spec => []Inv
<1>1. Init => Inv
  BY InitHolds, InitParent DEF Inv
<1>2. Inv /\ [Next]_vars => Inv'
  <2> SUFFICES ASSUME Inv, [Next]_vars PROVE Inv'
    OBVIOUS
  <2>1. CASE IInv /\ ParentInv
    BY <2>1, NextKeeps, ParentKeeps DEF Inv
  <2>2. CASE Overran
    BY <2>2, OverranStays DEF Inv
  <2> QED BY <2>1, <2>2 DEF Inv
<1> QED BY <1>1, <1>2, PTL DEF Spec

\* pack and unpack touch no byte behind the end of the string, for every type,
\* every value and every tag: GROW_BUFFER and CHECK_BUFFER (pack.c:62 to 88)
\* stand before every access with the size that is accessed.  The exception is
\* GROW_BUFFER itself, for an array that has a negative number of elements by what
\* another member is (pack.c:1194): its sum can come out as nothing.
THEOREM BufferSafe == Spec => []InBuffer
<1>1. Inv => InBuffer
  BY BufferHolds DEF Inv
<1> QED BY <1>1, Inductive, PTL

\* Every call runs with the byte order of the innermost ByteOrder tag around it:
\* SET_BYTEORDER and RESTORE_BYTEORDER (pack.c:98 to 118) come in pairs.
THEOREM OrderSafe == Spec => []InScope
<1>1. Inv => InScope
  BY OrderHolds DEF Inv
<1> QED BY <1>1, Inductive, PTL

\* A dimension that is looked up in a member finds PACK->parent set to the hash of
\* the very struct that the array is a member of, however the structs in it and
\* around it are nested (pack.c:835 and 1413).
THEOREM ParentSafe == Spec => []ParentInPlace
<1>1. Inv => ParentInPlace
  BY ParentHolds DEF Inv
<1> QED BY <1>1, Inductive, PTL

=============================================================================
