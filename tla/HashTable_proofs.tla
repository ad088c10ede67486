-------------------------- MODULE HashTable_proofs --------------------------
(***************************************************************************)
(* Hash tables keep what is stored in them: what Containers.cfg checks for *)
(* two tables of four nodes holds for all tables, nodes, keys and hash     *)
(* sums, and for every order in which tables grow, shrink, are copied and  *)
(* walked.                                                                 *)
(*                                                                         *)
(* The inductive invariant HashInv says that every node is in the bucket   *)
(* its hash sum asks for and that every chain is sorted.  A search stops   *)
(* at the first node that does not come before its key, and so finds a     *)
(* node if there is one; no key is in a table twice; and what is put in at *)
(* the place where a search stops leaves the chain sorted.                 *)
(*                                                                         *)
(* That tables are the maps of KeyMap rests on it: nodes of one table have *)
(* different keys, so that its nodes determine the map (HeldBy), and what  *)
(* an iterator has still to give the walk (Coming).                        *)
(***************************************************************************)
EXTENDS HashTable, FiniteSetTheorems, SequenceTheorems, WellFoundedInduction, TLAPS

In(root) == UNION {Range(root[b]) : b \in DOMAIN root}

Sorted(c) == \A i, j \in 1..Len(c) : i < j => Precedes(KeyOf[c[i]], KeyOf[c[j]])

\* A chain of bucket b.
ChainOK(c, b, size) ==
  /\ c \in Seq(Nodes) /\ Sorted(c)
  /\ \A i \in 1..Len(c) : Bucket(KeyOf[c[i]], size) = b

RootOK(root, size) ==
  /\ root \in [Places(size) -> Seq(Nodes)]
  /\ \A b \in Places(size) : ChainOK(root[b], b, size)

TableOK(t) ==
  /\ t = [live |-> TRUE, count |-> t.count, size |-> t.size, flags |-> t.flags, root |-> t.root]
  /\ t.size \in Sizes /\ t.flags \in Flags
  /\ RootOK(t.root, t.size)
  /\ t.count = Cardinality(In(t.root))

NodeType == [live : BOOLEAN, pObj : Objs \cup {NULL}]

\* A node of a table is allocated and has an object.
Kept(h) == \A n \in InTable(h) : node[n].live /\ node[n].pObj \in Objs

\* A walk is at a place of a chain, and knows how many buckets are to come.
WalkOK ==
  /\ iter = [table |-> iter.table, rest |-> iter.rest, bucket |-> iter.bucket,
             remain |-> iter.remain]
  /\ iter.table \in Tables /\ table[iter.table].live
  /\ iter.bucket \in 1..Buckets(table[iter.table].size)
  /\ iter.remain = Buckets(table[iter.table].size) - iter.bucket + 1
  /\ \E i \in 1..(Len(table[iter.table].root[iter.bucket - 1]) + 1) :
       iter.rest = SubSeq(table[iter.table].root[iter.bucket - 1], i,
                          Len(table[iter.table].root[iter.bucket - 1]))

HashInv ==
  /\ table = [h \in Tables |-> table[h]] /\ node \in [Nodes -> NodeType]
  /\ \A h \in Tables : table[h] = NoTable \/ TableOK(table[h])
  /\ \A h \in Tables : Kept(h)
  /\ \A h, i \in Tables : h # i => InTable(h) \cap InTable(i) = {}
  /\ iter = NoIter \/ WalkOK

-----------------------------------------------------------------------------
(* Loops. *)

\* Every set of natural numbers has a least member.
LEMMA Least ==
  ASSUME NEW T, T \subseteq Nat, T # {}
  PROVE  \E k \in T : \A y \in T : k <= y
<1> DEFINE R == OpToRel(<, Nat)
<1>1. IsWellFoundedOn(R, Nat)
  BY NatLessThanWellFounded
<1> HIDE DEF R
<1>2. PICK k \in T : \A y \in T : <<y, k>> \notin R
  BY <1>1, WFMin
<1>3. ASSUME NEW y \in T, ~(k <= y) PROVE FALSE
  <2> DEFINE p == <<y, k>>
  <2>1. p \in Nat \X Nat /\ p[1] = y /\ p[2] = k /\ p[1] < p[2]
    BY <1>2, <1>3
  <2> HIDE DEF p
  <2>2. p \in R
    BY <2>1, SMT DEF R, OpToRel
  <2> QED BY <1>2, <2>2 DEF p
<1> QED BY <1>2, <1>3

\* Induction over the natural numbers, for a set of them.
LEMMA NatSetInduction ==
  ASSUME NEW S, 0 \in S, \A n \in S \cap Nat : n + 1 \in S
  PROVE  Nat \subseteq S
<1> DEFINE T == Nat \ S
<1> SUFFICES ASSUME T # {} PROVE FALSE
  OBVIOUS
<1>1. PICK k \in T : \A y \in T : k <= y
  <2>1. T \subseteq Nat
    OBVIOUS
  <2> HIDE DEF T
  <2> QED BY <2>1, Least
<1>2. k \in Nat /\ k \notin S
  BY DEF T
<1>3. k # 0 /\ k - 1 \in Nat /\ k = (k - 1) + 1
  BY <1>2
<1>4. k - 1 \in S
  <2> SUFFICES ASSUME k - 1 \in T PROVE FALSE
    BY <1>3
  <2>1. k <= k - 1
    BY <1>1
  <2> QED BY <1>2, <2>1
<1>5. (k - 1) + 1 \in S
  BY <1>3, <1>4
<1> QED BY <1>2, <1>3, <1>5

\* A loop that turns one value of S into another has a value after each turn.
LEMMA LoopFacts ==
  ASSUME NEW S, NEW x \in S, NEW n \in Nat, NEW F \in [1..n -> [S -> S]]
  PROVE  \E s \in [0..n -> S] : s[0] = x /\ \A k \in 1..n : s[k] = F[k][s[k - 1]]
<1> DEFINE Loops(s, m) == s \in [0..m -> S] /\ s[0] = x /\ \A k \in 1..m : s[k] = F[k][s[k - 1]]
           N == {m \in Nat : m <= n => \E s : Loops(s, m)}
<1>1. 0 \in N
  <2> DEFINE s == [k \in 0..0 |-> x]
  <2>1. Loops(s, 0)
    OBVIOUS
  <2> HIDE DEF s
  <2> QED BY <2>1
<1>2. ASSUME NEW m \in N \cap Nat PROVE m + 1 \in N
  <2> HIDE DEF Loops
  <2> SUFFICES ASSUME m + 1 <= n PROVE \E s : Loops(s, m + 1)
    OBVIOUS
  <2> USE DEF Loops
  <2>1. PICK s : Loops(s, m)
    BY <1>2
  <2> DEFINE t == [k \in 0..(m + 1) |-> IF k <= m THEN s[k] ELSE F[m + 1][s[m]]]
  <2>2. s[m] \in S /\ F[m + 1] \in [S -> S]
    BY <2>1
  <2>3. t \in [0..(m + 1) -> S] /\ t[0] = x
    BY <2>1, <2>2
  <2>4. ASSUME NEW k \in 1..(m + 1) PROVE t[k] = F[k][t[k - 1]]
    <3>1. CASE k <= m
      BY <2>1, <3>1
    <3>2. CASE k = m + 1
      BY <2>1, <3>2
    <3> QED BY <3>1, <3>2
  <2> HIDE DEF t
  <2>5. Loops(t, m + 1)
    BY <2>3, <2>4
  <2> QED BY <2>5
<1>3. \E s : Loops(s, n)
  <2> HIDE DEF N
  <2>1. Nat \subseteq N
    BY <1>1, <1>2, NatSetInduction
  <2> QED BY <2>1 DEF N
<1> QED BY <1>3

\* The values of a loop that begins with x.
Runs(S, n, F, x, s) == s \in [0..n -> S] /\ s[0] = x /\ \A k \in 1..n : s[k] = F[k][s[k - 1]]

\* There are such values.
LEMMA LoopRuns ==
  ASSUME NEW S, NEW x \in S, NEW n \in Nat, NEW F \in [1..n -> [S -> S]]
  PROVE  \E s : Runs(S, n, F, x, s)
<1>1. PICK s \in [0..n -> S] : s[0] = x /\ \A k \in 1..n : s[k] = F[k][s[k - 1]]
  BY LoopFacts, SMTT(60)
<1>2. Runs(S, n, F, x, s)
  BY <1>1 DEF Runs
<1> QED BY <1>2

\* A loop that starts in a set and does not leave it ends in it.
LEMMA LoopStays ==
  ASSUME NEW S, NEW n \in Nat, NEW p, p[0] \in S,
         \A k \in 1..n : p[k - 1] \in S => p[k] \in S
  PROVE  \A k \in 0..n : p[k] \in S
<1> DEFINE N == {k \in Nat : k <= n => p[k] \in S}
<1>1. 0 \in N
  OBVIOUS
<1>2. ASSUME NEW k \in N \cap Nat PROVE k + 1 \in N
  <2> SUFFICES ASSUME k + 1 <= n PROVE p[k + 1] \in S
    OBVIOUS
  <2>1. k + 1 \in 1..n /\ (k + 1) - 1 = k
    OBVIOUS
  <2> QED BY <2>1
<1> HIDE DEF N
<1>3. Nat \subseteq N
  BY <1>1, <1>2, NatSetInduction
<1> QED BY <1>3 DEF N

-----------------------------------------------------------------------------
(* Buckets. *)

\* Buckets is the last value of its recursion.
LEMMA PowerFacts ==
  ASSUME NEW n \in Nat
  PROVE  \E p \in [0..n -> Nat \ {0}] :
           /\ p = [i \in 0..n |-> IF i = 0 THEN 1 ELSE 2 * p[i - 1]]
           /\ Buckets(n) = p[n]
<1> DEFINE P == Nat \ {0}
           F == [k \in 1..n |-> [y \in P |-> 2 * y]]
           Is(p) == p = [i \in 0..n |-> IF i = 0 THEN 1 ELSE 2 * p[i - 1]]
           power == CHOOSE p : Is(p)
<1>1. 1 \in P /\ F \in [1..n -> [P -> P]]
  OBVIOUS
<1>2. PICK s \in [0..n -> P] : s[0] = 1 /\ \A k \in 1..n : s[k] = F[k][s[k - 1]]
  <2> HIDE DEF F, P
  <2> QED BY <1>1, LoopFacts
<1>3. ASSUME NEW i \in 0..n PROVE s[i] = IF i = 0 THEN 1 ELSE 2 * s[i - 1]
  <2>1. CASE i = 0
    BY <1>2, <2>1
  <2>2. CASE i # 0
    <3>0. i \in 1..n /\ i - 1 \in 0..n
      BY <2>2
    <3>1. s[i - 1] \in P
      <4> HIDE DEF F, P
      <4> QED BY <1>2, <3>0
    <3>2. F[i][s[i - 1]] = 2 * s[i - 1]
      BY <3>0, <3>1
    <3> QED BY <1>2, <2>2, <3>0, <3>2
  <2> QED BY <2>1, <2>2
<1>4. Is(s)
  BY <1>2, <1>3
<1>5. Is(power)
  <2> HIDE DEF Is
  <2> QED BY <1>4
<1> HIDE DEF power
<1>6. power \in [0..n -> P]
  <2>1. power[0] \in P
    BY <1>5
  <2>2. ASSUME NEW k \in 1..n, power[k - 1] \in P PROVE power[k] \in P
    BY <1>5, <2>2, SMTT(60)
  <2>3. \A k \in 0..n : power[k] \in P
    <3> HIDE DEF Is, P
    <3> QED BY <2>1, <2>2, LoopStays
  <2> HIDE DEF P
  <2> QED BY <1>5, <2>3
<1>7. Buckets(n) = power[n]
  BY DEF Buckets, power
<1> QED BY <1>5, <1>6, <1>7

\* Twice as many buckets.
LEMMA BucketsFacts ==
  ASSUME NEW n \in Nat
  PROVE  Buckets(n) \in Nat \ {0} /\ Buckets(0) = 1 /\ Buckets(n + 1) = 2 * Buckets(n)
<1>1. PICK p \in [0..n -> Nat \ {0}] :
         p = [i \in 0..n |-> IF i = 0 THEN 1 ELSE 2 * p[i - 1]] /\ Buckets(n) = p[n]
  BY PowerFacts
<1>2. PICK q \in [0..(n + 1) -> Nat \ {0}] :
         q = [i \in 0..(n + 1) |-> IF i = 0 THEN 1 ELSE 2 * q[i - 1]] /\ Buckets(n + 1) = q[n + 1]
  <2>1. n + 1 \in Nat
    OBVIOUS
  <2> QED BY <2>1, PowerFacts, Zenon
<1>3. PICK r \in [0..0 -> Nat \ {0}] :
         r = [i \in 0..0 |-> IF i = 0 THEN 1 ELSE 2 * r[i - 1]] /\ Buckets(0) = r[0]
  BY PowerFacts
<1> DEFINE S == {1}
           N == {k \in Nat : k <= n => p[k] = q[k]}
<1>4. 0 \in N
  BY <1>1, <1>2
<1>5. ASSUME NEW k \in N \cap Nat PROVE k + 1 \in N
  <2> SUFFICES ASSUME k + 1 <= n PROVE p[k + 1] = q[k + 1]
    OBVIOUS
  <2>1. p[k + 1] = 2 * p[k] /\ q[k + 1] = 2 * q[k]
    BY <1>1, <1>2
  <2> QED BY <2>1
<1> HIDE DEF N
<1>6. n \in N
  BY <1>4, <1>5, NatSetInduction
<1>7. p[n] = q[n]
  BY <1>6 DEF N
<1>8. q[n + 1] = 2 * q[n] /\ r[0] = 1
  BY <1>2, <1>3
<1> QED BY <1>1, <1>2, <1>3, <1>7, <1>8

\* A product of a number and a positive one.
LEMMA Times ==
  ASSUME NEW B \in Nat \ {0}, NEW d \in Int
  PROVE  /\ d * B \in Int
         /\ d >= 1 => d * B >= B
         /\ d <= -1 => d * B <= -B
OBVIOUS

\* The remainder of a number is the one between 0 and the divisor.
LEMMA Remainder ==
  ASSUME NEW B \in Nat \ {0}, NEW q \in Int, NEW r \in 0..(B - 1), NEW x \in Int, x = q * B + r
  PROVE  x % B = r
<1> DEFINE p == x \div B
           s == x % B
<1>1. p \in Int /\ s \in 0..(B - 1) /\ x = B * p + s
  OBVIOUS
<1> HIDE DEF p, s
<1>2. (q - p) * B = s - r
  BY <1>1
<1>3. q - p \in Int
  BY <1>1
<1>4. q - p = 0
  <2>1. ~ (q - p >= 1)
    BY <1>1, <1>2, <1>3, Times
  <2>2. ~ (q - p <= -1)
    BY <1>1, <1>2, <1>3, Times
  <2> QED BY <1>3, <2>1, <2>2
<1>5. s = r
  BY <1>1, <1>2, <1>4
<1> QED BY <1>5 DEF s

\* A remainder by twice a number is known well enough for the one by the number.
LEMMA Halved ==
  ASSUME NEW B \in Nat \ {0}, NEW x \in Nat
  PROVE  /\ (x % (2 * B)) % B = x % B
         /\ x % B \in 0..(B - 1) 
         /\ x < B => x % B = x
<1> DEFINE C == 2 * B
           q == x \div C
           r == x % C
<1>1. C \in Nat \ {0}
  OBVIOUS
<1>2. q \in Int /\ r \in 0..(C - 1) /\ x = C * q + r
  <2> HIDE DEF C
  <2> QED BY <1>1
<1> HIDE DEF q, r
<1>3. (x % C) % B = x % B
  <2>1. CASE r < B
    <3>1. x = (2 * q) * B + r /\ r = 0 * B + r /\ 2 * q \in Int
      BY <1>2 DEF C
    <3>2. x % B = r /\ r % B = r
      BY <1>2, <2>1, <3>1, Remainder
    <3> QED BY <3>2 DEF r
  <2>2. CASE r >= B
    <3> DEFINE y == r - B
               u == 2 * q + 1
    <3>1. x = u * B + y /\ r = 1 * B + y /\ u \in Int /\ y \in 0..(B - 1)
      BY <1>2, <2>2 DEF C
    <3> HIDE DEF y, u
    <3>2. x % B = y
      BY <3>1, Remainder
    <3>3. r % B = y
      BY <1>2, <3>1, Remainder
    <3> QED BY <3>2, <3>3 DEF r
  <2> QED BY <1>2, <2>1, <2>2
<1>4. x % B \in 0..(B - 1)
  OBVIOUS
<1>5. x < B => x % B = x
  <2>1. x = 0 * B + x
    OBVIOUS
  <2> QED BY <2>1, Remainder
<1> QED BY <1>3, <1>4, <1>5 DEF C

\* The bucket of a key among fewer buckets is found from that among more.
LEMMA BucketFacts ==
  ASSUME NEW x \in Nat, NEW s \in Nat, NEW u \in Nat, s <= u
  PROVE  /\ (x % Buckets(u)) % Buckets(s) = x % Buckets(s)
         /\ x % Buckets(s) \in Places(s)
         /\ x \in Places(s) => x % Buckets(s) = x
         /\ Buckets(s) <= Buckets(u)
<1> DEFINE B == Buckets(s)
           N == {m \in Nat : B <= Buckets(s + m) /\ \A y \in Nat : (y % Buckets(s + m)) % B = y % B}
<1>1. B \in Nat \ {0}
  BY BucketsFacts
<1>2. \A y \in Nat : y % B \in 0..(B - 1) /\ (y < B => y % B = y)
  <2> HIDE DEF B
  <2> QED BY <1>1, Halved
<1>3. 0 \in N
  <2>1. Buckets(s + 0) = B
    OBVIOUS
  <2>2. \A y \in Nat : (y % B) % B = y % B
    <3> HIDE DEF B
    <3> QED BY <1>1, <1>2
  <2> HIDE DEF B
  <2> QED BY <1>1, <2>1, <2>2
<1>4. ASSUME NEW m \in N \cap Nat PROVE m + 1 \in N
  <2> DEFINE C == Buckets(s + m)
  <2>1. C \in Nat \ {0} /\ Buckets(s + (m + 1)) = 2 * C
    <3>1. s + m \in Nat /\ s + (m + 1) = (s + m) + 1
      OBVIOUS
    <3> QED BY <3>1, BucketsFacts
  <2>2. B <= C /\ \A y \in Nat : (y % C) % B = y % B
    BY <1>4
  <2> HIDE DEF B, C
  <2>3. ASSUME NEW y \in Nat PROVE (y % (2 * C)) % B = y % B
    <3> DEFINE z == y % (2 * C)
    <3>1. z \in Nat /\ z % C = y % C
      <4>1. 2 * C \in Nat \ {0} /\ z \in Nat
        BY <2>1
      <4> QED BY <2>1, <4>1, Halved
    <3> HIDE DEF z
    <3>2. z % B = y % B
      BY <2>2, <3>1
    <3> QED BY <3>2 DEF z
  <2>4. B <= 2 * C
    BY <1>1, <2>1, <2>2
  <2> QED BY <2>1, <2>3, <2>4
<1>5. u - s \in N
  <2> HIDE DEF N, B
  <2> QED BY <1>3, <1>4, NatSetInduction
<1>6. B <= Buckets(u) /\ (x % Buckets(u)) % B = x % B
  <2>1. s + (u - s) = u
    OBVIOUS
  <2> HIDE DEF B
  <2> QED BY <1>5, <2>1
<1> HIDE DEF N
<1> QED BY <1>1, <1>2, <1>6 DEF Places

-----------------------------------------------------------------------------
(* Chains. *)

\* Keys are numbers, and so are their hash sums.
LEMMA KeyFacts ==
  /\ \A n \in Nodes : KeyOf[n] \in Keys
  /\ \A k \in Keys : k \in Nat /\ Hash[k] \in Nat /\ k # NULL
BY HashAssumption DEF Keys

\* The order of the keys in a chain is a total one.
LEMMA Ordered ==
  ASSUME NEW j \in Keys, NEW k \in Keys, NEW l \in Keys
  PROVE  /\ ~Precedes(j, j)
         /\ Precedes(j, k) /\ Precedes(k, l) => Precedes(j, l)
         /\ Precedes(j, k) \/ Precedes(k, j) \/ j = k
         /\ Precedes(j, k) /\ ~Precedes(l, k) => Precedes(j, l)
<1>1. j \in Nat /\ k \in Nat /\ l \in Nat /\ Hash[j] \in Nat /\ Hash[k] \in Nat /\ Hash[l] \in Nat
  BY KeyFacts
<1> QED BY <1>1 DEF Precedes

\* A search ends at the first node that does not come before the key.
LEMMA StopFacts ==
  ASSUME NEW c \in Seq(Nodes), NEW k
  PROVE  /\ Stop(c, k) \in 1..(Len(c) + 1)
         /\ Stop(c, k) <= Len(c) => ~Precedes(KeyOf[c[Stop(c, k)]], k)
         /\ \A j \in 1..(Stop(c, k) - 1) : Precedes(KeyOf[c[j]], k)
<1> DEFINE T == {i \in 1..(Len(c) + 1) : i <= Len(c) => ~Precedes(KeyOf[c[i]], k)}
           Ends(i) == /\ i <= Len(c) => ~Precedes(KeyOf[c[i]], k)
                      /\ \A j \in 1..(i - 1) : Precedes(KeyOf[c[j]], k)
<1>0. Len(c) \in Nat
  BY LenProperties
<1>1. PICK i \in T : \A y \in T : i <= y
  <2>1. Len(c) + 1 \in T /\ T \subseteq Nat
    BY <1>0
  <2> HIDE DEF T
  <2> QED BY <2>1, Least
<1>2. i \in 1..(Len(c) + 1) /\ Ends(i)
  <2>1. ASSUME NEW j \in 1..(i - 1), ~Precedes(KeyOf[c[j]], k) PROVE FALSE
    <3>1. j \in T
      BY <1>0, <2>1
    <3>2. i <= j
      BY <1>1, <3>1
    <3> QED BY <1>0, <2>1, <3>2
  <2> QED BY <1>1, <2>1
<1>3. Stop(c, k) = CHOOSE x \in 1..(Len(c) + 1) : Ends(x)
  BY DEF Stop
<1> HIDE DEF Ends, T
<1>4. Stop(c, k) \in 1..(Len(c) + 1) /\ Ends(Stop(c, k))
  BY <1>2, <1>3
<1> QED BY <1>4 DEF Ends

\* In a sorted chain it finds a node of the key if there is one.
LEMMA FoundFacts ==
  ASSUME NEW c \in Seq(Nodes), Sorted(c), NEW k \in Keys
  PROVE  /\ Found(c, k) <=> \E j \in 1..Len(c) : KeyOf[c[j]] = k
         /\ Found(c, k) => Stop(c, k) \in 1..Len(c) /\ KeyOf[c[Stop(c, k)]] = k
         /\ ~Found(c, k) => \A j \in 1..Len(c) : j >= Stop(c, k) => Precedes(k, KeyOf[c[j]])
<1> DEFINE i == Stop(c, k)
<1>1. /\ i \in 1..(Len(c) + 1) /\ Len(c) \in Nat
      /\ i <= Len(c) => ~Precedes(KeyOf[c[i]], k)
      /\ \A j \in 1..(i - 1) : Precedes(KeyOf[c[j]], k)
  BY StopFacts, LenProperties
<1>2. Found(c, k) <=> i <= Len(c) /\ KeyOf[c[i]] = k
  BY DEF Found
<1>3. \A j \in 1..Len(c) : KeyOf[c[j]] \in Keys
  BY ElementOfSeq, KeyFacts
<1>4. \A j \in 1..Len(c) : j > i => Precedes(KeyOf[c[i]], KeyOf[c[j]])
  <2> SUFFICES ASSUME NEW j \in 1..Len(c), j > i PROVE Precedes(KeyOf[c[i]], KeyOf[c[j]])
    OBVIOUS
  <2>1. i \in 1..Len(c)
    BY <1>1
  <2> HIDE DEF i
  <2> QED BY <2>1 DEF Sorted
<1> HIDE DEF i
<1>5. ASSUME NEW j \in 1..Len(c), KeyOf[c[j]] = k PROVE i <= Len(c) /\ KeyOf[c[i]] = k
  <2>1. ~(j < i)
    <3> SUFFICES ASSUME j < i PROVE FALSE
      OBVIOUS
    <3>1. Precedes(k, k)
      BY <1>1, <1>5
    <3> QED BY <3>1, Ordered
  <2>2. CASE j = i
    BY <1>5, <2>2
  <2>3. CASE j > i
    <3>1. i \in 1..Len(c)
      BY <1>1, <2>3
    <3>2. Precedes(KeyOf[c[i]], k)
      BY <1>4, <1>5, <2>3
    <3> QED BY <1>1, <3>1, <3>2
  <2> QED BY <1>1, <2>1, <2>2, <2>3
<1>6. ASSUME ~Found(c, k), NEW j \in 1..Len(c), j >= i PROVE Precedes(k, KeyOf[c[j]])
  <2>1. i \in 1..Len(c) /\ KeyOf[c[i]] # k /\ ~Precedes(KeyOf[c[i]], k)
    BY <1>1, <1>2, <1>6
  <2>2. Precedes(k, KeyOf[c[i]])
    BY <1>3, <2>1, Ordered
  <2>3. CASE j = i
    BY <2>2, <2>3
  <2>4. CASE j > i
    <3>1. Precedes(KeyOf[c[i]], KeyOf[c[j]])
      BY <1>4, <2>4
    <3> QED BY <1>3, <2>1, <2>2, <3>1, Ordered
  <2> QED BY <1>1, <1>6, <2>3, <2>4
<1>7. Found(c, k) <=> \E j \in 1..Len(c) : KeyOf[c[j]] = k
  <2>1. Found(c, k) => i \in 1..Len(c) /\ KeyOf[c[i]] = k
    BY <1>1, <1>2
  <2> QED BY <1>2, <1>5, <2>1
<1> QED BY <1>1, <1>2, <1>6, <1>7 DEF i

\* What InsertAt makes of a sequence: e stands at i, and what was there and behind is moved up.
LEMMA InsertAtFacts ==
  ASSUME NEW S, NEW c \in Seq(S), NEW i \in 1..(Len(c) + 1), NEW e \in S
  PROVE  /\ InsertAt(c, i, e) \in Seq(S) /\ Len(InsertAt(c, i, e)) = Len(c) + 1
         /\ \A j \in 1..(Len(c) + 1) :
              InsertAt(c, i, e)[j] = IF j < i THEN c[j] ELSE IF j = i THEN e ELSE c[j - 1]
<1> DEFINE a == SubSeq(c, 1, i - 1)
           b == SubSeq(c, i, Len(c))
<1>1. Len(c) \in Nat /\ \A j \in 1..Len(c) : c[j] \in S
  BY LenProperties, ElementOfSeq
<1>2. a \in Seq(S) /\ Len(a) = i - 1 /\ \A j \in 1..(i - 1) : a[j] = c[j]
  <2>1. i - 1 \in Int /\ \A j \in 1..(i - 1) : c[j] \in S
    BY <1>1
  <2>2. /\ a \in Seq(S) /\ Len(a) = IF 1 <= i - 1 THEN (i - 1) - 1 + 1 ELSE 0
        /\ \A j \in 1..((i - 1) - 1 + 1) : a[j] = c[1 + j - 1]
    BY <2>1, SubSeqProperties
  <2> HIDE DEF a
  <2> QED BY <2>2
<1>3. b \in Seq(S) /\ Len(b) = Len(c) - i + 1 /\ \A j \in 1..(Len(c) - i + 1) : b[j] = c[i + j - 1]
  <2>1. i \in Int /\ Len(c) \in Int /\ \A j \in i..Len(c) : c[j] \in S
    BY <1>1
  <2>2. /\ b \in Seq(S) /\ Len(b) = IF i <= Len(c) THEN Len(c) - i + 1 ELSE 0
        /\ \A j \in 1..(Len(c) - i + 1) : b[j] = c[i + j - 1]
    BY <2>1, SubSeqProperties
  <2> HIDE DEF b
  <2> QED BY <1>1, <2>2
<1>4. InsertAt(c, i, e) = (a \o <<e>>) \o b
  BY DEF InsertAt
<1> HIDE DEF a, b
<1> DEFINE f == a \o <<e>>
<1>5. f \in Seq(S) /\ Len(f) = i /\ \A j \in 1..i : f[j] = IF j < i THEN c[j] ELSE e
  <2>1. <<e>> \in Seq(S) /\ Len(<<e>>) = 1 /\ <<e>>[1] = e
    OBVIOUS
  <2>2. /\ f \in Seq(S) /\ Len(f) = Len(a) + Len(<<e>>)
        /\ \A j \in 1..(Len(a) + Len(<<e>>)) : f[j] = IF j <= Len(a) THEN a[j] ELSE <<e>>[j - Len(a)]
    BY <1>2, <2>1, ConcatProperties
  <2> HIDE DEF f
  <2>3. Len(f) = i
    BY <1>2, <2>1, <2>2
  <2>4. ASSUME NEW j \in 1..i PROVE f[j] = IF j < i THEN c[j] ELSE e
    <3>1. j <= Len(a) <=> j < i
      BY <1>2
    <3>2. j = i => j - Len(a) = 1
      BY <1>2
    <3>3. j \in 1..(Len(a) + Len(<<e>>))
      BY <1>2, <2>1
    <3> QED BY <1>2, <2>1, <2>2, <3>1, <3>2, <3>3
  <2> QED BY <2>2, <2>3, <2>4
<1> HIDE DEF f
<1>6. /\ f \o b \in Seq(S) /\ Len(f \o b) = Len(f) + Len(b)
      /\ \A j \in 1..(Len(f) + Len(b)) : (f \o b)[j] = IF j <= Len(f) THEN f[j] ELSE b[j - Len(f)]
  BY <1>3, <1>5, ConcatProperties
<1> DEFINE g == f \o b
<1>7. InsertAt(c, i, e) = g
  BY <1>4 DEF f
<1> HIDE DEF g
<1>8. g \in Seq(S) /\ Len(g) = Len(c) + 1
  BY <1>1, <1>3, <1>5, <1>6 DEF g
<1>9. ASSUME NEW j \in 1..(Len(c) + 1)
      PROVE  g[j] = IF j < i THEN c[j] ELSE IF j = i THEN e ELSE c[j - 1]
  <2>1. g[j] = IF j <= i THEN f[j] ELSE b[j - i]
    BY <1>1, <1>3, <1>5, <1>6 DEF g
  <2>2. j > i => j - i \in 1..(Len(c) - i + 1) /\ i + (j - i) - 1 = j - 1
    BY <1>1
  <2>3. j > i => b[j - i] = c[j - 1]
    BY <1>3, <2>2
  <2> QED BY <1>5, <2>1, <2>3
<1> QED BY <1>7, <1>8, <1>9

\* RemoveAt moves what was behind i down.
LEMMA RemoveAtFacts ==
  ASSUME NEW S, NEW c \in Seq(S), NEW i \in 1..Len(c)
  PROVE  /\ RemoveAt(c, i) \in Seq(S) /\ Len(RemoveAt(c, i)) = Len(c) - 1
         /\ \A j \in 1..(Len(c) - 1) : RemoveAt(c, i)[j] = IF j < i THEN c[j] ELSE c[j + 1]
<1> DEFINE a == SubSeq(c, 1, i - 1)
           b == SubSeq(c, i + 1, Len(c))
<1>1. Len(c) \in Nat /\ \A j \in 1..Len(c) : c[j] \in S
  BY LenProperties, ElementOfSeq
<1>2. a \in Seq(S) /\ Len(a) = i - 1 /\ \A j \in 1..(i - 1) : a[j] = c[j]
  <2>1. i - 1 \in Int /\ \A j \in 1..(i - 1) : c[j] \in S
    BY <1>1
  <2>2. /\ a \in Seq(S) /\ Len(a) = IF 1 <= i - 1 THEN (i - 1) - 1 + 1 ELSE 0
        /\ \A j \in 1..((i - 1) - 1 + 1) : a[j] = c[1 + j - 1]
    BY <2>1, SubSeqProperties
  <2> HIDE DEF a
  <2> QED BY <2>2
<1>3. b \in Seq(S) /\ Len(b) = Len(c) - i /\ \A j \in 1..(Len(c) - i) : b[j] = c[i + j]
  <2>1. i + 1 \in Int /\ Len(c) \in Int /\ \A j \in (i + 1)..Len(c) : c[j] \in S
    BY <1>1
  <2>2. /\ b \in Seq(S) /\ Len(b) = IF i + 1 <= Len(c) THEN Len(c) - (i + 1) + 1 ELSE 0
        /\ \A j \in 1..(Len(c) - (i + 1) + 1) : b[j] = c[(i + 1) + j - 1]
    BY <2>1, SubSeqProperties
  <2> HIDE DEF b
  <2> QED BY <1>1, <2>2
<1>4. RemoveAt(c, i) = a \o b
  BY DEF RemoveAt
<1> HIDE DEF a, b
<1>5. /\ a \o b \in Seq(S) /\ Len(a \o b) = Len(a) + Len(b)
      /\ \A j \in 1..(Len(a) + Len(b)) : (a \o b)[j] = IF j <= Len(a) THEN a[j] ELSE b[j - Len(a)]
  BY <1>2, <1>3, ConcatProperties
<1> DEFINE g == a \o b
<1>6. RemoveAt(c, i) = g
  BY <1>4
<1> HIDE DEF g
<1>7. g \in Seq(S) /\ Len(g) = Len(c) - 1
  BY <1>1, <1>2, <1>3, <1>5 DEF g
<1>8. ASSUME NEW j \in 1..(Len(c) - 1)
      PROVE  g[j] = IF j < i THEN c[j] ELSE c[j + 1]
  <2>1. g[j] = IF j <= i - 1 THEN a[j] ELSE b[j - (i - 1)]
    BY <1>1, <1>2, <1>3, <1>5 DEF g
  <2>2. j >= i => j - (i - 1) \in 1..(Len(c) - i) /\ i + (j - (i - 1)) = j + 1
    BY <1>1
  <2>3. j >= i => b[j - (i - 1)] = c[j + 1]
    BY <1>3, <2>2
  <2> QED BY <1>2, <2>1, <2>3
<1> QED BY <1>6, <1>7, <1>8

\* The nodes of a chain, and those of a table.
LEMMA RangeFacts ==
  ASSUME NEW c \in Seq(Nodes)
  PROVE  /\ Range(c) \subseteq Nodes /\ Len(c) \in Nat
         /\ \A i \in 1..Len(c) : c[i] \in Range(c)
         /\ \A n \in Range(c) : \E i \in 1..Len(c) : c[i] = n
<1>1. Range(c) = {c[i] : i \in 1..Len(c)} /\ Range(c) \in SUBSET Nodes /\ Len(c) \in Nat
  BY RangeEquality, RangeOfSeq, LenProperties
<1> QED BY <1>1

\* A node of a table is in the bucket of its key.
LEMMA InFacts ==
  ASSUME NEW root, NEW size, RootOK(root, size)
  PROVE  /\ DOMAIN root = Places(size) /\ In(root) \subseteq Nodes
         /\ \A b \in Places(size) : ChainOK(root[b], b, size) /\ Range(root[b]) \subseteq In(root)
         /\ \A n \in In(root) : /\ Bucket(KeyOf[n], size) \in Places(size)
                                /\ n \in Range(root[Bucket(KeyOf[n], size)])
<1>1. DOMAIN root = Places(size) /\ \A b \in Places(size) : ChainOK(root[b], b, size)
  BY DEF RootOK
<1>2. ASSUME NEW b \in Places(size)
      PROVE  /\ Range(root[b]) \subseteq Nodes
             /\ \A n \in Range(root[b]) : Bucket(KeyOf[n], size) = b
  BY <1>1, RangeFacts DEF ChainOK
<1> QED BY <1>1, <1>2 DEF In

\* No key is in a table twice.
LEMMA KeysDiffer ==
  ASSUME NEW root, NEW size, RootOK(root, size), NEW m \in In(root), NEW n \in In(root),
         KeyOf[m] = KeyOf[n]
  PROVE  m = n
<1> DEFINE b == Bucket(KeyOf[n], size)
           c == root[b]
<1>1. b \in Places(size) /\ m \in Range(c) /\ n \in Range(c) /\ ChainOK(c, b, size)
  BY InFacts
<1> HIDE DEF b
<1>2. c \in Seq(Nodes) /\ Sorted(c)
  BY <1>1 DEF ChainOK
<1>3. PICK i \in 1..Len(c), j \in 1..Len(c) : c[i] = m /\ c[j] = n
  BY <1>1, <1>2, RangeFacts
<1>4. KeyOf[m] \in Keys /\ Len(c) \in Nat
  BY <1>2, <1>3, RangeFacts, KeyFacts
<1>5. ~Precedes(KeyOf[m], KeyOf[m])
  BY <1>4, Ordered
<1> HIDE DEF c
<1>6. ~(i < j) /\ ~(j < i)
  BY <1>2, <1>3, <1>5 DEF Sorted
<1> QED BY <1>3, <1>4, <1>6

\* A node whose key is not in a chain is put where a search for it ends.
LEMMA InsertFacts ==
  ASSUME NEW c \in Seq(Nodes), Sorted(c), NEW n \in Nodes,
         \A i \in 1..Len(c) : KeyOf[c[i]] # KeyOf[n],
         NEW d, d = InsertAt(c, Stop(c, KeyOf[n]), n)
  PROVE  d \in Seq(Nodes) /\ Sorted(d) /\ Range(d) = Range(c) \cup {n}
<1> DEFINE k == KeyOf[n]
           s == Stop(c, k)
<1>1. /\ s \in 1..(Len(c) + 1) /\ Len(c) \in Nat
      /\ \A j \in 1..(s - 1) : Precedes(KeyOf[c[j]], k)
  BY StopFacts, LenProperties
<1>2. k \in Keys /\ \A j \in 1..Len(c) : KeyOf[c[j]] \in Keys
  BY KeyFacts, ElementOfSeq
<1>3. \A j \in 1..Len(c) : j >= s => Precedes(k, KeyOf[c[j]])
  BY <1>2, FoundFacts
<1>8. d = InsertAt(c, s, n)
  OBVIOUS
<1> HIDE DEF s
<1>4. /\ d \in Seq(Nodes) /\ Len(d) = Len(c) + 1
      /\ \A j \in 1..(Len(c) + 1) : d[j] = IF j < s THEN c[j] ELSE IF j = s THEN n ELSE c[j - 1]
  <2> DEFINE e == InsertAt(c, s, n)
  <2>1. /\ e \in Seq(Nodes) /\ Len(e) = Len(c) + 1
        /\ \A j \in 1..(Len(c) + 1) : e[j] = IF j < s THEN c[j] ELSE IF j = s THEN n ELSE c[j - 1]
    BY <1>1, InsertAtFacts
  <2> HIDE DEF e
  <2>2. d = e
    BY <1>8 DEF e
  <2> QED BY <2>1, <2>2
<1>5. Sorted(d)
  <2> SUFFICES ASSUME NEW i \in 1..Len(d), NEW j \in 1..Len(d), i < j
               PROVE  Precedes(KeyOf[d[i]], KeyOf[d[j]])
    BY DEF Sorted
  <2>0. i \in 1..(Len(c) + 1) /\ j \in 1..(Len(c) + 1)
    BY <1>4
  <2>1. CASE j < s
    <3>1. i \in 1..Len(c) /\ j \in 1..Len(c) /\ d[i] = c[i] /\ d[j] = c[j]
      BY <1>1, <1>4, <2>0, <2>1
    <3> QED BY <3>1 DEF Sorted
  <2>2. CASE j = s
    <3>1. i \in 1..(s - 1) /\ d[i] = c[i] /\ d[j] = n
      BY <1>1, <1>4, <2>0, <2>2
    <3> QED BY <1>1, <3>1
  <2>3. CASE i = s
    <3>1. j - 1 \in 1..Len(c) /\ j - 1 >= s /\ d[i] = n /\ d[j] = c[j - 1]
      BY <1>1, <1>4, <2>0, <2>3
    <3> QED BY <1>3, <3>1
  <2>4. CASE i < s /\ s < j
    <3>1. i \in 1..Len(c) /\ j - 1 \in 1..Len(c) /\ j - 1 >= s /\ i < j - 1 /\ d[i] = c[i] /\ d[j] = c[j - 1]
      BY <1>1, <1>4, <2>0, <2>4
    <3> QED BY <3>1 DEF Sorted
  <2>5. CASE s < i
    <3>1. i - 1 \in 1..Len(c) /\ j - 1 \in 1..Len(c) /\ i - 1 < j - 1 /\ d[i] = c[i - 1] /\ d[j] = c[j - 1]
      BY <1>1, <1>4, <2>0, <2>5
    <3> QED BY <3>1 DEF Sorted
  <2> QED BY <1>1, <2>0, <2>1, <2>2, <2>3, <2>4, <2>5
<1>6. ASSUME NEW m \in Range(d) PROVE m \in Range(c) \cup {n}
  <2>1. PICK j \in 1..Len(d) : d[j] = m
    BY <1>4, RangeFacts
  <2>2. m = n \/ \E i \in 1..Len(c) : m = c[i]
    <3>1. CASE j < s
      BY <1>1, <1>4, <2>1, <3>1
    <3>2. CASE j = s
      BY <1>1, <1>4, <2>1, <3>2
    <3>3. CASE j > s
      <4>1. j - 1 \in 1..Len(c) /\ d[j] = c[j - 1]
        BY <1>1, <1>4, <2>1, <3>3
      <4> QED BY <2>1, <4>1
    <3> QED BY <1>1, <1>4, <3>1, <3>2, <3>3
  <2> QED BY <2>2, RangeFacts
<1>7. ASSUME NEW m \in Range(c) \cup {n} PROVE m \in Range(d)
  <2>1. \E j \in 1..Len(d) : m = d[j]
    <3>1. CASE m = n
      BY <1>1, <1>4, <3>1
    <3>2. CASE m \in Range(c)
      <4>1. PICK i \in 1..Len(c) : c[i] = m
        BY <3>2, RangeFacts
      <4>2. CASE i < s
        BY <1>1, <1>4, <4>1, <4>2
      <4>3. CASE i >= s
        <5>1. i + 1 \in 1..Len(d) /\ d[i + 1] = c[i]
          BY <1>1, <1>4, <4>1, <4>3
        <5> QED BY <4>1, <5>1
      <4> QED BY <1>1, <4>2, <4>3
    <3> QED BY <3>1, <3>2
  <2> QED BY <1>4, <2>1, RangeFacts
<1> QED BY <1>4, <1>5, <1>6, <1>7

\* Taking a node out leaves the others in their order.
LEMMA RemoveFacts ==
  ASSUME NEW c \in Seq(Nodes), Sorted(c), NEW i \in 1..Len(c), NEW d, d = RemoveAt(c, i)
  PROVE  d \in Seq(Nodes) /\ Sorted(d) /\ Range(d) = Range(c) \ {c[i]}
<1>1. /\ d \in Seq(Nodes) /\ Len(d) = Len(c) - 1 /\ Len(c) \in Nat
      /\ \A j \in 1..(Len(c) - 1) : d[j] = IF j < i THEN c[j] ELSE c[j + 1]
  BY RemoveAtFacts, LenProperties
<1>2. Sorted(d)
  <2> SUFFICES ASSUME NEW x \in 1..Len(d), NEW y \in 1..Len(d), x < y
               PROVE  Precedes(KeyOf[d[x]], KeyOf[d[y]])
    BY DEF Sorted
  <2>1. PICK u \in 1..Len(c), v \in 1..Len(c) : u < v /\ d[x] = c[u] /\ d[y] = c[v]
    <3>1. CASE y < i
      <4>1. y \in 1..Len(c) /\ x \in 1..Len(c) /\ d[x] = c[x] /\ d[y] = c[y]
        BY <1>1, <3>1
      <4> QED BY <4>1
    <3>2. CASE y >= i /\ x < i
      <4>1. y + 1 \in 1..Len(c) /\ x \in 1..Len(c) /\ x < y + 1 /\ d[x] = c[x] /\ d[y] = c[y + 1]
        BY <1>1, <3>2
      <4> QED BY <4>1
    <3>3. CASE x >= i
      <4>1. y + 1 \in 1..Len(c) /\ x + 1 \in 1..Len(c) /\ x + 1 < y + 1 /\ d[x] = c[x + 1] /\ d[y] = c[y + 1]
        BY <1>1, <3>3
      <4> QED BY <4>1
    <3> QED BY <1>1, <3>1, <3>2, <3>3
  <2> QED BY <2>1 DEF Sorted
<1>3. \A x, y \in 1..Len(c) : x # y => c[x] # c[y]
  <2> SUFFICES ASSUME NEW x \in 1..Len(c), NEW y \in 1..Len(c), x < y PROVE c[x] # c[y]
    BY <1>1
  <2>1. Precedes(KeyOf[c[x]], KeyOf[c[y]])
    BY DEF Sorted
  <2>2. KeyOf[c[x]] \in Keys
    BY KeyFacts, ElementOfSeq
  <2> QED BY <2>1, <2>2, Ordered
<1>4. ASSUME NEW m \in Range(d) PROVE m \in Range(c) \ {c[i]}
  <2>1. PICK j \in 1..Len(d) : d[j] = m
    BY <1>1, RangeFacts
  <2>2. \E x \in 1..Len(c) : x # i /\ m = c[x]
    <3>1. CASE j < i
      BY <1>1, <2>1, <3>1
    <3>2. CASE j >= i
      <4>1. j + 1 \in 1..Len(c) /\ j + 1 # i /\ d[j] = c[j + 1]
        BY <1>1, <3>2
      <4> QED BY <2>1, <4>1
    <3> QED BY <1>1, <3>1, <3>2
  <2> QED BY <1>3, <2>2, RangeFacts
<1>5. ASSUME NEW m \in Range(c), m # c[i] PROVE m \in Range(d)
  <2>1. PICK x \in 1..Len(c) : c[x] = m
    BY RangeFacts
  <2>2. \E j \in 1..Len(d) : m = d[j]
    <3>1. CASE x < i
      BY <1>1, <2>1, <3>1
    <3>2. CASE x > i
      <4>1. x - 1 \in 1..Len(d) /\ d[x - 1] = c[x]
        BY <1>1, <3>2
      <4> QED BY <2>1, <4>1
    <3> QED BY <1>1, <1>5, <2>1, <3>1, <3>2
  <2> QED BY <1>1, <2>2, RangeFacts
<1> QED BY <1>1, <1>2, <1>4, <1>5

\* Exchanging one chain of a table.
LEMMA ExchangeFacts ==
  ASSUME NEW root, NEW size, RootOK(root, size), NEW b \in Places(size), NEW d,
         ChainOK(d, b, size), NEW r, r \in [Places(size) -> Seq(Nodes)], r[b] = d,
         \A x \in Places(size) : x # b => r[x] = root[x]
  PROVE  /\ RootOK(r, size)
         /\ In(r) = (In(root) \ Range(root[b])) \cup Range(d)
<1>1. root \in [Places(size) -> Seq(Nodes)] /\ \A x \in Places(size) : ChainOK(root[x], x, size)
  BY DEF RootOK
<1>3. /\ r \in [Places(size) -> Seq(Nodes)] /\ r[b] = d
      /\ \A x \in Places(size) : x # b => r[x] = root[x]
  OBVIOUS
<1>4. RootOK(r, size)
  BY <1>1, <1>3 DEF RootOK
<1>5. ASSUME NEW x \in Places(size), NEW n \in Range(root[x]) PROVE Bucket(KeyOf[n], size) = x
  <2>1. root[x] \in Seq(Nodes) /\ \A i \in 1..Len(root[x]) : Bucket(KeyOf[root[x][i]], size) = x
    BY <1>1 DEF ChainOK
  <2> QED BY <2>1, RangeFacts
<1>6. \A n : n \in In(r) <=> \E x \in Places(size) : n \in Range(r[x])
  BY <1>3 DEF In
<1>7. \A n : n \in In(root) <=> \E x \in Places(size) : n \in Range(root[x])
  BY <1>1 DEF In
<1>8. ASSUME NEW n \in In(r) PROVE n \in (In(root) \ Range(root[b])) \cup Range(d)
  <2>1. PICK x \in Places(size) : n \in Range(r[x])
    BY <1>6
  <2>2. CASE x = b
    BY <1>3, <2>1, <2>2
  <2>3. CASE x # b
    <3>1. n \in Range(root[x]) /\ n \in In(root)
      BY <1>3, <1>7, <2>1, <2>3
    <3>2. n \notin Range(root[b])
      BY <1>5, <2>3, <3>1
    <3> QED BY <3>1, <3>2
  <2> QED BY <2>2, <2>3
<1>9. ASSUME NEW n \in (In(root) \ Range(root[b])) \cup Range(d) PROVE n \in In(r)
  <2>1. CASE n \in Range(d)
    BY <1>3, <1>6, <2>1
  <2>2. CASE n \in In(root) \ Range(root[b])
    <3>1. PICK x \in Places(size) : n \in Range(root[x])
      BY <1>7, <2>2
    <3>2. r[x] = root[x]
      BY <1>3, <2>2, <3>1
    <3> QED BY <1>6, <3>1, <3>2
  <2> QED BY <2>1, <2>2
<1> QED BY <1>4, <1>8, <1>9

\* A node whose key is not there is put in its place, and the chains stay sorted.
LEMMA PutFacts ==
  ASSUME NEW root, NEW size, RootOK(root, size), NEW n \in Nodes,
         Bucket(KeyOf[n], size) \in Places(size),
         \A m \in In(root) : KeyOf[m] # KeyOf[n]
  PROVE  RootOK(Put(root, n, size), size) /\ In(Put(root, n, size)) = In(root) \cup {n}
<1> DEFINE k == KeyOf[n]
           b == Bucket(k, size)
           c == root[b]
           d == InsertAt(c, Stop(c, k), n)
           r == [root EXCEPT ![b] = d]
<1>1. ChainOK(c, b, size) /\ Range(c) \subseteq In(root) /\ DOMAIN root = Places(size)
  BY InFacts
<1>2. c \in Seq(Nodes) /\ Sorted(c) /\ \A i \in 1..Len(c) : Bucket(KeyOf[c[i]], size) = b
  BY <1>1 DEF ChainOK
<1>3. \A i \in 1..Len(c) : KeyOf[c[i]] # k
  BY <1>1, <1>2, RangeFacts
<1>4. d \in Seq(Nodes) /\ Sorted(d) /\ Range(d) = Range(c) \cup {n}
  <2> HIDE DEF c
  <2> QED BY <1>2, <1>3, InsertFacts
<1>5. \A m \in Range(c) \cup {n} : Bucket(KeyOf[m], size) = b
  BY <1>2, RangeFacts
<1>6. ChainOK(d, b, size)
  <2> HIDE DEF d, b, c
  <2> QED BY <1>4, <1>5, RangeFacts DEF ChainOK
<1>7. Put(root, n, size) = r
  BY <1>1 DEF Put
<1>8. RootOK(r, size) /\ In(r) = (In(root) \ Range(root[b])) \cup Range(d)
  <2>1. /\ r \in [Places(size) -> Seq(Nodes)] /\ r[b] = d /\ b \in Places(size)
        /\ \A x \in Places(size) : x # b => r[x] = root[x]
    <3>1. b \in Places(size)
      OBVIOUS
    <3> HIDE DEF d, b
    <3> QED BY <1>4, <3>1 DEF RootOK
  <2> HIDE DEF r, d, b
  <2> QED BY <1>6, <2>1, ExchangeFacts
<1> HIDE DEF r, d
<1> QED BY <1>1, <1>4, <1>7, <1>8

\* The chains of a table without a node that is in one of them.
LEMMA UnlinkFacts ==
  ASSUME NEW root, NEW size, RootOK(root, size), NEW n \in In(root)
  PROVE  RootOK(Drop(root, n, size), size) /\ In(Drop(root, n, size)) = In(root) \ {n}
<1> DEFINE b == Bucket(KeyOf[n], size)
           c == root[b]
           x == CHOOSE i \in DOMAIN c : c[i] = n
           d == RemoveAt(c, x)
           r == [root EXCEPT ![b] = d]
<1>1. /\ b \in Places(size) /\ n \in Range(c) /\ ChainOK(c, b, size) /\ Range(c) \subseteq In(root)
      /\ DOMAIN root = Places(size)
  BY InFacts
<1>2. c \in Seq(Nodes) /\ Sorted(c) /\ \A i \in 1..Len(c) : Bucket(KeyOf[c[i]], size) = b
  BY <1>1 DEF ChainOK
<1>3. x \in 1..Len(c) /\ c[x] = n
  <2>1. \E i \in DOMAIN c : c[i] = n
    BY <1>1, <1>2, RangeFacts, LenProperties
  <2>2. DOMAIN c = 1..Len(c)
    BY <1>2, LenProperties
  <2> HIDE DEF c
  <2> QED BY <2>1, <2>2
<1>4. d \in Seq(Nodes) /\ Sorted(d) /\ Range(d) = Range(c) \ {n}
  <2> HIDE DEF c, x
  <2> QED BY <1>2, <1>3, RemoveFacts
<1>5. \A m \in Range(c) : Bucket(KeyOf[m], size) = b
  BY <1>2, RangeFacts
<1>6. ChainOK(d, b, size)
  <2> HIDE DEF d, b, c
  <2> QED BY <1>4, <1>5, RangeFacts DEF ChainOK
<1>7. Drop(root, n, size) = r
  BY <1>1 DEF Drop
<1>8. RootOK(r, size) /\ In(r) = (In(root) \ Range(root[b])) \cup Range(d)
  <2>1. /\ r \in [Places(size) -> Seq(Nodes)] /\ r[b] = d /\ b \in Places(size)
        /\ \A y \in Places(size) : y # b => r[y] = root[y]
    <3>1. b \in Places(size)
      BY <1>1
    <3> HIDE DEF d, b
    <3> QED BY <1>4, <3>1 DEF RootOK
  <2> HIDE DEF r, d, b
  <2> QED BY <1>6, <2>1, ExchangeFacts
<1> HIDE DEF r, d
<1> QED BY <1>1, <1>4, <1>7, <1>8

-----------------------------------------------------------------------------
(* Growing. *)

\* Places of keys, in tables of two sizes.
LEMMA KeyBucket ==
  ASSUME NEW n \in Nodes, NEW s \in Nat, NEW u \in Nat, s <= u
  PROVE  /\ Bucket(KeyOf[n], s) \in Places(s) /\ Bucket(KeyOf[n], u) \in Places(u)
         /\ Bucket(KeyOf[n], u) % Buckets(s) = Bucket(KeyOf[n], s)
         /\ Bucket(KeyOf[n], u) \in Places(s) => Bucket(KeyOf[n], s) = Bucket(KeyOf[n], u)
<1> DEFINE x == Hash[KeyOf[n]]
           y == x % Buckets(u)
<1>1. x \in Nat
  BY HashAssumption
<1>2. Bucket(KeyOf[n], s) = x % Buckets(s) /\ Bucket(KeyOf[n], u) = y
  BY DEF Bucket
<1> HIDE DEF x
<1>3. y % Buckets(s) = x % Buckets(s) /\ x % Buckets(s) \in Places(s) /\ y \in Places(u)
  BY <1>1, BucketFacts
<1>4. y \in Nat
  BY <1>3, BucketsFacts DEF Places
<1> HIDE DEF y
<1>5. y \in Places(s) => y % Buckets(s) = y
  BY <1>4, BucketFacts
<1> QED BY <1>2, <1>3, <1>5

\* A smaller table has some of the places of a larger one.
LEMMA PlacesFacts ==
  ASSUME NEW s \in Nat, NEW u \in Nat, s <= u, NEW b \in Places(u)
  PROVE  /\ Places(s) \subseteq Places(u) /\ b % Buckets(s) \in Places(s)
         /\ Buckets(s) \in Nat \ {0} /\ Buckets(u) \in Nat \ {0} /\ Buckets(s) <= Buckets(u)
<1>1. Buckets(s) \in Nat \ {0} /\ Buckets(u) \in Nat \ {0} /\ b \in Nat
  BY BucketsFacts DEF Places
<1>2. Buckets(s) <= Buckets(u) /\ b % Buckets(s) \in Places(s)
  BY <1>1, BucketFacts
<1> QED BY <1>1, <1>2 DEF Places

\* What is kept of a chain, node after node.
LEMMA PartLoop ==
  ASSUME NEW c \in Seq(Nodes), NEW b, NEW size
  PROVE  \E p : /\ p[0] = << >> /\ Part(c, b, size) = p[Len(c)]
                /\ \A i \in 1..Len(c) :
                     p[i] = IF Bucket(KeyOf[c[i]], size) = b THEN Append(p[i - 1], c[i]) ELSE p[i - 1]
<1> DEFINE n == Len(c)
           S == Seq(Nodes)
           F == [i \in 1..n |-> [s \in S |-> IF Bucket(KeyOf[c[i]], size) = b THEN Append(s, c[i]) ELSE s]]
           Is(p) == p = [i \in 0..n |->
                           IF i = 0 THEN << >>
                           ELSE IF Bucket(KeyOf[c[i]], size) = b THEN Append(p[i - 1], c[i])
                           ELSE p[i - 1]]
           part == CHOOSE p : Is(p)
<1>1. n \in Nat /\ \A i \in 1..n : c[i] \in Nodes
  BY LenProperties, ElementOfSeq
<1>2. << >> \in S /\ F \in [1..n -> [S -> S]]
  <2>1. ASSUME NEW i \in 1..n, NEW s \in S
        PROVE  (IF Bucket(KeyOf[c[i]], size) = b THEN Append(s, c[i]) ELSE s) \in S
    BY <1>1, AppendProperties
  <2> HIDE DEF S, n
  <2>2. << >> \in S
    BY DEF S
  <2> QED BY <2>1, <2>2
<1>3. PICK s \in [0..n -> S] : s[0] = << >> /\ \A k \in 1..n : s[k] = F[k][s[k - 1]]
  <2> DEFINE none == << >>
  <2>1. none \in S /\ F \in [1..n -> [S -> S]] /\ n \in Nat
    BY <1>1, <1>2
  <2>2. \E s \in [0..n -> S] : s[0] = none /\ \A k \in 1..n : s[k] = F[k][s[k - 1]]
    <3> HIDE DEF F, S, n, none
    <3> QED BY <2>1, LoopFacts
  <2> QED BY <2>2
<1>4. ASSUME NEW i \in 0..n
      PROVE  s[i] = IF i = 0 THEN << >>
                    ELSE IF Bucket(KeyOf[c[i]], size) = b THEN Append(s[i - 1], c[i]) ELSE s[i - 1]
  <2> HIDE DEF S, n
  <2>1. CASE i = 0
    BY <1>3, <2>1
  <2>2. CASE i # 0
    <3>1. i \in 1..n /\ i - 1 \in 0..n
      BY <1>1, <2>2
    <3>2. s[i - 1] \in S
      <4> HIDE DEF F
      <4> QED BY <1>3, <3>1
    <3>3. F[i][s[i - 1]] = IF Bucket(KeyOf[c[i]], size) = b THEN Append(s[i - 1], c[i]) ELSE s[i - 1]
      BY <3>1, <3>2
    <3>4. s[i] = F[i][s[i - 1]]
      <4> HIDE DEF F
      <4> QED BY <1>3, <3>1
    <3> QED BY <2>2, <3>3, <3>4
  <2> QED BY <2>1, <2>2
<1>5. Is(s)
  <2> HIDE DEF F, S, n
  <2> QED BY <1>3, <1>4
<1>6. Is(part)
  <2> HIDE DEF Is
  <2> QED BY <1>5
<1>7. Part(c, b, size) = part[n]
  BY DEF Part
<1> HIDE DEF part, n
<1>8. part[0] = << >>
  BY <1>1, <1>6
<1>9. ASSUME NEW i \in 1..n
      PROVE  part[i] = IF Bucket(KeyOf[c[i]], size) = b THEN Append(part[i - 1], c[i]) ELSE part[i - 1]
  <2>1. i \in 0..n /\ i # 0
    BY <1>1
  <2>2. part[i] = IF i = 0 THEN << >>
                  ELSE IF Bucket(KeyOf[c[i]], size) = b THEN Append(part[i - 1], c[i])
                  ELSE part[i - 1]
    BY <1>6, <2>1, Zenon
  <2> QED BY <2>1, <2>2
<1> QED BY <1>7, <1>8, <1>9 DEF n

\* A part of a sorted chain is sorted.
LEMMA PartFacts ==
  ASSUME NEW c \in Seq(Nodes), Sorted(c), NEW b, NEW size
  PROVE  /\ Part(c, b, size) \in Seq(Nodes) /\ Sorted(Part(c, b, size))
         /\ \A n : n \in Range(Part(c, b, size)) <=> n \in Range(c) /\ Bucket(KeyOf[n], size) = b
<1>1. PICK p : /\ p[0] = << >> /\ Part(c, b, size) = p[Len(c)]
               /\ \A i \in 1..Len(c) :
                    p[i] = IF Bucket(KeyOf[c[i]], size) = b THEN Append(p[i - 1], c[i]) ELSE p[i - 1]
  BY PartLoop
<1>2. Len(c) \in Nat /\ \A i \in 1..Len(c) : c[i] \in Nodes
  BY LenProperties, ElementOfSeq
<1> DEFINE Good(d, m) ==
             /\ d \in Seq(Nodes) /\ Sorted(d)
             /\ \A x \in 1..Len(d) : \E j \in 1..m : d[x] = c[j] /\ Bucket(KeyOf[c[j]], size) = b
             /\ \A j \in 1..m : Bucket(KeyOf[c[j]], size) = b => \E x \in 1..Len(d) : d[x] = c[j]
           N == {m \in Nat : m <= Len(c) => Good(p[m], m)}
<1>3. 0 \in N
  <2>1. << >> \in Seq(Nodes) /\ Len(<< >>) = 0 /\ \A x \in 1..0 : FALSE
    BY EmptySeq
  <2>2. Good(<< >>, 0)
    BY <2>1 DEF Sorted
  <2> HIDE DEF Good
  <2> QED BY <1>1, <2>2
<1>4. ASSUME NEW m \in N \cap Nat PROVE m + 1 \in N
  <2> SUFFICES ASSUME m + 1 <= Len(c) PROVE Good(p[m + 1], m + 1)
    OBVIOUS
  <2> DEFINE d == p[m]
             e == c[m + 1]
  <2>1. Good(d, m) /\ m + 1 \in 1..Len(c) /\ (m + 1) - 1 = m /\ e \in Nodes
    <3>1. m <= Len(c)
      BY <1>2
    <3> HIDE DEF Good
    <3> QED BY <1>2, <3>1
  <2>2. p[m + 1] = IF Bucket(KeyOf[e], size) = b THEN Append(d, e) ELSE d
    BY <1>1, <2>1
  <2> HIDE DEF d
  <2>3. CASE Bucket(KeyOf[e], size) # b
    <3>1. p[m + 1] = d
      BY <2>2, <2>3
    <3>2. Good(d, m + 1)
      <4>1. ASSUME NEW x \in 1..Len(d) PROVE \E j \in 1..(m + 1) : d[x] = c[j] /\ Bucket(KeyOf[c[j]], size) = b
        <5>1. PICK j \in 1..m : d[x] = c[j] /\ Bucket(KeyOf[c[j]], size) = b
          BY <2>1
        <5> QED BY <5>1
      <4>2. ASSUME NEW j \in 1..(m + 1), Bucket(KeyOf[c[j]], size) = b PROVE \E x \in 1..Len(d) : d[x] = c[j]
        <5>1. j \in 1..m
          BY <2>3, <4>2
        <5> QED BY <2>1, <4>2, <5>1
      <4> QED BY <2>1, <4>1, <4>2
    <3> QED BY <3>1, <3>2
  <2>4. CASE Bucket(KeyOf[e], size) = b
    <3> DEFINE f == Append(d, e)
    <3>1. p[m + 1] = f
      BY <2>2, <2>4
    <3>2. /\ f \in Seq(Nodes) /\ Len(f) = Len(d) + 1 /\ Len(d) \in Nat
          /\ \A i \in 1..Len(d) : f[i] = d[i]
          /\ f[Len(d) + 1] = e
      <4>1. d \in Seq(Nodes)
        BY <2>1
      <4> QED BY <2>1, <4>1, AppendProperties, LenProperties
    <3> HIDE DEF f
    <3>3. Sorted(f)
      <4> SUFFICES ASSUME NEW x \in 1..Len(f), NEW y \in 1..Len(f), x < y
                   PROVE  Precedes(KeyOf[f[x]], KeyOf[f[y]])
        BY DEF Sorted
      <4>0. x \in 1..Len(d) /\ f[x] = d[x]
        BY <3>2
      <4>1. CASE y <= Len(d)
        <5>1. f[y] = d[y] /\ y \in 1..Len(d) /\ Sorted(d)
          BY <2>1, <3>2, <4>1, SMTT(60)
        <5> QED BY <4>0, <5>1 DEF Sorted
      <4>2. CASE y = Len(d) + 1
        <5>1. PICK j \in 1..m : d[x] = c[j]
          BY <2>1, <4>0
        <5>2. j \in 1..Len(c) /\ j < m + 1
          BY <1>2, <2>1
        <5>3. Precedes(KeyOf[c[j]], KeyOf[c[m + 1]])
          BY <2>1, <5>2 DEF Sorted
        <5> QED BY <3>2, <4>0, <4>2, <5>1, <5>3
      <4> QED BY <3>2, <4>1, <4>2
    <3>4. ASSUME NEW x \in 1..Len(f) PROVE \E j \in 1..(m + 1) : f[x] = c[j] /\ Bucket(KeyOf[c[j]], size) = b
      <4>1. CASE x \in 1..Len(d)
        <5>1. PICK j \in 1..m : d[x] = c[j] /\ Bucket(KeyOf[c[j]], size) = b
          BY <2>1, <4>1
        <5>2. f[x] = c[j] /\ j \in 1..(m + 1)
          BY <3>2, <4>1, <5>1
        <5> QED BY <5>1, <5>2
      <4>2. CASE x = Len(d) + 1
        <5>1. f[x] = c[m + 1] /\ Bucket(KeyOf[c[m + 1]], size) = b /\ m + 1 \in 1..(m + 1)
          BY <2>1, <2>4, <3>2, <4>2
        <5> QED BY <5>1
      <4> QED BY <3>2, <4>1, <4>2
    <3>5. ASSUME NEW j \in 1..(m + 1), Bucket(KeyOf[c[j]], size) = b PROVE \E x \in 1..Len(f) : f[x] = c[j]
      <4>1. CASE j = m + 1
        BY <3>2, <4>1
      <4>2. CASE j # m + 1
        <5>1. j \in 1..m
          BY <4>2
        <5>2. PICK x \in 1..Len(d) : d[x] = c[j]
          BY <2>1, <3>5, <5>1
        <5>3. x \in 1..Len(f) /\ f[x] = c[j]
          BY <3>2, <5>2
        <5> QED BY <5>3
      <4> QED BY <4>1, <4>2
    <3> QED BY <3>1, <3>2, <3>3, <3>4, <3>5
  <2> QED BY <2>3, <2>4
<1>5. Good(p[Len(c)], Len(c))
  <2> HIDE DEF N, Good
  <2>1. Nat \subseteq N
    BY <1>3, <1>4, NatSetInduction
  <2> QED BY <1>2, <2>1 DEF N
<1> DEFINE d == p[Len(c)]
<1>6. Part(c, b, size) = d
  BY <1>1
<1> HIDE DEF d
<1>7. /\ d \in Seq(Nodes) /\ Sorted(d)
      /\ \A x \in 1..Len(d) : \E j \in 1..Len(c) : d[x] = c[j] /\ Bucket(KeyOf[c[j]], size) = b
      /\ \A j \in 1..Len(c) : Bucket(KeyOf[c[j]], size) = b => \E x \in 1..Len(d) : d[x] = c[j]
  BY <1>5 DEF d
<1>8. ASSUME NEW n \in Range(d) PROVE n \in Range(c) /\ Bucket(KeyOf[n], size) = b
  <2>1. PICK x \in 1..Len(d) : d[x] = n
    BY <1>7, RangeFacts
  <2>2. PICK j \in 1..Len(c) : d[x] = c[j] /\ Bucket(KeyOf[c[j]], size) = b
    BY <1>7
  <2> QED BY <2>1, <2>2, RangeFacts
<1>9. ASSUME NEW n \in Range(c), Bucket(KeyOf[n], size) = b PROVE n \in Range(d)
  <2>1. PICK j \in 1..Len(c) : c[j] = n
    BY RangeFacts
  <2>2. PICK x \in 1..Len(d) : d[x] = c[j]
    BY <1>7, <1>9, <2>1
  <2> QED BY <1>7, <2>1, <2>2, RangeFacts
<1> QED BY <1>6, <1>7, <1>8, <1>9

\* A table that grows has the same nodes.
LEMMA GrowRoot ==
  ASSUME NEW s \in Nat, NEW u \in Nat, s <= u, NEW root, RootOK(root, s),
         NEW r, r = [b \in Places(u) |-> Part(root[b % Buckets(s)], b, u)]
  PROVE  RootOK(r, u) /\ In(r) = In(root)
<1>1. ASSUME NEW b \in Places(u)
      PROVE  /\ r[b] = Part(root[b % Buckets(s)], b, u) /\ b % Buckets(s) \in Places(s)
             /\ r[b] \in Seq(Nodes) /\ Sorted(r[b])
             /\ \A n : n \in Range(r[b]) <=> n \in Range(root[b % Buckets(s)]) /\ Bucket(KeyOf[n], u) = b
  <2> DEFINE c == root[b % Buckets(s)]
  <2>1. b % Buckets(s) \in Places(s)
    BY PlacesFacts
  <2>2. c \in Seq(Nodes) /\ Sorted(c)
    BY <2>1 DEF RootOK, ChainOK
  <2>3. r[b] = Part(c, b, u)
    OBVIOUS
  <2> HIDE DEF c
  <2>4. /\ r[b] \in Seq(Nodes) /\ Sorted(r[b])
        /\ \A n : n \in Range(r[b]) <=> n \in Range(c) /\ Bucket(KeyOf[n], u) = b
    BY <2>2, <2>3, PartFacts
  <2> QED BY <2>1, <2>3, <2>4 DEF c
<1>2. DOMAIN r = Places(u) /\ r \in [Places(u) -> Seq(Nodes)]
  BY <1>1
<1>3. ASSUME NEW b \in Places(u) PROVE ChainOK(r[b], b, u)
  BY <1>1, RangeFacts DEF ChainOK
<1>4. RootOK(r, u)
  BY <1>2, <1>3 DEF RootOK
<1>5. ASSUME NEW n \in In(r) PROVE n \in In(root)
  <2>1. PICK b \in Places(u) : n \in Range(r[b])
    BY <1>2, <1>5 DEF In
  <2>2. b % Buckets(s) \in Places(s) /\ n \in Range(root[b % Buckets(s)])
    BY <1>1, <2>1
  <2> QED BY <2>2, InFacts
<1>6. ASSUME NEW n \in In(root) PROVE n \in In(r)
  <2> DEFINE b == Bucket(KeyOf[n], u)
  <2>1. n \in Nodes /\ n \in Range(root[Bucket(KeyOf[n], s)])
    BY <1>6, InFacts
  <2>2. b \in Places(u) /\ b % Buckets(s) = Bucket(KeyOf[n], s)
    BY <2>1, KeyBucket
  <2>3. n \in Range(r[b])
    BY <1>1, <2>1, <2>2
  <2> HIDE DEF b
  <2> QED BY <1>2, <2>2, <2>3 DEF In
<1> QED BY <1>4, <1>5, <1>6

-----------------------------------------------------------------------------
(* Shrinking. *)

\* Putting a node into chains gives chains, whatever they are.
LEMMA PutType ==
  ASSUME NEW size \in Nat, NEW r \in [Places(size) -> Seq(Nodes)], NEW n \in Nodes
  PROVE  Put(r, n, size) \in [Places(size) -> Seq(Nodes)]
<1> DEFINE k == KeyOf[n]
           b == Bucket(k, size)
           c == r[b]
           d == InsertAt(c, Stop(c, k), n)
<1>1. b \in Places(size)
  BY KeyBucket
<1>2. c \in Seq(Nodes)
  BY <1>1
<1>3. d \in Seq(Nodes)
  <2> HIDE DEF c
  <2>1. Stop(c, k) \in 1..(Len(c) + 1)
    BY <1>2, StopFacts
  <2> QED BY <1>2, <2>1, InsertAtFacts
<1>4. Put(r, n, size) = [r EXCEPT ![b] = d]
  BY <1>1 DEF Put
<1> HIDE DEF b, d
<1> QED BY <1>1, <1>3, <1>4

\* The chains of a table, after each node that was moved.
LEMMA MoveLoop ==
  ASSUME NEW size \in Nat, NEW r \in [Places(size) -> Seq(Nodes)], NEW c \in Seq(Nodes)
  PROVE  \E p : /\ p[0] = r /\ Move(r, c, size) = p[Len(c)]
                /\ \A i \in 1..Len(c) : p[i] = Put(p[i - 1], c[i], size)
                /\ \A i \in 0..Len(c) : p[i] \in [Places(size) -> Seq(Nodes)]
<1> DEFINE n == Len(c)
           S == [Places(size) -> Seq(Nodes)]
           F == [i \in 1..n |-> [q \in S |-> Put(q, c[i], size)]]
           Is(p) == p = [i \in 0..n |-> IF i = 0 THEN r ELSE Put(p[i - 1], c[i], size)]
           moved == CHOOSE p : Is(p)
<1>1. n \in Nat /\ \A i \in 1..n : c[i] \in Nodes
  BY LenProperties, ElementOfSeq
<1>2. r \in S /\ F \in [1..n -> [S -> S]]
  <2>1. ASSUME NEW i \in 1..n, NEW q \in S PROVE Put(q, c[i], size) \in S
    BY <1>1, PutType
  <2> HIDE DEF S, n
  <2>2. r \in S
    BY DEF S
  <2> QED BY <2>1, <2>2
<1>3. PICK s : s \in [0..n -> S] /\ s[0] = r /\ \A k \in 1..n : s[k] = F[k][s[k - 1]]
  <2>1. \E s : Runs(S, n, F, r, s)
    <3> HIDE DEF F, S, n
    <3> QED BY <1>1, <1>2, LoopRuns
  <2> HIDE DEF F, S, n
  <2> QED BY <2>1 DEF Runs
<1>4. ASSUME NEW i \in 0..n PROVE s[i] = IF i = 0 THEN r ELSE Put(s[i - 1], c[i], size)
  <2> HIDE DEF S, n
  <2>1. CASE i = 0
    BY <1>3, <2>1
  <2>2. CASE i # 0
    <3>1. i \in 1..n /\ i - 1 \in 0..n
      BY <1>1, <2>2
    <3>2. s[i - 1] \in S /\ s[i] = F[i][s[i - 1]]
      <4> HIDE DEF F
      <4> QED BY <1>3, <3>1
    <3>3. F[i][s[i - 1]] = Put(s[i - 1], c[i], size)
      BY <3>1, <3>2
    <3> QED BY <2>2, <3>2, <3>3
  <2> QED BY <2>1, <2>2
<1>5. Is(s)
  <2> HIDE DEF F, S, n
  <2> QED BY <1>3, <1>4
<1>6. Is(moved)
  <2> HIDE DEF Is
  <2> QED BY <1>5
<1>7. Move(r, c, size) = moved[n]
  BY DEF Move
<1> HIDE DEF moved, n
<1>8. moved[0] = r
  BY <1>1, <1>6
<1>9. ASSUME NEW i \in 1..n PROVE moved[i] = Put(moved[i - 1], c[i], size)
  <2>1. i \in 0..n /\ i # 0
    BY <1>1
  <2>2. moved[i] = IF i = 0 THEN r ELSE Put(moved[i - 1], c[i], size)
    BY <1>6, <2>1, Zenon
  <2> QED BY <2>1, <2>2
<1>10. \A i \in 0..n : moved[i] \in S
  <2>1. moved[0] \in S
    BY <1>2, <1>8
  <2>2. ASSUME NEW i \in 1..n, moved[i - 1] \in S PROVE moved[i] \in S
    <3>1. moved[i - 1] \in [Places(size) -> Seq(Nodes)] /\ c[i] \in Nodes
      BY <1>1, <2>2
    <3>2. Put(moved[i - 1], c[i], size) \in [Places(size) -> Seq(Nodes)]
      BY <3>1, PutType
    <3> QED BY <1>9, <3>2
  <2> HIDE DEF S
  <2> QED BY <1>1, <2>1, <2>2, LoopStays
<1> QED BY <1>7, <1>8, <1>9, <1>10 DEF n

\* A chain of nodes whose keys are not in the table is moved into it.
LEMMA MoveFacts ==
  ASSUME NEW size \in Nat, NEW r, RootOK(r, size), NEW c \in Seq(Nodes), Sorted(c),
         \A m \in In(r) : \A n \in Range(c) : KeyOf[m] # KeyOf[n]
  PROVE  RootOK(Move(r, c, size), size) /\ In(Move(r, c, size)) = In(r) \cup Range(c)
<1>1. PICK p : /\ p[0] = r /\ Move(r, c, size) = p[Len(c)]
               /\ \A i \in 1..Len(c) : p[i] = Put(p[i - 1], c[i], size)
  <2>1. r \in [Places(size) -> Seq(Nodes)]
    BY DEF RootOK
  <2> QED BY <2>1, MoveLoop
<1>2. Len(c) \in Nat /\ \A i \in 1..Len(c) : c[i] \in Nodes /\ c[i] \in Range(c)
  BY LenProperties, ElementOfSeq, RangeFacts
<1> DEFINE Good(q, m) == RootOK(q, size) /\ \A n : n \in In(q) <=> n \in In(r) \/ \E j \in 1..m : n = c[j]
           N == {m \in Nat : m <= Len(c) => Good(p[m], m)}
<1>3. 0 \in N
  BY <1>1
<1>4. ASSUME NEW m \in N \cap Nat PROVE m + 1 \in N
  <2> SUFFICES ASSUME m + 1 <= Len(c) PROVE Good(p[m + 1], m + 1)
    OBVIOUS
  <2> DEFINE q == p[m]
             e == c[m + 1]
  <2>1. Good(q, m) /\ m + 1 \in 1..Len(c) /\ (m + 1) - 1 = m /\ e \in Nodes /\ e \in Range(c)
    <3>1. m <= Len(c)
      BY <1>2
    <3> HIDE DEF Good
    <3> QED BY <1>2, <3>1
  <2>2. p[m + 1] = Put(q, e, size)
    BY <1>1, <2>1
  <2> HIDE DEF q
  <2>3. ASSUME NEW n \in In(q) PROVE KeyOf[n] # KeyOf[e]
    <3>1. CASE n \in In(r)
      BY <2>1, <3>1
    <3>2. CASE n \notin In(r)
      <4>1. PICK j \in 1..m : n = c[j]
        BY <2>1, <2>3, <3>2
      <4>2. j \in 1..Len(c) /\ j < m + 1
        BY <1>2, <2>1
      <4>3. Precedes(KeyOf[c[j]], KeyOf[e])
        BY <2>1, <4>2 DEF Sorted
      <4>4. KeyOf[e] \in Keys
        BY <2>1, KeyFacts
      <4> QED BY <4>1, <4>3, <4>4, Ordered
    <3> QED BY <3>1, <3>2
  <2>4. Bucket(KeyOf[e], size) \in Places(size)
    BY <2>1, KeyBucket
  <2>5. RootOK(Put(q, e, size), size) /\ In(Put(q, e, size)) = In(q) \cup {e}
    <3>1. RootOK(q, size) /\ e \in Nodes
      BY <2>1
    <3> HIDE DEF e
    <3> QED BY <2>3, <2>4, <3>1, PutFacts
  <2>6. ASSUME NEW n PROVE n \in In(q) \cup {e} <=> n \in In(r) \/ \E j \in 1..(m + 1) : n = c[j]
    <3>1. n \in In(q) <=> n \in In(r) \/ \E j \in 1..m : n = c[j]
      BY <2>1
    <3>2. (\E j \in 1..(m + 1) : n = c[j]) <=> n = e \/ \E j \in 1..m : n = c[j]
      <4>1. \A j : j \in 1..(m + 1) <=> j \in 1..m \/ j = m + 1
        OBVIOUS
      <4> QED BY <4>1
    <3> QED BY <3>1, <3>2
  <2> QED BY <2>2, <2>5, <2>6
<1>5. Good(p[Len(c)], Len(c))
  <2> HIDE DEF N, Good
  <2>1. Nat \subseteq N
    BY <1>3, <1>4, NatSetInduction
  <2> QED BY <1>2, <2>1 DEF N
<1>6. \A n : n \in Range(c) <=> \E j \in 1..Len(c) : n = c[j]
  BY RangeFacts
<1> QED BY <1>1, <1>5, <1>6

\* Moving a chain gives chains, whatever they are.
LEMMA MoveType ==
  ASSUME NEW size \in Nat, NEW r \in [Places(size) -> Seq(Nodes)], NEW c \in Seq(Nodes)
  PROVE  Move(r, c, size) \in [Places(size) -> Seq(Nodes)]
<1>1. PICK p : /\ Move(r, c, size) = p[Len(c)]
               /\ \A i \in 0..Len(c) : p[i] \in [Places(size) -> Seq(Nodes)]
  BY MoveLoop
<1>2. Len(c) \in 0..Len(c)
  BY LenProperties
<1> QED BY <1>1, <1>2

Resized(t, size, root) == [t EXCEPT !.size = size, !.root = root]

\* The chains of a table, after each upper bucket that was moved.
LEMMA ShrinkLoop ==
  ASSUME NEW t, NEW s \in Nat, NEW size \in Nat, size <= s, t.size = s, RootOK(t.root, s)
  PROVE  \E p : /\ p[0] = [b \in Places(size) |-> t.root[b]]
                /\ Shrink(t, size) = Resized(t, size, p[Buckets(s) - Buckets(size)])
                /\ \A i \in 1..(Buckets(s) - Buckets(size)) :
                     p[i] = Move(p[i - 1], t.root[Buckets(size) + i - 1], size)
<1> DEFINE n == Buckets(s) - Buckets(size)
           low == [b \in Places(size) |-> t.root[b]]
           S == [Places(size) -> Seq(Nodes)]
           c(i) == t.root[Buckets(size) + i - 1]
           F == [i \in 1..n |-> [q \in S |-> Move(q, c(i), size)]]
           Is(p) == p = [i \in 0..n |-> IF i = 0 THEN low ELSE Move(p[i - 1], c(i), size)]
           root == CHOOSE p : Is(p)
<1>1. /\ Buckets(s) \in Nat \ {0} /\ Buckets(size) \in Nat \ {0} /\ Buckets(size) <= Buckets(s)
      /\ Places(size) \subseteq Places(s)
  <2>1. 0 \in Places(s)
    BY BucketsFacts DEF Places
  <2> QED BY <2>1, PlacesFacts
<1>2. n \in Nat /\ \A i \in 1..n : c(i) \in Seq(Nodes)
  <2>1. n \in Nat /\ \A i \in 1..n : Buckets(size) + i - 1 \in Places(s)
    BY <1>1 DEF Places
  <2> QED BY <2>1 DEF RootOK
<1>3. low \in S /\ F \in [1..n -> [S -> S]]
  <2>1. ASSUME NEW i \in 1..n, NEW q \in S PROVE Move(q, c(i), size) \in S
    <3> HIDE DEF c
    <3> QED BY <1>2, MoveType
  <2>2. low \in S
    BY <1>1 DEF RootOK
  <2> HIDE DEF S, n, low, c
  <2> QED BY <2>1, <2>2
<1>4. PICK q : q \in [0..n -> S] /\ q[0] = low /\ \A k \in 1..n : q[k] = F[k][q[k - 1]]
  <2>1. \E q : Runs(S, n, F, low, q)
    <3> HIDE DEF F, S, n, low
    <3> QED BY <1>2, <1>3, LoopRuns
  <2> HIDE DEF F, S, n, low
  <2> QED BY <2>1 DEF Runs
<1>5. ASSUME NEW i \in 0..n PROVE q[i] = IF i = 0 THEN low ELSE Move(q[i - 1], c(i), size)
  <2> HIDE DEF S, n, low, c
  <2>1. CASE i = 0
    BY <1>4, <2>1
  <2>2. CASE i # 0
    <3>1. i \in 1..n /\ i - 1 \in 0..n
      BY <1>2, <2>2
    <3>2. q[i - 1] \in S /\ q[i] = F[i][q[i - 1]]
      <4> HIDE DEF F
      <4> QED BY <1>4, <3>1
    <3>3. F[i][q[i - 1]] = Move(q[i - 1], c(i), size)
      BY <3>1, <3>2
    <3> QED BY <2>2, <3>2, <3>3
  <2> QED BY <2>1, <2>2
<1>6. Is(q)
  <2> HIDE DEF F, S, n, low, c
  <2> QED BY <1>4, <1>5
<1>7. Is(root)
  <2> HIDE DEF Is
  <2> QED BY <1>6
<1>8. Shrink(t, size) = Resized(t, size, root[n])
  BY DEF Shrink, Resized
<1> HIDE DEF root, n, low, c
<1>9. root[0] = low
  BY <1>2, <1>7
<1>10. ASSUME NEW i \in 1..n PROVE root[i] = Move(root[i - 1], c(i), size)
  <2>1. i \in 0..n /\ i # 0
    BY <1>2
  <2>2. root[i] = IF i = 0 THEN low ELSE Move(root[i - 1], c(i), size)
    BY <1>7, <2>1, Zenon
  <2> QED BY <2>1, <2>2
<1> QED BY <1>8, <1>9, <1>10 DEF n, low, c

\* The nodes of a bucket are those whose keys have it.
LEMMA InBucket ==
  ASSUME NEW root, NEW size, RootOK(root, size), NEW b \in Places(size), NEW n
  PROVE  n \in Range(root[b]) <=> n \in In(root) /\ Bucket(KeyOf[n], size) = b
<1>1. /\ root[b] \in Seq(Nodes) /\ Range(root[b]) \subseteq In(root)
      /\ \A i \in 1..Len(root[b]) : Bucket(KeyOf[root[b][i]], size) = b
  BY InFacts DEF ChainOK
<1>2. n \in Range(root[b]) => Bucket(KeyOf[n], size) = b
  BY <1>1, RangeFacts
<1>3. n \in In(root) => n \in Range(root[Bucket(KeyOf[n], size)])
  BY InFacts
<1> QED BY <1>1, <1>2, <1>3

\* A table that shrinks has the same nodes.
LEMMA ShrinkRoot ==
  ASSUME NEW t, NEW s \in Nat, NEW size \in Nat, size <= s, t.size = s, RootOK(t.root, s)
  PROVE  \E r : /\ Shrink(t, size) = Resized(t, size, r)
                /\ RootOK(r, size) /\ In(r) = In(t.root)
<1> DEFINE B == Buckets(size)
           n == Buckets(s) - B
           low == [b \in Places(size) |-> t.root[b]]
<1>1. /\ Buckets(s) \in Nat \ {0} /\ B \in Nat \ {0} /\ B <= Buckets(s)
      /\ Places(size) \subseteq Places(s)
  <2>1. 0 \in Places(s)
    BY BucketsFacts DEF Places
  <2> QED BY <2>1, PlacesFacts
<1>2. PICK p : /\ p[0] = low /\ Shrink(t, size) = Resized(t, size, p[n])
               /\ \A i \in 1..n : p[i] = Move(p[i - 1], t.root[B + i - 1], size)
  BY ShrinkLoop, SMTT(60)
<1> DEFINE Good(q, m) == /\ RootOK(q, size)
                         /\ \A x : x \in In(q) <=> x \in In(t.root) /\ Bucket(KeyOf[x], s) < B + m
           N == {m \in Nat : m <= n => Good(p[m], m)}
<1>3. \A x \in In(t.root) : x \in Nodes /\ Bucket(KeyOf[x], s) \in Places(s)
  BY InFacts
<1>4. Good(low, 0)
  <2>1. DOMAIN low = Places(size) /\ \A b \in Places(size) : low[b] = t.root[b]
    OBVIOUS
  <2>2. ASSUME NEW b \in Places(size) PROVE ChainOK(low[b], b, size)
    <3>1. ChainOK(t.root[b], b, s) /\ b \in Places(s)
      BY <1>1 DEF RootOK
    <3>2. t.root[b] \in Seq(Nodes) /\ \A i \in 1..Len(t.root[b]) : t.root[b][i] \in Nodes
      BY <3>1, ElementOfSeq DEF ChainOK
    <3>3. ASSUME NEW i \in 1..Len(t.root[b]) PROVE Bucket(KeyOf[t.root[b][i]], size) = b
      <4>1. Bucket(KeyOf[t.root[b][i]], s) = b
        BY <3>1 DEF ChainOK
      <4> QED BY <3>2, <4>1, KeyBucket
    <3> HIDE DEF low
    <3> QED BY <2>1, <3>1, <3>3 DEF ChainOK
  <2>3. low \in [Places(size) -> Seq(Nodes)]
    BY <1>1 DEF RootOK
  <2>4. \A b \in Places(size) : b \in Places(s) /\ b < B
    BY <1>1 DEF Places
  <2>5. \A b \in Places(s) : b < B => b \in Places(size)
    BY <1>1 DEF Places
  <2> HIDE DEF low, B
  <2>6. ASSUME NEW x
        PROVE  x \in In(low) <=> x \in In(t.root) /\ Bucket(KeyOf[x], s) < B
    <3>1. x \in In(low) <=> \E b \in Places(size) : x \in Range(t.root[b])
      BY <2>1 DEF In
    <3>2. \A b \in Places(size) :
            x \in Range(t.root[b]) <=> x \in In(t.root) /\ Bucket(KeyOf[x], s) = b
      BY <2>4, InBucket
    <3> QED BY <1>3, <2>4, <2>5, <3>1, <3>2
  <2>7. B + 0 = B
    BY <1>1 DEF B
  <2> QED BY <2>2, <2>3, <2>6, <2>7 DEF RootOK
<1>5. 0 \in N
  <2> HIDE DEF low, Good
  <2> QED BY <1>2, <1>4
<1>6. ASSUME NEW m \in N \cap Nat PROVE m + 1 \in N
  <2> SUFFICES ASSUME m + 1 <= n PROVE Good(p[m + 1], m + 1)
    OBVIOUS
  <2> DEFINE q == p[m]
             b == B + m
             c == t.root[b]
  <2>1. /\ Good(q, m) /\ m + 1 \in 1..n /\ (m + 1) - 1 = m /\ B + (m + 1) - 1 = b
        /\ B + (m + 1) = b + 1 /\ b \in Places(s)
    <3>1. m <= n
      BY <1>1
    <3>2. Good(q, m)
      <4> HIDE DEF Good, n
      <4> QED BY <3>1
    <3> HIDE DEF Good
    <3> QED BY <1>1, <3>1, <3>2 DEF Places
  <2>2. p[m + 1] = Move(q, c, size)
    <3> HIDE DEF B, n
    <3>1. p[m + 1] = Move(p[(m + 1) - 1], t.root[B + (m + 1) - 1], size)
      BY <1>2, <2>1
    <3> QED BY <2>1, <3>1
  <2>3. c \in Seq(Nodes) /\ Sorted(c)
    <3> HIDE DEF b
    <3> QED BY <2>1, InFacts DEF ChainOK
  <2>4. \A x : x \in Range(c) <=> x \in In(t.root) /\ Bucket(KeyOf[x], s) = b
    <3> HIDE DEF b
    <3> QED BY <2>1, InBucket
  <2>5. /\ RootOK(q, size)
        /\ \A x : x \in In(q) <=> x \in In(t.root) /\ Bucket(KeyOf[x], s) < b
    BY <2>1
  <2> HIDE DEF q
  <2>6. b \in Int
    BY <1>1
  <2> HIDE DEF b, c
  <2>7. ASSUME NEW x \in In(q), NEW y \in Range(c) PROVE KeyOf[x] # KeyOf[y]
    <3>1. Bucket(KeyOf[x], s) < b /\ Bucket(KeyOf[y], s) = b
      BY <2>4, <2>5
    <3> QED BY <2>6, <3>1
  <2>8. RootOK(Move(q, c, size), size) /\ In(Move(q, c, size)) = In(q) \cup Range(c)
    BY <2>3, <2>5, <2>7, MoveFacts
  <2>9. ASSUME NEW x PROVE x \in In(q) \cup Range(c) <=> x \in In(t.root) /\ Bucket(KeyOf[x], s) < b + 1
    <3>1. x \in In(t.root) => Bucket(KeyOf[x], s) \in Int
      BY <1>1, <1>3 DEF Places
    <3>2. x \in In(t.root) => (Bucket(KeyOf[x], s) < b + 1 <=> Bucket(KeyOf[x], s) < b \/ Bucket(KeyOf[x], s) = b)
      BY <2>6, <3>1
    <3> QED BY <2>4, <2>5, <3>2
  <2>10. Good(Move(q, c, size), m + 1)
    <3> HIDE DEF B
    <3> QED BY <2>1, <2>8, <2>9
  <2> HIDE DEF Good
  <2> QED BY <2>2, <2>10
<1>7. Good(p[n], n)
  <2>1. n \in Nat /\ n <= n
    BY <1>1
  <2> HIDE DEF N, Good, n
  <2>2. Nat \subseteq N
    BY <1>5, <1>6, NatSetInduction
  <2> QED BY <2>1, <2>2 DEF N
<1>8. B + n = Buckets(s)
  BY <1>1
<1>9. ASSUME NEW x PROVE x \in In(p[n]) <=> x \in In(t.root)
  <2>1. x \in In(t.root) => Bucket(KeyOf[x], s) < Buckets(s)
    BY <1>1, <1>3 DEF Places
  <2> HIDE DEF n, B
  <2> QED BY <1>7, <1>8, <2>1
<1> HIDE DEF n
<1> QED BY <1>2, <1>7, <1>9

-----------------------------------------------------------------------------
(* Tables. *)

\* A table made of another, with its nodes.
SameNodes(u, t) == TableOK(u) /\ In(u.root) = In(t.root) /\ u.count = t.count

\* Every set of nodes is finite, and none has more than there are.
LEMMA NodeSets ==
  ASSUME NEW A, A \subseteq Nodes
  PROVE  /\ IsFiniteSet(A) /\ Cardinality(A) \in 0..Cardinality(Nodes)
         /\ Cardinality(A) = 0 <=> A = {}
         /\ \A n \in A : Cardinality(A \ {n}) = Cardinality(A) - 1
         /\ \A n \in Nodes \ A : Cardinality(A \cup {n}) = Cardinality(A) + 1
<1>1. IsFiniteSet(Nodes)
  BY HashAssumption
<1>2. IsFiniteSet(A) /\ Cardinality(A) <= Cardinality(Nodes)
  BY <1>1, FS_Subset
<1>3. Cardinality(A) \in Nat /\ Cardinality(Nodes) \in Nat
  BY <1>1, <1>2, FS_CardinalityType
<1>4. Cardinality(A) = 0 <=> A = {}
  BY <1>2, FS_EmptySet
<1>5. \A n \in A : Cardinality(A \ {n}) = Cardinality(A) - 1
  BY <1>2, FS_RemoveElement
<1>6. \A n \in Nodes \ A : Cardinality(A \cup {n}) = Cardinality(A) + 1
  BY <1>2, FS_AddElement
<1> QED BY <1>2, <1>3, <1>4, <1>5, <1>6

\* Sizes are natural numbers, and tables of them have chains of nodes.
LEMMA TableFacts ==
  ASSUME NEW t, TableOK(t)
  PROVE  /\ t.live = TRUE /\ t # NoTable /\ t.size \in Sizes /\ t.size \in Nat
         /\ RootOK(t.root, t.size) /\ In(t.root) \subseteq Nodes
         /\ t.count = Cardinality(In(t.root)) /\ t.count \in 0..Cardinality(Nodes)
         /\ t.flags \in Flags
<1>1. /\ t = [live |-> TRUE, count |-> t.count, size |-> t.size, flags |-> t.flags, root |-> t.root]
      /\ t.size \in Sizes /\ t.flags \in Flags /\ RootOK(t.root, t.size)
      /\ t.count = Cardinality(In(t.root))
  BY DEF TableOK
<1>2. t.live = TRUE
  BY <1>1
<1>3. t # NoTable
  BY <1>2 DEF NoTable
<1>4. t.size \in Nat
  BY <1>1, HashAssumption DEF Sizes
<1>5. In(t.root) \subseteq Nodes
  BY <1>1, InFacts
<1>6. t.count \in 0..Cardinality(Nodes)
  BY <1>1, <1>5, NodeSets
<1> QED BY <1>1, <1>2, <1>3, <1>4, <1>5, <1>6

\* The fields of a record that is a table.
LEMMA FieldsOf ==
  ASSUME NEW c, NEW s, NEW f, NEW r, NEW u,
         u = [live |-> TRUE, count |-> c, size |-> s, flags |-> f, root |-> r]
  PROVE  u.live = TRUE /\ u.count = c /\ u.size = s /\ u.flags = f /\ u.root = r
OBVIOUS

\* The fields of a table that is given a new count, a new size or new chains.
LEMMA Exchanged ==
  ASSUME NEW c, NEW s, NEW f, NEW r, NEW x, NEW y, NEW t,
         t = [live |-> TRUE, count |-> c, size |-> s, flags |-> f, root |-> r],
         NEW u, u = [t EXCEPT !.size = x, !.root = y],
         NEW v, v = [t EXCEPT !.count = x, !.root = y]
  PROVE  /\ u = [live |-> TRUE, count |-> c, size |-> x, flags |-> f, root |-> y]
         /\ v = [live |-> TRUE, count |-> x, size |-> s, flags |-> f, root |-> y]
OBVIOUS

\* They are the fields it had.
LEMMA Fields ==
  ASSUME NEW t, TableOK(t), NEW x, NEW y
  PROVE  /\ Resized(t, x, y) =
              [live |-> TRUE, count |-> t.count, size |-> x, flags |-> t.flags, root |-> y]
         /\ [t EXCEPT !.count = x, !.root = y] =
              [live |-> TRUE, count |-> x, size |-> t.size, flags |-> t.flags, root |-> y]
<1>1. t = [live |-> TRUE, count |-> t.count, size |-> t.size, flags |-> t.flags, root |-> t.root]
  BY DEF TableOK
<1>2. PICK c, s, f, r : /\ t = [live |-> TRUE, count |-> c, size |-> s, flags |-> f, root |-> r]
                        /\ t.count = c /\ t.size = s /\ t.flags = f
  BY <1>1, Zenon
<1>3. ASSUME NEW u, u = [t EXCEPT !.size = x, !.root = y],
             NEW v, v = [t EXCEPT !.count = x, !.root = y]
      PROVE  /\ u = [live |-> TRUE, count |-> c, size |-> x, flags |-> f, root |-> y]
             /\ v = [live |-> TRUE, count |-> x, size |-> s, flags |-> f, root |-> y]
  BY <1>2, <1>3, Exchanged
<1>4. /\ Resized(t, x, y) = [live |-> TRUE, count |-> c, size |-> x, flags |-> f, root |-> y]
      /\ [t EXCEPT !.count = x, !.root = y] =
           [live |-> TRUE, count |-> x, size |-> s, flags |-> f, root |-> y]
  <2> DEFINE u == Resized(t, x, y)
             v == [t EXCEPT !.count = x, !.root = y]
  <2>1. u = [t EXCEPT !.size = x, !.root = y] /\ v = [t EXCEPT !.count = x, !.root = y]
    BY Zenon DEF Resized
  <2> HIDE DEF u, v
  <2>2. /\ u = [live |-> TRUE, count |-> c, size |-> x, flags |-> f, root |-> y]
        /\ v = [live |-> TRUE, count |-> x, size |-> s, flags |-> f, root |-> y]
    BY <1>3, <2>1
  <2> QED BY <2>2, Zenon DEF u, v
<1> QED BY <1>2, <1>4, Zenon

\* A table is given chains with the same nodes.
LEMMA ResizedTable ==
  ASSUME NEW t, TableOK(t), NEW size \in Sizes, NEW r, RootOK(r, size), In(r) = In(t.root)
  PROVE  SameNodes(Resized(t, size, r), t)
<1> DEFINE u == Resized(t, size, r)
<1>2. u = [live |-> TRUE, count |-> t.count, size |-> size, flags |-> t.flags, root |-> r]
  BY Fields
<1>3. u.count = t.count /\ u.size = size /\ u.flags = t.flags /\ u.root = r
  BY <1>2
<1> HIDE DEF u
<1>4. TableOK(u)
  BY <1>2, <1>3, TableFacts DEF TableOK
<1> QED BY <1>3, <1>4 DEF SameNodes, u

\* ht_grow keeps a table well formed, with its nodes.
LEMMA GrowTable ==
  ASSUME NEW t, TableOK(t), NEW size \in Sizes, t.size <= size
  PROVE  SameNodes(Grow(t, size), t)
<1> DEFINE r == [b \in Places(size) |-> Part(t.root[b % Buckets(t.size)], b, size)]
<1>1. Grow(t, size) = Resized(t, size, r)
  BY DEF Grow, Resized
<1>2. size \in Nat /\ t.size \in Nat /\ RootOK(t.root, t.size)
  <2>1. size \in Nat
    BY HashAssumption DEF Sizes
  <2> QED BY <2>1, TableFacts
<1>3. RootOK(r, size) /\ In(r) = In(t.root)
  BY <1>2, GrowRoot
<1> HIDE DEF r
<1> QED BY <1>1, <1>3, ResizedTable

\* ht_shrink does so too.
LEMMA ShrinkTable ==
  ASSUME NEW t, TableOK(t), NEW size \in Sizes, size <= t.size
  PROVE  SameNodes(Shrink(t, size), t)
<1>1. size \in Nat /\ t.size \in Nat /\ RootOK(t.root, t.size)
  <2>1. size \in Nat
    BY HashAssumption DEF Sizes
  <2> QED BY <2>1, TableFacts
<1>2. PICK r : /\ Shrink(t, size) = Resized(t, size, r)
               /\ RootOK(r, size) /\ In(r) = In(t.root)
  BY <1>1, ShrinkRoot
<1> QED BY <1>2, ResizedTable

\* CHECK_AUTOGROW and CHECK_AUTOSHRINK leave the nodes of a table in it.
LEMMA AutoSize ==
  ASSUME NEW t, TableOK(t)
  PROVE  SameNodes(Grown(t), t) /\ \A u \in Shrunk(t) : SameNodes(u, t)
<1>1. SameNodes(t, t) /\ t.size \in Sizes /\ MaxSize \in Nat
  BY TableFacts, HashAssumption DEF SameNodes
<1>2. t.size < MaxSize => SameNodes(Grow(t, t.size + 1), t)
  <2>1. t.size < MaxSize => t.size + 1 \in Sizes /\ t.size <= t.size + 1
    BY <1>1 DEF Sizes
  <2> QED BY <2>1, GrowTable
<1>3. ~(t.size <= 1) => SameNodes(Shrink(t, t.size - 1), t)
  <2>1. ~(t.size <= 1) => t.size - 1 \in Sizes /\ t.size - 1 <= t.size
    BY <1>1 DEF Sizes
  <2> QED BY <2>1, ShrinkTable
<1>4. SameNodes(Grown(t), t)
  <2>1. Grown(t) = t \/ (t.size < MaxSize /\ Grown(t) = Grow(t, t.size + 1))
    BY DEF Grown
  <2> QED BY <1>1, <1>2, <2>1
<1>5. ASSUME NEW u \in Shrunk(t) PROVE SameNodes(u, t)
  <2>1. u = t \/ (~(t.size <= 1) /\ u = Shrink(t, t.size - 1))
    BY DEF Shrunk
  <2> QED BY <1>1, <1>3, <2>1
<1> QED BY <1>4, <1>5

\* A node is stored whose key is not there.
LEMMA StoreTable ==
  ASSUME NEW t, TableOK(t), NEW n \in Nodes, \A m \in In(t.root) : KeyOf[m] # KeyOf[n]
  PROVE  /\ TableOK(Inserted(t, n)) /\ In(Inserted(t, n).root) = In(t.root) \cup {n}
         /\ Inserted(t, n).count = t.count + 1
<1> DEFINE r == Put(t.root, n, t.size)
           u == Inserted(t, n)
<1>2. u = [live |-> TRUE, count |-> t.count + 1, size |-> t.size, flags |-> t.flags, root |-> r]
  BY Fields DEF Inserted
<1>3. RootOK(r, t.size) /\ In(r) = In(t.root) \cup {n}
  <2>1. t.size \in Nat /\ RootOK(t.root, t.size)
    BY TableFacts
  <2>2. Bucket(KeyOf[n], t.size) \in Places(t.size)
    BY <2>1, KeyBucket
  <2> QED BY <2>1, <2>2, PutFacts
<1> HIDE DEF r, u
<1>4. u.count = t.count + 1 /\ u.size = t.size /\ u.flags = t.flags /\ u.root = r
  BY <1>2, FieldsOf
<1>5. Cardinality(In(t.root) \cup {n}) = t.count + 1
  <2>1. In(t.root) \subseteq Nodes /\ n \notin In(t.root) /\ t.count = Cardinality(In(t.root))
    BY TableFacts
  <2> QED BY <2>1, NodeSets
<1>6. TableOK(u)
  BY <1>2, <1>3, <1>4, <1>5, TableFacts DEF TableOK
<1> QED BY <1>3, <1>4, <1>6 DEF u

\* A node is taken out of a table.
LEMMA UnlinkTable ==
  ASSUME NEW t, TableOK(t), NEW n \in In(t.root)
  PROVE  TableOK(Unlinked(t, n)) /\ In(Unlinked(t, n).root) = In(t.root) \ {n}
<1> DEFINE r == Drop(t.root, n, t.size)
           u == Unlinked(t, n)
<1>2. u = [live |-> TRUE, count |-> t.count - 1, size |-> t.size, flags |-> t.flags, root |-> r]
  BY Fields DEF Unlinked
<1>3. RootOK(r, t.size) /\ In(r) = In(t.root) \ {n}
  <2>1. RootOK(t.root, t.size)
    BY TableFacts
  <2> QED BY <2>1, UnlinkFacts
<1> HIDE DEF r, u
<1>4. u.count = t.count - 1 /\ u.size = t.size /\ u.flags = t.flags /\ u.root = r
  BY <1>2
<1>5. Cardinality(In(t.root) \ {n}) = t.count - 1
  <2>1. In(t.root) \subseteq Nodes /\ t.count = Cardinality(In(t.root))
    BY TableFacts
  <2> QED BY <2>1, NodeSets
<1>6. TableOK(u)
  BY <1>2, <1>3, <1>4, <1>5, TableFacts DEF TableOK
<1>7. In(u.root) = In(t.root) \ {n}
  BY <1>3, <1>4
<1> QED BY <1>6, <1>7 DEF u

\* A search for a key finds the node that has it.
LEMMA SearchFacts ==
  ASSUME NEW t, TableOK(t), NEW k \in Keys
  PROVE  /\ Found(Chain(t, k), k) <=> \E n \in In(t.root) : KeyOf[n] = k
         /\ Found(Chain(t, k), k) =>
              /\ Chain(t, k)[Stop(Chain(t, k), k)] \in In(t.root)
              /\ KeyOf[Chain(t, k)[Stop(Chain(t, k), k)]] = k
<1> DEFINE c == Chain(t, k)
           b == Bucket(k, t.size)
<1>1. t.size \in Nat /\ RootOK(t.root, t.size) /\ c = t.root[b]
  BY TableFacts DEF Chain
<1>2. PICK m \in Nodes : KeyOf[m] = k
  BY DEF Keys
<1>3. b \in Places(t.size)
  BY <1>1, <1>2, KeyBucket
<1>4. c \in Seq(Nodes) /\ Sorted(c) /\ Range(c) \subseteq In(t.root)
  BY <1>1, <1>3, InFacts DEF ChainOK
<1>5. ASSUME NEW n \in In(t.root), KeyOf[n] = k PROVE n \in Range(c)
  BY <1>1, <1>5, InFacts
<1> HIDE DEF c
<1>6. /\ Found(c, k) <=> \E j \in 1..Len(c) : KeyOf[c[j]] = k
      /\ Found(c, k) => Stop(c, k) \in 1..Len(c) /\ KeyOf[c[Stop(c, k)]] = k
  BY <1>4, FoundFacts
<1>7. (\E j \in 1..Len(c) : KeyOf[c[j]] = k) <=> \E n \in Range(c) : KeyOf[n] = k
  BY <1>4, RangeFacts
<1>8. Found(c, k) <=> \E n \in In(t.root) : KeyOf[n] = k
  BY <1>4, <1>5, <1>6, <1>7
<1>9. Found(c, k) => c[Stop(c, k)] \in In(t.root) /\ KeyOf[c[Stop(c, k)]] = k
  BY <1>4, <1>6, RangeFacts
<1> QED BY <1>8, <1>9 DEF c

-----------------------------------------------------------------------------
(* The invariant. *)

\* The nodes of a table, which may be none.
Of(t) == IF t = NoTable THEN {} ELSE In(t.root)

\* What the invariant says of one table, and of one node.
LEMMA StateFacts ==
  ASSUME HashInv
  PROVE  /\ \A h \in Tables : /\ table[h].live => TableOK(table[h])
                              /\ ~table[h].live => table[h] = NoTable
                              /\ InTable(h) = Of(table[h]) /\ InTable(h) \subseteq Nodes
                              /\ table[h].live => InTable(h) = In(table[h].root)
         /\ \A h \in Tables : \A n \in InTable(h) : node[n].live /\ node[n].pObj \in Objs
         /\ \A h \in Tables : iter.table = h => table[h].live /\ iter # NoIter /\ WalkOK
         /\ \A n \in Nodes : node[n] \in NodeType
<1>1. NoTable.live = FALSE
  BY DEF NoTable
<1>2. ASSUME NEW h \in Tables
      PROVE  /\ table[h].live => TableOK(table[h])
             /\ ~table[h].live => table[h] = NoTable
             /\ InTable(h) = Of(table[h]) /\ InTable(h) \subseteq Nodes
             /\ table[h].live => InTable(h) = In(table[h].root)
  <2>1. CASE table[h] = NoTable
    <3>1. ~table[h].live
      BY <1>1, <2>1
    <3>2. InTable(h) = {} /\ Of(table[h]) = {}
      BY <2>1, <3>1 DEF InTable, Of
    <3> QED BY <2>1, <3>1, <3>2
  <2>2. CASE table[h] # NoTable
    <3>1. TableOK(table[h])
      BY <2>2 DEF HashInv
    <3>2. table[h].live /\ In(table[h].root) \subseteq Nodes
      BY <3>1, TableFacts
    <3>3. InTable(h) = In(table[h].root)
      BY <3>2 DEF InTable, Chained, In
    <3>4. Of(table[h]) = In(table[h].root)
      BY <2>2 DEF Of
    <3> QED BY <3>1, <3>2, <3>3, <3>4
  <2> QED BY <2>1, <2>2
<1>3. \A h \in Tables : \A n \in InTable(h) : node[n].live /\ node[n].pObj \in Objs
  BY DEF HashInv, Kept
<1>4. ASSUME NEW h \in Tables, iter.table = h PROVE table[h].live /\ iter # NoIter /\ WalkOK
  <2>1. iter # NoIter
    BY <1>4, HashAssumption DEF NoIter
  <2> QED BY <1>4, <2>1 DEF HashInv, WalkOK
<1>5. \A n \in Nodes : node[n] \in NodeType
  BY DEF HashInv
<1> QED BY <1>2, <1>3, <1>4, <1>5

\* One table changes, and no node of another.
LEMMA ChangeTable ==
  ASSUME HashInv, NEW h \in Tables, iter.table # h, UNCHANGED iter,
         NEW u, u = NoTable \/ TableOK(u), table' = [table EXCEPT ![h] = u],
         node' \in [Nodes -> NodeType],
         \A n \in Of(u) : node'[n].live /\ node'[n].pObj \in Objs
                          /\ \A i \in Tables \ {h} : n \notin InTable(i),
         \A i \in Tables \ {h} : \A n \in InTable(i) : node'[n] = node[n]
  PROVE  HashInv'
<1>1. table = [i \in Tables |-> table[i]]
  BY DEF HashInv
<1>2. /\ table' = [i \in Tables |-> table'[i]] /\ table'[h] = u
      /\ \A i \in Tables \ {h} : table'[i] = table[i]
  BY <1>1
<1>3. \A i \in Tables : table'[i] = NoTable \/ TableOK(table'[i])
  BY <1>2 DEF HashInv
<1>4. ASSUME NEW i \in Tables PROVE InTable(i)' = Of(table'[i])
  <2>1. NoTable.live = FALSE
    BY DEF NoTable
  <2>2. CASE table'[i] = NoTable
    BY <2>1, <2>2 DEF InTable, Of
  <2>3. CASE table'[i] # NoTable
    <3>1. table'[i].live = TRUE
      BY <1>3, <2>3, TableFacts
    <3> QED BY <2>3, <3>1 DEF InTable, Of, Chained, In
  <2> QED BY <2>2, <2>3
<1>5. ASSUME NEW i \in Tables \ {h} PROVE InTable(i)' = InTable(i)
  BY <1>2, <1>4, StateFacts
<1>6. InTable(h)' = Of(u)
  BY <1>2, <1>4
<1>7. ASSUME NEW i \in Tables PROVE Kept(i)'
  <2>1. CASE i = h
    BY <1>6, <2>1 DEF Kept
  <2>2. CASE i # h
    BY <1>5, <2>2, StateFacts DEF Kept
  <2> QED BY <2>1, <2>2
<1>8. \A i, j \in Tables : i # j => InTable(i)' \cap InTable(j)' = {}
  BY <1>5, <1>6 DEF HashInv
<1>9. iter' = NoIter \/ WalkOK'
  <2>1. CASE iter = NoIter
    BY <2>1, SMTT(60)
  <2>2. CASE iter # NoIter
    <3>1. WalkOK
      BY <2>2 DEF HashInv
    <3>2. table'[iter.table] = table[iter.table] /\ iter' = iter
      BY <1>2, <3>1 DEF WalkOK
    <3> QED BY <3>1, <3>2 DEF WalkOK
  <2> QED BY <2>1, <2>2
<1> QED BY <1>2, <1>3, <1>7, <1>8, <1>9 DEF HashInv

\* Nodes change that are in no table.
LEMMA ChangeNodes ==
  ASSUME HashInv, UNCHANGED <<table, iter>>, node' \in [Nodes -> NodeType],
         \A i \in Tables : \A n \in InTable(i) : node'[n] = node[n]
  PROVE  HashInv'
<1>1. \A i \in Tables : InTable(i)' = InTable(i)
  BY DEF InTable, Chained
<1>2. \A i \in Tables : Kept(i)'
  BY <1>1, StateFacts DEF Kept
<1>3. iter' = NoIter \/ WalkOK'
  BY Zenon DEF HashInv, WalkOK
<1> QED BY <1>1, <1>2, <1>3 DEF HashInv

\* A walk goes on, or another begins.
LEMMA ChangeWalk ==
  ASSUME HashInv, UNCHANGED <<table, node>>, iter' = NoIter \/ WalkOK'
  PROVE  HashInv'
<1>1. \A i \in Tables : InTable(i)' = InTable(i)
  BY DEF InTable, Chained
<1>2. \A i \in Tables : Kept(i)'
  BY <1>1, StateFacts DEF Kept
<1> QED BY <1>1, <1>2 DEF HashInv

-----------------------------------------------------------------------------
(* The calls. *)

\* A table without nodes.
LEMMA EmptyTable ==
  ASSUME NEW size \in Sizes, NEW flags \in Flags,
         NEW u, u = [live |-> TRUE, count |-> 0, size |-> size, flags |-> flags,
                     root |-> Nowhere(size)]
  PROVE  TableOK(u) /\ Of(u) = {}
<1> DEFINE r == Nowhere(size)
<1>1. r = [b \in Places(size) |-> << >>]
  BY DEF Nowhere
<1>2. r \in [Places(size) -> Seq(Nodes)] /\ DOMAIN r = Places(size)
  <2>1. << >> \in Seq(Nodes)
    BY EmptySeq
  <2> QED BY <1>1, <2>1
<1>3. \A b \in Places(size) : Len(r[b]) = 0 /\ Range(r[b]) = {}
  <2>1. Len(<< >>) = 0 /\ Range(<< >>) = {}
    BY DEF Range
  <2> QED BY <1>1, <2>1
<1> HIDE DEF r
<1>4. RootOK(r, size)
  BY <1>2, <1>3 DEF RootOK, ChainOK, Sorted
<1>5. In(r) = {}
  BY <1>2, <1>3 DEF In
<1>6. u.count = 0 /\ u.size = size /\ u.flags = flags /\ u.root = r /\ u.live = TRUE
  BY DEF r
<1>7. u = [live |-> TRUE, count |-> u.count, size |-> u.size, flags |-> u.flags, root |-> u.root]
  BY <1>6 DEF r
<1>8. Cardinality({}) = 0
  BY FS_EmptySet
<1>9. TableOK(u)
  BY <1>4, <1>5, <1>6, <1>7, <1>8 DEF TableOK
<1> QED BY <1>5, <1>6, <1>9 DEF Of

\* What is freed is a node, as are nodes with an object.
LEMMA NodeRecords ==
  /\ Freed \in NodeType /\ \A o \in Objs \cup {NULL} : [live |-> TRUE, pObj |-> o] \in NodeType
  /\ NULL \notin Objs /\ NULL \notin Tables /\ NULL \notin Nodes
BY HashAssumption DEF NodeType, Freed

\* HT_new_ex: a new table has no nodes.
LEMMA StepNew ==
  ASSUME HashInv, NEW h \in Tables, NEW size \in Sizes, NEW flags \in Flags,
         HT_new_ex(h, size, flags)
  PROVE  HashInv'
<1> DEFINE u == [live |-> TRUE, count |-> 0, size |-> size, flags |-> flags,
                 root |-> Nowhere(size)]
<1>1. /\ ~table[h].live /\ table' = [table EXCEPT ![h] = u] /\ UNCHANGED <<node, iter>>
  BY DEF HT_new_ex, Return
<1>2. TableOK(u) /\ Of(u) = {}
  BY EmptyTable
<1> HIDE DEF u
<1>3. iter.table # h
  BY <1>1, StateFacts
<1>4. node' \in [Nodes -> NodeType]
  BY <1>1 DEF HashInv
<1> QED BY <1>1, <1>2, <1>3, <1>4, ChangeTable

\* An empty table goes; no node does.
LEMMA StepDelete ==
  ASSUME HashInv, NEW h \in Tables, HT_delete(h)
  PROVE  HashInv'
<1>1. /\ iter.table # h /\ table' = [table EXCEPT ![h] = NoTable] /\ UNCHANGED <<node, iter>>
  BY DEF HT_delete, Return, MayChange
<1>2. node' \in [Nodes -> NodeType] /\ Of(NoTable) = {}
  BY <1>1 DEF HashInv, Of
<1> QED BY <1>1, <1>2, ChangeTable

\* The nodes of a table are freed, and no other.
LEMMA FreeAllFacts ==
  ASSUME HashInv, NEW h \in Tables, FreeAll(h)
  PROVE  /\ node' \in [Nodes -> NodeType]
         /\ \A i \in Tables \ {h} : \A n \in InTable(i) : node'[n] = node[n]
<1>1. /\ \A i \in Tables \ {h} : InTable(i) \cap InTable(h) = {}
      /\ node \in [Nodes -> NodeType]
  BY DEF HashInv
<1>2. node' = [n \in Nodes |-> IF n \in InTable(h) THEN Freed ELSE node[n]]
  BY DEF FreeAll
<1>3. \A i \in Tables : InTable(i) \subseteq Nodes
  BY StateFacts
<1> QED BY <1>1, <1>2, <1>3, NodeRecords

\* A flushed table is empty, and nodes of other tables are as they were.
LEMMA StepFlush ==
  ASSUME HashInv, NEW h \in Tables, HT_flush(h)
  PROVE  HashInv'
<1> DEFINE t == table[h]
           u == [t EXCEPT !.count = 0, !.root = Nowhere(t.size)]
<1>1. iter.table # h /\ t.live /\ TableOK(t) /\ iter' = iter
  BY StateFacts DEF HT_flush, MayChange, Return
<1>2. CASE t.count = 0
  <2>1. UNCHANGED <<table, iter, node>>
    BY <1>1, <1>2 DEF HT_flush
  <2>2. node' \in [Nodes -> NodeType]
    BY <2>1 DEF HashInv
  <2> QED BY <2>1, <2>2, ChangeNodes
<1>3. CASE t.count # 0
  <2>1. table' = [table EXCEPT ![h] = u] /\ FreeAll(h)
    BY <1>3 DEF HT_flush
  <2>2. u = [live |-> TRUE, count |-> 0, size |-> t.size, flags |-> t.flags,
             root |-> Nowhere(t.size)]
    BY <1>1, Fields
  <2> HIDE DEF u
  <2>3. TableOK(u) /\ Of(u) = {}
    <3>1. t.size \in Sizes /\ t.flags \in Flags
      BY <1>1, TableFacts
    <3> QED BY <2>2, <3>1, EmptyTable
  <2> QED BY <1>1, <2>1, <2>3, FreeAllFacts, ChangeTable
<1> QED BY <1>2, <1>3

\* The same for a table that goes with its nodes.
LEMMA StepDestroy ==
  ASSUME HashInv, NEW h \in Tables, HT_destroy(h)
  PROVE  HashInv'
<1>1. /\ iter.table # h /\ table' = [table EXCEPT ![h] = NoTable] /\ FreeAll(h) /\ UNCHANGED iter
  BY DEF HT_destroy, Return, MayChange
<1>2. Of(NoTable) = {}
  BY DEF Of
<1> QED BY <1>1, <1>2, FreeAllFacts, ChangeTable

\* A table that has the nodes of another is one of them, and so are its own.
LEMMA OfSame ==
  ASSUME NEW u, NEW t, TableOK(t), SameNodes(u, t)
  PROVE  TableOK(u) /\ Of(u) = Of(t) /\ Of(t) = In(t.root) /\ In(u.root) = In(t.root)
BY TableFacts DEF SameNodes, Of

\* A resized table has its nodes.
LEMMA ResizeChoice ==
  ASSUME HashInv, NEW h \in Tables, NEW size \in Sizes, HT_resize(h, size)
  PROVE  \E u : SameNodes(u, table[h]) /\ table' = [table EXCEPT ![h] = u]
<1> DEFINE t == table[h]
           u == IF size > t.size THEN Grow(t, size) ELSE IF size < t.size THEN Shrink(t, size) ELSE t
<1>1. t.live /\ TableOK(t) /\ table' = [table EXCEPT ![h] = u]
  BY StateFacts DEF HT_resize, MayChange
<1>2. SameNodes(u, t)
  <2>1. t.size \in Nat /\ size \in Nat
    <3>1. size \in Nat
      BY HashAssumption DEF Sizes
    <3> QED BY <1>1, <3>1, TableFacts
  <2>2. CASE size > t.size
    <3>1. t.size <= size
      BY <2>1, <2>2
    <3> QED BY <1>1, <2>2, <3>1, GrowTable
  <2>3. CASE size < t.size
    <3>1. size <= t.size /\ ~(size > t.size)
      BY <2>1, <2>3
    <3> QED BY <1>1, <2>3, <3>1, ShrinkTable
  <2>4. CASE ~(size > t.size) /\ ~(size < t.size)
    BY <1>1, <2>4 DEF SameNodes
  <2> QED BY <2>2, <2>3, <2>4
<1> HIDE DEF u
<1> QED BY <1>1, <1>2

\* Resizing keeps the invariant.
LEMMA StepResize ==
  ASSUME HashInv, NEW h \in Tables, NEW size \in Sizes, HT_resize(h, size)
  PROVE  HashInv'
<1>1. iter.table # h /\ TableOK(table[h]) /\ UNCHANGED <<node, iter>> /\ Of(table[h]) = InTable(h)
  BY StateFacts DEF HT_resize, MayChange, Return
<1>2. PICK u : SameNodes(u, table[h]) /\ table' = [table EXCEPT ![h] = u]
  BY ResizeChoice
<1>3. TableOK(u) /\ Of(u) = InTable(h)
  BY <1>1, <1>2, OfSame
<1>4. node' \in [Nodes -> NodeType]
  BY <1>1 DEF HashInv
<1>5. \A n \in InTable(h) : node'[n].live /\ node'[n].pObj \in Objs
                            /\ \A i \in Tables \ {h} : n \notin InTable(i)
  BY <1>1, StateFacts DEF HashInv
<1> QED BY <1>1, <1>2, <1>3, <1>4, <1>5, ChangeTable

\* Some node of a key is given by the allocator: one that is free.
LEMMA NewNodeFacts ==
  ASSUME HashInv, NEW k \in Keys, Free(k) # {}
  PROVE  /\ NewNode(k) \in Nodes /\ ~node[NewNode(k)].live /\ KeyOf[NewNode(k)] = k
         /\ \A i \in Tables : NewNode(k) \notin InTable(i)
<1>1. NewNode(k) \in Free(k)
  BY DEF NewNode
<1>2. NewNode(k) \in Nodes /\ ~node[NewNode(k)].live /\ KeyOf[NewNode(k)] = k
  BY <1>1 DEF Free
<1> QED BY <1>2, StateFacts

\* A node is allocated that no table has.
LEMMA StepNewNode ==
  ASSUME HashInv, NEW k \in Keys, HN_new(k)
  PROVE  HashInv'
<1>1. /\ node' = [node EXCEPT ![NewNode(k)] = [live |-> TRUE, pObj |-> NULL]]
      /\ UNCHANGED <<table, iter>> /\ Free(k) # {}
  BY DEF HN_new, Return
<1>2. NewNode(k) \in Nodes /\ \A i \in Tables : NewNode(k) \notin InTable(i)
  BY <1>1, NewNodeFacts
<1>3. node \in [Nodes -> NodeType]
  BY DEF HashInv
<1>4. node' \in [Nodes -> NodeType]
  BY <1>1, <1>3, NodeRecords
<1>5. \A i \in Tables : \A n \in InTable(i) : node'[n] = node[n]
  BY <1>1, <1>2, <1>3, StateFacts
<1> QED BY <1>1, <1>4, <1>5, ChangeNodes

\* A node is freed that no table has.
LEMMA StepDeleteNode ==
  ASSUME HashInv, NEW n \in Nodes, HN_delete(n)
  PROVE  HashInv'
<1>1. node' = [node EXCEPT ![n] = Freed] /\ UNCHANGED <<table, iter>> /\ n \in Loose
  BY DEF HN_delete, Return
<1>2. \A i \in Tables : n \notin InTable(i)
  BY <1>1 DEF Loose
<1>3. node \in [Nodes -> NodeType]
  BY DEF HashInv
<1>4. node' \in [Nodes -> NodeType]
  BY <1>1, <1>3, NodeRecords
<1>5. \A i \in Tables : \A m \in InTable(i) : node'[m] = node[m]
  BY <1>1, <1>2, <1>3, StateFacts
<1> QED BY <1>1, <1>4, <1>5, ChangeNodes

\* The end of a store, of a node that is in no table if its key is not there.
LEMMA StepStored ==
  ASSUME HashInv, NEW h \in Tables, iter.table # h, table[h].live,
         NEW t, SameNodes(t, table[h]), NEW n \in Nodes, NEW o \in Objs, NEW fn, NEW args,
         Found(Chain(t, KeyOf[n]), KeyOf[n]) \/ \A i \in Tables : n \notin InTable(i),
         Stored(h, t, n, o, fn, args)
  PROVE  HashInv'
<1>1. TableOK(t) /\ Of(t) = InTable(h) /\ In(t.root) = InTable(h)
  BY StateFacts, OfSame DEF SameNodes, Of
<1>2. iter' = iter
  BY DEF Stored, Return
<1>3. node \in [Nodes -> NodeType] /\ KeyOf[n] \in Keys
  BY KeyFacts DEF HashInv
<1>4. \A m \in InTable(h) : node[m].live /\ node[m].pObj \in Objs
                            /\ \A i \in Tables \ {h} : m \notin InTable(i)
  BY StateFacts DEF HashInv
<1>5. CASE Found(Chain(t, KeyOf[n]), KeyOf[n])
  <2>1. table' = [table EXCEPT ![h] = t] /\ node' = node
    BY <1>5 DEF Stored
  <2> QED BY <1>1, <1>2, <1>3, <1>4, <2>1, ChangeTable
<1>6. CASE ~Found(Chain(t, KeyOf[n]), KeyOf[n])
  <2> DEFINE u == Inserted(t, n)
  <2>1. /\ table' = [table EXCEPT ![h] = u]
        /\ node' = [node EXCEPT ![n] = [live |-> TRUE, pObj |-> o]]
    BY <1>6 DEF Stored
  <2>2. \A m \in In(t.root) : KeyOf[m] # KeyOf[n]
    BY <1>1, <1>3, <1>6, SearchFacts
  <2>3. TableOK(u) /\ Of(u) = InTable(h) \cup {n}
    <3>1. TableOK(u) /\ In(u.root) = In(t.root) \cup {n}
      BY <1>1, <2>2, StoreTable, ZenonT(30)
    <3> HIDE DEF u
    <3>2. u # NoTable
      BY <3>1, TableFacts
    <3>3. Of(u) = In(u.root)
      BY <3>2 DEF Of
    <3> QED BY <1>1, <3>1, <3>3
  <2> HIDE DEF u
  <2>4. node' \in [Nodes -> NodeType]
    BY <1>3, <2>1, NodeRecords
  <2>5. \A i \in Tables : n \notin InTable(i)
    BY <1>6
  <2>6. node'[n].live /\ node'[n].pObj \in Objs /\ \A m \in Nodes \ {n} : node'[m] = node[m]
    BY <1>3, <2>1
  <2>7. \A i \in Tables : InTable(i) \subseteq Nodes
    BY StateFacts
  <2>8. \A m \in Of(u) : node'[m].live /\ node'[m].pObj \in Objs
                         /\ \A i \in Tables \ {h} : m \notin InTable(i)
    BY <1>4, <2>3, <2>5, <2>6, <2>7
  <2>9. \A i \in Tables \ {h} : \A m \in InTable(i) : node'[m] = node[m]
    BY <2>5, <2>6, <2>7
  <2> QED BY <1>2, <2>1, <2>3, <2>4, <2>8, <2>9, ChangeTable
<1> QED BY <1>5, <1>6

\* HT_storenode, for a node in the hands of the caller.
LEMMA StepStorenode ==
  ASSUME HashInv, NEW h \in Tables, NEW n \in Nodes, NEW o \in Objs, HT_storenode(h, n, o)
  PROVE  HashInv'
<1>1. /\ iter.table # h /\ table[h].live /\ n \in Loose
      /\ Stored(h, Grown(table[h]), n, o, "HT_storenode", <<h, n, o, KeyOf[n]>>)
  BY DEF HT_storenode, MayChange
<1>2. \A i \in Tables : n \notin InTable(i)
  BY <1>1 DEF Loose
<1>3. SameNodes(Grown(table[h]), table[h])
  BY <1>1, StateFacts, AutoSize
<1> QED BY <1>1, <1>2, <1>3, StepStored

\* The node that HT_store allocates is in no table; if it allocates none, the
\* key has one in this table.
LEMMA StoreChoice ==
  ASSUME HashInv, NEW h \in Tables, NEW k \in Keys, NEW o \in Objs, HT_store(h, k, o)
  PROVE  \E n \in Nodes :
           /\ KeyOf[n] = k /\ SameNodes(Grown(table[h]), table[h])
           /\ iter.table # h /\ table[h].live
           /\ Stored(h, Grown(table[h]), n, o, "HT_store", <<h, k, o>>)
           /\ IF Found(Chain(Grown(table[h]), k), k) THEN n \in InTable(h)
              ELSE \A i \in Tables : n \notin InTable(i)
<1> DEFINE t == Grown(table[h])
           n == IF Found(Chain(t, k), k) THEN CHOOSE m \in InTable(h) : KeyOf[m] = k
                ELSE NewNode(k)
<1>1. /\ iter.table # h /\ table[h].live /\ (Found(Chain(t, k), k) \/ Free(k) # {})
      /\ Stored(h, t, n, o, "HT_store", <<h, k, o>>)
  BY DEF HT_store, MayChange
<1>2. SameNodes(t, table[h])
  BY <1>1, StateFacts, AutoSize
<1> HIDE DEF t
<1>3. TableOK(t) /\ In(t.root) = InTable(h) /\ InTable(h) \subseteq Nodes
  BY <1>1, <1>2, StateFacts DEF SameNodes
<1>4. CASE Found(Chain(t, k), k)
  <2>1. \E m \in InTable(h) : KeyOf[m] = k
    BY <1>3, <1>4, SearchFacts
  <2>2. n \in InTable(h) /\ KeyOf[n] = k
    BY <1>4, <2>1
  <2> HIDE DEF n
  <2> QED BY <1>1, <1>2, <1>3, <1>4, <2>2 DEF t
<1>5. CASE ~Found(Chain(t, k), k)
  <2>1. n = NewNode(k) /\ Free(k) # {}
    BY <1>1, <1>5
  <2> HIDE DEF n
  <2>2. n \in Nodes /\ KeyOf[n] = k /\ \A i \in Tables : n \notin InTable(i)
    BY <2>1, NewNodeFacts
  <2> QED BY <1>1, <1>2, <1>5, <2>2 DEF t
<1> QED BY <1>4, <1>5

\* HT_store, for a node it allocates, or none.
LEMMA StepStore ==
  ASSUME HashInv, NEW h \in Tables, NEW k \in Keys, NEW o \in Objs, HT_store(h, k, o)
  PROVE  HashInv'
<1> DEFINE t == Grown(table[h])
<1>1. PICK n \in Nodes :
        /\ KeyOf[n] = k /\ SameNodes(t, table[h]) /\ iter.table # h /\ table[h].live
        /\ Stored(h, t, n, o, "HT_store", <<h, k, o>>)
        /\ IF Found(Chain(t, k), k) THEN n \in InTable(h)
           ELSE \A i \in Tables : n \notin InTable(i)
  BY StoreChoice
<1> HIDE DEF t
<1> QED BY <1>1, StepStored

\* The end of a fetch, of a node of the table.
LEMMA StepTaken ==
  ASSUME HashInv, NEW h \in Tables, iter.table # h, table[h].live,
         NEW n, n = NULL \/ n \in InTable(h), NEW after \in NodeType, NEW fn, NEW args,
         Taken(h, n, after, fn, args)
  PROVE  HashInv'
<1>1. iter' = iter
  BY DEF Taken, Return
<1>2. node \in [Nodes -> NodeType]
  BY DEF HashInv
<1>3. CASE n = NULL
  <2>1. UNCHANGED <<table, node, iter>>
    BY <1>1, <1>3 DEF Taken
  <2>2. node' \in [Nodes -> NodeType]
    BY <1>2, <2>1
  <2> QED BY <2>1, <2>2, ChangeNodes
<1>4. CASE n # NULL
  <2> DEFINE v == Unlinked(table[h], n)
  <2>1. PICK t \in Shrunk(v) : table' = [table EXCEPT ![h] = t]
    BY <1>4 DEF Taken
  <2>2. node' = [node EXCEPT ![n] = after]
    BY <1>4 DEF Taken
  <2>3. n \in InTable(h) /\ TableOK(table[h]) /\ InTable(h) = In(table[h].root)
    BY <1>4, StateFacts
  <2>4. TableOK(v) /\ In(v.root) = InTable(h) \ {n}
    BY <2>3, UnlinkTable
  <2> HIDE DEF v
  <2>5. TableOK(t) /\ Of(t) = InTable(h) \ {n}
    BY <2>1, <2>4, AutoSize, OfSame
  <2>6. \A i \in Tables : InTable(i) \subseteq Nodes
    BY StateFacts
  <2>7. node' \in [Nodes -> NodeType] /\ \A m \in Nodes \ {n} : node'[m] = node[m]
    BY <1>2, <2>2, <2>3, <2>6
  <2>8. \A m \in InTable(h) : node[m].live /\ node[m].pObj \in Objs
                              /\ \A i \in Tables \ {h} : m \notin InTable(i)
    BY StateFacts DEF HashInv
  <2>9. \A m \in Of(t) : node'[m].live /\ node'[m].pObj \in Objs
                         /\ \A i \in Tables \ {h} : m \notin InTable(i)
    BY <2>5, <2>6, <2>7, <2>8
  <2>10. \A i \in Tables \ {h} : \A m \in InTable(i) : node'[m] = node[m]
    BY <2>3, <2>6, <2>7, <2>8
  <2> QED BY <1>1, <2>1, <2>5, <2>7, <2>9, <2>10, ChangeTable
<1> QED BY <1>3, <1>4

\* A node is found by its address if it is there.
LEMMA PresentFacts ==
  ASSUME HashInv, NEW h \in Tables, table[h].live, NEW n \in Nodes
  PROVE  Present(h, n) = IF n \in InTable(h) THEN n ELSE NULL
<1> DEFINE t == table[h]
           b == Bucket(KeyOf[n], t.size)
<1>1. TableOK(t) /\ InTable(h) = In(t.root)
  BY StateFacts
<1>2. t.size \in Nat /\ RootOK(t.root, t.size)
  BY <1>1, TableFacts
<1> HIDE DEF t
<1>3. b \in Places(t.size)
  BY <1>2, KeyBucket
<1>4. n \in Range(t.root[b]) <=> n \in In(t.root)
  BY <1>2, <1>3, InBucket
<1> QED BY <1>1, <1>4 DEF Present, Chain, t

\* By its key.
LEMMA LookupFacts ==
  ASSUME HashInv, NEW h \in Tables, table[h].live, NEW k \in Keys
  PROVE  IF \E n \in InTable(h) : KeyOf[n] = k
         THEN Lookup(h, k) \in InTable(h) /\ KeyOf[Lookup(h, k)] = k
         ELSE Lookup(h, k) = NULL
<1> DEFINE t == table[h]
<1>1. TableOK(t) /\ InTable(h) = In(t.root)
  BY StateFacts
<1> HIDE DEF t
<1>2. (\E n \in InTable(h) : KeyOf[n] = k) => t.count # 0
  <2>1. In(t.root) \subseteq Nodes /\ t.count = Cardinality(In(t.root))
    BY <1>1, TableFacts
  <2> QED BY <1>1, <2>1, NodeSets
<1>3. /\ Found(Chain(t, k), k) <=> \E n \in InTable(h) : KeyOf[n] = k
      /\ Found(Chain(t, k), k) =>
           /\ Chain(t, k)[Stop(Chain(t, k), k)] \in InTable(h)
           /\ KeyOf[Chain(t, k)[Stop(Chain(t, k), k)]] = k
  BY <1>1, SearchFacts
<1>4. Lookup(h, k) = IF t.count # 0 /\ Found(Chain(t, k), k)
                     THEN Chain(t, k)[Stop(Chain(t, k), k)] ELSE NULL
  BY DEF Lookup, t
<1> QED BY <1>2, <1>3, <1>4

\* HT_fetchnode and HT_rmnode.
LEMMA StepFetchnode ==
  ASSUME HashInv, NEW h \in Tables, NEW n \in Nodes, HT_fetchnode(h, n) \/ HT_rmnode(h, n)
  PROVE  HashInv'
<1>1. iter.table # h /\ table[h].live
  BY DEF HT_fetchnode, HT_rmnode, MayChange
<1>2. \/ Taken(h, Present(h, n), [live |-> TRUE, pObj |-> NULL], "HT_fetchnode", <<h, n>>)
      \/ Taken(h, Present(h, n), Freed, "HT_rmnode", <<h, n>>)
  BY DEF HT_fetchnode, HT_rmnode
<1>3. Present(h, n) = NULL \/ Present(h, n) \in InTable(h)
  BY <1>1, PresentFacts
<1>4. Freed \in NodeType /\ [live |-> TRUE, pObj |-> NULL] \in NodeType
  BY NodeRecords
<1> QED BY <1>1, <1>2, <1>3, <1>4, StepTaken

\* HT_fetch.
LEMMA StepFetch ==
  ASSUME HashInv, NEW h \in Tables, NEW k \in Keys, HT_fetch(h, k)
  PROVE  HashInv'
<1>1. iter.table # h /\ table[h].live /\ Taken(h, Lookup(h, k), Freed, "HT_fetch", <<h, k>>)
  BY DEF HT_fetch, MayChange
<1>2. Lookup(h, k) = NULL \/ Lookup(h, k) \in InTable(h)
  BY <1>1, LookupFacts
<1>3. Freed \in NodeType
  BY NodeRecords
<1> QED BY <1>1, <1>2, <1>3, StepTaken

-----------------------------------------------------------------------------
(* Clones. *)

\* The chains of the copies.
LEMMA CopyRoot ==
  ASSUME NEW root, NEW size \in Nat, RootOK(root, size), NEW copy,
         \A m \in In(root) : copy[m] \in Nodes /\ KeyOf[copy[m]] = KeyOf[m],
         NEW r, r = [b \in DOMAIN root |-> [i \in DOMAIN root[b] |-> copy[root[b][i]]]]
  PROVE  /\ RootOK(r, size) /\ DOMAIN root = Places(size)
         /\ \A b \in Places(size) : /\ Len(r[b]) = Len(root[b])
                                    /\ \A i \in 1..Len(root[b]) : r[b][i] = copy[root[b][i]]
         /\ \A n : n \in In(r) <=> \E m \in In(root) : n = copy[m]
<1>1. DOMAIN root = Places(size) /\ DOMAIN r = Places(size)
  BY InFacts
<1>2. ASSUME NEW b \in Places(size)
      PROVE  /\ root[b] \in Seq(Nodes) /\ Len(root[b]) \in Nat
             /\ \A i \in 1..Len(root[b]) : root[b][i] \in In(root)
             /\ ChainOK(root[b], b, size) /\ Range(root[b]) \subseteq In(root)
  <2>1. ChainOK(root[b], b, size) /\ Range(root[b]) \subseteq In(root)
    BY InFacts
  <2>2. root[b] \in Seq(Nodes)
    BY <2>1 DEF ChainOK
  <2> QED BY <2>1, <2>2, RangeFacts
<1>3. ASSUME NEW b \in Places(size)
      PROVE  /\ r[b] \in Seq(Nodes) /\ Len(r[b]) = Len(root[b])
             /\ \A i \in 1..Len(root[b]) : r[b][i] = copy[root[b][i]]
  <2> DEFINE c == root[b]
             d == [i \in 1..Len(c) |-> copy[c[i]]]
  <2>1. DOMAIN c = 1..Len(c)
    BY <1>2, LenProperties
  <2>2. r[b] = d
    BY <1>1, <2>1
  <2>3. Len(c) \in Nat /\ \A i \in 1..Len(c) : copy[c[i]] \in Nodes
    BY <1>2
  <2> HIDE DEF c
  <2>4. d \in [1..Len(c) -> Nodes]
    BY <2>3
  <2>5. d \in Seq(Nodes) /\ Len(d) = Len(c) /\ \A i \in 1..Len(c) : d[i] = copy[c[i]]
    BY <2>3, <2>4
  <2> HIDE DEF d
  <2> QED BY <2>2, <2>5 DEF c
<1>4. ASSUME NEW b \in Places(size) PROVE ChainOK(r[b], b, size)
  <2> DEFINE c == root[b]
             d == r[b]
  <2>1. /\ d \in Seq(Nodes) /\ Len(d) = Len(c) /\ \A i \in 1..Len(c) : d[i] = copy[c[i]]
        /\ \A i \in 1..Len(c) : c[i] \in In(root)
    BY <1>2, <1>3
  <2>2. Sorted(c) /\ \A i \in 1..Len(c) : Bucket(KeyOf[c[i]], size) = b
    BY <1>2 DEF ChainOK
  <2> HIDE DEF c, d
  <2>3. \A i \in 1..Len(c) : KeyOf[d[i]] = KeyOf[c[i]]
    BY <2>1
  <2>4. Sorted(d) /\ \A i \in 1..Len(d) : Bucket(KeyOf[d[i]], size) = b
    BY <2>1, <2>2, <2>3 DEF Sorted
  <2>5. ChainOK(d, b, size)
    BY <2>1, <2>4 DEF ChainOK
  <2> QED BY <2>5 DEF d
<1>5. RootOK(r, size)
  BY <1>1, <1>3, <1>4 DEF RootOK
<1>6. ASSUME NEW n \in In(r) PROVE \E m \in In(root) : n = copy[m]
  <2>1. PICK b \in Places(size) : n \in Range(r[b])
    BY <1>1, <1>6 DEF In
  <2>2. PICK i \in 1..Len(root[b]) : n = r[b][i]
    BY <1>3, <2>1, RangeFacts, ZenonT(60)
  <2> QED BY <1>2, <1>3, <2>2
<1>7. ASSUME NEW m \in In(root) PROVE copy[m] \in In(r)
  <2>1. PICK b \in Places(size) : m \in Range(root[b])
    BY <1>1, <1>7 DEF In
  <2>2. PICK i \in 1..Len(root[b]) : m = root[b][i]
    BY <1>2, <2>1, RangeFacts
  <2>3. r[b][i] = copy[m] /\ r[b] \in Seq(Nodes) /\ i \in 1..Len(r[b])
    BY <1>3, <2>2
  <2>4. r[b][i] \in Range(r[b])
    BY <2>3, RangeFacts
  <2> QED BY <1>1, <2>1, <2>3, <2>4 DEF In
<1> QED BY <1>1, <1>3, <1>5, <1>6, <1>7

\* A function whose values differ has as many values as arguments.
LEMMA Images ==
  ASSUME NEW A, NEW B, IsFiniteSet(A), NEW f, \A x \in A : f[x] \in B,
         \A y \in B : \E x \in A : y = f[x],
         \A x, y \in A : f[x] = f[y] => x = y
  PROVE  Cardinality(B) = Cardinality(A)
<1> DEFINE g == [x \in A |-> f[x]]
<1>1. g \in [A -> B]
  OBVIOUS
<1>2. g \in Bijection(A, B)
  BY <1>1 DEF Bijection, Injection, Surjection, IsInjective
<1> HIDE DEF g
<1>3. ExistsBijection(A, B)
  BY <1>2 DEF ExistsBijection
<1> QED BY <1>3, FS_Bijection

\* A table that is given chains of as many nodes.
LEMMA Rechained ==
  ASSUME NEW t, TableOK(t), NEW r, RootOK(r, t.size), Cardinality(In(r)) = t.count,
         NEW u, u = [t EXCEPT !.root = r]
  PROVE  TableOK(u) /\ u.root = r /\ u.size = t.size /\ u.count = t.count /\ Of(u) = In(r)
<1>1. t = [live |-> TRUE, count |-> t.count, size |-> t.size, flags |-> t.flags, root |-> t.root]
  BY DEF TableOK
<1>2. PICK c, s, f, q : /\ t = [live |-> TRUE, count |-> c, size |-> s, flags |-> f, root |-> q]
                        /\ t.count = c /\ t.size = s /\ t.flags = f
  BY <1>1, Zenon
<1>3. u = [live |-> TRUE, count |-> c, size |-> s, flags |-> f, root |-> r]
  BY <1>2
<1>4. u.live = TRUE /\ u.count = c /\ u.size = s /\ u.flags = f /\ u.root = r
  BY <1>3
<1>5. u = [live |-> TRUE, count |-> u.count, size |-> u.size, flags |-> u.flags, root |-> u.root]
  BY <1>3, <1>4, Zenon
<1>6. t.size \in Sizes /\ t.flags \in Flags
  BY TableFacts
<1>7. TableOK(u)
  BY <1>2, <1>4, <1>5, <1>6 DEF TableOK
<1> QED BY <1>2, <1>4, <1>7, TableFacts DEF Of

\* What a clone u is made of: new nodes, with the keys and objects of the old.
Cloned(s, d, copy, u) ==
  /\ table[s].live /\ ~table[d].live /\ iter' = iter
  /\ table' = [table EXCEPT ![d] = u] /\ TableOK(u) /\ u.size = table[s].size
  /\ \A b \in Places(u.size) :
       /\ Len(u.root[b]) = Len(table[s].root[b])
       /\ \A i \in 1..Len(u.root[b]) : u.root[b][i] = copy[table[s].root[b][i]]
  /\ \A n : n \in In(u.root) <=> \E m \in InTable(s) : n = copy[m]
  /\ \A m \in InTable(s) :
       /\ copy[m] \in Nodes /\ KeyOf[copy[m]] = KeyOf[m] /\ node'[copy[m]] = node[m]
       /\ \A i \in Tables : copy[m] \notin InTable(i)
  /\ node' \in [Nodes -> NodeType]
  /\ \A i \in Tables : \A n \in InTable(i) : node'[n] = node[n]

\* HT_clone makes such a clone.
LEMMA CloneFacts ==
  ASSUME HashInv, NEW s \in Tables, NEW d \in Tables, HT_clone(s, d)
  PROVE  \E copy, u : Cloned(s, d, copy, u)
<1> DEFINE t == table[s]
           copy == [m \in InTable(s) |-> NewNode(KeyOf[m])]
           r == [b \in DOMAIN t.root |-> [i \in DOMAIN t.root[b] |-> copy[t.root[b][i]]]]
           u == [t EXCEPT !.root = r]
<1>1. /\ t.live /\ ~table[d].live /\ iter' = iter /\ table' = [table EXCEPT ![d] = u]
      /\ \A m \in InTable(s) : Free(KeyOf[m]) # {}
      /\ node' = [n \in Nodes |->
                    IF n \in Range(copy) THEN node[CHOOSE m \in InTable(s) : copy[m] = n]
                    ELSE node[n]]
  BY DEF HT_clone, Return
<1>2. TableOK(t) /\ InTable(s) = In(t.root) /\ InTable(s) \subseteq Nodes
  BY <1>1, StateFacts
<1>3. t.size \in Nat /\ RootOK(t.root, t.size) /\ t.count = Cardinality(In(t.root))
  BY <1>2, TableFacts
<1>4. \A m \in InTable(s) : /\ copy[m] \in Nodes /\ KeyOf[copy[m]] = KeyOf[m]
                            /\ \A i \in Tables : copy[m] \notin InTable(i)
  BY <1>1, <1>2, KeyFacts, NewNodeFacts
<1>5. \A n : n \in Range(copy) <=> \E m \in InTable(s) : n = copy[m]
  BY DEF Range
<1> HIDE DEF t, copy
<1>6. /\ RootOK(r, t.size) /\ DOMAIN t.root = Places(t.size)
      /\ \A b \in Places(t.size) :
           /\ Len(r[b]) = Len(t.root[b])
           /\ \A i \in 1..Len(t.root[b]) : r[b][i] = copy[t.root[b][i]]
      /\ \A n : n \in In(r) <=> \E m \in In(t.root) : n = copy[m]
  <2>1. r = [b \in DOMAIN t.root |-> [i \in DOMAIN t.root[b] |-> copy[t.root[b][i]]]]
    OBVIOUS
  <2>2. \A m \in In(t.root) : copy[m] \in Nodes /\ KeyOf[copy[m]] = KeyOf[m]
    BY <1>2, <1>4
  <2> HIDE DEF r
  <2> QED BY <1>3, <2>1, <2>2, CopyRoot, SMTT(60)
<1> HIDE DEF r
<1>7. \A l, m \in InTable(s) : copy[l] = copy[m] => l = m
  BY <1>2, <1>3, <1>4, KeysDiffer
<1>8. Cardinality(In(r)) = t.count
  <2>1. IsFiniteSet(In(t.root))
    BY <1>2, NodeSets
  <2> QED BY <1>2, <1>3, <1>6, <1>7, <2>1, Images
<1>9. TableOK(u) /\ u.root = r /\ u.size = t.size /\ Of(u) = In(r)
  BY <1>2, <1>6, <1>8, Rechained
<1> HIDE DEF u
<1>10. ASSUME NEW m \in InTable(s) PROVE node'[copy[m]] = node[m]
  <2>1. copy[m] \in Nodes /\ copy[m] \in Range(copy)
    BY <1>4, <1>5
  <2>2. (CHOOSE l \in InTable(s) : copy[l] = copy[m]) = m
    BY <1>7
  <2> QED BY <1>1, <2>1, <2>2
<1>11. node \in [Nodes -> NodeType]
  BY DEF HashInv
<1>12. ASSUME NEW n \in Nodes PROVE node'[n] \in NodeType
  <2>1. CASE n \in Range(copy)
    <3>1. PICK m \in InTable(s) : n = copy[m]
      BY <1>5, <2>1
    <3> QED BY <1>2, <1>10, <1>11, <3>1
  <2>2. CASE n \notin Range(copy)
    BY <1>1, <1>11, <2>2
  <2> QED BY <2>1, <2>2
<1>13. node' \in [Nodes -> NodeType]
  BY <1>1, <1>12
<1>14. ASSUME NEW i \in Tables, NEW n \in InTable(i) PROVE node'[n] = node[n]
  <2>1. n \in Nodes /\ n \notin Range(copy)
    BY <1>4, <1>5, StateFacts
  <2> QED BY <1>1, <2>1
<1>15. \A b \in Places(u.size) :
         /\ Len(u.root[b]) = Len(t.root[b])
         /\ \A i \in 1..Len(u.root[b]) : u.root[b][i] = copy[t.root[b][i]]
  BY <1>6, <1>9
<1>16. \A n : n \in In(u.root) <=> \E m \in InTable(s) : n = copy[m]
  BY <1>2, <1>6, <1>9
<1>17. Cloned(s, d, copy, u)
  BY <1>1, <1>4, <1>9, <1>10, <1>13, <1>14, <1>15, <1>16 DEF Cloned, t
<1> QED BY <1>17

\* A clone is well formed, and its nodes are in no other table.
LEMMA StepClone ==
  ASSUME HashInv, NEW s \in Tables, NEW d \in Tables, HT_clone(s, d)
  PROVE  HashInv'
<1>1. PICK copy, u : Cloned(s, d, copy, u)
  BY CloneFacts
<1>2. iter.table # d
  BY <1>1, StateFacts DEF Cloned
<1>3. Of(u) = In(u.root)
  BY <1>1, TableFacts DEF Cloned, Of
<1>4. \A n \in Of(u) : node'[n].live /\ node'[n].pObj \in Objs
                       /\ \A i \in Tables \ {d} : n \notin InTable(i)
  BY <1>1, <1>3, StateFacts DEF Cloned
<1> QED BY <1>1, <1>2, <1>4, ChangeTable DEF Cloned

-----------------------------------------------------------------------------
(* Walks. *)

\* A walk that has come to a place of a chain: what is left of it.
LEMMA WalkFacts ==
  ASSUME HashInv, iter # NoIter
  PROVE  \E i : LET t == table[iter.table]
                    c == t.root[iter.bucket - 1]
                IN  /\ iter.table \in Tables /\ t.live /\ TableOK(t) /\ c \in Seq(Nodes)
                    /\ iter.bucket \in 1..Buckets(t.size) /\ Buckets(t.size) \in Nat \ {0}
                    /\ iter.remain = Buckets(t.size) - iter.bucket + 1
                    /\ iter.bucket - 1 \in Places(t.size)
                    /\ i \in 1..(Len(c) + 1) /\ iter.rest = SubSeq(c, i, Len(c))
                    /\ iter = [table |-> iter.table, rest |-> iter.rest,
                               bucket |-> iter.bucket, remain |-> iter.remain]
<1>1. WalkOK
  BY DEF HashInv
<1>2. iter.table \in Tables /\ table[iter.table].live
  BY <1>1 DEF WalkOK
<1>3. TableOK(table[iter.table])
  BY <1>2, StateFacts
<1>4. table[iter.table].size \in Nat /\ RootOK(table[iter.table].root, table[iter.table].size)
  BY <1>3, TableFacts
<1>5. Buckets(table[iter.table].size) \in Nat \ {0}
  BY <1>4, BucketsFacts
<1>6. iter.bucket \in 1..Buckets(table[iter.table].size)
  BY <1>1 DEF WalkOK
<1>7. iter.bucket - 1 \in Places(table[iter.table].size)
  BY <1>5, <1>6 DEF Places
<1>8. table[iter.table].root[iter.bucket - 1] \in Seq(Nodes)
  BY <1>4, <1>7, SMTT(60) DEF RootOK
<1>9. PICK i \in 1..(Len(table[iter.table].root[iter.bucket - 1]) + 1) :
         iter.rest = SubSeq(table[iter.table].root[iter.bucket - 1], i,
                            Len(table[iter.table].root[iter.bucket - 1]))
  BY <1>1 DEF WalkOK
<1> QED BY <1>1, <1>2, <1>3, <1>5, <1>6, <1>7, <1>8, <1>9 DEF WalkOK

\* A walk that is at the beginning of a chain, or after its first node.
LEMMA NewWalk ==
  ASSUME HashInv, UNCHANGED <<table, node>>, NEW h \in Tables, table[h].live,
         NEW bucket \in 1..Buckets(table[h].size), NEW rest,
         NEW i \in 1..(Len(table[h].root[bucket - 1]) + 1),
         rest = SubSeq(table[h].root[bucket - 1], i, Len(table[h].root[bucket - 1])),
         iter' = [table |-> h, rest |-> rest, bucket |-> bucket,
                  remain |-> Buckets(table[h].size) - bucket + 1]
  PROVE  HashInv'
<1>1. /\ iter'.table = h /\ iter'.rest = rest /\ iter'.bucket = bucket
      /\ iter'.remain = Buckets(table[h].size) - bucket + 1
  OBVIOUS
<1>2. iter' = [table |-> iter'.table, rest |-> iter'.rest, bucket |-> iter'.bucket,
               remain |-> iter'.remain]
  BY <1>1, Zenon
<1>3. WalkOK'
  BY <1>1, <1>2 DEF WalkOK
<1> QED BY <1>3, ChangeWalk

\* A walk begins at the first chain.
LEMMA StepInit ==
  ASSUME HashInv, NEW h \in Tables, HI_init(h)
  PROVE  HashInv'
<1> DEFINE t == table[h]
           c == t.root[0]
           B == Buckets(t.size)
<1>1. /\ t.live /\ iter' = [table |-> h, rest |-> c, bucket |-> 1, remain |-> B]
      /\ UNCHANGED <<table, node>> /\ TableOK(t)
  BY StateFacts DEF HI_init
<1>2. t.size \in Nat /\ RootOK(t.root, t.size)
  BY <1>1, TableFacts
<1>3. B \in Nat \ {0}
  BY <1>2, BucketsFacts
<1>4. 0 \in Places(t.size)
  BY <1>3 DEF Places
<1>5. c \in Seq(Nodes)
  BY <1>2, <1>4 DEF RootOK
<1>6. Len(c) \in Nat /\ c = SubSeq(c, 1, Len(c))
  BY <1>5, SubSeqFull, LenProperties
<1>7. B - 1 + 1 = B /\ 1 - 1 = 0 /\ 1 \in 1..B /\ 1 \in 1..(Len(c) + 1)
  BY <1>3, <1>6
<1>8. iter' = [table |-> h, rest |-> c, bucket |-> 1, remain |-> B - 1 + 1]
  BY <1>1, <1>7
<1> QED BY <1>1, <1>6, <1>7, <1>8, NewWalk

\* The tail of what is left of a chain.
LEMMA TailFacts ==
  ASSUME NEW c \in Seq(Nodes), NEW i \in 1..(Len(c) + 1), SubSeq(c, i, Len(c)) # << >>
  PROVE  /\ i \in 1..Len(c) /\ i + 1 \in 1..(Len(c) + 1)
         /\ Head(SubSeq(c, i, Len(c))) = c[i]
         /\ Tail(SubSeq(c, i, Len(c))) = SubSeq(c, i + 1, Len(c))
<1>1. Len(c) \in Nat
  BY LenProperties
<1>2. i \in 1..Len(c)
  <2>1. ASSUME Len(c) < i PROVE FALSE
    BY <1>1, <2>1, SubSeqEmpty
  <2> QED BY <1>1, <2>1
<1>3. Len(c) \in i..Len(c)
  BY <1>1, <1>2
<1> QED BY <1>1, <1>2, <1>3, HeadTailOfSubSeq

\* What HI_next does: it goes on in a chain, or to the first chain after it
\* that is not empty, or ends.
Goes(chain, bucket, remain) ==
  /\ iter' = [iter EXCEPT !.rest = Tail(chain), !.bucket = bucket, !.remain = remain]
  /\ call' = [fn |-> "HI_next", args |-> << >>,
              gives |-> <<KeyOf[Head(chain)], node[Head(chain)].pObj>>]

Left(t) == {b \in iter.bucket..(iter.bucket + iter.remain - 2) : t.root[b] # << >>}

\* HI_next does one of these.
LEMMA NextCases ==
  ASSUME HashInv, HI_next
  PROVE  /\ iter # NoIter /\ UNCHANGED <<table, node>>
         /\ \/ iter.rest # << >> /\ Goes(iter.rest, iter.bucket, iter.remain)
            \/ /\ iter.rest = << >>
               /\ \E b \in Left(table[iter.table]) :
                    /\ \A y \in Left(table[iter.table]) : b <= y
                    /\ Goes(table[iter.table].root[b], b + 1, iter.remain - (b + 1 - iter.bucket))
            \/ /\ iter.rest = << >> /\ Left(table[iter.table]) = {}
               /\ iter' = NoIter
               /\ call' = [fn |-> "HI_next", args |-> << >>, gives |-> NULL]
<1> DEFINE t == table[iter.table]
           b == CHOOSE x \in Left(t) : \A y \in Left(t) : x <= y
<1>1. /\ iter # NoIter /\ UNCHANGED <<table, node>>
      /\ IF iter.rest # << >> THEN Goes(iter.rest, iter.bucket, iter.remain)
         ELSE IF Left(t) # {} THEN Goes(t.root[b], b + 1, iter.remain - (b + 1 - iter.bucket))
         ELSE iter' = NoIter /\ call' = [fn |-> "HI_next", args |-> << >>, gives |-> NULL]
  BY Zenon DEF HI_next, Called, Goes, Left
<1>2. ASSUME Left(t) # {} PROVE b \in Left(t) /\ \A y \in Left(t) : b <= y
  <2>1. Left(t) \subseteq Nat
    <3>1. iter.bucket \in Nat
      BY <1>1, WalkFacts
    <3> QED BY <3>1 DEF Left
  <2>2. \E x \in Left(t) : \A y \in Left(t) : x <= y
    <3> HIDE DEF t
    <3> QED BY <1>2, <2>1, Least
  <2> QED BY <2>2
<1> HIDE DEF b
<1> QED BY <1>1, <1>2

\* The iterator after a step along a chain.
LEMMA GoesFacts ==
  ASSUME HashInv, iter # NoIter, NEW chain, NEW bucket, NEW remain, Goes(chain, bucket, remain)
  PROVE  iter' = [table |-> iter.table, rest |-> Tail(chain), bucket |-> bucket, remain |-> remain]
<1>1. iter = [table |-> iter.table, rest |-> iter.rest, bucket |-> iter.bucket,
              remain |-> iter.remain]
  BY WalkFacts
<1>2. PICK h, c, b, r : /\ iter = [table |-> h, rest |-> c, bucket |-> b, remain |-> r]
                        /\ iter.table = h
  BY <1>1, Zenon
<1>3. ASSUME NEW x, NEW y, x = [table |-> h, rest |-> c, bucket |-> b, remain |-> r],
             y = [x EXCEPT !.rest = Tail(chain), !.bucket = bucket, !.remain = remain]
      PROVE  y = [table |-> h, rest |-> Tail(chain), bucket |-> bucket, remain |-> remain]
  BY <1>3
<1>4. iter' = [iter EXCEPT !.rest = Tail(chain), !.bucket = bucket, !.remain = remain]
  BY DEF Goes
<1>5. iter' = [table |-> h, rest |-> Tail(chain), bucket |-> bucket, remain |-> remain]
  BY <1>2, <1>3, <1>4
<1> QED BY <1>2, <1>5

\* A walk goes on.
LEMMA StepWalk ==
  ASSUME HashInv, HI_next
  PROVE  HashInv'
<1> DEFINE h == iter.table
           t == table[h]
           B == Buckets(t.size)
           c == t.root[iter.bucket - 1]
<1>1. iter # NoIter /\ UNCHANGED <<table, node>>
  BY NextCases
<1>2. PICK i : /\ h \in Tables /\ t.live /\ TableOK(t) /\ c \in Seq(Nodes)
               /\ iter.bucket \in 1..B /\ B \in Nat \ {0}
               /\ iter.remain = B - iter.bucket + 1
               /\ i \in 1..(Len(c) + 1) /\ iter.rest = SubSeq(c, i, Len(c))
  BY <1>1, WalkFacts
<1>3. CASE iter.rest # << >> /\ Goes(iter.rest, iter.bucket, iter.remain)
  <2>1. i + 1 \in 1..(Len(c) + 1) /\ Tail(iter.rest) = SubSeq(c, i + 1, Len(c))
    BY <1>2, <1>3, TailFacts
  <2>2. iter' = [table |-> h, rest |-> Tail(iter.rest), bucket |-> iter.bucket,
                 remain |-> B - iter.bucket + 1]
    BY <1>1, <1>2, <1>3, GoesFacts
  <2> QED BY <1>1, <1>2, <2>1, <2>2, NewWalk, ZenonT(60)
<1>4. ASSUME NEW b \in Left(t), Goes(t.root[b], b + 1, iter.remain - (b + 1 - iter.bucket))
      PROVE  HashInv'
  <2>1. b \in iter.bucket..(iter.bucket + iter.remain - 2) /\ t.root[b] # << >>
    BY DEF Left
  <2>2. /\ b + 1 \in 1..B /\ (b + 1) - 1 = b /\ b \in 0..(B - 1)
        /\ iter.remain - (b + 1 - iter.bucket) = B - (b + 1) + 1
    <3> HIDE DEF B
    <3> QED BY <1>2, <2>1
  <2>3. t.root[b] \in Seq(Nodes)
    BY <1>2, <2>2, TableFacts DEF RootOK, Places
  <2> DEFINE e == t.root[b]
  <2>4. SubSeq(e, 1, Len(e)) = e /\ Len(e) \in Nat /\ e # << >>
    BY <2>1, <2>3, SubSeqFull, LenProperties
  <2>5. 2 \in 1..(Len(e) + 1) /\ Tail(e) = SubSeq(e, 2, Len(e))
    <3>1. 1 \in 1..(Len(e) + 1) /\ 1 + 1 = 2
      BY <2>4, SMTT(60)
    <3> HIDE DEF e
    <3>2. e \in Seq(Nodes)
      BY <2>3 DEF e
    <3> QED BY <2>4, <3>1, <3>2, TailFacts
  <2>6. iter' = [table |-> h, rest |-> Tail(e), bucket |-> b + 1, remain |-> B - (b + 1) + 1]
    <3> HIDE DEF B
    <3> QED BY <1>1, <1>4, <2>2, GoesFacts
  <2> QED BY <1>1, <1>2, <2>2, <2>5, <2>6, NewWalk, ZenonT(60)
<1>5. CASE iter' = NoIter
  BY <1>1, <1>5, ChangeWalk
<1> QED BY <1>3, <1>4, <1>5, NextCases

-----------------------------------------------------------------------------
(* The theorems. *)

\* There are no tables at first.
LEMMA InitInv == Init => HashInv
<1> SUFFICES ASSUME Init PROVE HashInv
  OBVIOUS
<1>1. NoTable.live = FALSE
  BY DEF NoTable
<1>2. /\ table = [h \in Tables |-> NoTable] /\ node = [n \in Nodes |-> Freed] /\ iter = NoIter
      /\ \A h \in Tables : table[h] = NoTable /\ InTable(h) = {}
  BY <1>1 DEF Init, InTable
<1> QED BY <1>2, NodeRecords DEF HashInv, Kept

\* A call that only looks at a table.
LEMMA StepLook ==
  ASSUME HashInv, NEW h \in Tables, NEW k \in Keys, HT_get(h, k) \/ HT_exists(h, k)
  PROVE  HashInv'
<1>1. UNCHANGED <<table, node, iter>>
  BY DEF HT_get, HT_exists, Return
<1>2. node' \in [Nodes -> NodeType]
  BY <1>1 DEF HashInv
<1> QED BY <1>1, <1>2, ChangeNodes

\* No call breaks the invariant.
LEMMA NextInv == HashInv /\ [Next]_vars => HashInv'
<1> SUFFICES ASSUME HashInv, [Next]_vars PROVE HashInv'
  OBVIOUS
<1>1. CASE UNCHANGED vars
  <2>1. UNCHANGED <<table, node, iter>> /\ node' \in [Nodes -> NodeType]
    BY <1>1 DEF vars, HashInv
  <2> QED BY <2>1, ChangeNodes
<1>2. ASSUME NEW h \in Tables, NEW size \in Sizes, NEW flags \in Flags, HT_new_ex(h, size, flags)
      PROVE  HashInv'
  BY <1>2, StepNew
<1>3. ASSUME NEW h \in Tables, HT_delete(h) PROVE HashInv'
  BY <1>3, StepDelete
<1>4. ASSUME NEW h \in Tables, HT_flush(h) PROVE HashInv'
  BY <1>4, StepFlush
<1>5. ASSUME NEW h \in Tables, HT_destroy(h) PROVE HashInv'
  BY <1>5, StepDestroy
<1>6. ASSUME NEW h \in Tables, HI_init(h) PROVE HashInv'
  BY <1>6, StepInit
<1>7. ASSUME NEW h \in Tables, NEW d \in Tables, HT_clone(h, d) PROVE HashInv'
  BY <1>7, StepClone
<1>8. ASSUME NEW h \in Tables, NEW size \in Sizes, HT_resize(h, size) PROVE HashInv'
  BY <1>8, StepResize
<1>9. ASSUME NEW h \in Tables, NEW n \in Nodes, HT_fetchnode(h, n) \/ HT_rmnode(h, n)
      PROVE  HashInv'
  BY <1>9, StepFetchnode
<1>10. ASSUME NEW h \in Tables, NEW n \in Nodes, NEW o \in Objs, HT_storenode(h, n, o)
       PROVE  HashInv'
  BY <1>10, StepStorenode
<1>11. ASSUME NEW h \in Tables, NEW k \in Keys, HT_fetch(h, k) PROVE HashInv'
  BY <1>11, StepFetch
<1>12. ASSUME NEW h \in Tables, NEW k \in Keys, HT_get(h, k) \/ HT_exists(h, k) PROVE HashInv'
  BY <1>12, StepLook
<1>13. ASSUME NEW h \in Tables, NEW k \in Keys, NEW o \in Objs, HT_store(h, k, o) PROVE HashInv'
  BY <1>13, StepStore
<1>14. ASSUME NEW k \in Keys, HN_new(k) PROVE HashInv'
  BY <1>14, StepNewNode
<1>15. ASSUME NEW n \in Nodes, HN_delete(n) PROVE HashInv'
  BY <1>15, StepDeleteNode
<1>16. CASE HI_next
  BY <1>16, StepWalk
<1> QED BY <1>1, <1>2, <1>3, <1>4, <1>5, <1>6, <1>7, <1>8, <1>9, <1>10, <1>11, <1>12, <1>13,
           <1>14, <1>15, <1>16 DEF Next

\* Every node is in its bucket and every chain sorted, after any calls.
THEOREM HashInvariance == Spec => []HashInv
BY InitInv, NextInv, PTL DEF Spec

\* What the invariant says in the words of the runs: chains have no node
\* twice, no two chains and no two tables share one, and the count is right.
LEMMA OnceFacts == HashInv => NodesOnce
<1> SUFFICES ASSUME HashInv PROVE NodesOnce
  OBVIOUS
<1>1. ASSUME NEW h \in Tables, table[h] # NoTable
      PROVE  LET t == table[h]
             IN  /\ t.live /\ TableOK(t) /\ t.size \in Sizes /\ t.size \in Nat
                 /\ t.flags \in Flags /\ RootOK(t.root, t.size)
                 /\ Chained(h) = In(t.root) /\ t.count = Cardinality(In(t.root))
                 /\ t.count \in 0..Cardinality(Nodes) /\ DOMAIN t.root = Places(t.size)
  <2>1. TableOK(table[h]) /\ table[h].live
    BY <1>1, StateFacts
  <2>2. Chained(h) = In(table[h].root)
    BY DEF Chained, In
  <2>3. DOMAIN table[h].root = Places(table[h].size)
    BY <2>1, TableFacts, InFacts
  <2> QED BY <2>1, <2>2, <2>3, TableFacts
<1>2. NoTable.live = FALSE
  BY DEF NoTable
<1>3. ASSUME NEW h \in Tables, table[h] # NoTable, NEW b \in Places(table[h].size)
      PROVE  /\ table[h].root[b] \in Seq({n \in Nodes : node[n].live})
             /\ IsInjective(table[h].root[b])
             /\ \A n \in Range(table[h].root[b]) : Bucket(KeyOf[n], table[h].size) = b
  <2> DEFINE c == table[h].root[b]
  <2>1. c \in Seq(Nodes) /\ Sorted(c)
    BY <1>1, <1>3, InFacts DEF ChainOK
  <2>2. \A n \in Range(c) : n \in InTable(h) /\ Bucket(KeyOf[n], table[h].size) = b
    <3>1. \A n \in Range(c) : n \in In(table[h].root) /\ Bucket(KeyOf[n], table[h].size) = b
      BY <1>1, <1>3, InBucket
    <3> QED BY <1>1, <1>3, <3>1 DEF InTable
  <2>3. \A n \in InTable(h) : node[n].live
    BY StateFacts
  <2> HIDE DEF c
  <2>4. /\ DOMAIN c = 1..Len(c) /\ Len(c) \in Nat /\ \A i \in 1..Len(c) : c[i] \in Nodes
        /\ \A i \in 1..Len(c) : c[i] \in Range(c)
    BY <2>1, LenProperties, ElementOfSeq, RangeFacts
  <2>5. c \in Seq({n \in Nodes : node[n].live})
    <3> DEFINE L == {n \in Nodes : node[n].live}
    <3>1. \A i \in 1..Len(c) : c[i] \in L
      BY <2>2, <2>3, <2>4
    <3> HIDE DEF L
    <3>2. c \in [1..Len(c) -> Nodes]
      BY <2>1, LenProperties
    <3>3. c \in [1..Len(c) -> L]
      BY <3>1, <3>2
    <3>4. c \in Seq(L)
      BY <2>4, <3>3, SeqDef
    <3> QED BY <3>4 DEF L
  <2>6. IsInjective(c)
    <3> SUFFICES ASSUME NEW i \in 1..Len(c), NEW j \in 1..Len(c), c[i] = c[j] PROVE i = j
      BY <2>4 DEF IsInjective
    <3>1. KeyOf[c[i]] \in Keys
      BY <2>4, KeyFacts
    <3>2. ~Precedes(KeyOf[c[i]], KeyOf[c[i]])
      BY <3>1, Ordered
    <3>3. ~(i < j) /\ ~(j < i)
      BY <3>2 , <2>1 DEF Sorted
    <3> QED BY <2>4, <3>3
  <2> QED BY <2>2, <2>5, <2>6 DEF c
<1>4. ASSUME NEW h \in Tables, table[h] # NoTable
      PROVE  table[h].root \in [Places(table[h].size) -> Seq({n \in Nodes : node[n].live})]
  <2>1. table[h].root \in [Places(table[h].size) -> Seq(Nodes)]
    BY <1>1, <1>4 DEF RootOK
  <2>2. \A b \in Places(table[h].size) :
          table[h].root[b] \in Seq({n \in Nodes : node[n].live})
    BY <1>3, <1>4
  <2> DEFINE T == Seq({n \in Nodes : node[n].live})
             r == table[h].root
             D == Places(table[h].size)
  <2> HIDE DEF T, r, D
  <2>3. r \in [D -> Seq(Nodes)] /\ \A b \in D : r[b] \in T
    BY <2>1, <2>2 DEF T, r, D
  <2>4. r \in [D -> T]
    BY <2>3
  <2> QED BY <2>4 DEF T, r, D
<1>5. \A n \in Nodes : node[n].pObj \in Objs \cup {NULL}
  BY DEF HashInv, NodeType
<1>6. TypeOK
  BY <1>1, <1>4, <1>5 DEF TypeOK
<1>7. ASSUME NEW h \in Tables, table[h].live
      PROVE  /\ table[h].count = Cardinality(Chained(h))
             /\ \A b \in DOMAIN table[h].root : IsInjective(table[h].root[b])
             /\ \A b, c \in DOMAIN table[h].root :
                  b # c => Range(table[h].root[b]) \cap Range(table[h].root[c]) = {}
  <2>1. table[h] # NoTable
    BY <1>2, <1>7
  <2>2. DOMAIN table[h].root = Places(table[h].size) /\ table[h].count = Cardinality(Chained(h))
    BY <1>1, <2>1
  <2>3. \A b \in DOMAIN table[h].root :
          /\ IsInjective(table[h].root[b])
          /\ \A n \in Range(table[h].root[b]) : Bucket(KeyOf[n], table[h].size) = b
    BY <1>3, <2>1, <2>2
  <2> QED BY <2>2, <2>3
<1>8. \A h, i \in Tables : h # i => InTable(h) \cap InTable(i) = {}
  BY DEF HashInv
<1>9. \A h \in Tables : \A n \in InTable(h) : node[n].pObj # NULL
  BY StateFacts, NodeRecords
<1> QED BY <1>6, <1>7, <1>8, <1>9 DEF NodesOnce

\* Whatever is stored, fetched, flushed, copied and resized, a node is in one
\* table and at one place of it, with an object, and counts are exact.
THEOREM NodesAreThereOnce == Spec => []NodesOnce
BY HashInvariance, OnceFacts, PTL

\* The keys of the chains of a clone are those of the original, in their order.
LEMMA CloneOrder ==
  ASSUME HashInv, NEW s \in Tables, NEW d \in Tables, HT_clone(s, d)
  PROVE  Order(d)' = Order(s)
<1> DEFINE t == table[s]
           Walk(q) == [i \in 1..Buckets(q.size) |->
                         [j \in DOMAIN q.root[i - 1] |-> KeyOf[q.root[i - 1][j]]]]
<1>1. PICK copy, u : Cloned(s, d, copy, u)
  BY CloneFacts
<1>2. /\ TableOK(t) /\ TableOK(u) /\ u.size = t.size /\ InTable(s) = In(t.root)
      /\ \A b \in Places(u.size) :
           /\ Len(u.root[b]) = Len(t.root[b])
           /\ \A i \in 1..Len(u.root[b]) : u.root[b][i] = copy[t.root[b][i]]
      /\ \A m \in InTable(s) : KeyOf[copy[m]] = KeyOf[m]
  BY <1>1, StateFacts DEF Cloned
<1>3. table'[d] = u
  BY <1>1 DEF Cloned, HashInv
<1>4. /\ t.size \in Nat /\ RootOK(t.root, t.size) /\ RootOK(u.root, u.size)
      /\ Buckets(t.size) \in Nat \ {0}
  BY <1>2, TableFacts, BucketsFacts
<1>5. ASSUME NEW i \in 1..Buckets(t.size)
      PROVE  [j \in DOMAIN u.root[i - 1] |-> KeyOf[u.root[i - 1][j]]] =
             [j \in DOMAIN t.root[i - 1] |-> KeyOf[t.root[i - 1][j]]]
  <2> DEFINE c == t.root[i - 1]
             e == u.root[i - 1]
  <2>1. i - 1 \in Places(t.size)
    BY <1>4 DEF Places
  <2>2. c \in Seq(Nodes) /\ e \in Seq(Nodes) /\ Range(c) \subseteq In(t.root)
    BY <1>2, <1>4, <2>1, InFacts DEF ChainOK
  <2>3. Len(e) = Len(c) /\ \A j \in 1..Len(e) : e[j] = copy[c[j]]
    BY <1>2, <2>1
  <2> HIDE DEF c, e
  <2>4. DOMAIN c = 1..Len(c) /\ DOMAIN e = 1..Len(c)
    BY <2>2, <2>3, LenProperties
  <2>5. \A j \in 1..Len(c) : KeyOf[e[j]] = KeyOf[c[j]]
    BY <1>2, <2>2, <2>3, RangeFacts, SMTT(60)
  <2>6. [j \in DOMAIN e |-> KeyOf[e[j]]] = [j \in DOMAIN c |-> KeyOf[c[j]]]
    BY <2>4, <2>5
  <2> QED BY <2>6 DEF c, e
<1>6. Walk(u) = Walk(t)
  BY <1>2, <1>5
<1>7. Order(s) = FlattenSeq(Walk(t))
  BY DEF Order
<1>8. Order(d)' = FlattenSeq(Walk(table'[d]))
  BY DEF Order
<1> HIDE DEF Walk
<1> QED BY <1>3, <1>6, <1>7, <1>8

\* A walk along a clone meets the keys in the order of the original.
THEOREM ClonesKeepOrder == Spec => CloneKeepsOrder
<1>1. HashInv /\ [Next]_vars =>
        [\A s, d \in Tables : HT_clone(s, d) => Order(d)' = Order(s)]_vars
  BY CloneOrder
<1> QED BY <1>1, HashInvariance, PTL DEF Spec, CloneKeepsOrder

-----------------------------------------------------------------------------
(* Tables as maps. *)

Distinct(A) == \A m, n \in A : KeyOf[m] = KeyOf[n] => m = n
KeysOf(A) == {KeyOf[n] : n \in A}
The(A, k) == CHOOSE n \in A : KeyOf[n] = k

\* A map with one key more.
WithKey(f, k, e) == [x \in DOMAIN f \cup {k} |-> IF x = k THEN e ELSE f[x]]

\* What nodes A hold when nodes are as nd says.
HeldBy(A, nd) == [k \in KeysOf(A) |-> [entry |-> The(A, k), obj |-> nd[The(A, k)].pObj]]

\* A map has the keys of the nodes, and for each the node and its object.
LEMMA HeldFacts ==
  ASSUME NEW A, Distinct(A), NEW nd
  PROVE  /\ DOMAIN HeldBy(A, nd) = KeysOf(A)
         /\ \A n \in A : /\ KeyOf[n] \in KeysOf(A) /\ The(A, KeyOf[n]) = n
                         /\ HeldBy(A, nd)[KeyOf[n]] = [entry |-> n, obj |-> nd[n].pObj]
         /\ \A k \in KeysOf(A) : \E n \in A : k = KeyOf[n]
<1>1. ASSUME NEW n \in A PROVE KeyOf[n] \in KeysOf(A) /\ The(A, KeyOf[n]) = n
  BY DEF KeysOf, The, Distinct
<1>2. ASSUME NEW n \in A PROVE HeldBy(A, nd)[KeyOf[n]] = [entry |-> n, obj |-> nd[n].pObj]
  BY <1>1 DEF HeldBy
<1>3. \A k \in KeysOf(A) : \E n \in A : k = KeyOf[n]
  BY DEF KeysOf
<1> QED BY <1>1, <1>2, <1>3 DEF HeldBy

\* Maps with the same keys and entries are the same.
LEMMA HeldIs ==
  ASSUME NEW A, Distinct(A), NEW nd, NEW f, NEW D, f = [x \in D |-> f[x]], D = KeysOf(A),
         \A n \in A : f[KeyOf[n]] = [entry |-> n, obj |-> nd[n].pObj]
  PROVE  HeldBy(A, nd) = f
<1> DEFINE g == HeldBy(A, nd)
<1>1. g = [x \in D |-> g[x]]
  BY DEF HeldBy
<1>2. ASSUME NEW x \in D PROVE g[x] = f[x]
  <2>1. PICK n \in A : x = KeyOf[n]
    BY <1>2 DEF KeysOf
  <2>2. g[KeyOf[n]] = [entry |-> n, obj |-> nd[n].pObj]
    BY HeldFacts
  <2> HIDE DEF g
  <2> QED BY <2>1, <2>2
<1> HIDE DEF g
<1>3. g = f
  BY <1>1, <1>2, Zenon
<1> QED BY <1>3 DEF g

\* Other nodes, or the same in another state, do not matter.
LEMMA HeldSame ==
  ASSUME NEW A, Distinct(A), NEW nd, NEW md, \A n \in A : md[n].pObj = nd[n].pObj
  PROVE  HeldBy(A, md) = HeldBy(A, nd)
<1> DEFINE f == HeldBy(A, nd)
<1>1. f = [x \in KeysOf(A) |-> f[x]]
  BY DEF HeldBy
<1>2. \A n \in A : f[KeyOf[n]] = [entry |-> n, obj |-> md[n].pObj]
  BY HeldFacts
<1> HIDE DEF f
<1>3. HeldBy(A, md) = f
  BY <1>1, <1>2, HeldIs
<1> QED BY <1>3 DEF f

\* A node more, and a node less.
LEMMA HeldMore ==
  ASSUME NEW A, NEW n, n \notin A, Distinct(A \cup {n}), NEW nd, NEW md, NEW o,
         \A m \in A : md[m] = nd[m], md[n].pObj = o
  PROVE  HeldBy(A \cup {n}, md) = WithKey(HeldBy(A, nd), KeyOf[n], [entry |-> n, obj |-> o])
<1> DEFINE D == KeysOf(A) \cup {KeyOf[n]}
           f == [x \in D |-> IF x = KeyOf[n] THEN [entry |-> n, obj |-> o] ELSE HeldBy(A, nd)[x]]
<1>1. f = [x \in D |-> f[x]]
  OBVIOUS
<1>2. D = KeysOf(A \cup {n})
  BY DEF KeysOf
<1>3. Distinct(A) /\ \A m \in A : KeyOf[m] # KeyOf[n]
  BY DEF Distinct
<1>4. ASSUME NEW m \in A \cup {n} PROVE f[KeyOf[m]] = [entry |-> m, obj |-> md[m].pObj]
  <2>1. CASE m = n
    BY <2>1
  <2>2. CASE m # n
    <3>1. m \in A /\ KeyOf[m] # KeyOf[n] /\ KeyOf[m] \in KeysOf(A)
      BY <1>3, <2>2, HeldFacts
    <3>2. f[KeyOf[m]] = HeldBy(A, nd)[KeyOf[m]]
      BY <3>1
    <3>3. HeldBy(A, nd)[KeyOf[m]] = [entry |-> m, obj |-> nd[m].pObj]
      BY <1>3, <3>1, HeldFacts
    <3> QED BY <3>1, <3>2, <3>3
  <2> QED BY <2>1, <2>2
<1> HIDE DEF f, D
<1>5. HeldBy(A \cup {n}, md) = f
  BY <1>1, <1>2, <1>4, HeldIs, SMTT(60)
<1>6. f = WithKey(HeldBy(A, nd), KeyOf[n], [entry |-> n, obj |-> o])
  <2>1. KeysOf(A) = DOMAIN HeldBy(A, nd)
    BY DEF HeldBy
  <2> QED BY <2>1 DEF f, D, WithKey
<1> QED BY <1>5, <1>6

LEMMA HeldLess ==
  ASSUME NEW A, Distinct(A), NEW n \in A, NEW nd, NEW md, \A m \in A \ {n} : md[m] = nd[m]
  PROVE  HeldBy(A \ {n}, md) = [x \in KeysOf(A) \ {KeyOf[n]} |-> HeldBy(A, nd)[x]]
<1> DEFINE D == KeysOf(A) \ {KeyOf[n]}
           f == [x \in D |-> HeldBy(A, nd)[x]]
<1>1. f = [x \in D |-> f[x]]
  OBVIOUS
<1>2. Distinct(A \ {n}) /\ \A m \in A \ {n} : KeyOf[m] # KeyOf[n]
  BY DEF Distinct
<1>3. D = KeysOf(A \ {n})
  <2>1. \A k : k \in D <=> \E m \in A : k = KeyOf[m] /\ k # KeyOf[n]
    BY DEF KeysOf
  <2>2. \A k : k \in KeysOf(A \ {n}) <=> \E m \in A \ {n} : k = KeyOf[m]
    BY DEF KeysOf
  <2> HIDE DEF D
  <2> QED BY <1>2, <2>1, <2>2
<1>4. ASSUME NEW m \in A \ {n} PROVE f[KeyOf[m]] = [entry |-> m, obj |-> md[m].pObj]
  <2>1. KeyOf[m] \in D
    BY <1>2, HeldFacts
  <2>2. f[KeyOf[m]] = HeldBy(A, nd)[KeyOf[m]]
    BY <2>1
  <2>3. HeldBy(A, nd)[KeyOf[m]] = [entry |-> m, obj |-> nd[m].pObj]
    BY HeldFacts
  <2> QED BY <2>2, <2>3
<1>5. HeldBy(A \ {n}, md) = f
  <2> DEFINE B == A \ {n}
  <2>1. Distinct(B) /\ D = KeysOf(B) /\ \A m \in B : f[KeyOf[m]] = [entry |-> m, obj |-> md[m].pObj]
    <3> HIDE DEF f, D
    <3> QED BY <1>2, <1>3, <1>4
  <2> HIDE DEF B, f, D
  <2>2. HeldBy(B, md) = f
    BY <1>1, <2>1, HeldIs
  <2> QED BY <2>2 DEF B
<1> QED BY <1>5 DEF f, D

\* No nodes hold nothing.
LEMMA HeldNone ==
  ASSUME NEW nd
  PROVE  Map!Holds(HeldBy({}, nd)) = Map!Empty
<1>1. KeysOf({}) = {}
  BY DEF KeysOf
<1>2. HeldBy({}, nd) = [k \in {} |-> NULL]
  BY <1>1 DEF HeldBy
<1> QED BY <1>2 DEF Map!Holds, Map!Empty

\* There are as many keys as nodes.
LEMMA HeldSize ==
  ASSUME NEW A, A \subseteq Nodes, Distinct(A)
  PROVE  Cardinality(KeysOf(A)) = Cardinality(A)
<1>1. IsFiniteSet(A)
  BY NodeSets
<1>2. \A k \in KeysOf(A) : \E n \in A : k = KeyOf[n]
  BY DEF KeysOf
<1>3. \A n \in A : KeyOf[n] \in KeysOf(A)
  BY DEF KeysOf
<1> QED BY <1>1, <1>2, <1>3, Images DEF Distinct

\* The nodes of a table have different keys.
LEMMA TableKeys ==
  ASSUME HashInv, NEW h \in Tables
  PROVE  Distinct(InTable(h)) /\ InTable(h) \subseteq Nodes /\ NULL \notin KeysOf(InTable(h))
<1>1. InTable(h) \subseteq Nodes
  BY StateFacts
<1>2. NULL \notin KeysOf(InTable(h))
  BY <1>1, KeyFacts DEF KeysOf
<1>3. CASE table[h].live
  <2>1. TableOK(table[h]) /\ InTable(h) = In(table[h].root)
    BY <1>3, StateFacts
  <2>2. RootOK(table[h].root, table[h].size)
    BY <2>1, TableFacts
  <2> QED BY <1>1, <1>2, <2>1, <2>2, KeysDiffer DEF Distinct
<1>4. CASE ~table[h].live
  BY <1>1, <1>2, <1>4 DEF InTable, Distinct
<1> QED BY <1>3, <1>4

\* What a table is taken for.
LEMMA MapFacts ==
  ASSUME NEW h \in Tables
  PROVE  /\ Maps[h] = IF table[h].live THEN Map!Holds(HeldBy(InTable(h), node)) ELSE Map!Absent
         /\ Maps'[h] = IF table'[h].live THEN Map!Holds(HeldBy(InTable(h)', node')) ELSE Map!Absent
<1>1. Maps[h] = MapOf(h) /\ Maps'[h] = MapOf(h)'
  BY DEF Maps
<1>2. MapOf(h) = IF table[h].live THEN Map!Holds(HeldBy(InTable(h), node)) ELSE Map!Absent
  <2>1. CASE table[h].live
    <3>1. InTable(h) = Chained(h)
      BY <2>1 DEF InTable
    <3> QED BY <2>1, <3>1 DEF MapOf, Map!Holds, HeldBy, KeysOf, The, EntryOf
  <2>2. CASE ~table[h].live
    BY <2>2 DEF MapOf, Map!Absent
  <2> QED BY <2>1, <2>2
<1>3. MapOf(h)' = IF table'[h].live THEN Map!Holds(HeldBy(InTable(h)', node')) ELSE Map!Absent
  <2>1. CASE table'[h].live
    <3>1. InTable(h)' = Chained(h)'
      BY <2>1 DEF InTable
    <3> QED BY <2>1, <3>1 DEF MapOf, Map!Holds, HeldBy, KeysOf, The, EntryOf
  <2>2. CASE ~table'[h].live
    BY <2>2 DEF MapOf, Map!Absent
  <2> QED BY <2>1, <2>2
<1> QED BY <1>1, <1>2, <1>3

\* One table changes, and no node of another: so does one map.
LEMMA MapChange ==
  ASSUME HashInv, NEW h \in Tables, iter.table # h, UNCHANGED iter,
         NEW u, u = NoTable \/ TableOK(u), table' = [table EXCEPT ![h] = u],
         \A i \in Tables \ {h} : \A n \in InTable(i) : node'[n] = node[n]
  PROVE  /\ UNCHANGED Walked
         /\ Maps' = [Maps EXCEPT ![h] = IF u = NoTable THEN Map!Absent
                                        ELSE Map!Holds(HeldBy(Of(u), node'))]
<1> DEFINE X == IF u = NoTable THEN Map!Absent ELSE Map!Holds(HeldBy(Of(u), node'))
<1>1. /\ table = [i \in Tables |-> table[i]] /\ table'[h] = u
      /\ \A i \in Tables \ {h} : table'[i] = table[i]
  BY DEF HashInv
<1>2. Ahead' = Ahead
  <2>1. CASE iter = NoIter
    BY <2>1 DEF Ahead
  <2>2. CASE iter # NoIter
    <3>1. iter.table \in Tables \ {h}
      BY <2>2, WalkFacts
    <3>2. table'[iter.table] = table[iter.table] /\ iter' = iter
      BY <1>1, <3>1
    <3> QED BY <3>2 DEF Ahead
  <2> QED BY <2>1, <2>2
<1>3. Maps'[h] = X
  <2>1. CASE u = NoTable
    <3>1. ~table'[h].live
      BY <1>1, <2>1 DEF NoTable
    <3> QED BY <2>1, <3>1, MapFacts
  <2>2. CASE u # NoTable
    <3>1. table'[h].live
      BY <1>1, <2>2, TableFacts
    <3>2. InTable(h)' = Of(u)
      BY <1>1, <2>2, <3>1 DEF InTable, Chained, In, Of
    <3> QED BY <2>2, <3>1, <3>2, MapFacts
  <2> QED BY <2>1, <2>2
<1>4. ASSUME NEW i \in Tables \ {h} PROVE Maps'[i] = Maps[i]
  <2>1. table'[i] = table[i]
    BY <1>1
  <2>2. InTable(i)' = InTable(i)
    BY <2>1 DEF InTable, Chained
  <2>3. HeldBy(InTable(i), node') = HeldBy(InTable(i), node)
    BY TableKeys, HeldSame
  <2> QED BY <2>1, <2>2, <2>3, MapFacts
<1>5. Maps' = [Maps EXCEPT ![h] = X]
  <2>1. Maps = [i \in Tables |-> Maps[i]] /\ Maps' = [i \in Tables |-> Maps'[i]]
    BY DEF Maps
  <2> DEFINE m == Maps
             p == Maps'
  <2> HIDE DEF X, m, p
  <2>2. m = [i \in Tables |-> m[i]] /\ p = [i \in Tables |-> p[i]]
    BY <2>1 DEF m, p
  <2>3. p[h] = X /\ \A i \in Tables \ {h} : p[i] = m[i]
    BY <1>3, <1>4 DEF m, p
  <2>4. p = [m EXCEPT ![h] = X]
    BY <2>2, <2>3
  <2> QED BY <2>4 DEF m, p
<1>6. UNCHANGED Walked
  BY <1>2 DEF Walked
<1> QED BY <1>5, <1>6

\* No node of a table changes: no map does.
LEMMA MapSame ==
  ASSUME HashInv, table' = table, \A i \in Tables : \A n \in InTable(i) : node'[n] = node[n]
  PROVE  UNCHANGED Maps /\ (iter' = iter => UNCHANGED Walked)
<1>1. ASSUME NEW i \in Tables PROVE Maps'[i] = Maps[i]
  <2>1. table'[i] = table[i]
    OBVIOUS
  <2>2. InTable(i)' = InTable(i)
    BY <2>1 DEF InTable, Chained
  <2>3. HeldBy(InTable(i), node') = HeldBy(InTable(i), node)
    BY TableKeys, HeldSame
  <2> QED BY <2>1, <2>2, <2>3, MapFacts
<1>2. Maps' = Maps
  <2>1. Maps = [i \in Tables |-> Maps[i]] /\ Maps' = [i \in Tables |-> Maps'[i]]
    BY DEF Maps
  <2> QED BY <1>1, <2>1, Zenon
<1>3. iter' = iter => Walked' = Walked
  BY DEF Walked, Ahead
<1> QED BY <1>2, <1>3

\* The map of a table, its keys and entries.
LEMMA MapAt ==
  ASSUME HashInv, NEW h \in Tables, table[h].live
  PROVE  LET at == Maps[h].at
         IN  /\ Maps[h] = Map!Holds(HeldBy(InTable(h), node)) /\ Maps[h].there
             /\ at = HeldBy(InTable(h), node) /\ DOMAIN at = KeysOf(InTable(h))
             /\ \A n \in InTable(h) : /\ KeyOf[n] \in DOMAIN at
                                      /\ at[KeyOf[n]].entry = n /\ at[KeyOf[n]].obj = node[n].pObj
             /\ \A k \in DOMAIN at : \E n \in InTable(h) : k = KeyOf[n]
             /\ Cardinality(DOMAIN at) = table[h].count
<1> DEFINE A == InTable(h)
           f == HeldBy(A, node)
<1>1. Distinct(A) /\ A \subseteq Nodes /\ table[h].count = Cardinality(A)
  BY TableKeys, StateFacts, TableFacts, ZenonT(60)
<1>2. Maps[h] = Map!Holds(f)
  BY MapFacts
<1>3. Maps[h].there /\ Maps[h].at = f
  <2> HIDE DEF f
  <2> QED BY <1>2 DEF Map!Holds
<1> HIDE DEF A
<1>4. /\ DOMAIN f = KeysOf(A)
      /\ \A n \in A : KeyOf[n] \in KeysOf(A) /\ f[KeyOf[n]] = [entry |-> n, obj |-> node[n].pObj]
      /\ \A k \in KeysOf(A) : \E n \in A : k = KeyOf[n]
  BY <1>1, HeldFacts
<1> HIDE DEF f
<1>5. ASSUME NEW n \in A PROVE f[KeyOf[n]].entry = n /\ f[KeyOf[n]].obj = node[n].pObj
  <2>1. f[KeyOf[n]] = [entry |-> n, obj |-> node[n].pObj]
    BY <1>4
  <2> QED BY <2>1
<1>6. Cardinality(KeysOf(A)) = table[h].count
  BY <1>1, HeldSize
<1> QED BY <1>2, <1>3, <1>4, <1>5, <1>6, ZenonT(60) DEF A, f

\* A call, and what the map sees of it.
LEMMA CallSeen ==
  ASSUME NEW fn, NEW args, NEW gives, Called(fn, args, gives)
  PROVE  /\ Map!Fn = fn /\ \A i : Map!Arg(i) = args[i]
         /\ \A x : x = gives => Map!Gives(x)
<1>1. call'.fn = fn /\ call'.args = args /\ call'.gives = gives
  BY DEF Called
<1> QED BY <1>1 DEF Map!Fn, Map!Arg, Map!Gives

\* A table becomes a map.
LEMMA Becomes ==
  ASSUME NEW h, Map!Arg(1) = h, NEW m, Maps' = [Maps EXCEPT ![h] = m], UNCHANGED Walked
  PROVE  Map!Become(m)
BY DEF Map!Become, Map!Table

\* A new table is empty.
LEMMA MapNew ==
  ASSUME HashInv, NEW h \in Tables, NEW size \in Sizes, NEW flags \in Flags,
         HT_new_ex(h, size, flags)
  PROVE  Map!MapNext
<1> DEFINE u == [live |-> TRUE, count |-> 0, size |-> size, flags |-> flags,
                 root |-> Nowhere(size)]
<1>1. /\ ~table[h].live /\ table' = [table EXCEPT ![h] = u] /\ UNCHANGED <<node, iter>>
      /\ Called("HT_new_ex", <<h, size, flags>>, NULL)
  BY DEF HT_new_ex, Return
<1>2. TableOK(u) /\ Of(u) = {}
  BY EmptyTable
<1> HIDE DEF u
<1>3. iter.table # h
  BY <1>1, StateFacts
<1>4. u # NoTable
  BY <1>2, TableFacts
<1>5. UNCHANGED Walked /\ Maps' = [Maps EXCEPT ![h] = Map!Holds(HeldBy(Of(u), node'))]
  BY <1>1, <1>2, <1>3, <1>4, MapChange
<1>6. UNCHANGED Walked /\ Maps' = [Maps EXCEPT ![h] = Map!Empty]
  BY <1>2, <1>5, HeldNone
<1>7. Map!Fn = "HT_new_ex" /\ Map!Arg(1) = h
  BY <1>1, CallSeen
<1>8. Map!Become(Map!Empty)
  BY <1>6, <1>7, Becomes
<1> QED BY <1>7, <1>8 DEF Map!MapNext

\* A table that goes holds nothing.
LEMMA MapGone ==
  ASSUME HashInv, NEW h \in Tables, HT_delete(h) \/ HT_destroy(h)
  PROVE  Map!MapNext
<1>1. /\ iter.table # h /\ table' = [table EXCEPT ![h] = NoTable] /\ UNCHANGED iter
      /\ UNCHANGED node \/ FreeAll(h)
      /\ Called("HT_delete", <<h>>, NULL) \/ Called("HT_destroy", <<h>>, NULL)
  BY DEF HT_delete, HT_destroy, Return, MayChange
<1>2. \A i \in Tables \ {h} : \A n \in InTable(i) : node'[n] = node[n]
  BY <1>1, FreeAllFacts
<1>3. UNCHANGED Walked /\ Maps' = [Maps EXCEPT ![h] = Map!Absent]
  BY <1>1, <1>2, MapChange
<1>4. Map!Fn \in {"HT_delete", "HT_destroy"} /\ Map!Arg(1) = h
  BY <1>1, CallSeen
<1>5. Map!Become(Map!Absent)
  BY <1>3, <1>4, Becomes
<1> QED BY <1>4, <1>5 DEF Map!MapNext

\* A flushed table is empty.
LEMMA MapFlush ==
  ASSUME HashInv, NEW h \in Tables, HT_flush(h)
  PROVE  Map!MapNext
<1> DEFINE t == table[h]
           u == [t EXCEPT !.count = 0, !.root = Nowhere(t.size)]
<1>1. /\ iter.table # h /\ t.live /\ TableOK(t) /\ iter' = iter /\ InTable(h) = In(t.root)
      /\ Called("HT_flush", <<h>>, NULL)
  BY StateFacts DEF HT_flush, MayChange, Return
<1>2. UNCHANGED Walked /\ Maps' = [Maps EXCEPT ![h] = Map!Empty]
  <2>1. CASE t.count = 0
    <3>1. UNCHANGED <<table, iter, node>>
      BY <1>1, <2>1 DEF HT_flush
    <3>2. InTable(h) = {}
      BY <1>1, <2>1, TableFacts, NodeSets
    <3>3. Maps[h] = Map!Empty
      BY <1>1, <3>2, MapFacts, HeldNone
    <3>4. UNCHANGED Walked /\ UNCHANGED Maps
      BY <3>1, MapSame
    <3>5. Maps = [i \in Tables |-> Maps[i]]
      BY DEF Maps
    <3> DEFINE m == Maps
    <3>6. m = [i \in Tables |-> m[i]] /\ m[h] = Map!Empty
      BY <3>3, <3>5
    <3> HIDE DEF m
    <3>7. m = [m EXCEPT ![h] = Map!Empty]
      BY <3>6
    <3> QED BY <3>4, <3>7 DEF m
  <2>2. CASE t.count # 0
    <3>1. table' = [table EXCEPT ![h] = u] /\ FreeAll(h)
      BY <2>2 DEF HT_flush
    <3>2. u = [live |-> TRUE, count |-> 0, size |-> t.size, flags |-> t.flags,
               root |-> Nowhere(t.size)]
      BY <1>1, Fields
    <3> HIDE DEF u
    <3>3. TableOK(u) /\ Of(u) = {}
      <4>1. t.size \in Sizes /\ t.flags \in Flags
        BY <1>1, TableFacts
      <4> QED BY <3>2, <4>1, EmptyTable
    <3>4. u # NoTable
      BY <3>3, TableFacts
    <3>5. UNCHANGED Walked /\ Maps' = [Maps EXCEPT ![h] = Map!Holds(HeldBy(Of(u), node'))]
      BY <1>1, <3>1, <3>3, <3>4, FreeAllFacts, MapChange
    <3> QED BY <3>3, <3>5, HeldNone
  <2> QED BY <2>1, <2>2
<1>3. Map!Fn = "HT_flush" /\ Map!Arg(1) = h
  BY <1>1, CallSeen
<1>4. Map!Become(Map!Empty)
  BY <1>2, <1>3, Becomes
<1> QED BY <1>3, <1>4 DEF Map!MapNext

\* A table with the nodes it had is the map it was.
LEMMA MapResized ==
  ASSUME HashInv, NEW h \in Tables, table[h].live, iter.table # h, UNCHANGED <<node, iter>>,
         NEW u, SameNodes(u, table[h]), table' = [table EXCEPT ![h] = u]
  PROVE  UNCHANGED Maps /\ UNCHANGED Walked
<1>1. TableOK(u) /\ Of(u) = InTable(h) /\ u # NoTable
  BY StateFacts, OfSame, TableFacts
<1>2. /\ UNCHANGED Walked
      /\ Maps' = [Maps EXCEPT ![h] = Map!Holds(HeldBy(Of(u), node'))]
  BY <1>1, MapChange
<1>3. Maps[h] = Map!Holds(HeldBy(Of(u), node'))
  BY <1>1, MapFacts
<1>4. Maps = [i \in Tables |-> Maps[i]]
  BY DEF Maps
<1>5. ASSUME NEW m, NEW p, m = [i \in Tables |-> m[i]], p = [m EXCEPT ![h] = m[h]]
      PROVE  p = m
  BY <1>5
<1>6. Maps' = [Maps EXCEPT ![h] = Maps[h]]
  BY <1>2, <1>3
<1>7. Maps' = Maps
  BY <1>4, <1>5, <1>6
<1> QED BY <1>2, <1>7

\* Resizing cannot be seen.
LEMMA MapResize ==
  ASSUME HashInv, NEW h \in Tables, NEW size \in Sizes, HT_resize(h, size)
  PROVE  Map!MapNext
<1>1. /\ iter.table # h /\ table[h].live /\ UNCHANGED <<node, iter>>
      /\ Called("HT_resize", <<h, size>>, NULL)
  BY DEF HT_resize, MayChange, Return
<1>2. PICK u : SameNodes(u, table[h]) /\ table' = [table EXCEPT ![h] = u]
  BY ResizeChoice
<1>3. UNCHANGED Maps /\ UNCHANGED Walked
  BY <1>1, <1>2, MapResized
<1>4. Map!Fn = "HT_resize"
  BY <1>1, CallSeen
<1> QED BY <1>3, <1>4 DEF Map!MapNext, Map!Same

\* Neither can nodes that are in no table.
LEMMA MapNodes ==
  ASSUME HashInv, (\E k \in Keys : HN_new(k)) \/ \E n \in Nodes : HN_delete(n)
  PROVE  Map!MapNext
<1>1. UNCHANGED <<table, iter>>
  BY DEF HN_new, HN_delete, Return
<1>2. \A i \in Tables : InTable(i) \subseteq Nodes
  BY StateFacts
<1>3. node \in [Nodes -> NodeType]
  BY DEF HashInv
<1>4. \A i \in Tables : \A m \in InTable(i) : node'[m] = node[m]
  <2>1. CASE \E k \in Keys : HN_new(k)
    <3>1. PICK k \in Keys : HN_new(k)
      BY <2>1
    <3>2. node' = [node EXCEPT ![NewNode(k)] = [live |-> TRUE, pObj |-> NULL]] /\ Free(k) # {}
      BY <3>1 DEF HN_new
    <3>3. NewNode(k) \in Nodes /\ \A i \in Tables : NewNode(k) \notin InTable(i)
      BY <3>2, NewNodeFacts
    <3> QED BY <1>2, <1>3, <3>2, <3>3
  <2>2. CASE \E n \in Nodes : HN_delete(n)
    <3>1. PICK n \in Nodes : HN_delete(n)
      BY <2>2
    <3>2. node' = [node EXCEPT ![n] = Freed] /\ \A i \in Tables : n \notin InTable(i)
      BY <3>1 DEF HN_delete, Loose
    <3> QED BY <1>2, <1>3, <3>2
  <2> QED BY <2>1, <2>2
<1>5. UNCHANGED Maps /\ UNCHANGED Walked
  BY <1>1, <1>4, MapSame
<1>6. Map!Fn \in {"HN_new", "HN_delete"}
  BY CallSeen DEF HN_new, HN_delete, Return
<1> QED BY <1>5, <1>6 DEF Map!MapNext, Map!Same

\* What a store of node n and object o for key k changes in the map of h.
StoreSeen(h, k, n, o) ==
  IF k \in DOMAIN Maps[h].at THEN UNCHANGED Maps /\ Map!Gives(0)
  ELSE /\ Maps' = [Maps EXCEPT ![h] =
                     Map!Holds(WithKey(Maps[h].at, k, [entry |-> n, obj |-> o]))]
       /\ Map!Gives(Cardinality(DOMAIN Maps[h].at) + 1)

\* The first object of a key stays; another key is one more.
LEMMA MapStored ==
  ASSUME HashInv, NEW h \in Tables, iter.table # h, table[h].live,
         NEW t, SameNodes(t, table[h]), NEW n \in Nodes, NEW o \in Objs, NEW fn, NEW args,
         Found(Chain(t, KeyOf[n]), KeyOf[n]) \/ \A i \in Tables : n \notin InTable(i),
         Stored(h, t, n, o, fn, args)
  PROVE  StoreSeen(h, KeyOf[n], n, o) /\ UNCHANGED Walked
<1> DEFINE k == KeyOf[n]
           A == InTable(h)
           at == Maps[h].at
<1>1. TableOK(t) /\ In(t.root) = A /\ t.count = table[h].count
  BY StateFacts DEF SameNodes
<1>2. iter' = iter
  BY DEF Stored, Return
<1>3. node \in [Nodes -> NodeType] /\ k \in Keys
  BY KeyFacts DEF HashInv
<1>4. /\ at = HeldBy(A, node) /\ DOMAIN at = KeysOf(A) /\ Cardinality(DOMAIN at) = table[h].count
  BY MapAt
<1>5. Found(Chain(t, k), k) <=> k \in KeysOf(A)
  <2>1. Found(Chain(t, k), k) <=> \E m \in A : KeyOf[m] = k
    BY <1>1, <1>3, SearchFacts
  <2> HIDE DEF k, A
  <2> QED BY <2>1 DEF KeysOf
<1>6. CASE Found(Chain(t, k), k)
  <2>1. /\ table' = [table EXCEPT ![h] = t] /\ node' = node
        /\ Called(fn, args, 0)
    BY <1>6 DEF Stored, Return
  <2>2. UNCHANGED Maps /\ UNCHANGED Walked
    BY <1>2, <2>1, MapResized
  <2>3. Map!Gives(0)
    BY <2>1, CallSeen
  <2> QED BY <1>4, <1>5, <1>6, <2>2, <2>3 DEF StoreSeen
<1>7. CASE ~Found(Chain(t, k), k)
  <2> DEFINE u == Inserted(t, n)
  <2>1. /\ table' = [table EXCEPT ![h] = u]
        /\ node' = [node EXCEPT ![n] = [live |-> TRUE, pObj |-> o]]
        /\ Called(fn, args, t.count + 1)
    BY <1>7 DEF Stored, Return
  <2>2. \A m \in In(t.root) : KeyOf[m] # k
    BY <1>1, <1>3, <1>7, SearchFacts
  <2>3. TableOK(u) /\ In(u.root) = A \cup {n}
    BY <1>1, <2>2, StoreTable
  <2> HIDE DEF u
  <2>4. u # NoTable /\ Of(u) = A \cup {n}
    BY <2>3, TableFacts DEF Of
  <2>5. n \notin A /\ \A i \in Tables : n \notin InTable(i)
    BY <1>7
  <2>6. \A i \in Tables : InTable(i) \subseteq Nodes
    BY StateFacts
  <2>7. node'[n].pObj = o /\ \A m \in Nodes \ {n} : node'[m] = node[m]
    BY <1>3, <2>1
  <2>8. /\ \A i \in Tables \ {h} : \A m \in InTable(i) : node'[m] = node[m]
        /\ \A m \in A : node'[m] = node[m]
    BY <2>5, <2>6, <2>7
  <2>9. UNCHANGED Walked /\ Maps' = [Maps EXCEPT ![h] = Map!Holds(HeldBy(Of(u), node'))]
    BY <1>2, <2>1, <2>3, <2>4, <2>8, MapChange
  <2>10. Distinct(A \cup {n})
    <3>1. Distinct(A)
      BY TableKeys
    <3> HIDE DEF A
    <3> QED BY <1>1, <2>2, <3>1 DEF Distinct
  <2>11. HeldBy(A \cup {n}, node') = WithKey(HeldBy(A, node), k, [entry |-> n, obj |-> o])
    <3> HIDE DEF A
    <3> QED BY <2>5, <2>7, <2>8, <2>10, HeldMore
  <2>12. Maps' = [Maps EXCEPT ![h] = Map!Holds(WithKey(at, k, [entry |-> n, obj |-> o]))]
    <3> HIDE DEF A, k, at
    <3> QED BY <1>4, <2>4, <2>9, <2>11
  <2>13. Map!Gives(Cardinality(DOMAIN at) + 1)
    BY <1>1, <1>4, <2>1, CallSeen
  <2>14. k \notin DOMAIN at
    BY <1>4, <1>5, <1>7
  <2> QED BY <2>9, <2>12, <2>13, <2>14 DEF StoreSeen
<1> QED BY <1>6, <1>7

\* Two modules mean the same by the number of elements of a set.
LEMMA SameCardinality == \A S : Map!Cardinality(S) = Cardinality(S)
BY DEF Map!Cardinality, Cardinality

\* A store that is seen so is one of the map.
LEMMA Stores ==
  ASSUME NEW h, Map!Arg(1) = h, NEW k, NEW n, NEW o, StoreSeen(h, k, n, o), UNCHANGED Walked,
         NEW e, k \in DOMAIN Maps[h].at \/ e = n
  PROVE  Map!Store(k, e, o)
<1>1. Map!At = Maps[h].at
  BY DEF Map!At, Map!Table
<1>2. CASE k \in DOMAIN Maps[h].at
  BY <1>1, <1>2 DEF Map!Store, StoreSeen, Map!Same
<1>3. CASE k \notin DOMAIN Maps[h].at
  <2> DEFINE f == Maps[h].at
             m == Map!Holds(WithKey(f, k, [entry |-> e, obj |-> o]))
  <2>1. /\ Maps' = [Maps EXCEPT ![h] = m] /\ e = n
        /\ Map!Gives(Cardinality(DOMAIN Maps[h].at) + 1)
    BY <1>3 DEF StoreSeen
  <2>2. Map!Become(m)
    <3> HIDE DEF m
    <3> QED BY <2>1, Becomes
  <2> HIDE DEF f
  <2>3. Map!Gives(Map!Cardinality(DOMAIN f) + 1)
    BY <2>1, SameCardinality DEF f
  <2> QED BY <1>1, <1>3, <2>2, <2>3 DEF Map!Store, WithKey, f
<1> QED BY <1>2, <1>3

\* HT_storenode.
LEMMA MapStorenode ==
  ASSUME HashInv, NEW h \in Tables, NEW n \in Nodes, NEW o \in Objs, HT_storenode(h, n, o)
  PROVE  Map!MapNext
<1>1. /\ iter.table # h /\ table[h].live /\ n \in Loose
      /\ Stored(h, Grown(table[h]), n, o, "HT_storenode", <<h, n, o, KeyOf[n]>>)
  BY DEF HT_storenode, MayChange
<1>2. \A i \in Tables : n \notin InTable(i)
  BY <1>1 DEF Loose
<1>3. SameNodes(Grown(table[h]), table[h])
  BY <1>1, StateFacts, AutoSize
<1>4. StoreSeen(h, KeyOf[n], n, o) /\ UNCHANGED Walked
  BY <1>1, <1>2, <1>3, MapStored
<1>5. \E x : Called("HT_storenode", <<h, n, o, KeyOf[n]>>, x)
  BY <1>1 DEF Stored, Return
<1>6. /\ Map!Fn = "HT_storenode" /\ Map!Arg(1) = h /\ Map!Arg(2) = n /\ Map!Arg(3) = o
      /\ Map!Arg(4) = KeyOf[n]
  BY <1>5, CallSeen
<1>7. Map!Store(Map!Arg(4), Map!Arg(2), Map!Arg(3))
  BY <1>4, <1>6, Stores
<1> QED BY <1>6, <1>7 DEF Map!MapNext

\* HT_store: the entry is the node it allocates.
LEMMA MapStore ==
  ASSUME HashInv, NEW h \in Tables, NEW k \in Keys, NEW o \in Objs, HT_store(h, k, o)
  PROVE  Map!MapNext
<1> DEFINE t == Grown(table[h])
<1>1. PICK n \in Nodes :
        /\ KeyOf[n] = k /\ SameNodes(t, table[h]) /\ iter.table # h /\ table[h].live
        /\ Stored(h, t, n, o, "HT_store", <<h, k, o>>)
        /\ IF Found(Chain(t, k), k) THEN n \in InTable(h)
           ELSE \A i \in Tables : n \notin InTable(i)
  BY StoreChoice
<1>2. \E x : Called("HT_store", <<h, k, o>>, x)
  BY <1>1 DEF Stored, Return
<1> HIDE DEF t
<1>3. StoreSeen(h, k, n, o) /\ UNCHANGED Walked
  BY <1>1, MapStored
<1>4. Map!Fn = "HT_store" /\ Map!Arg(1) = h /\ Map!Arg(2) = k /\ Map!Arg(3) = o
  BY <1>2, CallSeen
<1> DEFINE e == Maps'[h].at[k].entry
<1>5. k \in DOMAIN Maps[h].at \/ e = n
  <2> SUFFICES ASSUME k \notin DOMAIN Maps[h].at PROVE e = n
    OBVIOUS
  <2> DEFINE f == WithKey(Maps[h].at, k, [entry |-> n, obj |-> o])
  <2>1. Maps' = [Maps EXCEPT ![h] = Map!Holds(f)]
    BY <1>3 DEF StoreSeen
  <2>2. f[k] = [entry |-> n, obj |-> o]
    BY DEF WithKey
  <2>3. f[k].entry = n
    BY <2>2
  <2> HIDE DEF f
  <2>4. DOMAIN Maps = Tables
    BY DEF Maps
  <2> DEFINE m == Maps
             p == Maps'
  <2>5. p = [m EXCEPT ![h] = Map!Holds(f)] /\ DOMAIN m = Tables
    BY <2>1, <2>4
  <2> HIDE DEF m, p
  <2>6. p[h] = Map!Holds(f)
    BY <2>5
  <2>7. p[h].at = f
    BY <2>6 DEF Map!Holds
  <2> QED BY <2>3, <2>7 DEF p
<1>6. Map!Store(k, e, o)
  BY <1>3, <1>4, <1>5, Stores
<1>7. Map!Store(Map!Arg(2), Maps'[Map!Table].at[Map!Arg(2)].entry, Map!Arg(3))
  BY <1>4, <1>6 DEF Map!Table
<1> QED BY <1>4, <1>7 DEF Map!MapNext

\* What a fetch takes away, and gives.
LEMMA MapTaken ==
  ASSUME HashInv, NEW h \in Tables, iter.table # h, table[h].live, Map!Arg(1) = h,
         NEW n, n = NULL \/ n \in InTable(h), NEW after, NEW fn, NEW args,
         Taken(h, n, after, fn, args),
         NEW k, IF n = NULL THEN k \notin KeysOf(InTable(h)) ELSE k = KeyOf[n]
  PROVE  Map!Take(k)
<1> DEFINE A == InTable(h)
           at == Maps[h].at
<1>1. /\ at = HeldBy(A, node) /\ DOMAIN at = KeysOf(A)
      /\ \A m \in A : KeyOf[m] \in DOMAIN at /\ at[KeyOf[m]].obj = node[m].pObj
  BY MapAt
<1>2. Map!At = at
  BY DEF Map!At, Map!Table
<1>3. node \in [Nodes -> NodeType] /\ iter' = iter
  BY DEF HashInv, Taken, Return
<1>4. CASE n = NULL
  <2>1. UNCHANGED <<table, node>> /\ Called(fn, args, NULL)
    BY <1>4 DEF Taken, Return
  <2>2. UNCHANGED Maps /\ UNCHANGED Walked
    BY <1>3, <2>1, MapSame
  <2>3. Map!Gives(NULL) /\ k \notin DOMAIN Map!At
    BY <1>1, <1>2, <1>4, <2>1, CallSeen
  <2> QED BY <2>2, <2>3 DEF Map!Take, Map!Same
<1>5. CASE n # NULL
  <2> DEFINE v == Unlinked(table[h], n)
  <2>1. /\ \E t \in Shrunk(v) : table' = [table EXCEPT ![h] = t]
        /\ node' = [node EXCEPT ![n] = after] /\ Called(fn, args, node[n].pObj)
    BY <1>5 DEF Taken, Return
  <2>2. PICK t \in Shrunk(v) : table' = [table EXCEPT ![h] = t]
    BY <2>1
  <2>3. n \in A /\ TableOK(table[h]) /\ A = In(table[h].root) /\ k = KeyOf[n]
    BY <1>5, StateFacts
  <2>4. TableOK(v) /\ In(v.root) = A \ {n}
    BY <2>3, UnlinkTable
  <2> HIDE DEF v
  <2>5. TableOK(t) /\ Of(t) = A \ {n}
    BY <2>2, <2>4, AutoSize, OfSame
  <2>6. t # NoTable
    BY <2>5, TableFacts
  <2>7. \A i \in Tables : InTable(i) \subseteq Nodes
    BY StateFacts
  <2>8. \A m \in Nodes \ {n} : node'[m] = node[m]
    BY <1>3, <2>1, <2>3, <2>7
  <2>9. \A i \in Tables \ {h} : n \notin InTable(i)
    BY <2>3 DEF HashInv
  <2>10. /\ \A i \in Tables \ {h} : \A m \in InTable(i) : node'[m] = node[m]
         /\ \A m \in A \ {n} : node'[m] = node[m]
    BY <2>7, <2>8, <2>9
  <2>11. UNCHANGED Walked /\ Maps' = [Maps EXCEPT ![h] = Map!Holds(HeldBy(Of(t), node'))]
    BY <1>3, <2>2, <2>5, <2>6, <2>10, MapChange
  <2>12. Distinct(A)
    BY TableKeys
  <2>13. HeldBy(A \ {n}, node') = [x \in KeysOf(A) \ {KeyOf[n]} |-> HeldBy(A, node)[x]]
    <3> HIDE DEF A
    <3> QED BY <2>3, <2>10, <2>12, HeldLess
  <2>14. Maps' = [Maps EXCEPT ![h] = Map!Holds([x \in DOMAIN at \ {k} |-> at[x]])]
    <3> HIDE DEF A, at
    <3> QED BY <1>1, <2>3, <2>5, <2>11, <2>13, ZenonT(60)
  <2>15. k \in DOMAIN at /\ Map!Gives(at[k].obj)
    <3>1. KeyOf[n] \in DOMAIN at /\ at[KeyOf[n]].obj = node[n].pObj
      BY <1>1, <2>3
    <3> QED BY <2>1, <2>3, <3>1, CallSeen
  <2>16. Map!Become(Map!Holds([x \in DOMAIN at \ {k} |-> at[x]]))
    BY <2>11, <2>14, Becomes
  <2> HIDE DEF at
  <2> QED BY <1>2, <2>15, <2>16 DEF Map!Take
<1> QED BY <1>4, <1>5

\* A call that takes a node tells its arguments.
LEMMA TakenCall ==
  ASSUME NEW h, NEW n, NEW after, NEW fn, NEW args, Taken(h, n, after, fn, args)
  PROVE  Map!Fn = fn /\ \A i : Map!Arg(i) = args[i]
<1>1. \E x : Called(fn, args, x)
  BY DEF Taken, Return
<1> QED BY <1>1, CallSeen

\* HT_fetchnode and HT_rmnode take the key of their node, if it is there.
LEMMA MapFetchnode ==
  ASSUME HashInv, NEW h \in Tables, NEW n \in Nodes, HT_fetchnode(h, n) \/ HT_rmnode(h, n)
  PROVE  Map!MapNext
<1> DEFINE A == InTable(h)
           at == Maps[h].at
           k == Map!KeyFor(n)
           p == Present(h, n)
<1>1. /\ iter.table # h /\ table[h].live
      /\ \/ Taken(h, p, [live |-> TRUE, pObj |-> NULL], "HT_fetchnode", <<h, n>>)
         \/ Taken(h, p, Freed, "HT_rmnode", <<h, n>>)
  BY DEF HT_fetchnode, HT_rmnode, MayChange
<1>2. Map!Fn \in {"HT_fetchnode", "HT_rmnode"} /\ Map!Arg(1) = h /\ Map!Arg(2) = n
  BY <1>1, TakenCall
<1>3. p = IF n \in A THEN n ELSE NULL
  BY <1>1, PresentFacts
<1>4. /\ DOMAIN at = KeysOf(A)
      /\ \A m \in A : KeyOf[m] \in DOMAIN at /\ at[KeyOf[m]].entry = m
      /\ \A x \in DOMAIN at : \E m \in A : x = KeyOf[m]
  BY <1>1, MapAt
<1>5. k = IF \E x \in DOMAIN at : at[x].entry = n
          THEN CHOOSE x \in DOMAIN at : at[x].entry = n ELSE NULL
  BY <1>2 DEF Map!KeyFor, Map!At, Map!Table
<1>6. NULL \notin KeysOf(A) /\ n # NULL
  BY TableKeys, NodeRecords
<1> HIDE DEF A, at, k, p
<1>7. CASE n \in A
  <2>1. p = n /\ \E x \in DOMAIN at : at[x].entry = n
    BY <1>3, <1>4, <1>7
  <2>2. k \in DOMAIN at /\ at[k].entry = n
    BY <1>5, <2>1
  <2>3. k = KeyOf[n]
    BY <1>4, <2>2
  <2>4. Map!Take(k)
    BY <1>1, <1>2, <1>6, <1>7, <2>1, <2>3, MapTaken DEF A
  <2> QED BY <1>2, <2>4 DEF Map!MapNext, k
<1>8. CASE n \notin A
  <2>1. p = NULL /\ ~\E x \in DOMAIN at : at[x].entry = n
    BY <1>3, <1>4, <1>8
  <2>2. k = NULL
    BY <1>5, <2>1
  <2>3. Map!Take(k)
    BY <1>1, <1>2, <1>6, <2>1, <2>2, MapTaken DEF A
  <2> QED BY <1>2, <2>3 DEF Map!MapNext, k
<1> QED BY <1>7, <1>8

\* A key is looked up.
LEMMA MapLookup ==
  ASSUME HashInv, NEW h \in Tables, table[h].live, NEW k \in Keys, NEW n, n = Lookup(h, k)
  PROVE  /\ n = NULL \/ n \in InTable(h)
         /\ IF n = NULL THEN k \notin KeysOf(InTable(h)) ELSE k = KeyOf[n]
<1>1. NULL \notin Nodes /\ InTable(h) \subseteq Nodes
  BY StateFacts, NodeRecords
<1> DEFINE A == InTable(h)
<1>2. IF \E m \in A : KeyOf[m] = k THEN n \in A /\ KeyOf[n] = k ELSE n = NULL
  BY LookupFacts
<1>3. k \in KeysOf(A) <=> \E m \in A : KeyOf[m] = k
  <2> HIDE DEF A
  <2> QED BY DEF KeysOf
<1> HIDE DEF A
<1> QED BY <1>1, <1>2, <1>3 DEF A

\* HT_fetch takes a key.
LEMMA MapFetch ==
  ASSUME HashInv, NEW h \in Tables, NEW k \in Keys, HT_fetch(h, k)
  PROVE  Map!MapNext
<1> DEFINE n == Lookup(h, k)
<1>1. iter.table # h /\ table[h].live /\ Taken(h, n, Freed, "HT_fetch", <<h, k>>)
  BY DEF HT_fetch, MayChange
<1>2. Map!Fn = "HT_fetch" /\ Map!Arg(1) = h /\ Map!Arg(2) = k
  BY <1>1, TakenCall
<1>3. /\ n = NULL \/ n \in InTable(h)
      /\ IF n = NULL THEN k \notin KeysOf(InTable(h)) ELSE k = KeyOf[n]
  BY <1>1, MapLookup
<1> HIDE DEF n
<1>4. Map!Take(k)
  BY <1>1, <1>2, <1>3, MapTaken
<1> QED BY <1>2, <1>4 DEF Map!MapNext

\* HT_get and HT_exists tell what the map holds.
LEMMA MapLook ==
  ASSUME HashInv, NEW h \in Tables, NEW k \in Keys, HT_get(h, k) \/ HT_exists(h, k)
  PROVE  Map!MapNext
<1> DEFINE n == Lookup(h, k)
           at == Maps[h].at
           got == IF n = NULL THEN NULL ELSE node[n].pObj
<1>1. /\ table[h].live /\ UNCHANGED <<table, node, iter>>
      /\ Called("HT_get", <<h, k>>, got) \/ Called("HT_exists", <<h, k>>, n # NULL)
  BY DEF HT_get, HT_exists, Return
<1>2. /\ n = NULL \/ n \in InTable(h)
      /\ IF n = NULL THEN k \notin KeysOf(InTable(h)) ELSE k = KeyOf[n]
  BY <1>1, MapLookup
<1>3. /\ DOMAIN at = KeysOf(InTable(h))
      /\ \A m \in InTable(h) : KeyOf[m] \in DOMAIN at /\ at[KeyOf[m]].obj = node[m].pObj
  BY <1>1, MapAt
<1>4. UNCHANGED Maps /\ UNCHANGED Walked
  BY <1>1, MapSame
<1>5. Map!Arg(1) = h /\ Map!Arg(2) = k
  BY <1>1, CallSeen
<1>6. Map!At = at
  BY <1>5 DEF Map!At, Map!Table
<1> HIDE DEF n, at
<1>7. (n # NULL) = (k \in DOMAIN at) /\ got = IF k \in DOMAIN at THEN at[k].obj ELSE NULL
  <2>1. CASE n = NULL
    BY <1>2, <1>3, <2>1
  <2>2. CASE n # NULL
    BY <1>2, <1>3, <2>2
  <2> QED BY <2>1, <2>2
<1> HIDE DEF got
<1>8. CASE Called("HT_get", <<h, k>>, got)
  <2>1. Map!Fn = "HT_get" /\ Map!Gives(IF k \in DOMAIN at THEN at[k].obj ELSE NULL)
    BY <1>7, <1>8, CallSeen
  <2> QED BY <1>4, <1>5, <1>6, <2>1 DEF Map!MapNext, Map!Same
<1>9. CASE Called("HT_exists", <<h, k>>, n # NULL)
  <2>1. Map!Fn = "HT_exists" /\ Map!Gives(k \in DOMAIN at)
    BY <1>7, <1>9, CallSeen
  <2> QED BY <1>4, <1>5, <1>6, <2>1 DEF Map!MapNext, Map!Same
<1> QED BY <1>1, <1>8, <1>9

\* A clone has the keys and the objects, in nodes that are in no table.
LEMMA MapClone ==
  ASSUME HashInv, NEW s \in Tables, NEW d \in Tables, HT_clone(s, d)
  PROVE  Map!MapNext
<1> DEFINE A == InTable(s)
           old == Maps[s].at
<1>1. PICK copy, u : Cloned(s, d, copy, u)
  BY CloneFacts
<1> DEFINE B == Of(u)
           new == HeldBy(B, node')
<1>2. /\ table[s].live /\ iter.table # d /\ UNCHANGED iter /\ table' = [table EXCEPT ![d] = u]
      /\ TableOK(u) /\ u # NoTable /\ B = In(u.root)
  BY <1>1, StateFacts, TableFacts DEF Cloned, Of
<1>3. /\ \A n : n \in B <=> \E m \in A : n = copy[m]
      /\ \A m \in A : /\ KeyOf[copy[m]] = KeyOf[m] /\ node'[copy[m]] = node[m]
                      /\ \A i \in Tables : copy[m] \notin InTable(i)
      /\ \A i \in Tables : \A n \in InTable(i) : node'[n] = node[n]
  BY <1>1, <1>2 DEF Cloned
<1>4. UNCHANGED Walked /\ Maps' = [Maps EXCEPT ![d] = Map!Holds(new)]
  <2>1. \A i \in Tables \ {d} : \A n \in InTable(i) : node'[n] = node[n]
    BY <1>3
  <2>2. /\ UNCHANGED Walked
        /\ Maps' = [Maps EXCEPT ![d] = IF u = NoTable THEN Map!Absent
                                       ELSE Map!Holds(HeldBy(Of(u), node'))]
    BY <1>2, <2>1, MapChange
  <2> QED BY <1>2, <2>2
<1>5. /\ DOMAIN old = KeysOf(A) /\ \A k \in DOMAIN old : \E m \in A : k = KeyOf[m]
      /\ \A m \in A : old[KeyOf[m]].obj = node[m].pObj
  BY <1>2, MapAt
<1>6. \A t \in Tables : Maps[t].there =>
        \A x \in DOMAIN Maps[t].at : Maps[t].at[x].entry \in InTable(t)
  <2> SUFFICES ASSUME NEW t \in Tables, Maps[t].there, NEW x \in DOMAIN Maps[t].at
               PROVE  Maps[t].at[x].entry \in InTable(t)
    OBVIOUS
  <2>1. table[t].live
    BY MapFacts DEF Map!Absent
  <2>2. PICK m \in InTable(t) : x = KeyOf[m]
    BY <2>1, MapAt
  <2> QED BY <2>1, <2>2, MapAt
<1>7. Map!Fn = "HT_clone" /\ Map!Arg(1) = s /\ Map!Arg(2) = d
  <2>1. Called("HT_clone", <<s, d>>, NULL)
    BY DEF HT_clone, Return
  <2> QED BY <2>1, CallSeen
<1>8. Distinct(A)
  BY TableKeys
<1> HIDE DEF A, B, old
<1>9. Distinct(B) /\ KeysOf(B) = KeysOf(A)
  <2>1. Distinct(B)
    BY <1>3, <1>8 DEF Distinct
  <2>2. \A k : k \in KeysOf(B) <=> \E n \in B : k = KeyOf[n]
    BY DEF KeysOf
  <2>3. \A k : k \in KeysOf(A) <=> \E n \in A : k = KeyOf[n]
    BY DEF KeysOf
  <2>4. ASSUME NEW k PROVE k \in KeysOf(B) <=> k \in KeysOf(A)
    <3>1. ASSUME k \in KeysOf(B) PROVE k \in KeysOf(A)
      <4>1. PICK n \in B : k = KeyOf[n]
        BY <2>2, <3>1
      <4>2. PICK m \in A : n = copy[m]
        BY <1>3, <4>1
      <4> QED BY <1>3, <2>3, <4>1, <4>2
    <3>2. ASSUME k \in KeysOf(A) PROVE k \in KeysOf(B)
      <4>1. PICK m \in A : k = KeyOf[m]
        BY <2>3, <3>2
      <4> QED BY <1>3, <2>2, <4>1
    <3> QED BY <3>1, <3>2
  <2>5. KeysOf(B) = KeysOf(A)
    BY <2>4
  <2> QED BY <2>1, <2>5
<1>10. /\ DOMAIN new = DOMAIN old
       /\ \A m \in A : new[KeyOf[m]].entry = copy[m] /\ new[KeyOf[m]].obj = node[m].pObj
  <2>1. /\ DOMAIN new = KeysOf(B)
        /\ \A n \in B : new[KeyOf[n]] = [entry |-> n, obj |-> node'[n].pObj]
    BY <1>9, HeldFacts
  <2> HIDE DEF new
  <2>2. ASSUME NEW m \in A PROVE new[KeyOf[m]].entry = copy[m] /\ new[KeyOf[m]].obj = node[m].pObj
    <3>1. copy[m] \in B /\ KeyOf[copy[m]] = KeyOf[m] /\ node'[copy[m]] = node[m]
      BY <1>3
    <3>2. new[KeyOf[m]] = [entry |-> copy[m], obj |-> node[m].pObj]
      BY <2>1, <3>1
    <3> QED BY <3>2
  <2> QED BY <1>5, <1>9, <2>1, <2>2
<1> HIDE DEF new
<1>11. /\ Maps'[d] = Map!Holds(new) /\ \A t \in Tables \ {d} : Maps'[t] = Maps[t]
  <2> DEFINE m == Maps
             p == Maps'
  <2>1. DOMAIN m = Tables
    BY DEF Maps
  <2>2. p = [m EXCEPT ![d] = Map!Holds(new)]
    BY <1>4
  <2> HIDE DEF m, p
  <2>3. p[d] = Map!Holds(new) /\ \A t \in Tables \ {d} : p[t] = m[t]
    BY <2>1, <2>2
  <2> QED BY <2>3 DEF m, p
<1>12. Maps'[d].there /\ Maps'[d].at = new
  BY <1>11 DEF Map!Holds
<1>13. \A k \in DOMAIN old : new[k].obj = old[k].obj
  BY <1>5, <1>10
<1>14. ASSUME NEW k \in DOMAIN old, NEW t \in {x \in Tables : Maps[x].there},
              NEW x \in DOMAIN Maps[t].at
       PROVE  new[k].entry # Maps[t].at[x].entry
  <2>1. PICK m \in A : k = KeyOf[m]
    BY <1>5
  <2>2. new[k].entry = copy[m] /\ copy[m] \notin InTable(t)
    BY <1>3, <1>10, <2>1
  <2> QED BY <1>6, <2>2
<1>15. Map!Copied(s, d)
  BY <1>4, <1>10, <1>11, <1>12, <1>13, <1>14 DEF Map!Copied, old
<1>16. Map!Copied(Map!Table, Map!Arg(2))
  BY <1>7, <1>15 DEF Map!Table
<1> QED BY <1>7, <1>16 DEF Map!MapNext

\* What is left of a chain, and the chains of the buckets to come.
Coming(root, rest, first, last) == Range(rest) \cup UNION {Range(root[b]) : b \in first..last}

\* The nodes behind a place of a chain.
LEMMA RestFacts ==
  ASSUME NEW c \in Seq(Nodes), NEW i \in 1..(Len(c) + 1)
  PROVE  \A n : n \in Range(SubSeq(c, i, Len(c))) <=> \E j \in i..Len(c) : n = c[j]
<1> DEFINE b == SubSeq(c, i, Len(c))
<1>1. Len(c) \in Nat /\ i \in Int /\ Len(c) \in Int /\ \A j \in i..Len(c) : c[j] \in Nodes
  BY LenProperties, ElementOfSeq
<1>2. /\ b \in Seq(Nodes) /\ Len(b) = IF i <= Len(c) THEN Len(c) - i + 1 ELSE 0
      /\ \A j \in 1..(Len(c) - i + 1) : b[j] = c[i + j - 1]
  BY <1>1, SubSeqProperties
<1> HIDE DEF b
<1>3. Len(b) = Len(c) - i + 1
  BY <1>1, <1>2
<1>4. ASSUME NEW n, n \in Range(b) PROVE \E j \in i..Len(c) : n = c[j]
  <2>1. PICK j \in 1..Len(b) : n = b[j]
    BY <1>2, <1>4, RangeFacts
  <2>2. i + j - 1 \in i..Len(c) /\ n = c[i + j - 1]
    BY <1>1, <1>2, <1>3, <2>1
  <2> QED BY <2>2
<1>5. ASSUME NEW j \in i..Len(c) PROVE c[j] \in Range(b)
  <2>1. j - i + 1 \in 1..Len(b) /\ i + (j - i + 1) - 1 = j
    BY <1>1, <1>3
  <2>2. b[j - i + 1] = c[j]
    BY <1>2, <1>3, <2>1
  <2> QED BY <1>2, <2>1, <2>2, RangeFacts
<1> QED BY <1>4, <1>5 DEF b

\* Node i of chain c is the first that is left, and the others are left without it.
FirstOf(root, c, i, first, last) ==
  /\ Coming(root, SubSeq(c, i + 1, Len(c)), first, last) =
       Coming(root, SubSeq(c, i, Len(c)), first, last) \ {c[i]}
  /\ c[i] \in Coming(root, SubSeq(c, i, Len(c)), first, last)

\* The first node that is left of a chain is given: the others are left.
LEMMA OneGiven ==
  ASSUME NEW root, NEW size \in Nat, RootOK(root, size), NEW b \in Places(size),
         NEW c, c = root[b], NEW i \in 1..Len(c), NEW last, last = Buckets(size) - 1
  PROVE  FirstOf(root, c, i, b + 1, last)
<1>1. c \in Seq(Nodes) /\ Sorted(c) /\ ChainOK(c, b, size) /\ Len(c) \in Nat
  BY LenProperties DEF RootOK, ChainOK
<1>2. b \in Nat /\ b <= last /\ last \in Nat
  <2>1. Buckets(size) \in Nat \ {0}
    BY BucketsFacts
  <2>2. b \in 0..last
    BY DEF Places
  <2> QED BY <2>1, <2>2
<1>3. i \in 1..(Len(c) + 1) /\ i + 1 \in 1..(Len(c) + 1) /\ i \in i..Len(c)
  BY <1>1
<1> DEFINE U == UNION {Range(root[x]) : x \in (b + 1)..last}
           R == Range(SubSeq(c, i, Len(c)))
           S == Range(SubSeq(c, i + 1, Len(c)))
<1>4. /\ \A n : n \in R <=> \E j \in i..Len(c) : n = c[j]
      /\ \A n : n \in S <=> \E j \in (i + 1)..Len(c) : n = c[j]
  BY <1>1, <1>3, RestFacts
<1>5. ASSUME NEW j \in (i + 1)..Len(c) PROVE c[j] # c[i]
  <2>1. Precedes(KeyOf[c[i]], KeyOf[c[j]])
    BY <1>1, <1>5 DEF Sorted
  <2>2. KeyOf[c[i]] \in Keys
    BY <1>1, KeyFacts, ElementOfSeq
  <2>3. ~Precedes(KeyOf[c[i]], KeyOf[c[i]])
    BY <2>2, Ordered
  <2> QED BY <2>1, <2>3
<1>6. ASSUME NEW x \in (b + 1)..last PROVE c[i] \notin Range(root[x])
  <2>1. x \in Places(size) /\ x # b
    BY <1>2 DEF Places
  <2>2. ChainOK(root[x], x, size)
    BY <2>1 DEF RootOK
  <2>3. Bucket(KeyOf[c[i]], size) = b
    BY <1>1 DEF ChainOK
  <2> QED BY <2>1, <2>2, <2>3, RangeFacts, SMTT(60) DEF ChainOK
<1>7. c[i] \notin U
  BY <1>6
<1> HIDE DEF U, R, S
<1>8. c[i] \in R
  BY <1>3, <1>4
<1>9. ASSUME NEW n PROVE n \in S <=> n \in R /\ n # c[i]
  <2>1. (i + 1)..Len(c) \subseteq i..Len(c) /\ \A j \in i..Len(c) : j = i \/ j \in (i + 1)..Len(c)
    BY <1>1
  <2> QED BY <1>4, <1>5, <2>1
<1>10. S \cup U = (R \cup U) \ {c[i]} /\ c[i] \in R \cup U
  BY <1>7, <1>8, <1>9
<1> QED BY <1>10 DEF FirstOf, Coming, U, R, S

\* The nodes that an iterator has still to give are of its table.
LEMMA AheadFacts ==
  ASSUME HashInv, iter # NoIter
  PROVE  LET t == table[iter.table]
         IN  /\ Ahead = Coming(t.root, iter.rest, iter.bucket, Buckets(t.size) - 1)
             /\ Ahead \subseteq InTable(iter.table)
<1> DEFINE t == table[iter.table]
           c == t.root[iter.bucket - 1]
           B == Buckets(t.size)
<1>1. PICK i : /\ iter.table \in Tables /\ t.live /\ TableOK(t) /\ c \in Seq(Nodes)
               /\ iter.bucket \in 1..B /\ B \in Nat \ {0}
               /\ iter.remain = B - iter.bucket + 1
               /\ iter.bucket - 1 \in Places(t.size)
               /\ i \in 1..(Len(c) + 1) /\ iter.rest = SubSeq(c, i, Len(c))
  BY WalkFacts
<1>2. iter.bucket + iter.remain - 2 = B - 1
  <2> HIDE DEF B
  <2> QED BY <1>1
<1>3. Ahead = Range(iter.rest) \cup UNION {Range(t.root[b]) : b \in iter.bucket..(B - 1)}
  BY <1>2 DEF Ahead
<1>4. InTable(iter.table) = In(t.root) /\ DOMAIN t.root = Places(t.size)
  BY <1>1, StateFacts, TableFacts DEF RootOK
<1>5. Range(iter.rest) \subseteq In(t.root)
  <2>1. Range(c) \subseteq In(t.root)
    BY <1>1, <1>4 DEF In
  <2>2. ASSUME NEW n \in Range(iter.rest) PROVE n \in Range(c)
    <3> HIDE DEF c
    <3>1. PICK j \in i..Len(c) : n = c[j]
      BY <1>1, RestFacts
    <3>2. j \in 1..Len(c)
      BY <1>1, LenProperties
    <3> QED BY <1>1, <3>1, <3>2, RangeFacts
  <2> QED BY <2>1, <2>2
<1>6. ASSUME NEW b \in iter.bucket..(B - 1) PROVE Range(t.root[b]) \subseteq In(t.root)
  <2>1. b \in Places(t.size)
    <3> HIDE DEF t
    <3> QED BY <1>1 DEF Places
  <2> QED BY <1>4, <2>1 DEF In
<1>7. Ahead \subseteq In(t.root)
  BY <1>3, <1>5, <1>6
<1> QED BY <1>3, <1>4, <1>7 DEF Coming

\* A walk begins with all the keys.
LEMMA MapInitWalk ==
  ASSUME HashInv, NEW h \in Tables, HI_init(h)
  PROVE  Map!MapNext
<1> DEFINE t == table[h]
           B == Buckets(t.size)
<1>1. /\ t.live /\ iter' = [table |-> h, rest |-> t.root[0], bucket |-> 1, remain |-> B]
      /\ UNCHANGED <<table, node>> /\ Called("HI_init", <<h>>, NULL)
  BY DEF HI_init
<1>2. TableOK(t) /\ InTable(h) = In(t.root) /\ h # NULL
  BY <1>1, StateFacts, NodeRecords
<1>3. B \in Nat \ {0} /\ DOMAIN t.root = 0..(B - 1)
  BY <1>2, TableFacts, BucketsFacts DEF RootOK, Places
<1>4. /\ iter'.table = h /\ iter'.rest = t.root[0] /\ iter'.bucket = 1 /\ iter'.remain = B
  <2> HIDE DEF t, B
  <2>1. iter' = [table |-> h, rest |-> t.root[0], bucket |-> 1, remain |-> B]
    BY <1>1 DEF t, B
  <2> QED BY <2>1
<1>5. iter' # NoIter
  BY <1>2, <1>4 DEF NoIter
<1>6. iter'.bucket + iter'.remain - 2 = B - 1
  <2> HIDE DEF B
  <2> QED BY <1>3, <1>4
<1>7. Ahead' = Range(t.root[0]) \cup UNION {Range(t.root[b]) : b \in 1..(B - 1)}
  <2>1. Ahead' = Range(iter'.rest) \cup UNION {Range(table'[iter'.table].root[b]) :
                                                b \in iter'.bucket..(iter'.bucket + iter'.remain - 2)}
    BY <1>5 DEF Ahead
  <2>2. table' = table
    BY <1>1
  <2> QED BY <1>4, <1>6, <2>1, <2>2
<1>8. Ahead' = In(t.root)
  <2> DEFINE root == t.root
  <2> HIDE DEF root, B
  <2>1. 0..(B - 1) = {0} \cup 1..(B - 1)
    BY <1>3
  <2>2. In(root) = Range(root[0]) \cup UNION {Range(root[b]) : b \in 1..(B - 1)}
    BY <1>3, <2>1 DEF In, root
  <2> QED BY <1>7, <2>2 DEF root
<1>9. Walked' = [table |-> h, left |-> KeysOf(InTable(h))]
  <2>1. Walked' = [table |-> iter'.table, left |-> {KeyOf[n] : n \in Ahead'}]
    BY DEF Walked
  <2> QED BY <1>2, <1>4, <1>8, <2>1 DEF KeysOf
<1>10. DOMAIN Maps[h].at = KeysOf(InTable(h))
  BY <1>1, MapAt
<1>11. UNCHANGED Maps
  BY <1>1, MapSame
<1>12. Map!Fn = "HI_init" /\ Map!Arg(1) = h
  BY <1>1, CallSeen
<1> QED BY <1>9, <1>10, <1>11, <1>12 DEF Map!MapNext, Map!Table, Map!At

\* A node that was ahead is given, and is no more: so is its key.
LEMMA KeyGiven ==
  ASSUME HashInv, iter # NoIter, UNCHANGED <<table, node>>, NEW n \in Ahead,
         Ahead' = Ahead \ {n}, iter'.table = iter.table,
         Called("HI_next", << >>, <<KeyOf[n], node[n].pObj>>)
  PROVE  Map!MapNext
<1> DEFINE h == iter.table
           A == Ahead
           k == KeyOf[n]
<1>1. h \in Tables /\ table[h].live
  BY WalkFacts
<1>2. n \in InTable(h) /\ A \subseteq InTable(h) /\ Distinct(InTable(h))
  BY <1>1, AheadFacts, TableKeys
<1>3. Walked = [table |-> h, left |-> KeysOf(A)]
  BY DEF Walked, KeysOf
<1>4. Walked' = [table |-> h, left |-> KeysOf(A \ {n})]
  BY DEF Walked, KeysOf
<1>5. Maps[h].at[k].obj = node[n].pObj
  BY <1>1, <1>2, MapAt
<1>6. UNCHANGED Maps
  BY MapSame
<1>7. Map!Fn = "HI_next" /\ Map!Gives(<<k, node[n].pObj>>)
  BY CallSeen
<1> HIDE DEF A, k, h
<1>8. k \in KeysOf(A) /\ KeysOf(A \ {n}) = KeysOf(A) \ {k}
  <2>1. \A x : x \in KeysOf(A) <=> \E m \in A : x = KeyOf[m]
    BY DEF KeysOf
  <2>2. \A x : x \in KeysOf(A \ {n}) <=> \E m \in A \ {n} : x = KeyOf[m]
    BY DEF KeysOf
  <2>3. \A m \in A : KeyOf[m] = k => m = n
    BY <1>2 DEF Distinct, k
  <2>4. n \in A /\ k = KeyOf[n]
    BY DEF A, k
  <2>5. ASSUME NEW x PROVE x \in KeysOf(A \ {n}) <=> x \in KeysOf(A) /\ x # k
    BY <2>1, <2>2, <2>3, <2>4
  <2> QED BY <2>1, <2>4, <2>5
<1>9. /\ k \in Walked.left /\ Walked.left # {} /\ Walked.table = h
      /\ Walked' = [Walked EXCEPT !.left = @ \ {k}]
  <2> DEFINE w == Walked
             v == Walked'
             K == KeysOf(A)
  <2>1. w = [table |-> h, left |-> K] /\ v = [table |-> h, left |-> K \ {k}] /\ k \in K
    BY <1>3, <1>4, <1>8
  <2> HIDE DEF w, v, K
  <2>2. /\ k \in w.left /\ w.left # {} /\ w.table = h
        /\ v = [w EXCEPT !.left = @ \ {k}]
    <3>1. w.left = K /\ w.table = h
      BY <2>1
    <3>2. ASSUME NEW L PROVE [w EXCEPT !.left = L] = [table |-> h, left |-> L]
      BY <2>1
    <3>3. v = [w EXCEPT !.left = w.left \ {k}]
      <4> DEFINE L == w.left \ {k}
      <4>1. v = [table |-> h, left |-> L]
        BY <2>1, <3>1
      <4> HIDE DEF L
      <4>2. v = [w EXCEPT !.left = L]
        BY <3>2, <4>1
      <4> QED BY <4>2 DEF L
    <3> QED BY <2>1, <3>1, <3>3
  <2> QED BY <2>2 DEF w, v
<1>10. Map!Gives(<<k, Maps[Walked.table].at[k].obj>>)
  BY <1>5, <1>7, <1>9
<1> QED BY <1>6, <1>7, <1>9, <1>10 DEF Map!MapNext

\* A walk gives a key of those that are left, and ends if there is none.
LEMMA MapWalk ==
  ASSUME HashInv, HI_next
  PROVE  Map!MapNext
<1> DEFINE h == iter.table
           t == table[h]
           last == Buckets(t.size) - 1
           c == t.root[iter.bucket - 1]
<1>1. iter # NoIter /\ UNCHANGED <<table, node>>
  BY NextCases
<1>2. PICK i : /\ h \in Tables /\ t.live /\ TableOK(t) /\ c \in Seq(Nodes)
               /\ iter.bucket \in 1..(last + 1) /\ last \in Nat
               /\ iter.remain = last - iter.bucket + 2
               /\ iter.bucket - 1 \in Places(t.size)
               /\ i \in 1..(Len(c) + 1) /\ iter.rest = SubSeq(c, i, Len(c))
  <2>1. PICK i : /\ h \in Tables /\ t.live /\ TableOK(t) /\ c \in Seq(Nodes)
                 /\ iter.bucket \in 1..Buckets(t.size) /\ Buckets(t.size) \in Nat \ {0}
                 /\ iter.remain = Buckets(t.size) - iter.bucket + 1
                 /\ iter.bucket - 1 \in Places(t.size)
                 /\ i \in 1..(Len(c) + 1) /\ iter.rest = SubSeq(c, i, Len(c))
    BY <1>1, WalkFacts
  <2>2. /\ iter.bucket \in 1..(last + 1) /\ last \in Nat
        /\ iter.remain = last - iter.bucket + 2
    <3> DEFINE B == Buckets(t.size)
    <3>1. iter.bucket \in 1..B /\ B \in Nat \ {0} /\ iter.remain = B - iter.bucket + 1 /\ last = B - 1
      BY <2>1
    <3> HIDE DEF B, last
    <3> QED BY <3>1
  <2> QED BY <2>1, <2>2
<1>3. t.size \in Nat /\ RootOK(t.root, t.size) /\ last = Buckets(t.size) - 1
  BY <1>2, TableFacts
<1>4. Ahead = Coming(t.root, iter.rest, iter.bucket, last)
  BY <1>1, AheadFacts
<1>5. ASSUME NEW rest, NEW first \in Nat,
             iter' = [table |-> h, rest |-> rest, bucket |-> first, remain |-> last - first + 2]
      PROVE  iter'.table = h /\ Ahead' = Coming(t.root, rest, first, last)
  <2> HIDE DEF h, last
  <2>1. iter'.table = h /\ iter'.rest = rest /\ iter'.bucket = first /\ iter'.remain = last - first + 2
    BY <1>5
  <2>2. iter' # NoIter /\ iter'.bucket + iter'.remain - 2 = last
    <3>1. h # NULL
      BY <1>2, NodeRecords
    <3> QED BY <1>2, <2>1, <3>1 DEF NoIter
  <2>3. Ahead' = Range(iter'.rest) \cup UNION {Range(table'[iter'.table].root[b]) :
                                                b \in iter'.bucket..(iter'.bucket + iter'.remain - 2)}
    BY <2>2 DEF Ahead
  <2> QED BY <1>1, <2>1, <2>2, <2>3 DEF Coming
<1> HIDE DEF last
<1>6. CASE iter.rest # << >> /\ Goes(iter.rest, iter.bucket, iter.remain)
  <2>1. i \in 1..Len(c) /\ Head(iter.rest) = c[i] /\ Tail(iter.rest) = SubSeq(c, i + 1, Len(c))
    BY <1>2, <1>6, TailFacts
  <2>2. iter' = [table |-> h, rest |-> Tail(iter.rest), bucket |-> iter.bucket,
                 remain |-> last - iter.bucket + 2]
    BY <1>1, <1>2, <1>6, GoesFacts
  <2>3. Called("HI_next", << >>, <<KeyOf[c[i]], node[c[i]].pObj>>)
    BY <1>6, <2>1 DEF Goes, Called
  <2>4. iter.bucket \in Nat /\ (iter.bucket - 1) + 1 = iter.bucket
    BY <1>2
  <2>5. iter'.table = h /\ Ahead' = Coming(t.root, SubSeq(c, i + 1, Len(c)), iter.bucket, last)
    BY <1>5, <2>1, <2>2, <2>4
  <2>6. /\ Coming(t.root, SubSeq(c, i + 1, Len(c)), iter.bucket, last) =
             Coming(t.root, SubSeq(c, i, Len(c)), iter.bucket, last) \ {c[i]}
        /\ c[i] \in Coming(t.root, SubSeq(c, i, Len(c)), iter.bucket, last)
    <3> DEFINE b == iter.bucket - 1
               root == t.root
               size == t.size
    <3>1. b + 1 = iter.bucket /\ b \in Places(size) /\ c = root[b] /\ size \in Nat /\ RootOK(root, size)
          /\ last = Buckets(size) - 1
      BY <1>2, <1>3, <2>4
    <3> HIDE DEF b, root, size, c
    <3>2. FirstOf(root, c, i, b + 1, last)
      BY <2>1, <3>1, OneGiven
    <3> QED BY <3>1, <3>2 DEF root, FirstOf
  <2>7. Ahead' = Ahead \ {c[i]} /\ c[i] \in Ahead
    BY <1>2, <1>4, <2>5, <2>6, ZenonT(60)
  <2> QED BY <1>1, <2>3, <2>5, <2>7, KeyGiven, ZenonT(60)
<1>7. ASSUME iter.rest = << >>, NEW b \in Left(t), \A y \in Left(t) : b <= y,
             Goes(t.root[b], b + 1, iter.remain - (b + 1 - iter.bucket))
      PROVE  Map!MapNext
  <2> DEFINE e == t.root[b]
  <2>1. b \in iter.bucket..(iter.bucket + iter.remain - 2) /\ e # << >>
    BY <1>7 DEF Left
  <2>2. /\ b \in iter.bucket..last /\ b \in Nat /\ b + 1 \in Nat
        /\ iter.remain - (b + 1 - iter.bucket) = last - (b + 1) + 2
    BY <1>2, <2>1, SMTT(60)
  <2>3. b \in Places(t.size)
    BY <1>2, <1>3, <2>2 DEF Places
  <2>4. e \in Seq(Nodes) /\ Len(e) \in Nat /\ SubSeq(e, 1, Len(e)) = e
    BY <1>3, <2>3, SubSeqFull, LenProperties DEF RootOK
  <2>5. 1 \in 1..Len(e) /\ Head(e) = e[1] /\ Tail(e) = SubSeq(e, 1 + 1, Len(e))
    <3> HIDE DEF e
    <3>1. 1 \in 1..(Len(e) + 1)
      BY <2>4
    <3>2. /\ 1 \in 1..Len(e) /\ Head(SubSeq(e, 1, Len(e))) = e[1]
          /\ Tail(SubSeq(e, 1, Len(e))) = SubSeq(e, 1 + 1, Len(e))
      BY <2>1, <2>4, <3>1, TailFacts
    <3> QED BY <2>4, <3>2
  <2>6. iter' = [table |-> h, rest |-> Tail(e), bucket |-> b + 1, remain |-> last - (b + 1) + 2]
    BY <1>1, <1>7, <2>2, GoesFacts
  <2>7. Called("HI_next", << >>, <<KeyOf[e[1]], node[e[1]].pObj>>)
    BY <1>7, <2>5 DEF Goes, Called
  <2>8. iter'.table = h /\ Ahead' = Coming(t.root, Tail(e), b + 1, last)
    BY <1>5, <2>2, <2>6
  <2>9. /\ Coming(t.root, Tail(e), b + 1, last) = Coming(t.root, e, b + 1, last) \ {e[1]}
        /\ e[1] \in Coming(t.root, e, b + 1, last)
    <3> DEFINE root == t.root
               size == t.size
    <3>1. b \in Places(size) /\ e = root[b] /\ size \in Nat /\ RootOK(root, size)
          /\ last = Buckets(size) - 1
      BY <1>3, <2>3
    <3> HIDE DEF root, size, e
    <3>2. FirstOf(root, e, 1, b + 1, last)
      BY <2>5, <3>1, OneGiven
    <3> QED BY <2>4, <2>5, <3>2 DEF root, FirstOf
  <2>10. Ahead = Coming(t.root, e, b + 1, last)
    <3>1. \A x \in iter.bucket..last : x < b => Range(t.root[x]) = {}
      <4> SUFFICES ASSUME NEW x \in iter.bucket..last, x < b PROVE Range(t.root[x]) = {}
        OBVIOUS
      <4>1. x \notin Left(t) /\ x \in iter.bucket..(iter.bucket + iter.remain - 2)
        BY <1>2, <1>7, <2>2, SMTT(60)
      <4>2. t.root[x] = << >>
        BY <4>1 DEF Left
      <4> QED BY <4>2 DEF Range
    <3>2. Range(iter.rest) = {}
      BY <1>7 DEF Range
    <3> DEFINE R(x) == Range(t.root[x])
    <3>3. Ahead = UNION {R(x) : x \in iter.bucket..last}
      BY <1>4, <3>2 DEF Coming
    <3>4. Coming(t.root, e, b + 1, last) = R(b) \cup UNION {R(x) : x \in (b + 1)..last}
      BY DEF Coming
    <3>5. \A x \in iter.bucket..last : x < b => R(x) = {}
      BY <3>1
    <3> HIDE DEF R
    <3>6. /\ (b + 1)..last \subseteq iter.bucket..last
          /\ \A x \in iter.bucket..last : x < b \/ x = b \/ x \in (b + 1)..last
      BY <1>2, <2>2, SMTT(60)
    <3>7. UNION {R(x) : x \in iter.bucket..last} = R(b) \cup UNION {R(x) : x \in (b + 1)..last}
      BY <2>2, <3>5, <3>6
    <3> QED BY <3>3, <3>4, <3>7
  <2>11. Ahead' = Ahead \ {e[1]} /\ e[1] \in Ahead
    BY <2>8, <2>9, <2>10
  <2> QED BY <1>1, <2>7, <2>8, <2>11, KeyGiven
<1>8. CASE /\ iter.rest = << >> /\ Left(t) = {} /\ iter' = NoIter
           /\ call' = [fn |-> "HI_next", args |-> << >>, gives |-> NULL]
  <2>1. \A x \in iter.bucket..last : Range(t.root[x]) = {}
    <3> SUFFICES ASSUME NEW x \in iter.bucket..last PROVE Range(t.root[x]) = {}
      OBVIOUS
    <3>1. x \notin Left(t) /\ x \in iter.bucket..(iter.bucket + iter.remain - 2)
      BY <1>2, <1>8
    <3>2. t.root[x] = << >>
      BY <3>1 DEF Left
    <3> QED BY <3>2 DEF Range
  <2>2. Range(iter.rest) = {}
    BY <1>8 DEF Range
  <2>3. Ahead = {}
    BY <1>4, <2>1, <2>2 DEF Coming
  <2>4. Walked.left = {}
    BY <2>3 DEF Walked
  <2>5. Ahead' = {} /\ iter'.table = NULL
    BY <1>8 DEF Ahead, NoIter
  <2>6. Walked' = Map!NoWalk
    BY <2>5 DEF Walked, Map!NoWalk
  <2>7. Map!Fn = "HI_next" /\ Map!Gives(NULL)
    BY <1>8, CallSeen DEF Called
  <2>8. UNCHANGED Maps
    BY <1>1, MapSame
  <2> QED BY <2>4, <2>6, <2>7, <2>8 DEF Map!MapNext
<1> QED BY <1>6, <1>7, <1>8, NextCases, SMTT(60)

\* There are no tables at first.
LEMMA InitMap == Init => Map!MapInit
<1> SUFFICES ASSUME Init PROVE Map!MapInit
  OBVIOUS
<1>1. \A h \in Tables : Maps[h] = Map!Absent
  BY MapFacts DEF Init, NoTable
<1>2. Maps = [h \in Tables |-> Map!Absent]
  <2>1. Maps = [h \in Tables |-> Maps[h]]
    BY DEF Maps
  <2> QED BY <1>1, <2>1, Zenon
<1>3. Walked = Map!NoWalk
  BY DEF Init, Walked, Ahead, NoIter, Map!NoWalk
<1> QED BY <1>2, <1>3 DEF Map!MapInit

\* Every call is one of the map.
LEMMA NextMap == HashInv /\ [Next]_vars => [Map!MapNext]_Map!mapvars
<1> SUFFICES ASSUME HashInv, Next PROVE Map!MapNext
  <2>1. ASSUME HashInv, UNCHANGED vars PROVE UNCHANGED Map!mapvars
    <3>1. UNCHANGED <<table, node, iter, call>>
      BY <2>1 DEF vars
    <3>2. UNCHANGED Maps /\ UNCHANGED Walked
      BY <2>1, <3>1, MapSame
    <3> QED BY <3>1, <3>2 DEF Map!mapvars
  <2> QED BY <2>1
<1>1. ASSUME NEW h \in Tables, NEW size \in Sizes, NEW flags \in Flags, HT_new_ex(h, size, flags)
      PROVE  Map!MapNext
  BY <1>1, MapNew
<1>2. ASSUME NEW h \in Tables, HT_delete(h) \/ HT_destroy(h) PROVE Map!MapNext
  BY <1>2, MapGone
<1>3. ASSUME NEW h \in Tables, HT_flush(h) PROVE Map!MapNext
  BY <1>3, MapFlush
<1>4. ASSUME NEW h \in Tables, HI_init(h) PROVE Map!MapNext
  BY <1>4, MapInitWalk
<1>5. ASSUME NEW h \in Tables, NEW d \in Tables, HT_clone(h, d) PROVE Map!MapNext
  BY <1>5, MapClone
<1>6. ASSUME NEW h \in Tables, NEW size \in Sizes, HT_resize(h, size) PROVE Map!MapNext
  BY <1>6, MapResize
<1>7. ASSUME NEW h \in Tables, NEW n \in Nodes, HT_fetchnode(h, n) \/ HT_rmnode(h, n)
      PROVE  Map!MapNext
  BY <1>7, MapFetchnode
<1>8. ASSUME NEW h \in Tables, NEW n \in Nodes, NEW o \in Objs, HT_storenode(h, n, o)
      PROVE  Map!MapNext
  BY <1>8, MapStorenode
<1>9. ASSUME NEW h \in Tables, NEW k \in Keys, HT_fetch(h, k) PROVE Map!MapNext
  BY <1>9, MapFetch
<1>10. ASSUME NEW h \in Tables, NEW k \in Keys, HT_get(h, k) \/ HT_exists(h, k) PROVE Map!MapNext
  BY <1>10, MapLook
<1>11. ASSUME NEW h \in Tables, NEW k \in Keys, NEW o \in Objs, HT_store(h, k, o)
       PROVE  Map!MapNext
  BY <1>11, MapStore
<1>12. CASE (\E k \in Keys : HN_new(k)) \/ \E n \in Nodes : HN_delete(n)
  BY <1>12, MapNodes
<1>13. CASE HI_next
  BY <1>13, MapWalk
<1> QED BY <1>1, <1>2, <1>3, <1>4, <1>5, <1>6, <1>7, <1>8, <1>9, <1>10, <1>11, <1>12, <1>13 DEF Next

\* Buckets, chains and their sizes cannot be seen: tables are maps from keys to
\* objects, in which the first object stored for a key is found, and along
\* which a walk meets every key once.
THEOREM TablesAreMaps == Spec => ImplementsMap
BY InitMap, NextMap, HashInvariance, PTL DEF Spec, ImplementsMap, Map!MapSpec

=============================================================================
