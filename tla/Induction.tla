----------------------------- MODULE Induction ------------------------------
(***************************************************************************)
(* Least elements, and what follows by them for selections.  The induction *)
(* theorems of the library take an operator as a parameter; these facts do *)
(* not, and give the same proofs: take a least counterexample and show     *)
(* that there is a smaller one.                                            *)
(***************************************************************************)
EXTENDS Selection, FiniteSetTheorems, NaturalsInduction, SequenceTheorems, TLAPS

Less == {ss \in Nat \X Nat : ss[1] < ss[2]}

LEMMA LessWellFounded == IsWellFoundedOn(Less, Nat)
<1>1. OpToRel(<, Nat) = Less BY DEF OpToRel, Less
<1>2. IsWellFoundedOn(OpToRel(<, Nat), Nat) BY NatLessThanWellFounded
<1> QED BY <1>1, <1>2

\* A nonempty set of naturals has a least element.
LEMMA LeastNat ==
  ASSUME NEW T \in SUBSET Nat, T # {}
  PROVE  \E n \in T : \A m \in T : n <= m
<1>1. PICK x \in T : \A y \in T : ~(<<y, x>> \in Less)
  BY LessWellFounded, WFMin
<1>2. ASSUME NEW y \in T PROVE x <= y
  <2>1. x \in Nat /\ y \in Nat OBVIOUS
  <2>2. <<y, x>> \notin Less BY <1>1
  <2>3. ~(y < x) BY <2>1, <2>2 DEF Less
  <2> QED BY <2>1, <2>3
<1> QED BY <1>2

\* A nonempty set of subsets of a finite set has a minimal member.
LEMMA MinimalSubset ==
  ASSUME NEW S, IsFiniteSet(S), NEW T \in SUBSET SUBSET S, T # {}
  PROVE  \E s \in T : \A t \in T : t \subseteq s => t = s
<1> DEFINE Sizes == {Cardinality(s) : s \in T}
<1>1. ASSUME NEW s \in T PROVE IsFiniteSet(s) /\ Cardinality(s) \in Nat
  BY FS_Subset, FS_CardinalityType
<1>2. Sizes \in SUBSET Nat /\ Sizes # {} BY <1>1
<1>3. PICK n \in Sizes : \A m \in Sizes : n <= m BY <1>2, LeastNat
<1>4. PICK s \in T : n = Cardinality(s) BY <1>3
<1>5. ASSUME NEW t \in T, t \subseteq s PROVE t = s
  <2>1. IsFiniteSet(s) /\ Cardinality(s) \in Nat /\ Cardinality(t) \in Nat BY <1>1
  <2>2. Cardinality(t) <= Cardinality(s) /\ (Cardinality(s) = Cardinality(t) => s = t)
    BY <1>5, <2>1, FS_Subset
  <2>3. Cardinality(s) <= Cardinality(t) BY <1>3, <1>4
  <2> QED BY <2>1, <2>2, <2>3
<1> QED BY <1>5

\* Something in a finite set comes first in a strict order.
LEMMA FirstExists ==
  ASSUME NEW V, IsFiniteSet(V), V # {}, NEW R,
         \A u, v, w \in V : <<u, v>> \in R /\ <<v, w>> \in R => <<u, w>> \in R,
         \A v \in V : <<v, v>> \notin R
  PROVE  \E v \in V : \A u \in V : <<u, v>> \notin R
<1> DEFINE Below(v) == {u \in V : <<u, v>> \in R}
           T == {Below(v) : v \in V}
<1>1. T \in SUBSET SUBSET V /\ T # {}
  <2>1. \A v \in V : Below(v) \in SUBSET V /\ Below(v) \in T OBVIOUS
  <2>2. PICK x \in V : TRUE OBVIOUS
  <2>3. T # {} BY <2>1, <2>2
  <2>4. ASSUME NEW s \in T PROVE s \in SUBSET V
    <3>1. PICK v \in V : s = Below(v) OBVIOUS
    <3> QED BY <3>1
  <2> QED BY <2>3, <2>4
<1>2. PICK s \in T : \A t \in T : t \subseteq s => t = s
  <2> HIDE DEF T
  <2> QED BY <1>1, MinimalSubset
<1>3. PICK v \in V : s = Below(v) BY <1>2
<1>4. ASSUME NEW u \in V, <<u, v>> \in R PROVE FALSE
  <2>1. Below(u) \subseteq Below(v) BY <1>4
  <2>2. Below(u) = Below(v)
    <3>1. Below(u) \in T OBVIOUS
    <3> QED BY ONLY <1>2, <1>3, <2>1, <3>1
  <2>3. u \in Below(v) BY <1>4
  <2> QED BY <2>2, <2>3
<1> QED BY <1>4

\* A nonempty set of naturals with an upper bound has a greatest element.
LEMMA GreatestNat ==
  ASSUME NEW T \in SUBSET Nat, T # {}, NEW b \in Nat, \A m \in T : m <= b
  PROVE  \E n \in T : \A m \in T : m <= n
<1> DEFINE Gaps == {b - m : m \in T}
<1>1. Gaps \in SUBSET Nat /\ Gaps # {}
  <2>1. ASSUME NEW m \in T PROVE b - m \in Nat
    <3>1. m \in Nat /\ m <= b OBVIOUS
    <3> QED BY <3>1
  <2> QED BY <2>1
<1>2. PICK g \in Gaps : \A h \in Gaps : g <= h BY <1>1, LeastNat
<1>3. PICK n \in T : g = b - n BY <1>2
<1>4. ASSUME NEW m \in T PROVE m <= n
  <2>1. b - n <= b - m BY <1>2, <1>3
  <2> QED BY <2>1
<1> QED BY <1>4

\* The least and the greatest of a set of naturals
LEMMA LeastOf ==
  ASSUME NEW T \in SUBSET Nat, T # {}
  PROVE  Min(T) \in T /\ \A m \in T : Min(T) <= m
<1>1. PICK n \in T : \A m \in T : n <= m BY LeastNat
<1> QED BY <1>1 DEF Min

LEMMA GreatestOf ==
  ASSUME NEW T \in SUBSET Nat, T # {}, IsFiniteSet(T)
  PROVE  Max(T) \in T /\ \A m \in T : m <= Max(T)
<1> DEFINE R == {ss \in T \X T : ss[1] > ss[2]}
<1>1. \A u, v, w \in T : <<u, v>> \in R /\ <<v, w>> \in R => <<u, w>> \in R OBVIOUS
<1>2. \A v \in T : <<v, v>> \notin R OBVIOUS
<1>3. PICK n \in T : \A m \in T : <<m, n>> \notin R
  <2> HIDE DEF R
  <2> QED BY <1>1, <1>2, FirstExists
<1>4. \A m \in T : n >= m
  <2>1. ASSUME NEW m \in T PROVE n >= m
    <3>1. ~(m > n) /\ m \in Nat /\ n \in Nat BY <1>3
    <3> QED BY ONLY <3>1
  <2> QED BY <2>1
<1>5. Max(T) \in T /\ \A m \in T : Max(T) >= m BY <1>4 DEF Max
<1>6. ASSUME NEW m \in T PROVE m <= Max(T)
  <2>1. Max(T) \in Nat /\ m \in Nat /\ Max(T) >= m BY <1>5
  <2> QED BY ONLY <2>1
<1> QED BY <1>5, <1>6

\* Induction over an initial segment, for what holds on a set.
LEMMA SegmentInduction ==
  ASSUME NEW n \in Nat, NEW T, 0 \in T, \A k \in 1 .. n : k - 1 \in T => k \in T
  PROVE  0 .. n \subseteq T
<1> SUFFICES ASSUME (0 .. n) \ T # {} PROVE FALSE OBVIOUS
<1>1. PICK k \in (0 .. n) \ T : \A m \in (0 .. n) \ T : k <= m
  <2>1. (0 .. n) \ T \in SUBSET Nat OBVIOUS
  <2> QED BY <2>1, LeastNat
<1>2. k # 0 /\ k \in 1 .. n OBVIOUS
<1>3. k - 1 \in 0 .. n /\ ~(k <= k - 1) BY <1>2
<1>4. k - 1 \in T BY <1>1, <1>3
<1> QED BY <1>1, <1>2, <1>4

\* A function from an initial segment of the naturals to the naturals is
\* bounded.
LEMMA SegmentBounded ==
  ASSUME NEW k \in Nat, NEW f \in [0 .. k - 1 -> Nat]
  PROVE  \E b \in Nat : \A i \in 0 .. k - 1 : f[i] <= b
<1> DEFINE Bounded(n) == \E b \in Nat : \A i \in 0 .. n - 1 : f[i] <= b
           Bad == {n \in 0 .. k : ~Bounded(n)}
<1>1. Bad = {}
  <2> SUFFICES ASSUME Bad # {} PROVE FALSE OBVIOUS
  <2>1. Bad \in SUBSET Nat OBVIOUS
  <2>2. PICK n \in Bad : \A m \in Bad : n <= m BY <2>1, LeastNat
  <2>3. n \in 0 .. k /\ ~Bounded(n) OBVIOUS
  <2>4. n # 0
    <3>1. \A i \in 0 .. 0 - 1 : f[i] <= 0 OBVIOUS
    <3> QED BY <2>3, <3>1
  <2>5. n - 1 \in 0 .. k /\ n - 1 \notin Bad
    <3> HIDE DEF Bad
    <3> QED BY <2>2, <2>3, <2>4
  <2>6. PICK b \in Nat : \A i \in 0 .. (n - 1) - 1 : f[i] <= b BY <2>5
  <2>7. n - 1 \in 0 .. k - 1 BY <2>3, <2>4
  <2> DEFINE top == f[n - 1]
  <2>8. top \in Nat BY <2>7
  <2> DEFINE c == IF top > b THEN top ELSE b
  <2> HIDE DEF top
  <2>9. c \in Nat /\ b <= c /\ top <= c BY <2>8
  <2> HIDE DEF c
  <2>10. ASSUME NEW i \in 0 .. n - 1 PROVE f[i] <= c
    <3>1. CASE i = n - 1 BY <2>9, <3>1 DEF top
    <3>2. CASE i # n - 1
      <4>1. i \in 0 .. (n - 1) - 1 /\ i \in 0 .. k - 1 BY <2>3, <3>2
      <4>2. f[i] <= b /\ f[i] \in Nat BY <2>6, <4>1
      <4> QED BY <2>9, <4>2
    <3> QED BY <3>1, <3>2
  <2> QED BY <2>3, <2>9, <2>10
<1>2. k \in 0 .. k OBVIOUS
<1> QED BY <1>1, <1>2

(***************************************************************************)
(* The elements a sequence keeps: Kept is a fold, and a fold goes through the *)
(* prefixes of the sequence one element at a time.                         *)
(***************************************************************************)
\* The folds over a sequence go through its prefixes one element at a time.
LEMMA MaxOfInterval == ASSUME NEW k \in Nat \ {0} PROVE Max(1 .. k) = k
<1>1. k \in 1 .. k /\ \A j \in 1 .. k : k >= j OBVIOUS
<1>2. ASSUME NEW m \in 1 .. k, \A j \in 1 .. k : m >= j PROVE m = k
  BY <1>1, <1>2
<1> QED BY <1>1, <1>2 DEF Max

\* The lesser and the greater of two numbers
LEMMA LesserOf ==
  ASSUME NEW a \in Int, NEW b \in Int PROVE Min({a, b}) = IF a <= b THEN a ELSE b
<1> DEFINE m == IF a <= b THEN a ELSE b
<1>1. m \in {a, b} /\ \A y \in {a, b} : m <= y OBVIOUS
<1>2. ASSUME NEW x \in {a, b}, \A y \in {a, b} : x <= y PROVE x = m
  <2>1. x <= m /\ m <= x /\ x \in Int /\ m \in Int BY <1>1, <1>2
  <2> QED BY ONLY <2>1
<1> HIDE DEF m
<1>3. Min({a, b}) = m BY <1>1, <1>2 DEF Min
<1> QED BY <1>3 DEF m

LEMMA GreaterOf ==
  ASSUME NEW a \in Int, NEW b \in Int PROVE Max({a, b}) = IF a >= b THEN a ELSE b
<1> DEFINE m == IF a >= b THEN a ELSE b
<1>1. m \in {a, b} /\ \A y \in {a, b} : m >= y OBVIOUS
<1>2. ASSUME NEW x \in {a, b}, \A y \in {a, b} : x >= y PROVE x = m
  <2>1. x <= m /\ m <= x /\ x \in Int /\ m \in Int BY <1>1, <1>2
  <2> QED BY ONLY <2>1
<1> HIDE DEF m
<1>3. Max({a, b}) = m BY <1>1, <1>2 DEF Max
<1> QED BY <1>3 DEF m

LEMMA MaxOfSubset ==
  ASSUME NEW k \in Nat, NEW q \in SUBSET (1 .. k), q # {}
  PROVE  /\ Max(q) \in q
         /\ k \in q => Max(q) = k
<1>1. PICK n \in q : \A m \in q : m <= n
  <2>1. q \in SUBSET Nat /\ \A m \in q : m <= k OBVIOUS
  <2> QED BY <2>1, GreatestNat
<1>2. \A m \in q : n >= m
  <2>1. n \in Nat /\ \A m \in q : m \in Nat OBVIOUS
  <2> QED BY <1>1, <2>1
<1>3. Max(q) \in q /\ \A m \in q : Max(q) >= m
  BY <1>2 DEF Max
<1>4. ASSUME k \in q PROVE Max(q) = k
  <2>1. Max(q) \in 1 .. k BY <1>3
  <2>2. Max(q) >= k BY <1>3, <1>4
  <2> QED BY <2>1, <2>2
<1> QED BY <1>3, <1>4

KeptStep(kept, e, T) == IF e \in T THEN Append(kept, e) ELSE kept

KeptBy(g, s, T, k) ==
  g = [q \in SUBSET (1 .. k) |->
         IF q = {} THEN <<>>
         ELSE KeptStep(g[q \ {Max(q)}], s[Max(q)], T)]

LEMMA KeptByExists ==
  ASSUME NEW s, NEW T, NEW n \in Nat
  PROVE  \E g : KeptBy(g, s, T, n)
<1> DEFINE Bad == {k \in 0 .. n : ~ \E g : KeptBy(g, s, T, k)}
<1>1. Bad = {}
  <2> SUFFICES ASSUME Bad # {} PROVE FALSE OBVIOUS
  <2>1. Bad \in SUBSET Nat OBVIOUS
  <2>2. PICK k \in Bad : \A m \in Bad : k <= m BY <2>1, LeastNat
  <2>3. k \in 0 .. n /\ ~ \E g : KeptBy(g, s, T, k) OBVIOUS
  <2>4. k # 0
    <3> DEFINE g == [q \in SUBSET (1 .. 0) |-> <<>>]
    <3>1. \A q \in SUBSET (1 .. 0) : q = {} OBVIOUS
    <3>2. KeptBy(g, s, T, 0) BY <3>1, Zenon DEF KeptBy
    <3> QED BY <2>3, <3>2
  <2>5. k - 1 \in 0 .. n /\ k - 1 \notin Bad
    <3> HIDE DEF Bad
    <3> QED BY <2>2, <2>3, <2>4
  <2>6. PICK g : KeptBy(g, s, T, k - 1) BY <2>5
  <2> DEFINE h == [q \in SUBSET (1 .. k) |->
                     IF q = {} THEN <<>>
                     ELSE KeptStep(g[q \ {Max(q)}], s[Max(q)], T)]
  <2>7. ASSUME NEW q \in SUBSET (1 .. k - 1) PROVE h[q] = g[q]
    <3>1. q \in SUBSET (1 .. k) BY <2>3, <2>4
    <3> QED BY <2>6, <3>1, Zenon DEF KeptBy
  <2>8. ASSUME NEW q \in SUBSET (1 .. k), q # {} PROVE q \ {Max(q)} \in SUBSET (1 .. k - 1)
    <3> DEFINE m == Max(q)
    <3>1. m \in q /\ (k \in q => m = k) BY <2>3, <2>8, MaxOfSubset
    <3>2. k \in Nat /\ k # 0 BY <2>3, <2>4
    <3> HIDE DEF m
    <3>3. ASSUME NEW i \in q \ {m} PROVE i \in 1 .. k - 1
      <4>1. i \in 1 .. k /\ i # k BY <3>1
      <4> QED BY <3>2, <4>1
    <3> QED BY <3>3 DEF m
  <2>9. KeptBy(h, s, T, k) BY <2>7, <2>8, Zenon DEF KeptBy
  <2> QED BY <2>3, <2>9
<1>2. n \in 0 .. n OBVIOUS
<1> QED BY <1>1, <1>2

\* Kept grows by one element of the sequence at a time.
KeptRun(G, s, T) ==
  /\ G[0] = <<>>
  /\ \A k \in 1 .. Len(s) : G[k] = KeptStep(G[k - 1], s[k], T)
  /\ Kept(s, T) = G[Len(s)]

LEMMA KeptRunExists ==
  ASSUME NEW S, NEW s \in Seq(S), NEW T
  PROVE  \E G : KeptRun(G, s, T)
<1> DEFINE iter == CHOOSE g : KeptBy(g, s, T, Len(s))
           G == [k \in 0 .. Len(s) |-> iter[1 .. k]]
<1>1. Len(s) \in Nat /\ DOMAIN s = 1 .. Len(s) OBVIOUS
<1>2. KeptBy(iter, s, T, Len(s)) BY <1>1, KeptByExists, Zenon
<1>3. Kept(s, T) = iter[1 .. Len(s)]
  BY <1>1, Zenon DEF Kept, FoldLeft, MapThenFoldSet, KeptBy, KeptStep
<1> HIDE DEF iter
<1>4. G[0] = <<>>
  <2>1. 1 .. 0 = {} OBVIOUS
  <2>2. {} \in SUBSET (1 .. Len(s)) OBVIOUS
  <2>3. iter[{}] = <<>> BY <1>2, <2>2, Zenon DEF KeptBy
  <2>4. 0 \in 0 .. Len(s) BY <1>1
  <2> QED BY <2>1, <2>3, <2>4
<1>5. ASSUME NEW k \in 1 .. Len(s) PROVE G[k] = KeptStep(G[k - 1], s[k], T)
  <2>1. 1 .. k \in SUBSET (1 .. Len(s)) /\ 1 .. k # {} BY <1>1
  <2>2. Max(1 .. k) = k BY MaxOfInterval, <1>1
  <2>3. (1 .. k) \ {k} = 1 .. k - 1 BY <1>1
  <2>4. iter[1 .. k] = KeptStep(iter[1 .. k - 1], s[k], T)
    BY <1>2, <2>1, <2>2, <2>3, Zenon DEF KeptBy
  <2>5. k \in 0 .. Len(s) /\ k - 1 \in 0 .. Len(s) BY <1>1
  <2> QED BY <2>4, <2>5
<1>6. Len(s) \in 0 .. Len(s) BY <1>1
<1>7. G[Len(s)] = iter[1 .. Len(s)] BY <1>6
<1> HIDE DEF G
<1> QED BY <1>3, <1>4, <1>5, <1>7, Zenon DEF KeptRun

FirstOnes(s, k) == {s[i] : i \in 1 .. k}

\* What holds of the elements kept of the first k
KeptSoFar(g, s, T, k, S) ==
  /\ g \in Seq(S)
  /\ Range(g) = FirstOnes(s, k) \cap T
  /\ IsFiniteSet(FirstOnes(s, k))
  /\ Len(g) + Cardinality(FirstOnes(s, k) \ T) <= k
  /\ FirstOnes(s, k) \subseteq T => Len(g) = k /\ \A i \in 1 .. k : g[i] = s[i]

LEMMA KeptOneMore ==
  ASSUME NEW S, NEW s \in Seq(S), NEW T, NEW k \in 1 .. Len(s), NEW g,
         KeptSoFar(g, s, T, k - 1, S)
  PROVE  KeptSoFar(KeptStep(g, s[k], T), s, T, k, S)
<1> DEFINE A == FirstOnes(s, k - 1)
           B == FirstOnes(s, k)
           h == KeptStep(g, s[k], T)
<1>1. k \in Nat /\ k - 1 \in Nat /\ s[k] \in S OBVIOUS
<1>2. B = A \cup {s[k]}
  <2>1. 1 .. k = (1 .. k - 1) \cup {k} BY <1>1
  <2> QED BY <2>1 DEF FirstOnes
<1>3. /\ g \in Seq(S) /\ Len(g) \in Nat
      /\ Range(g) = A \cap T /\ IsFiniteSet(A)
      /\ Len(g) + Cardinality(A \ T) <= k - 1
      /\ A \subseteq T => Len(g) = k - 1 /\ \A i \in 1 .. k - 1 : g[i] = s[i]
  BY DEF KeptSoFar
<1> HIDE DEF A, B
<1>4. IsFiniteSet(A \ T) /\ Cardinality(A \ T) \in Nat
  BY <1>3, FS_Subset, FS_CardinalityType
<1>5. IsFiniteSet(B) BY <1>2, <1>3, FS_AddElement
<1>6. CASE s[k] \in T
  <2>1. h = Append(g, s[k]) BY <1>6 DEF KeptStep
  <2>2. h \in Seq(S) /\ Len(h) = Len(g) + 1 /\ \A i \in 1 .. Len(g) : h[i] = g[i]
    BY <2>1, <1>1, <1>3
  <2>3. h[Len(g) + 1] = s[k] BY <2>1, <1>1, <1>3
  <2>4. Range(h) = Range(g) \cup {s[k]}
    <3>1. DOMAIN h = (1 .. Len(g)) \cup {Len(g) + 1} /\ DOMAIN g = 1 .. Len(g)
      <4>1. Len(g) \in Nat /\ Len(h) = Len(g) + 1 BY <2>2, <1>3
      <4>2. 1 .. Len(g) + 1 = (1 .. Len(g)) \cup {Len(g) + 1} BY <4>1
      <4>3. DOMAIN h = 1 .. Len(h) /\ DOMAIN g = 1 .. Len(g) BY <2>2, <1>3
      <4> QED BY <4>1, <4>2, <4>3
    <3> QED BY <2>2, <2>3, <3>1 DEF Range
  <2>5. Range(h) = B \cap T BY <2>4, <1>2, <1>3, <1>6
  <2>6. B \ T = A \ T BY <1>2, <1>6
  <2>7. Len(h) + Cardinality(B \ T) <= k
    <3> DEFINE a == Cardinality(A \ T)
               l == Len(g)
    <3>1. a \in Nat /\ l \in Nat /\ l + a <= k - 1 BY <1>3, <1>4
    <3> HIDE DEF a, l
    <3>2. (l + 1) + a <= k BY <3>1, <1>1
    <3> QED BY <3>2, <2>2, <2>6 DEF a, l
  <2>8. ASSUME B \subseteq T PROVE Len(h) = k /\ \A i \in 1 .. k : h[i] = s[i]
    <3>1. A \subseteq T BY <2>8, <1>2
    <3>2. Len(g) = k - 1 /\ \A i \in 1 .. k - 1 : g[i] = s[i] BY <3>1, <1>3
    <3> QED BY <3>2, <2>2, <2>3, <1>1
  <2> HIDE DEF h
  <2> QED BY <2>2, <2>5, <2>7, <2>8, <1>5 DEF KeptSoFar, B, h
<1>7. CASE s[k] \notin T
  <2>1. h = g BY <1>7 DEF KeptStep
  <2>2. Range(h) = B \cap T BY <2>1, <1>2, <1>3, <1>7
  <2>3. B \ T = (A \ T) \cup {s[k]} BY <1>2, <1>7
  <2>4. Cardinality(B \ T) \in Nat /\ Cardinality(B \ T) <= Cardinality(A \ T) + 1
    <3> DEFINE a == Cardinality(A \ T)
               b == Cardinality((A \ T) \cup {s[k]})
    <3>1. a \in Nat /\ IsFiniteSet(A \ T) BY <1>4
    <3>2. b = IF s[k] \in A \ T THEN a ELSE a + 1 BY <3>1, FS_AddElement
    <3> HIDE DEF a, b
    <3>3. b \in Nat /\ b <= a + 1 BY <3>1, <3>2
    <3> QED BY <3>3, <2>3 DEF a, b
  <2>5. Len(h) + Cardinality(B \ T) <= k
    <3> DEFINE a == Cardinality(A \ T)
               b == Cardinality(B \ T)
               l == Len(g)
    <3>1. a \in Nat /\ b \in Nat /\ l \in Nat /\ b <= a + 1 /\ l + a <= k - 1
      BY <1>3, <1>4, <2>4
    <3> HIDE DEF a, b, l
    <3>2. l + b <= k BY <3>1, <1>1
    <3> QED BY <3>2, <2>1 DEF b, l
  <2>6. ~(B \subseteq T) BY <1>2, <1>7
  <2> HIDE DEF h
  <2> QED BY <2>1, <2>2, <2>5, <2>6, <1>3, <1>5 DEF KeptSoFar, B, h
<1> QED BY <1>6, <1>7

LEMMA KeptPrefixes ==
  ASSUME NEW S, NEW s \in Seq(S), NEW T, NEW G, KeptRun(G, s, T),
         NEW k \in 0 .. Len(s)
  PROVE  KeptSoFar(G[k], s, T, k, S)
<1>1. Len(s) \in Nat OBVIOUS
<1> DEFINE Good == {j \in 0 .. Len(s) : KeptSoFar(G[j], s, T, j, S)}
<1>2. 0 \in Good
  <2>1. G[0] = <<>> BY DEF KeptRun
  <2>2. FirstOnes(s, 0) = {} BY DEF FirstOnes
  <2>3. <<>> \in Seq(S) /\ Len(<<>>) = 0 /\ Range(<<>>) = {} BY DEF Range
  <2>4. Cardinality({}) = 0 /\ IsFiniteSet({}) BY FS_EmptySet
  <2>5. Len(<<>>) + Cardinality({} \ T) <= 0 BY <2>3, <2>4
  <2>6. Range(<<>>) = {} \cap T BY <2>3
  <2>7. Len(<<>>) = 0 /\ \A i \in 1 .. 0 : <<>>[i] = s[i] BY <2>3
  <2>8. 0 \in 0 .. Len(s) BY <1>1
  <2>9. KeptSoFar(<<>>, s, T, 0, S)
    BY <2>2, <2>3, <2>4, <2>5, <2>6, <2>7, Zenon DEF KeptSoFar
  <2> QED BY <2>1, <2>8, <2>9
<1>3. ASSUME NEW j \in 1 .. Len(s), j - 1 \in Good PROVE j \in Good
  <2>1. G[j] = KeptStep(G[j - 1], s[j], T) BY DEF KeptRun
  <2>2. KeptSoFar(G[j], s, T, j, S) BY <1>3, <2>1, KeptOneMore
  <2> QED BY <2>2, <1>1
<1> HIDE DEF Good
<1>4. k \in Good BY <1>1, <1>2, <1>3, SegmentInduction
<1> QED BY <1>4 DEF Good

\* Keeping the elements of T: exactly those remain, the others are left out.
LEMMA KeptFacts ==
  ASSUME NEW S, NEW s \in Seq(S), NEW T
  PROVE  /\ Kept(s, T) \in Seq(S)
         /\ Range(Kept(s, T)) = Range(s) \cap T
         /\ IsFiniteSet(Range(s))
         /\ Len(Kept(s, T)) + Cardinality(Range(s) \ T) <= Len(s)
         /\ Range(s) \subseteq T => Kept(s, T) = s
         /\ Range(s) \cap T = {} => Kept(s, T) = <<>>
<1>1. PICK G : KeptRun(G, s, T) BY KeptRunExists
<1>2. Len(s) \in Nat /\ DOMAIN s = 1 .. Len(s) OBVIOUS
<1>4. KeptSoFar(G[Len(s)], s, T, Len(s), S) BY <1>1, <1>2, KeptPrefixes
<1>5. Kept(s, T) = G[Len(s)] BY <1>1 DEF KeptRun
<1>6. KeptSoFar(Kept(s, T), s, T, Len(s), S) BY <1>4, <1>5
<1>7. FirstOnes(s, Len(s)) = Range(s) BY <1>2 DEF FirstOnes, Range
<1> DEFINE K == Kept(s, T)
<1>8. /\ K \in Seq(S) /\ Range(K) = Range(s) \cap T /\ IsFiniteSet(Range(s))
      /\ Len(K) + Cardinality(Range(s) \ T) <= Len(s)
      /\ Range(s) \subseteq T => Len(K) = Len(s) /\ \A i \in 1 .. Len(s) : K[i] = s[i]
  BY <1>6, <1>7 DEF KeptSoFar
<1> HIDE DEF K
<1>9. Range(s) \subseteq T => K = s
  BY <1>8
<1>10. ASSUME Range(s) \cap T = {} PROVE K = <<>>
  <2>1. Range(K) = {} BY <1>8, <1>10
  <2>2. Len(K) \in Nat /\ DOMAIN K = 1 .. Len(K) BY <1>8
  <2>3. Len(K) = 0
    <3> SUFFICES ASSUME Len(K) # 0 PROVE FALSE OBVIOUS
    <3>1. 1 \in DOMAIN K BY <2>2
    <3> QED BY <2>1, <3>1 DEF Range
  <2> QED BY <1>8, <2>3
<1> QED BY <1>8, <1>9, <1>10 DEF K

\* Keeping from a sequence and its continuation
LEMMA KeptConcat ==
  ASSUME NEW S, NEW s \in Seq(S), NEW t \in Seq(S), NEW T
  PROVE  Kept(s \o t, T) = Kept(s, T) \o Kept(t, T)
<1>1. s \o t \in Seq(S) /\ Len(s \o t) = Len(s) + Len(t)
      /\ Len(s) \in Nat /\ Len(t) \in Nat
  OBVIOUS
<1>2. PICK A : KeptRun(A, s, T) BY KeptRunExists
<1>3. PICK B : KeptRun(B, t, T) BY KeptRunExists
<1>4. PICK G : KeptRun(G, s \o t, T) BY <1>1, KeptRunExists
<1> DEFINE a == A[Len(s)]
           First == {k \in 0 .. Len(s) : G[k] = A[k]}
           Second == {k \in 0 .. Len(t) : G[Len(s) + k] = a \o B[k]}
<1>5. 0 .. Len(s) \subseteq First
  <2>1. 0 \in First BY <1>1, <1>2, <1>4 DEF KeptRun
  <2>2. ASSUME NEW k \in 1 .. Len(s), k - 1 \in First PROVE k \in First
    <3>1. k \in 1 .. Len(s \o t) /\ (s \o t)[k] = s[k] BY <1>1
    <3>2. G[k] = KeptStep(G[k - 1], s[k], T) BY <1>4, <3>1 DEF KeptRun
    <3>3. A[k] = KeptStep(A[k - 1], s[k], T) BY <1>2 DEF KeptRun
    <3> QED BY <2>2, <3>2, <3>3, <1>1
  <2> HIDE DEF First
  <2> QED BY <2>1, <2>2, <1>1, SegmentInduction
<1>6. a \in Seq(S)
  <2>1. Len(s) \in 0 .. Len(s) BY <1>1
  <2>2. KeptSoFar(a, s, T, Len(s), S) BY <1>2, <2>1, KeptPrefixes
  <2> QED BY <2>2 DEF KeptSoFar
<1>7. G[Len(s)] = a
  <2>1. Len(s) \in First BY <1>1, <1>5
  <2> QED BY <2>1
<1> HIDE DEF a, First
<1>8. 0 .. Len(t) \subseteq Second
  <2>1. 0 \in Second
    <3>1. B[0] = <<>> BY <1>3 DEF KeptRun
    <3>2. a \o <<>> = a BY <1>6, ConcatEmptySeq
    <3>3. G[Len(s) + 0] = a \o B[0] BY <1>1, <1>7, <3>1, <3>2
    <3> QED BY <1>1, <3>3
  <2>2. ASSUME NEW k \in 1 .. Len(t), k - 1 \in Second PROVE k \in Second
    <3> DEFINE n == Len(s) + k
               b == B[k - 1]
               e == t[k]
    <3>1. n \in 1 .. Len(s \o t) /\ n - 1 = Len(s) + (k - 1) /\ (s \o t)[n] = t[k]
      BY <1>1
    <3>2. G[n] = KeptStep(G[Len(s) + (k - 1)], e, T) BY <1>4, <3>1 DEF KeptRun
    <3>3. B[k] = KeptStep(b, e, T) BY <1>3 DEF KeptRun
    <3>4. b \in Seq(S)
      <4>1. k - 1 \in 0 .. Len(t) BY <1>1
      <4>2. KeptSoFar(b, t, T, k - 1, S) BY <1>3, <4>1, KeptPrefixes
      <4> QED BY <4>2 DEF KeptSoFar
    <3>5. G[Len(s) + (k - 1)] = a \o b BY <2>2
    <3>6. e \in S OBVIOUS
    <3> HIDE DEF b, e
    <3>7. Append(a \o b, e) = a \o Append(b, e)
      <4> DEFINE l == Append(a \o b, e)
                 r == a \o Append(b, e)
      <4>1. /\ a \o b \in Seq(S) /\ Append(b, e) \in Seq(S)
            /\ Len(a) \in Nat /\ Len(b) \in Nat
            /\ Len(a \o b) = Len(a) + Len(b) /\ Len(Append(b, e)) = Len(b) + 1
        BY <1>6, <3>4, <3>6
      <4>2. /\ l \in Seq(S) /\ r \in Seq(S)
            /\ Len(l) = Len(a) + Len(b) + 1 /\ Len(r) = Len(a) + Len(b) + 1
        BY <1>6, <3>4, <3>6, <4>1
      <4>3. ASSUME NEW i \in 1 .. Len(l) PROVE l[i] = r[i]
        <5>1. CASE i <= Len(a) BY <1>6, <3>4, <3>6, <4>1, <4>2, <5>1
        <5>2. CASE i > Len(a) /\ i <= Len(a) + Len(b)
          BY <1>6, <3>4, <3>6, <4>1, <4>2, <5>2
        <5>3. CASE i = Len(a) + Len(b) + 1 BY <1>6, <3>4, <3>6, <4>1, <4>2, <5>3
        <5> QED BY <4>1, <4>2, <5>1, <5>2, <5>3
      <4> HIDE DEF l, r
      <4>4. l = r BY <4>2, <4>3, SeqEqual
      <4> QED BY <4>4 DEF l, r
    <3>8. G[n] = a \o B[k] BY <3>2, <3>3, <3>5, <3>7 DEF KeptStep
    <3>9. k \in 0 .. Len(t) BY <1>1
    <3> QED BY <3>8, <3>9
  <2> HIDE DEF Second
  <2> QED BY <2>1, <2>2, <1>1, SegmentInduction
<1>9. G[Len(s) + Len(t)] = a \o B[Len(t)]
  <2>1. Len(t) \in Second
    <3> HIDE DEF Second
    <3> QED BY <1>1, <1>8
  <2> QED BY <2>1
<1> QED BY <1>1, <1>2, <1>3, <1>4, <1>9 DEF KeptRun, a

\* Two sequences side by side, f of the one being g of the other at every place
Alike(a, b, f, g) == Len(a) = Len(b) /\ \A j \in 1 .. Len(a) : f[a[j]] = g[b[j]]

\* Of two sequences side by side, T and U keep the same places.
SamePlaces(s, t, T, U, f, g) ==
  /\ Len(s) = Len(t)
  /\ \A i \in 1 .. Len(s) :
       (s[i] \in T <=> t[i] \in U) /\ (s[i] \in T => f[s[i]] = g[t[i]])

LEMMA KeptAlike ==
  ASSUME NEW S, NEW R, NEW s \in Seq(S), NEW t \in Seq(R), NEW T, NEW U,
         NEW f, NEW g, SamePlaces(s, t, T, U, f, g)
  PROVE  Alike(Kept(s, T), Kept(t, U), f, g)
<1>1. Len(s) \in Nat /\ Len(s) = Len(t) BY DEF SamePlaces
<1>2. PICK A : KeptRun(A, s, T) BY KeptRunExists
<1>3. PICK B : KeptRun(B, t, U) BY KeptRunExists
<1> DEFINE Good == {k \in 0 .. Len(s) : Alike(A[k], B[k], f, g)}
<1>4. 0 \in Good
  <2>1. A[0] = <<>> /\ B[0] = <<>> BY <1>2, <1>3 DEF KeptRun
  <2>2. Alike(<<>>, <<>>, f, g) BY DEF Alike
  <2> QED BY <2>1, <2>2, <1>1
<1>5. ASSUME NEW k \in 1 .. Len(s), k - 1 \in Good PROVE k \in Good
  <2> DEFINE a == A[k - 1]
             b == B[k - 1]
  <2>1. a \in Seq(S) /\ b \in Seq(R)
    <3>1. k - 1 \in 0 .. Len(s) /\ k - 1 \in 0 .. Len(t) BY <1>1
    <3> QED BY <1>2, <1>3, <3>1, KeptPrefixes, Zenon DEF KeptSoFar
  <2>2. A[k] = KeptStep(a, s[k], T) /\ B[k] = KeptStep(b, t[k], U)
    BY <1>1, <1>2, <1>3 DEF KeptRun
  <2>3. Alike(a, b, f, g) BY <1>5
  <2> HIDE DEF a, b
  <2>4. CASE s[k] \in T
    <3>1. t[k] \in U /\ f[s[k]] = g[t[k]] BY <2>4 DEF SamePlaces
    <3>2. A[k] = Append(a, s[k]) /\ B[k] = Append(b, t[k]) BY <2>2, <2>4, <3>1 DEF KeptStep
    <3>3. s[k] \in S /\ t[k] \in R BY <1>1
    <3>4. /\ Len(A[k]) = Len(a) + 1 /\ Len(B[k]) = Len(b) + 1 /\ Len(a) \in Nat
          /\ \A j \in 1 .. Len(a) : A[k][j] = a[j] /\ B[k][j] = b[j]
          /\ A[k][Len(a) + 1] = s[k] /\ B[k][Len(b) + 1] = t[k]
      BY <2>1, <2>3, <3>2, <3>3 DEF Alike
    <3>5. ASSUME NEW j \in 1 .. Len(a) + 1 PROVE f[A[k][j]] = g[B[k][j]]
      <4>1. CASE j = Len(a) + 1 BY <3>1, <3>4, <2>3, <4>1 DEF Alike
      <4>2. CASE j # Len(a) + 1
        <5>1. j \in 1 .. Len(a) BY <3>4, <4>2
        <5> QED BY <5>1, <3>4, <2>3 DEF Alike
      <4> QED BY <4>1, <4>2
    <3> QED BY <3>4, <3>5, <2>3, <1>1 DEF Alike
  <2>5. CASE s[k] \notin T
    <3>1. t[k] \notin U BY <2>5 DEF SamePlaces
    <3>2. A[k] = a /\ B[k] = b BY <2>2, <2>5, <3>1 DEF KeptStep
    <3> QED BY <3>2, <2>3, <1>1
  <2> QED BY <2>4, <2>5
<1> HIDE DEF Good
<1>6. Len(s) \in Good
  <2>1. 0 .. Len(s) \subseteq Good BY <1>1, <1>4, <1>5, SegmentInduction
  <2> QED BY <2>1, <1>1
<1>7. Alike(A[Len(s)], B[Len(s)], f, g) BY <1>6 DEF Good
<1> QED BY <1>1, <1>2, <1>3, <1>7 DEF KeptRun

\* Sequences put one after the other
LEMMA FlattenedIn ==
  ASSUME NEW T, NEW ss \in Seq(Seq(T))
  PROVE  FlattenSeq(ss) \in Seq(T)
<1> DEFINE F(g, n) == g = [i \in 1 .. n |-> IF i = 1 THEN ss[i] ELSE g[i - 1] \o ss[i]]
           n == Len(ss)
           iter == CHOOSE g : F(g, n)
           Bad == {k \in 0 .. n : ~\E g : F(g, k)}
<1>1. n \in Nat /\ DOMAIN ss = 1 .. n /\ \A i \in 1 .. n : ss[i] \in Seq(T)
  BY ElementOfSeq
<1>2. CASE n = 0
  <2>1. ss = <<>> BY <1>2
  <2>2. FlattenSeq(ss) = ss BY <1>2, <2>1, Zenon DEF FlattenSeq
  <2>3. <<>> \in Seq(T) OBVIOUS
  <2> QED BY <2>1, <2>2, <2>3
<1>3. CASE n # 0
  <2>1. Bad = {}
    <3> SUFFICES ASSUME Bad # {} PROVE FALSE OBVIOUS
    <3>1. PICK k \in Bad : \A m \in Bad : k <= m
      <4> HIDE DEF F
      <4>1. Bad \in SUBSET Nat BY <1>1
      <4> QED BY <4>1, LeastNat
    <3>2. k \in 0 .. n /\ ~\E g : F(g, k) OBVIOUS
    <3>3. k # 0
      <4> DEFINE g == [i \in 1 .. 0 |-> <<>>]
      <4>1. \A i \in 1 .. 0 : FALSE OBVIOUS
      <4>2. F(g, 0) BY <4>1, Zenon
      <4> QED BY <3>2, <4>2
    <3>4. k - 1 \in 0 .. n /\ k - 1 \notin Bad
      <4> HIDE DEF Bad
      <4> QED BY <1>1, <3>1, <3>2, <3>3
    <3>5. PICK g : F(g, k - 1) BY <3>4
    <3> DEFINE h == [i \in 1 .. k |-> IF i = 1 THEN ss[i] ELSE g[i - 1] \o ss[i]]
    <3>6. ASSUME NEW i \in 1 .. k, i # 1 PROVE h[i - 1] = g[i - 1]
      <4>1. i - 1 \in 1 .. k - 1 /\ i - 1 \in 1 .. k BY <3>2, <3>6
      <4> QED BY <3>5, <4>1
    <3>7. F(h, k) BY <3>6, Zenon
    <3> QED BY <3>2, <3>7
  <2>2. F(iter, n)
    <3>1. n \in 0 .. n BY <1>1
    <3>2. \E g : F(g, n) BY <2>1, <3>1
    <3> QED BY <3>2, Zenon
  <2>3. FlattenSeq(ss) = iter[n] BY <1>3, Zenon DEF FlattenSeq
  <2> HIDE DEF iter
  <2> DEFINE Good == {k \in Nat : k = 0 \/ iter[k] \in Seq(T)}
  <2>4. ASSUME NEW k \in 1 .. n, k - 1 \in Good PROVE k \in Good
    <3>1. iter[k] = IF k = 1 THEN ss[k] ELSE iter[k - 1] \o ss[k] BY <2>2
    <3>2. k # 1 => iter[k - 1] \in Seq(T) BY <2>4
    <3>3. ss[k] \in Seq(T) BY <1>1
    <3>4. iter[k] \in Seq(T)
      <4>1. CASE k = 1 BY <3>1, <3>3, <4>1
      <4>2. CASE k # 1
        <5> DEFINE a == iter[k - 1]
                   b == ss[k]
        <5>1. a \in Seq(T) /\ b \in Seq(T) BY <3>2, <3>3, <4>2
        <5>2. iter[k] = a \o b BY <3>1, <4>2
        <5> HIDE DEF a, b
        <5> QED BY <5>1, <5>2
      <4> QED BY <4>1, <4>2
    <3> QED BY <1>1, <3>4
  <2>5. 0 \in Good OBVIOUS
  <2> HIDE DEF Good
  <2>6. n \in Good
    <3>1. 0 .. n \subseteq Good BY <1>1, <2>4, <2>5, SegmentInduction
    <3> QED BY <1>1, <3>1
  <2> QED BY <1>3, <2>3, <2>6 DEF Good
<1> QED BY <1>2, <1>3

\* A finite set sorted by a strict total order has every element at a place.
LEMMA SortedIs ==
  ASSUME NEW S, IsFiniteSet(S), NEW R,
         \A x \in S : <<x, x>> \notin R,
         \A x, y, z \in S : <<x, y>> \in R /\ <<y, z>> \in R => <<x, z>> \in R,
         \A x, y \in S : x # y => <<x, y>> \in R \/ <<y, x>> \in R
  PROVE  LET s == Sorted(S, R) IN
         /\ s \in Seq(S) /\ DOMAIN s = 1 .. Cardinality(S)
         /\ \A x \in S : \E k \in DOMAIN s : s[k] = x
         /\ \A j, k \in DOMAIN s : j < k => <<s[j], s[k]>> \in R
<1> DEFINE Before(x) == {y \in S : <<y, x>> \in R}
           n == Cardinality(S)
           r == [x \in S |-> Cardinality(Before(x)) + 1]
           s == Sorted(S, R)
<1>1. n \in Nat BY FS_CardinalityType
<1>2. ASSUME NEW x \in S
      PROVE  /\ Cardinality(Before(x)) \in Nat /\ Cardinality(Before(x)) <= n - 1
             /\ IsFiniteSet(Before(x))
  <2>1. Before(x) \subseteq S \ {x} OBVIOUS
  <2>2. IsFiniteSet(S \ {x}) /\ Cardinality(S \ {x}) = n - 1 BY FS_RemoveElement
  <2> HIDE DEF Before
  <2>3. IsFiniteSet(Before(x)) /\ Cardinality(Before(x)) <= Cardinality(S \ {x})
    BY <2>1, <2>2, FS_Subset
  <2>4. Cardinality(Before(x)) \in Nat BY <2>3, FS_CardinalityType
  <2> QED BY <2>2, <2>3, <2>4
<1>3. ASSUME NEW x \in S, NEW y \in S, <<x, y>> \in R
      PROVE  Cardinality(Before(x)) < Cardinality(Before(y))
  <2>1. Before(x) \subseteq Before(y) BY <1>3
  <2>2. x \in Before(y) /\ x \notin Before(x) BY <1>3
  <2> HIDE DEF Before
  <2>3. /\ Cardinality(Before(x)) <= Cardinality(Before(y))
        /\ Cardinality(Before(x)) = Cardinality(Before(y)) => Before(y) = Before(x)
    BY <1>2, <2>1, FS_Subset
  <2> QED BY <1>2, <2>2, <2>3
<1> HIDE DEF n, Before
<1>4. r \in [S -> 1 .. n] BY <1>1, <1>2
<1>5. ASSUME NEW x \in S, NEW y \in S, r[x] = r[y] PROVE x = y
  <2>1. Cardinality(Before(x)) = Cardinality(Before(y)) BY <1>2, <1>5
  <2> SUFFICES ASSUME x # y PROVE FALSE OBVIOUS
  <2>2. <<x, y>> \in R \/ <<y, x>> \in R OBVIOUS
  <2>3. Cardinality(Before(x)) < Cardinality(Before(y))
          \/ Cardinality(Before(y)) < Cardinality(Before(x))
    BY <1>3, <2>2
  <2>4. Cardinality(Before(x)) \in Nat BY <1>2
  <2> QED BY <2>1, <2>3, <2>4
<1>6. r \in Injection(S, 1 .. n) BY <1>4, <1>5 DEF Injection, IsInjective
<1>7. IsFiniteSet(1 .. n) /\ Cardinality(1 .. n) = n
  <2>1. 1 \in Int /\ n \in Int BY <1>1
  <2>2. IsFiniteSet(1 .. n) /\ Cardinality(1 .. n) = IF 1 > n THEN 0 ELSE n - 1 + 1
    BY <2>1, FS_Interval
  <2> QED BY <1>1, <2>2
<1>8. r \in Surjection(S, 1 .. n)
  <2>1. Cardinality(S) = Cardinality(1 .. n) BY <1>7 DEF n
  <2> QED BY <1>6, <1>7, <2>1, FS_Injection
<1>9. ASSUME NEW k \in 1 .. n PROVE \E x \in S : Cardinality(Before(x)) = k - 1
  <2>1. PICK x \in S : r[x] = k BY <1>8 DEF Surjection
  <2> QED BY <1>2, <2>1
<1>10. s \in [1 .. n -> S] /\ \A k \in 1 .. n : s[k] \in S /\ Cardinality(Before(s[k])) = k - 1
  <2>1. s = [k \in 1 .. n |-> CHOOSE x \in S : Cardinality(Before(x)) = k - 1]
    BY DEF Sorted, Before, n
  <2> HIDE DEF s
  <2> QED BY <1>9, <2>1
<1> HIDE DEF s
<1>11. s \in Seq(S) /\ DOMAIN s = 1 .. n
  <2>1. \E m \in Nat : s \in [1 .. m -> S] BY <1>1, <1>10
  <2> QED BY <1>10, <2>1, SeqDef
<1>12. ASSUME NEW x \in S PROVE \E k \in 1 .. n : s[k] = x
  <2>1. r[x] \in 1 .. n /\ r[x] = Cardinality(Before(x)) + 1 BY <1>4
  <2>2. s[r[x]] \in S /\ Cardinality(Before(s[r[x]])) = Cardinality(Before(x))
    BY <1>2, <1>10, <2>1
  <2>3. r[s[r[x]]] = r[x] BY <2>2
  <2>4. s[r[x]] = x BY <1>5, <2>2, <2>3
  <2> QED BY <2>1, <2>4
<1>13. ASSUME NEW j \in 1 .. n, NEW k \in 1 .. n, j < k PROVE <<s[j], s[k]>> \in R
  <2>1. s[j] \in S /\ s[k] \in S /\ Cardinality(Before(s[j])) = j - 1
        /\ Cardinality(Before(s[k])) = k - 1
    BY <1>10
  <2>2. j \in Nat /\ k \in Nat /\ ~(k - 1 < j - 1) /\ j - 1 # k - 1 BY <1>1, <1>13
  <2>3. s[j] # s[k] BY <2>1, <2>2
  <2>4. ~(<<s[k], s[j]>> \in R) BY <1>3, <2>1, <2>2
  <2> QED BY <2>1, <2>3, <2>4
<1> QED BY <1>10, <1>11, <1>12, <1>13 DEF s, n

\* Two parts of a sequence, one after the other
LEMMA PartsJoined ==
  ASSUME NEW T, NEW c \in Seq(T), NEW a \in Nat, NEW b \in Nat, a <= b, b <= Len(c)
  PROVE  /\ SubSeq(c, 1, a) \in Seq(T) /\ Len(SubSeq(c, 1, a)) = a
         /\ SubSeq(c, a + 1, b) \in Seq(T) /\ Len(SubSeq(c, a + 1, b)) = b - a
         /\ SubSeq(c, 1, a) \o SubSeq(c, a + 1, b) = SubSeq(c, 1, b)
         /\ SubSeq(c, 1, Len(c)) = c
<1> DEFINE x == SubSeq(c, 1, a)
           y == SubSeq(c, a + 1, b)
           z == SubSeq(c, 1, b)
<1>1. /\ y \in Seq(T) /\ Len(y) = b - a
      /\ \A k \in 1 .. b - a : y[k] = c[a + k]
  OBVIOUS
<1>2. x \in Seq(T) /\ Len(x) = a /\ \A k \in 1 .. a : x[k] = c[k]
  OBVIOUS
<1>3. z \in Seq(T) /\ Len(z) = b /\ \A k \in 1 .. b : z[k] = c[k]
  OBVIOUS
<1>4. SubSeq(c, 1, Len(c)) = c OBVIOUS
<1> HIDE DEF x, y, z
<1>5. x \o y = z
  <2>1. /\ x \o y \in Seq(T) /\ Len(x \o y) = Len(x) + Len(y)
        /\ \A k \in 1 .. Len(x) + Len(y) :
             (x \o y)[k] = IF k <= Len(x) THEN x[k] ELSE y[k - Len(x)]
    <3>1. x \in Seq(T) /\ y \in Seq(T) BY <1>1, <1>2
    <3> QED BY ONLY <3>1, ConcatProperties
  <2>2. Len(x) = a /\ Len(y) = b - a /\ Len(x) + Len(y) = b BY <1>1, <1>2
  <2>3. ASSUME NEW k \in 1 .. b PROVE (x \o y)[k] = z[k]
    <3>1. CASE k <= a
      <4>1. (x \o y)[k] = x[k] BY <2>1, <2>2, <3>1
      <4>2. k \in 1 .. a BY <3>1
      <4>3. x[k] = c[k] /\ z[k] = c[k] BY <1>2, <1>3, <4>2
      <4> QED BY <4>1, <4>3
    <3>2. CASE ~(k <= a)
      <4>1. k - a \in 1 .. b - a /\ a + (k - a) = k BY <3>2
      <4>2. (x \o y)[k] = y[k - a] BY <2>1, <2>2, <3>2
      <4>3. y[k - a] = c[k] /\ z[k] = c[k] BY <1>1, <1>3, <4>1
      <4> QED BY <4>2, <4>3
    <3> QED BY <3>1, <3>2
  <2>4. Len(x \o y) = b /\ Len(z) = b /\ x \o y \in Seq(T) /\ z \in Seq(T)
    BY <1>3, <2>1, <2>2
  <2> QED BY <2>3, <2>4, SeqEqual
<1> QED BY <1>1, <1>2, <1>4, <1>5 DEF x, y, z

\* A sequence cut in two
LEMMA CutInTwo ==
  ASSUME NEW T, NEW c \in Seq(T), NEW k \in Nat, k <= Len(c)
  PROVE  /\ SubSeq(c, 1, k) \in Seq(T) /\ SubSeq(c, k + 1, Len(c)) \in Seq(T)
         /\ c = SubSeq(c, 1, k) \o SubSeq(c, k + 1, Len(c))
<1>1. Len(c) \in Nat OBVIOUS
<1>2. /\ SubSeq(c, 1, k) \in Seq(T) /\ Len(SubSeq(c, 1, k)) = k
      /\ SubSeq(c, k + 1, Len(c)) \in Seq(T) /\ Len(SubSeq(c, k + 1, Len(c))) = Len(c) - k
      /\ \A i \in 1 .. k : SubSeq(c, 1, k)[i] = c[i]
      /\ \A i \in 1 .. Len(c) - k : SubSeq(c, k + 1, Len(c))[i] = c[k + i]
  BY <1>1
<1>3. PICK x, y : x = SubSeq(c, 1, k) /\ y = SubSeq(c, k + 1, Len(c)) OBVIOUS
<1>4. /\ x \in Seq(T) /\ Len(x) = k /\ y \in Seq(T) /\ Len(y) = Len(c) - k
      /\ \A i \in 1 .. k : x[i] = c[i]
      /\ \A i \in 1 .. Len(c) - k : y[i] = c[k + i]
  BY <1>2, <1>3
<1>5. /\ x \o y \in Seq(T) /\ Len(x \o y) = Len(c)
      /\ \A i \in 1 .. Len(c) : (x \o y)[i] = IF i <= k THEN x[i] ELSE y[i - k]
  BY ONLY <1>1, <1>4, k \in Nat, k <= Len(c), ConcatProperties
<1>6. \A i \in 1 .. Len(c) : (x \o y)[i] = c[i]
  BY ONLY <1>1, <1>4, <1>5, k \in Nat, k <= Len(c)
<1>7. c = x \o y BY <1>1, <1>5, <1>6, SeqEqual
<1> QED BY <1>2, <1>3, <1>7, Zenon

\* Two sequences joined
LEMMA Joined ==
  ASSUME NEW S, NEW a \in Seq(S), NEW b \in Seq(S), NEW c, c = a \o b
  PROVE  /\ c \in Seq(S) /\ Len(c) = Len(a) + Len(b)
         /\ \A i \in 1 .. Len(a) : c[i] = a[i]
         /\ \A i \in 1 .. Len(b) : c[Len(a) + i] = b[i]
<1>1. /\ c \in Seq(S) /\ Len(c) = Len(a) + Len(b)
      /\ \A i \in 1 .. Len(a) + Len(b) : c[i] = IF i <= Len(a) THEN a[i] ELSE b[i - Len(a)]
  BY ConcatProperties
<1>2. Len(a) \in Nat /\ Len(b) \in Nat OBVIOUS
<1>3. PICK m, n : m = Len(a) /\ n = Len(b) OBVIOUS
<1>4. \A i \in 1 .. m : c[i] = a[i] BY <1>1, <1>2, <1>3
<1>5. ASSUME NEW i \in 1 .. n PROVE c[m + i] = b[i]
  <2>1. m + i \in 1 .. Len(a) + Len(b) /\ ~(m + i <= Len(a)) /\ (m + i) - Len(a) = i
    BY <1>2, <1>3
  <2>2. PICK k : k = m + i OBVIOUS
  <2>3. c[k] = b[k - Len(a)] BY <1>1, <2>1, <2>2, Zenon
  <2> QED BY <2>1, <2>2, <2>3, Zenon
<1> QED BY <1>1, <1>3, <1>4, <1>5, Zenon

\* Nothing kept
LEMMA KeptNone ==
  ASSUME NEW S, NEW s \in Seq(S), NEW T, \A i \in 1 .. Len(s) : s[i] \notin T
  PROVE  Kept(s, T) = <<>>
<1>1. Range(s) = {s[i] : i \in 1 .. Len(s)} BY RangeEquality, Zenon
<1>2. Range(s) \cap T = {} BY ONLY <1>1, \A i \in 1 .. Len(s) : s[i] \notin T
<1>3. Range(s) \cap T = {} => Kept(s, T) = <<>> BY KeptFacts, Zenon
<1> QED BY <1>2, <1>3, Zenon

\* Everything kept
LEMMA KeptAll ==
  ASSUME NEW S, NEW s \in Seq(S), NEW T, \A i \in 1 .. Len(s) : s[i] \in T
  PROVE  Kept(s, T) = s
<1>1. Range(s) = {s[i] : i \in 1 .. Len(s)} BY RangeEquality, Zenon
<1>2. Range(s) \subseteq T BY ONLY <1>1, \A i \in 1 .. Len(s) : s[i] \in T
<1>3. Range(s) \subseteq T => Kept(s, T) = s BY KeptFacts, Zenon
<1> QED BY <1>2, <1>3, Zenon

\* A sequence of one element kept or not
LEMMA KeptOne ==
  ASSUME NEW S, NEW e \in S, NEW T
  PROVE  Kept(<<e>>, T) = IF e \in T THEN <<e>> ELSE <<>>
<1>1. PICK s : s = <<e>> OBVIOUS
<1>2. s \in Seq(S) /\ Len(s) = 1 /\ s[1] = e BY <1>1
<1>3. \A i \in 1 .. Len(s) : s[i] = e BY ONLY <1>2
<1>4. CASE e \in T
  <2>1. Kept(s, T) = s BY <1>2, <1>3, <1>4, KeptAll
  <2> QED BY <1>1, <1>4, <2>1, Zenon
<1>5. CASE e \notin T
  <2>1. Kept(s, T) = <<>> BY <1>2, <1>3, <1>5, KeptNone
  <2> QED BY <1>1, <1>5, <2>1, Zenon
<1> QED BY <1>4, <1>5

\* Division by the number of columns
LEMMA Divided ==
  ASSUME NEW w \in Nat \ {0}, NEW n \in Nat, NEW k \in Nat
  PROVE  /\ w * n \in Nat /\ w * (n + 1) = w * n + w
         /\ k < w * n => k \div w \in 0 .. n - 1
         /\ w * n <= k /\ k < w * n + w => k \div w = n /\ k % w = k - w * n
         /\ k % w \in 0 .. w - 1 /\ k \div w \in Nat
<1>1. w * n \in Nat /\ w * (n + 1) = w * n + w OBVIOUS
<1>2. k % w \in 0 .. w - 1 /\ k \div w \in Nat /\ k = w * (k \div w) + (k % w) OBVIOUS
<1>3. PICK q, m : q = k \div w /\ m = k % w OBVIOUS
<1>4. q \in Nat /\ m \in 0 .. w - 1 /\ k = w * q + m BY <1>2, <1>3
<1>5. ASSUME k < w * n PROVE q \in 0 .. n - 1
  <2>1. SUFFICES ASSUME q >= n PROVE FALSE BY <1>4
  <2>2. w * n <= w * q BY ONLY <2>1, <1>4, w \in Nat \ {0}, n \in Nat
  <2> QED BY <1>4, <1>5, <2>2, <1>1
<1>6. ASSUME w * n <= k, k < w * n + w PROVE q = n /\ m = k - w * n
  <2>1. q < n + 1
    <3>1. SUFFICES ASSUME q >= n + 1 PROVE FALSE BY <1>4
    <3>2. w * (n + 1) <= w * q BY ONLY <3>1, <1>4, w \in Nat \ {0}, n \in Nat
    <3> QED BY <1>4, <1>6, <3>2, <1>1
  <2>2. ~(q < n)
    <3>1. SUFFICES ASSUME q + 1 <= n PROVE FALSE BY <1>4
    <3>2. w * (q + 1) <= w * n BY ONLY <3>1, <1>4, w \in Nat \ {0}, n \in Nat
    <3>3. w * (q + 1) = w * q + w BY <1>4
    <3>4. w * q \in Nat BY <1>4
    <3> QED BY <1>4, <1>6, <3>2, <3>3, <3>4, <1>1
  <2>3. q = n BY <2>1, <2>2, <1>4
  <2> QED BY <2>3, <1>4, <1>1
<1> QED BY <1>1, <1>2, <1>3, <1>5, <1>6

\* What a function does over and over again is a sequence.
LEMMA IterationExists ==
  ASSUME NEW S, NEW a \in S, NEW f \in [S -> S]
  PROVE  \E r \in [Nat -> S] : r[0] = a /\ \A n \in Nat \ {0} : r[n] = f[r[n - 1]]
<1> DEFINE Run(g, n) == /\ g \in [0 .. n -> S] /\ g[0] = a
                        /\ \A k \in 1 .. n : g[k] = f[g[k - 1]]
           Bad == {n \in Nat : ~\E g : Run(g, n)}
<1>1. Bad = {}
  <2> SUFFICES ASSUME Bad # {} PROVE FALSE OBVIOUS
  <2>1. PICK k \in Bad : \A m \in Bad : k <= m BY LeastNat
  <2>2. k # 0
    <3>1. Run([i \in 0 .. 0 |-> a], 0) OBVIOUS
    <3> QED BY <3>1
  <2>3. k \in Nat /\ k - 1 \in Nat /\ ~(k <= k - 1) BY <2>2
  <2>4. PICK g : Run(g, k - 1) BY <2>1, <2>3
  <2> DEFINE h == [i \in 0 .. k |-> IF i = k THEN f[g[k - 1]] ELSE g[i]]
  <2>5. g[k - 1] \in S /\ f[g[k - 1]] \in S BY <2>3, <2>4
  <2>6. h \in [0 .. k -> S] BY <2>3, <2>4, <2>5
  <2>7. h[0] = a BY <2>2, <2>3, <2>4
  <2>8. ASSUME NEW i \in 1 .. k PROVE h[i] = f[h[i - 1]]
    <3>1. i - 1 \in 0 .. k - 1 /\ i - 1 # k /\ i \in 0 .. k /\ i - 1 \in 0 .. k BY <2>3
    <3>2. CASE i = k BY <2>3, <3>1, <3>2
    <3>3. CASE i # k
      <4>1. i \in 1 .. k - 1 BY <2>3, <3>3
      <4> QED BY <2>4, <3>1, <3>3, <4>1
    <3> QED BY <3>2, <3>3
  <2>9. Run(h, k) BY <2>6, <2>7, <2>8
  <2> QED BY <2>1, <2>9
<1>2. ASSUME NEW n \in Nat, NEW m \in 0 .. n, NEW g, Run(g, n), NEW h, Run(h, m)
      PROVE  g[m] = h[m]
  <2> DEFINE T == {k \in 0 .. m : g[k] = h[k]}
  <2>1. 0 \in T BY <1>2
  <2>2. ASSUME NEW k \in 1 .. m, k - 1 \in T PROVE k \in T
    <3>1. k \in 1 .. n /\ k \in 0 .. m /\ g[k - 1] = h[k - 1] BY <2>2
    <3> QED BY <1>2, <3>1
  <2> HIDE DEF T
  <2>3. 0 .. m \subseteq T BY <2>1, <2>2, SegmentInduction
  <2>4. m \in T BY <2>3
  <2> QED BY <2>4 DEF T
<1> DEFINE R(n) == CHOOSE g : Run(g, n)
           r == [n \in Nat |-> R(n)[n]]
<1>3. ASSUME NEW n \in Nat PROVE Run(R(n), n)
  <2>1. \E g : Run(g, n) BY <1>1
  <2> HIDE DEF Run
  <2> QED BY <2>1
<1> HIDE DEF R
<1>4. r \in [Nat -> S]
  <2>1. ASSUME NEW n \in Nat PROVE R(n)[n] \in S
    <3>1. R(n) \in [0 .. n -> S] /\ n \in 0 .. n BY <1>3
    <3> QED BY <3>1
  <2> QED BY <2>1
<1>5. r[0] = a BY <1>3
<1>6. ASSUME NEW n \in Nat \ {0} PROVE r[n] = f[r[n - 1]]
  <2>1. n - 1 \in Nat /\ n - 1 \in 0 .. n /\ n \in 1 .. n BY <1>6
  <2>2. Run(R(n), n) /\ Run(R(n - 1), n - 1) BY <1>3, <2>1
  <2>3. R(n)[n - 1] = R(n - 1)[n - 1]
    <3>1. PICK g, h : g = R(n) /\ h = R(n - 1) OBVIOUS
    <3>2. Run(g, n) /\ Run(h, n - 1) BY <2>2, <3>1
    <3> HIDE DEF Run
    <3>3. g[n - 1] = h[n - 1] BY <1>2, <2>1, <3>2
    <3> QED BY <3>1, <3>3
  <2>4. R(n)[n] = f[R(n)[n - 1]] BY <2>1, <2>2
  <2> QED BY <2>1, <2>3, <2>4
<1> QED BY <1>4, <1>5, <1>6

\* Two names of the elements of a sequence
LEMMA ToSetIsRange == ASSUME NEW s PROVE ToSet(s) = Range(s)
BY DEF ToSet, Range
=============================================================================
